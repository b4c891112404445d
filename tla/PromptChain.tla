----------------------------- MODULE PromptChain -----------------------------
(***************************************************************************)
(* A prompt chain, and the tools its sessions may call. Each has a         *)
(* specification of its own.                                               *)
(***************************************************************************)
EXTENDS Naturals, Sequences, FiniteSets, SequencesExt

(***************************************************************************)
(* The prompt chain of one session: ChainRunner's loop of LLM calls and    *)
(* tool executions (ChainRunner.cpp, ToolExecutionService.cpp), the prompt *)
(* each call is sent (PromptAssembler.cpp), the compaction of old turns    *)
(* (CompactionService.cpp) after a chain or from within one by the         *)
(* sessions tool, and a crash at any point.                                *)
(*                                                                         *)
(* A turn is its role, the tools it calls, the turn it answers and whether *)
(* it is compacted; what it says is left out.  A summary is the set of     *)
(* turns it was written from.                                              *)
(***************************************************************************)

CONSTANTS
    Tools,          \* names the model may call; "compact" is the sessions tool's compact
    Route,          \* handler->GetResultMode() by tool: "model", "user", "both"
    Allowed,        \* tools the session's type allows
    DefaultCalls,   \* m_maxToolCallsPerChain
    AgentCalls,     \* agent->budget.maxToolCallsPerChain, 0: not set
    Consolidation,  \* the session is a consolidation session
    ConsolidationCalls,\* agent->budget.consolidationToolBudget
    MaxSteps,       \* req.maxChainSteps
    KeepRecent,     \* turns DoCompact keeps (10)
    MinMessages,    \* m_config.min_messages_before_compact (6)
    MaxTurns,       \* bound: turns of the session
    MaxFaults       \* bound: crashes and exceptions

VARIABLES
    phase,          \* "idle", "step", "call", "tools", "after", "compact"
    turns,          \* Session::m_turns
    summary,        \* Session::m_compactionSummary: the turns it was written from
    durable,        \* session_turns and session_compaction_summaries after the last flush
    todo,           \* tool calls of the response still to be executed
    step, used,     \* chain_steps, totalToolCalls
    goOn,           \* shouldContinueLoop
    overrun,        \* result.triggered_compaction
    stop,           \* *req.stopSignal
    waiting,        \* messages in the channel's queue
    result,         \* the last ChainResult: its error and success
    faults,
    cut             \* history: an exchange was cut short by a crash or an exception

chainVars == <<phase, turns, summary, durable, todo, step, used, goOn, overrun, stop, waiting,
               result, faults, cut>>

Turn(role, calls, answers) ==
    [role |-> role, calls |-> calls, answers |-> answers, compacted |-> FALSE]

ChainInit ==
    /\ phase = "idle" /\ turns = <<>> /\ summary = {} /\ durable = [turns |-> <<>>, summary |-> {}]
    /\ todo = <<>> /\ step = 0 /\ used = 0 /\ goOn = FALSE /\ overrun = FALSE /\ stop = FALSE
    /\ waiting = 0 /\ result = [error |-> "", success |-> TRUE] /\ faults = 0 /\ cut = FALSE

Flushed(ts, sm) == [turns |-> ts, summary |-> sm]

(* AddTurn and FlushSession, the pair every turn of the chain goes through. *)
Store(turn) ==
    /\ turns' = Append(turns, turn)
    /\ durable' = Flushed(turns', summary)
    /\ UNCHANGED summary

(* ResolveAgentOverrides: the agent's budget over the default, raised for  *)
(* a consolidation session.                                                *)
ResolveAgentOverrides ==
    LET own == IF AgentCalls > 0 THEN AgentCalls ELSE DefaultCalls
    IN  IF Consolidation /\ own < ConsolidationCalls THEN ConsolidationCalls ELSE own

(* What PromptAssembler::Build puts in a request.                          *)
Build == {i \in DOMAIN turns : ~turns[i].compacted}

ChainEnds(error, success) ==
    /\ result' = [error |-> error, success |-> success]
    /\ phase' = IF overrun THEN "compact" ELSE "idle"

(* The user's message is stored before anything can fail; a provider that  *)
(* cannot be created ends the chain.                                       *)
ExecuteOnSession ==
    /\ phase = "idle" /\ Len(turns) < MaxTurns
    /\ Store(Turn("user", {}, 0))
    /\ step' = 0 /\ used' = 0 /\ overrun' = FALSE /\ stop' = FALSE /\ todo' = <<>> /\ goOn' = FALSE
    /\ \/ phase' = "step" /\ UNCHANGED result
       \/ phase' = "idle" /\ result' = [error |-> "provider", success |-> FALSE]
    /\ UNCHANGED <<waiting, faults, cut>>

(* The top of the loop: the step limit, then the stop signal.  Both ends   *)
(* leave the loop and reach `result.success = true`.                       *)
NextStep ==
    /\ phase = "step"
    /\ \/ step >= MaxSteps /\ ChainEnds("", TRUE) /\ UNCHANGED step
       \/ step < MaxSteps /\ stop /\ step' = step + 1 /\ ChainEnds("stopped", TRUE)
       \/ step < MaxSteps /\ ~stop /\ step' = step + 1 /\ phase' = "call" /\ UNCHANGED result
    /\ UNCHANGED <<turns, summary, durable, todo, used, goOn, overrun, stop, waiting, faults, cut>>

(* The pre-flight check, or an error of the provider.                      *)
CallFails ==
    /\ phase = "call"
    /\ \/ result' = [error |-> "window", success |-> FALSE] /\ phase' = "compact" /\ overrun' = TRUE
       \/ ChainEnds("llm", FALSE) /\ UNCHANGED overrun
    /\ UNCHANGED <<turns, summary, durable, todo, step, used, goOn, stop, waiting, faults, cut>>

(* The streaming call is broken off by the stop signal: what was streamed  *)
(* is not stored.                                                          *)
CallStopped ==
    /\ phase = "call" /\ stop
    /\ ChainEnds("stopped", TRUE)
    /\ UNCHANGED <<turns, summary, durable, todo, step, used, goOn, overrun, stop, waiting,
                   faults, cut>>

(* The response: text, which ends the loop, or tool calls (a call's tool   *)
(* stands for its id); needs_compaction is the assembler's estimate of the *)
(* request that was sent.                                                  *)
CallLLM ==
    /\ phase = "call" /\ Len(turns) < MaxTurns
    /\ overrun' \in BOOLEAN
    /\ \E calls \in {<<>>} \cup {<<a>> : a \in Tools}
                       \cup {<<a, b>> : a \in Tools, b \in Tools} :
         /\ IsInjective(calls)
         /\ Store(Turn("assistant", {calls[k] : k \in DOMAIN calls}, 0))
         /\ todo' = [k \in DOMAIN calls |-> [tool |-> calls[k], owner |-> Len(turns')]]
    /\ goOn' = FALSE
    /\ phase' = "tools"
    /\ UNCHANGED <<step, used, stop, waiting, result, faults, cut>>

(* DoCompact: everything but the recent turns is marked and the summary    *)
(* replaced by one written from the turns marked now.                      *)
CompactEnd == IF Len(turns) > KeepRecent THEN Len(turns) - KeepRecent ELSE Len(turns)

Fold == {i \in 1..CompactEnd : ~turns[i].compacted}

Compacted == [i \in DOMAIN turns |-> [turns[i] EXCEPT !.compacted = @ \/ i \in Fold]]

(* ToolExecutionService::Execute: where the result goes.  The session-type *)
(* gate and an unknown tool answer the model, a handler by its mode.       *)
Execute(tool) == IF tool \in Allowed THEN Route[tool] ELSE "model"

ExecuteTool_GateUnanswered ==
    /\ phase = "tools" /\ todo # <<>> /\ Len(turns) < MaxTurns
    /\ LET call == Head(todo)
           compacts == call.tool = "compact" /\ call.tool \in Allowed /\ Fold # {}
           old == IF compacts THEN Compacted ELSE turns
       IN  /\ turns' = IF call.tool \in Allowed
                         THEN Append(old, Turn("tool", {call.tool}, call.owner)) ELSE turns
           /\ summary' = IF compacts THEN Fold ELSE summary
           /\ durable' = Flushed(turns', summary')
           /\ goOn' = (goOn \/ Execute(call.tool) # "user")
    /\ todo' = Tail(todo) /\ used' = used + 1
    /\ UNCHANGED <<phase, step, overrun, stop, waiting, result, faults, cut>>

(* One call: refused by the session-type gate, unknown, failed or done, it *)
(* is answered by a turn either way.  Refusals go back to the model; the   *)
(* rest by the handler's mode.  The sessions tool compacts in between.     *)
ExecuteTool ==
    /\ phase = "tools" /\ todo # <<>> /\ Len(turns) < MaxTurns
    /\ LET call == Head(todo)
           compacts == call.tool = "compact" /\ call.tool \in Allowed /\ Fold # {}
           old == IF compacts THEN Compacted ELSE turns
       IN  /\ turns' = Append(old, Turn("tool", {call.tool}, call.owner))
           /\ summary' = IF compacts THEN Fold ELSE summary
           /\ durable' = Flushed(turns', summary')
           /\ goOn' = (goOn \/ Execute(call.tool) # "user")
    /\ todo' = Tail(todo) /\ used' = used + 1
    /\ UNCHANGED <<phase, step, overrun, stop, waiting, result, faults, cut>>

StepEnds_InterjectionUnflushed ==
    /\ phase = "tools" /\ todo = <<>>
    /\ LET continues == goOn /\ used < ResolveAgentOverrides
       IN  IF continues
             THEN /\ phase' = "step" /\ UNCHANGED <<result, summary, durable>>
                  /\ IF waiting > 0 /\ Len(turns) < MaxTurns
                       THEN turns' = Append(turns, Turn("user", {}, 0)) /\ waiting' = 0
                       ELSE UNCHANGED <<turns, waiting>>
             ELSE ChainEnds("", TRUE) /\ UNCHANGED <<turns, summary, durable, waiting>>
    /\ UNCHANGED <<todo, step, used, goOn, overrun, stop, faults, cut>>

(* All calls are answered: the tool budget, then the interjection, which   *)
(* takes everything that waits for the channel.                            *)
StepEnds ==
    /\ phase = "tools" /\ todo = <<>>
    /\ LET continues == goOn /\ used < ResolveAgentOverrides
       IN  IF continues
             THEN /\ phase' = "step" /\ UNCHANGED result
                  /\ IF waiting > 0 /\ Len(turns) < MaxTurns
                       THEN Store(Turn("user", {}, 0)) /\ waiting' = 0
                       ELSE UNCHANGED <<turns, summary, durable, waiting>>
             ELSE ChainEnds("", TRUE) /\ UNCHANGED <<turns, summary, durable, waiting>>
    /\ UNCHANGED <<todo, step, used, goOn, overrun, stop, faults, cut>>

(* An exception inside ProcessResponse: the streaming loop reports it and  *)
(* leaves; calls of the response may be unanswered.                        *)
ProcessThrows ==
    /\ phase = "tools" /\ faults < MaxFaults
    /\ faults' = faults + 1 /\ cut' = (cut \/ todo # <<>>)
    /\ ChainEnds("exception", TRUE)
    /\ todo' = <<>>
    /\ UNCHANGED <<turns, summary, durable, step, used, goOn, overrun, stop, waiting>>

(* CompactIfNeeded, called by whoever ran the chain.                       *)
CompactIfNeeded ==
    /\ phase = "compact"
    /\ IF Len(turns) < MinMessages \/ Fold = {}
         THEN UNCHANGED <<turns, summary, durable>>
         ELSE /\ turns' = Compacted /\ summary' = Fold
              /\ durable' = Flushed(turns', summary')
    /\ phase' = "idle"
    /\ UNCHANGED <<todo, step, used, goOn, overrun, stop, waiting, result, faults, cut>>

StopSignal ==
    /\ phase \in {"step", "call", "tools"} /\ ~stop
    /\ stop' = TRUE
    /\ UNCHANGED <<phase, turns, summary, durable, todo, step, used, goOn, overrun, waiting, result,
                   faults, cut>>

MessageWaits ==
    /\ phase \in {"step", "call", "tools"} /\ waiting = 0
    /\ waiting' = 1
    /\ UNCHANGED <<phase, turns, summary, durable, todo, step, used, goOn, overrun, stop, result,
                   faults, cut>>

(* The process dies and loads the session from the store.                  *)
Crash ==
    /\ phase # "idle" /\ faults < MaxFaults
    /\ faults' = faults + 1 /\ cut' = (cut \/ todo # <<>>)
    /\ turns' = durable.turns /\ summary' = durable.summary
    /\ phase' = "idle" /\ todo' = <<>> /\ stop' = FALSE /\ waiting' = 0
    /\ UNCHANGED <<durable, step, used, goOn, overrun, result>>

ChainNext ==
    \/ ExecuteOnSession \/ NextStep \/ CallFails \/ CallStopped \/ CallLLM \/ ExecuteTool
    \/ StepEnds
    \/ ProcessThrows \/ CompactIfNeeded \/ StopSignal \/ MessageWaits \/ Crash

ChainSpec == ChainInit /\ [][ChainNext]_chainVars

-----------------------------------------------------------------------------
Answers(i) == {t \in DOMAIN turns : turns[t].role = "tool" /\ turns[t].answers = i}

Answered(i) == turns[i].calls \subseteq UNION {turns[t].calls : t \in Answers(i) \cap Build}

WellPaired ==
    \A i \in Build :
        CASE turns[i].role = "tool"      -> turns[i].answers \in Build
          [] turns[i].role = "assistant" -> Answered(i)
          [] OTHER                       -> TRUE

(* What an LLM is shown is on disk before it is called: a crash loses      *)
(* nothing of the conversation the model has seen ("Always flush - even on *)
(* failure ... Otherwise container restart loses everything",              *)
(* ChainRunner.cpp:75).                                                    *)
SeenIsDurable == phase = "call" => durable = Flushed(turns, summary)

(* Every request pairs each tool result with the call it answers and each  *)
(* call with its result, as the APIs require, in a session nothing was     *)
(* compacted in and no exchange was cut short in: through refusals, unknown *)
(* tools, budgets, stops and interjections.                                *)
RequestPaired == phase = "call" /\ summary = {} /\ ~cut => WellPaired

(* The same without the exceptions.  The code does not keep it: compaction *)
(* cuts between a call and its result, and so does a crash.                *)
AlwaysPaired == phase = "call" => WellPaired

(* "Compact everything before that, including any previous compaction      *)
(* summary" (CompactionService.cpp:165): a turn that is no longer sent is  *)
(* in the summary that is.  The code replaces the summary by one written   *)
(* from the newly compacted turns alone.                                   *)
NothingForgotten ==
    phase = "call" => \A i \in DOMAIN turns : turns[i].compacted => i \in summary

(* "Keep the last N turns un-compacted (they're recent context)"           *)
(* (CompactionService.cpp:164).  The code compacts all of a session of N   *)
(* turns or fewer.                                                         *)
RecentKept ==
    [][summary' # summary => \A i \in DOMAIN turns :
          i + KeepRecent > Len(turns) => turns'[i].compacted = turns[i].compacted]_chainVars

(* A chain that was stopped does not report success.  The code sets        *)
(* success to false and, after the loop, to true.                          *)
StoppedIsNotSuccess == result.error = "stopped" => ~result.success

-----------------------------------------------------------------------------
(***************************************************************************)
(* Which tools a chain is offered (ToolSchemaService.cpp) and which it may *)
(* call (ToolExecutionService.cpp), with the registry's shared handlers:   *)
(* the channels and api tools hold the agent the definitions are being     *)
(* built for in a member that every chain of the process writes.           *)
(***************************************************************************)

CONSTANTS
    Chains,         \* chains running at once
    AgentOf,        \* chain -> agent
    TypeOf,         \* chain -> session type
    ToolNames,      \* the registry
    TypesOf,        \* tool -> session_types of its definition
    ConsolidationSafe,\* "diary", "memory", "sessions"
    EnabledTools,   \* agent -> enabled_tools, {}: no whitelist
    NoAgent         \* the empty agent id

VARIABLES
    at,             \* chain -> "start", "set", "read", "clear", "call", "done"
    current,        \* m_currentAgentId of the shared handler
    offered,        \* chain -> tools in its request
    view,           \* chain -> the agent whose channels its definitions list
    served          \* chain -> the agents the api tool acted for, and the tools it ran

accessVars == <<at, current, offered, view, served>>

AccessInit ==
    /\ at = [c \in Chains |-> "start"] /\ current = NoAgent
    /\ offered = [c \in Chains |-> {}] /\ view = [c \in Chains |-> NoAgent]
    /\ served = [c \in Chains |-> {}]

SessionTypeAllowsTool(type, tool) ==
    IF TypesOf[tool] = {} THEN type # "consolidation" \/ tool \in ConsolidationSafe
    ELSE type \in TypesOf[tool] \/ ("default" \in TypesOf[tool] /\ type # "consolidation")

Whitelist(agent) == EnabledTools[agent]

(* GetForAgent without the shared handlers: all tools, or the whitelist.   *)
GetForAgent(agent) == IF Whitelist(agent) = {} THEN ToolNames ELSE ToolNames \cap Whitelist(agent)

GetForSession_ConsolidationAll(agent, type) ==
    IF type = "consolidation" THEN ToolNames
    ELSE {t \in GetForAgent(agent) : SessionTypeAllowsTool(type, t)}
           \cup (IF type = "gallivanting" THEN {"gallivanting"} \cap ToolNames ELSE {})

GetForSession(agent, type) ==
    IF type = "consolidation" THEN {t \in ToolNames : SessionTypeAllowsTool(type, t)}
    ELSE {t \in GetForAgent(agent) : SessionTypeAllowsTool(type, t)}
           \cup (IF type = "gallivanting" THEN {"gallivanting"} \cap ToolNames ELSE {})

To(c, place) == at' = [at EXCEPT ![c] = place]

(* A consolidation session, or an agent without a whitelist, does not      *)
(* touch the handlers.                                                     *)
Touches(c) == TypeOf[c] # "consolidation" /\ Whitelist(AgentOf[c]) # {}

BeginSchema(c) ==
    /\ at[c] = "start"
    /\ IF Touches(c) THEN current' = AgentOf[c] /\ To(c, "set")
           ELSE UNCHANGED current /\ To(c, "set")
    /\ UNCHANGED <<offered, view, served>>

(* GetAllDefinitions: the channels tool lists the channels of `current`.   *)
ReadDefinitions(c) ==
    /\ at[c] = "set"
    /\ offered' = [offered EXCEPT ![c] = GetForSession(AgentOf[c], TypeOf[c])]
    /\ view' = [view EXCEPT ![c] = current]
    /\ To(c, "read")
    /\ UNCHANGED <<current, served>>

ClearAgent(c) ==
    /\ at[c] = "read"
    /\ current' = IF Touches(c) THEN NoAgent ELSE current
    /\ To(c, "call")
    /\ UNCHANGED <<offered, view, served>>

(* Execute: the gate looks at the session type, not at the whitelist; the  *)
(* api tool acts for whatever agent the handler holds.                     *)
CallTool(c, t) ==
    /\ at[c] = "call"
    /\ SessionTypeAllowsTool(TypeOf[c], t)
    /\ served' = [served EXCEPT ![c] = {[tool |-> t, for |-> current]}]
    /\ To(c, "done")
    /\ UNCHANGED <<current, offered, view>>

NextRequest(c) ==
    /\ at[c] \in {"call", "done"}
    /\ To(c, "start")
    /\ UNCHANGED <<current, offered, view, served>>

AccessNext ==
    \E c \in Chains :
        \/ BeginSchema(c) \/ ReadDefinitions(c) \/ ClearAgent(c) \/ NextRequest(c)
        \/ \E t \in ToolNames : CallTool(c, t)

AccessSpec == AccessInit /\ [][AccessNext]_accessVars

-----------------------------------------------------------------------------
(* No tool is offered to a session that the gate would then refuse: the    *)
(* two sides use one predicate on every path, the tool that gallivanting   *)
(* sessions are always offered included.                                   *)
OfferedIsCallable ==
    \A c \in Chains : \A t \in offered[c] : SessionTypeAllowsTool(TypeOf[c], t)

(* "The set of tools offered to a session and the set callable from it     *)
(* must agree" (ToolTypes.h:65).  The code does not keep it: a call of a   *)
(* tool the agent's whitelist leaves out is executed.                      *)
CalledWasOffered == \A c \in Chains : \A r \in served[c] : r.tool \in offered[c]

(* "Clear agent context to avoid state leakage" (ToolSchemaService.cpp:114): *)
(* definitions are built for the chain's own agent or for none.  The code  *)
(* does not keep it: another chain sets the shared member in between.      *)
OwnView == \A c \in Chains : view[c] \in {NoAgent, AgentOf[c]}
=============================================================================
