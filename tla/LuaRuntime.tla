----------------------------- MODULE LuaRuntime -----------------------------
(***************************************************************************)
(* The Lua virtual machines and their scripts: LuaState.cpp,               *)
(* LuaToolHandler.cpp, LuaTool.cpp, ScriptStore.cpp, SharedScriptHealer.cpp*)
(* and the two-phase start in AgentKernel.cpp.                             *)
(*                                                                         *)
(* There is one machine per agent, one shared script file that registers a *)
(* tool in every machine it is loaded into, and one stored script per      *)
(* agent that registers the same tool.  A script is its version.  A thread *)
(* has a stack of Lua frames, innermost last, and a thread-local pointer   *)
(* to the machine whose configuration the script sees.                     *)
(***************************************************************************)
EXTENDS Naturals, Sequences, FiniteSets

CONSTANTS
    Agents, Threads,
    Limit,          \* instructions between two firings of the count hook
    MaxDepth, MaxImages, MaxBoots, MaxWrites    \* bounds

VARIABLES
    image,      \* version of the script the image ships
    volume,     \* version on the volume, 0: absent
    tmp,        \* the temporary file: "none", "partial" or "whole"
    pinned,
    row,        \* agent -> [src, on] of its stored script, src = 0: none
    boot, todo, \* phase of the start and the agents it has not handled
    vms,        \* agents that have a machine
    tool,       \* the tool in the registry: [vm, from, src]
    regs,       \* agent -> version of the shared script loaded into its machine
    stack, active,
    count,      \* agent -> instructions since its hook was set or fired
    at,         \* thread -> store operation under way
    bootCount, writes

luaVars == <<image, volume, tmp, pinned, row, boot, todo, vms, tool, regs, stack, active, count,
             at, bootCount, writes>>
files == <<image, volume, tmp, pinned>>
frames == <<stack, active, count>>

None == "none"
NoTool == [vm |-> None, from |-> None, src |-> 0]
NoRow == [src |-> 0, on |-> FALSE]
Idle == [pc |-> "idle"]
Up == boot = "up"

LuaInit ==
    /\ image = 1 /\ volume = 0 /\ tmp = None /\ pinned = FALSE
    /\ row = [a \in Agents |-> NoRow]
    /\ boot = "db" /\ todo = Agents /\ vms = {} /\ tool = NoTool
    /\ regs = [a \in Agents |-> 0]
    /\ stack = [t \in Threads |-> <<>>] /\ active = [t \in Threads |-> None]
    /\ count = [a \in Agents |-> 0] /\ at = [t \in Threads |-> Idle]
    /\ bootCount = 0 /\ writes = 0

-----------------------------------------------------------------------------
(* The start.  A script evaluated in an agent's machine registers the tool,*)
(* over whoever registered it before; Eval leaves no machine active.       *)
RegisterTool(a, from, src) ==
    /\ tool' = [vm |-> a, from |-> from, src |-> src]
    /\ vms' = vms \cup {a}

NextPhase(a, after) ==
    /\ todo' = IF todo = {a} THEN Agents ELSE todo \ {a}
    /\ boot' = IF todo = {a} THEN after ELSE boot

LoadDb(a) ==
    /\ boot = "db" /\ a \in todo
    /\ IF row[a].on THEN RegisterTool(a, "db", row[a].src) ELSE UNCHANGED <<tool, vms>>
    /\ NextPhase(a, "heal")
    /\ UNCHANGED <<files, row, regs, frames, at, bootCount, writes>>

(* ReconcileSharedScripts: a pin wins, an equal file is left alone, any    *)
(* other is written to a temporary file that then takes its place.         *)
HealNothing ==
    /\ boot = "heal" /\ (pinned \/ volume = image)
    /\ boot' = "fs"
    /\ UNCHANGED <<files, row, todo, vms, tool, regs, frames, at, bootCount, writes>>

WriteTemp(ok) ==
    /\ boot = "heal" /\ ~pinned /\ volume # image
    /\ tmp' = IF ok THEN "whole" ELSE "partial"
    /\ boot' = IF ok THEN "rename" ELSE "unlink"
    /\ UNCHANGED <<image, volume, pinned, row, todo, vms, tool, regs, frames, at, bootCount,
                   writes>>

Rename ==
    /\ boot = "rename"
    /\ volume' = image /\ tmp' = None
    /\ boot' = "fs"
    /\ UNCHANGED <<image, pinned, row, todo, vms, tool, regs, frames, at, bootCount, writes>>

Unlink ==
    /\ boot = "unlink" /\ tmp' = None /\ boot' = "fs"
    /\ UNCHANGED <<image, volume, pinned, row, todo, vms, tool, regs, frames, at, bootCount,
                   writes>>

LoadFs_BeforeHeal(a) ==
    /\ boot \in {"heal", "fs"} /\ a \in todo
    /\ IF volume # 0 THEN RegisterTool(a, "fs", volume) /\ regs' = [regs EXCEPT ![a] = volume]
                     ELSE UNCHANGED <<tool, vms, regs>>
    /\ NextPhase(a, "up")
    /\ UNCHANGED <<files, row, frames, at, bootCount, writes>>

(* Every agent loads the shared file, on top of its stored script.         *)
LoadFs(a) ==
    /\ boot = "fs" /\ a \in todo
    /\ IF volume # 0 THEN RegisterTool(a, "fs", volume) /\ regs' = [regs EXCEPT ![a] = volume]
                     ELSE UNCHANGED <<tool, vms, regs>>
    /\ NextPhase(a, "up")
    /\ UNCHANGED <<files, row, frames, at, bootCount, writes>>

(* The process ends, at any point, and starts again, maybe from a newer    *)
(* image.                                                                  *)
Restart(v) ==
    /\ bootCount < MaxBoots /\ bootCount' = bootCount + 1
    /\ v \in image .. MaxImages /\ image' = v
    /\ boot' = "db" /\ todo' = Agents /\ vms' = {} /\ tool' = NoTool
    /\ regs' = [a \in Agents |-> 0]
    /\ stack' = [t \in Threads |-> <<>>] /\ active' = [t \in Threads |-> None]
    /\ count' = [a \in Agents |-> 0] /\ at' = [t \in Threads |-> Idle]
    /\ UNCHANGED <<volume, tmp, pinned, row, writes>>

Pin(b) ==
    /\ Up /\ pinned # b /\ pinned' = b
    /\ UNCHANGED <<image, volume, tmp, row, boot, todo, vms, tool, regs, frames, at, bootCount,
                   writes>>

-----------------------------------------------------------------------------
(* Running.  A chain's thread evaluates a script in its agent's machine,   *)
(* which sets the hook anew ...                                            *)
Top(t) == stack[t][Len(stack[t])]
Push(t, f) == stack' = [stack EXCEPT ![t] = Append(@, f)]
Leave(t) ==
    /\ stack' = [stack EXCEPT ![t] = SubSeq(@, 1, Len(@) - 1)]
    /\ active' = [active EXCEPT ![t] = None]

Eval(t, a) ==
    /\ Up /\ stack[t] = <<>> /\ at[t] = Idle
    /\ vms' = vms \cup {a}
    /\ Push(t, [vm |-> a, agent |-> a, start |-> 0])
    /\ active' = [active EXCEPT ![t] = a]
    /\ count' = [count EXCEPT ![a] = 0]
    /\ UNCHANGED <<files, row, boot, todo, tool, regs, at, bootCount, writes>>

(* ... or calls the registered tool, which runs in the machine it was      *)
(* registered from, the hook's count going on.                             *)
HandlerRuns_Inherits(t, a) ==
    /\ Push(t, [vm |-> tool.vm, agent |-> a, start |-> count[tool.vm]])
    /\ active' = [active EXCEPT ![t] = IF @ = None THEN tool.vm ELSE @]

HandlerRuns(t, a) ==
    /\ Push(t, [vm |-> tool.vm, agent |-> a, start |-> count[tool.vm]])
    /\ active' = [active EXCEPT ![t] = tool.vm]

ChainCallsTool(t, a) ==
    /\ Up /\ stack[t] = <<>> /\ at[t] = Idle /\ tool # NoTool
    /\ HandlerRuns(t, a)
    /\ UNCHANGED <<files, row, boot, todo, vms, tool, regs, count, at, bootCount, writes>>

(* A script calls it through the tools table: without an active machine    *)
(* the call is a Lua error and ends the script.                            *)
ScriptCallsTool(t) ==
    /\ stack[t] # <<>> /\ Len(stack[t]) < MaxDepth /\ tool # NoTool
    /\ IF active[t] # None THEN HandlerRuns(t, active[t]) ELSE Leave(t)
    /\ UNCHANGED <<files, row, boot, todo, vms, tool, regs, count, at, bootCount, writes>>

(* The hook fires on every Limit-th instruction and ends the script.       *)
Instruction(t) ==
    LET vm == Top(t).vm
    IN /\ stack[t] # <<>>
       /\ count' = [count EXCEPT ![vm] = (@ + 1) % Limit]
       /\ IF count[vm] + 1 = Limit THEN Leave(t) ELSE UNCHANGED <<stack, active>>
       /\ UNCHANGED <<files, row, boot, todo, vms, tool, regs, at, bootCount, writes>>

(* Eval and the handler leave no machine active when they return.          *)
Return(t) ==
    /\ stack[t] # <<>> /\ Leave(t)
    /\ UNCHANGED <<files, row, boot, todo, vms, tool, regs, count, at, bootCount, writes>>

-----------------------------------------------------------------------------
(* "lua store": reads the row, then writes all of it back or inserts one.  *)
(* An insert that the unique name refuses is not noticed.                  *)
StoreReads(t, a) ==
    /\ Up /\ stack[t] = <<>> /\ at[t] = Idle /\ writes < MaxWrites
    /\ writes' = writes + 1
    /\ at' = [at EXCEPT ![t] = [pc |-> "store", agent |-> a, row |-> row[a], src |-> writes + 1]]
    /\ UNCHANGED <<files, row, boot, todo, vms, tool, regs, frames, bootCount>>

StoreWrites(t) ==
    LET c == at[t]
    IN /\ c.pc = "store" /\ at' = [at EXCEPT ![t] = Idle]
       /\ row' = CASE c.row # NoRow /\ row[c.agent] # NoRow -> [row EXCEPT ![c.agent] = [src |-> c.src, on |-> c.row.on]]
                   [] c.row = NoRow /\ row[c.agent] = NoRow -> [row EXCEPT ![c.agent] = [src |-> c.src, on |-> TRUE]]
                   [] OTHER                                 -> row
       /\ UNCHANGED <<files, boot, todo, vms, tool, regs, frames, bootCount, writes>>

(* The admin's switch and the delete.                                      *)
PutEnabled(a, b) ==
    /\ Up /\ row[a] # NoRow /\ row[a].on # b
    /\ row' = [row EXCEPT ![a].on = b]
    /\ UNCHANGED <<files, boot, todo, vms, tool, regs, frames, at, bootCount, writes>>

DeleteScript(a) ==
    /\ Up /\ row[a] # NoRow
    /\ row' = [row EXCEPT ![a] = NoRow]
    /\ UNCHANGED <<files, boot, todo, vms, tool, regs, frames, at, bootCount, writes>>

LuaNext ==
    \/ \E a \in Agents : LoadDb(a) \/ LoadFs(a) \/ DeleteScript(a)
    \/ \E b \in BOOLEAN : WriteTemp(b) \/ Pin(b) \/ \E a \in Agents : PutEnabled(a, b)
    \/ HealNothing \/ Rename \/ Unlink
    \/ \E v \in 1 .. MaxImages : Restart(v)
    \/ \E t \in Threads : \/ ScriptCallsTool(t) \/ Instruction(t) \/ Return(t) \/ StoreWrites(t)
                          \/ \E a \in Agents : Eval(t, a) \/ ChainCallsTool(t, a)
                                  \/ StoreReads(t, a)

LuaSpec == LuaInit /\ [][LuaNext]_luaVars

-----------------------------------------------------------------------------
(* A script never runs with the configuration of another machine than its  *)
(* own, however calls nest: its machine is the active one, or none is.     *)
ActiveIsMine == \A t \in Threads : stack[t] # <<>> => active[t] \in {None, Top(t).vm}

(* Once the kernel is up, every agent runs the shared script that is on    *)
(* the volume, and the tool is the volume's where there is one.            *)
LoadedIsHealed ==
    Up => /\ \A a \in Agents : regs[a] = volume
          /\ volume # 0 => tool.from = "fs"

(* A script has its machine while it runs.  Violated: the handler of a     *)
(* nested call clears the pointer when it returns (LuaToolHandler.cpp: "so *)
(* config.get, animus.http_*, log.* work").                                *)
ActiveWhileRunning == \A t \in Threads : stack[t] # <<>> => active[t] = Top(t).vm

(* A machine runs one script at a time; Lua states are not thread safe.    *)
(* Violated: nothing serialises the chains of one agent, nor two agents'   *)
(* calls of one tool.                                                      *)
OneThreadPerMachine ==
    \A t, u \in Threads : t # u
        => \A i \in DOMAIN stack[t], j \in DOMAIN stack[u] : stack[t][i].vm # stack[u][j].vm

(* An agent's call of the tool runs in that agent's machine.  Violated:    *)
(* the last agent to load the shared script owns the tool.                 *)
OwnMachine == \A t \in Threads : \A i \in DOMAIN stack[t] : regs[stack[t][i].agent] # 0
    => stack[t][i].vm = stack[t][i].agent

(* Every call has the whole budget of instructions.  Violated by a         *)
(* handler's: its count goes on from the calls before it.                  *)
WholeBudget == \A t \in Threads : \A i \in DOMAIN stack[t] : stack[t][i].start = 0

(* A script the admin has disabled stays disabled while agents store new   *)
(* versions of it.  Violated by a store that read the row before.          *)
DisabledStays ==
    [][\A t \in Threads, a \in Agents : StoreWrites(t) /\ row[a] # NoRow /\ ~row[a].on => ~row'[a].on]_luaVars
=============================================================================
