--------------------------- MODULE ChannelManager ---------------------------
(***************************************************************************)
(* src/kernel/ChannelManager.cpp: channel definitions (in memory and in    *)
(* the config store), the connectors that run them, and the restart queue  *)
(* that a detached worker thread empties.                                  *)
(*                                                                         *)
(* The admin API calls the manager from several threads; every lock_guard  *)
(* block and every write to the config store is one action, so calls       *)
(* overlap wherever the code lets go of its mutex.  The Bluesky and        *)
(* gateway loops a connector runs are modules of their own.                *)
(***************************************************************************)
EXTENDS Naturals, Sequences, SequencesExt

CONSTANTS
    Channels,   \* names
    Configs,    \* configurations ValidateConfig accepts (others are refused at once)
    Callers,    \* threads of the admin API
    MaxCalls,   \* bound: calls in one behaviour
    MaxBoots,   \* bound: starts of the process
    Absent      \* no value

VARIABLES
    known,      \* m_channels: name -> [enabled, config] or Absent
    store,      \* config store: name -> [type, enabled, config], each a value or Absent
    creds,      \* channels.<platform>.* keys synced for the adapters
    live,       \* the connector running under a name: its config, or Absent
    running,    \* m_running
    pending,    \* m_pendingRestarts
    spawned,    \* m_restartThreadRunning
    worker,     \* ProcessPendingRestarts: [at, name, state]
    call,       \* per caller: [at, op, name, state]
    calls, boots,
    mixed       \* history: names whose calls or restarts overlapped

cmVars == <<known, store, creds, live, running, pending, spawned, worker, call, calls, boots,
            mixed>>

Def == [enabled : BOOLEAN, config : Configs]
Idle == [at |-> "idle", op |-> "", name |-> Absent, state |-> Absent]
Unstored == [type |-> Absent, enabled |-> Absent, config |-> Absent]

CmInit ==
    /\ known = [c \in Channels |-> Absent]
    /\ store = [c \in Channels |-> Unstored]
    /\ creds = [c \in Channels |-> Absent]
    /\ live = [c \in Channels |-> Absent]
    /\ running = TRUE /\ pending = <<>> /\ spawned = FALSE
    /\ worker = Idle
    /\ call = [p \in Callers |-> Idle]
    /\ calls = 0 /\ boots = 1 /\ mixed = {}

Others(p, c) == \E q \in Callers \ {p} : call[q].at # "idle" /\ call[q].name = c

Restarting(c) ==
    \/ worker.at # "idle" /\ worker.name = c
    \/ \E i \in 1..Len(pending) : pending[i].name = c

Go(p, at) == call' = [call EXCEPT ![p].at = at]

Return(p) == call' = [call EXCEPT ![p] = Idle]

(* The first lock of a call: the name is looked up and its state copied.   *)
Enter(p, op, c, next, st) ==
    /\ running /\ calls < MaxCalls /\ call[p].at = "idle"
    /\ call' = [call EXCEPT ![p] = [at |-> next, op |-> op, name |-> c, state |-> st]]
    /\ calls' = calls + 1
    /\ mixed' = IF Others(p, c) \/ (op = "delete" /\ Restarting(c)) THEN mixed \cup {c} ELSE mixed
    /\ UNCHANGED <<store, creds, live, running, pending, spawned, worker, boots>>

CreateChannel(p, c, d) ==
    /\ known[c] = Absent
    /\ Enter(p, "create", c, "type", d)
    /\ UNCHANGED known

UpdateChannelConfig(p, c, cfg) ==
    /\ known[c] # Absent
    /\ Enter(p, "update", c, "config", [known[c] EXCEPT !.config = cfg])
    /\ UNCHANGED known

DeleteChannel(p, c) ==
    /\ known[c] # Absent
    /\ Enter(p, "delete", c, "stop", known[c])
    /\ UNCHANGED known

SetChannelEnabled(p, c, on) ==
    /\ known[c] # Absent
    /\ Enter(p, "enable", c, "enabled", [known[c] EXCEPT !.enabled = on])
    /\ known' = [known EXCEPT ![c].enabled = on]

RestartChannel(p, c) ==
    /\ known[c] # Absent
    /\ Enter(p, "restart", c, "enqueue", known[c])
    /\ UNCHANGED known

(* The writes to the config store, one key at a time.                      *)
AfterPersist(op, key) ==
    CASE op = "create" /\ key = "type" -> "enabled"
      [] op = "create" /\ key = "enabled" -> "config"
      [] op = "enable" -> "enqueue"
      [] OTHER -> "memory"

Persist(p, key) ==
    LET c == call[p].name
        value == CASE key = "type" -> c [] key = "enabled" -> call[p].state.enabled
                   [] key = "config" -> call[p].state.config
    IN /\ call[p].at = key
       /\ store' = [store EXCEPT ![c][key] = value]
       /\ Go(p, AfterPersist(call[p].op, key))
       /\ UNCHANGED <<known, creds, live, running, pending, spawned, worker, calls, boots, mixed>>

(* m_channels[name] = state, or only its config; operator[] makes an entry *)
(* again that a delete has erased meanwhile.                               *)
Remember(p) ==
    LET c == call[p].name
        st == call[p].state
    IN /\ call[p].at = "memory"
       /\ known' = [known EXCEPT ![c] =
                      IF call[p].op = "create" THEN st
                      ELSE IF known[c] = Absent THEN [enabled |-> FALSE, config |-> st.config]
                      ELSE [known[c] EXCEPT !.config = st.config]]
       /\ Go(p, IF call[p].op = "create" THEN "enqueue" ELSE "sync")
       /\ UNCHANGED <<store, creds, live, running, pending, spawned, worker, calls, boots, mixed>>

(* SyncChannelCredentialsToConfigStore: before the restart in an update,   *)
(* after it in a create.                                                   *)
SyncCredentials(p) ==
    /\ call[p].at = "sync"
    /\ creds' = [creds EXCEPT ![call[p].name] = call[p].state.config]
    /\ IF call[p].op = "create" THEN Return(p) ELSE Go(p, "enqueue")
    /\ UNCHANGED <<known, store, live, running, pending, spawned, worker, calls, boots, mixed>>

(* EnqueueRestart under m_restartMutex: the latest state of a name wins.   *)
AfterEnqueue(op) == IF op = "create" THEN "sync" ELSE "idle"

Enqueue_KeepsFirst(p) ==
    LET c == call[p].name
        st == call[p].state
        wanted == running /\ (st.enabled \/ call[p].op \in {"enable", "restart"})
    IN /\ call[p].at = "enqueue" /\ (running \/ call[p].op # "restart")
       /\ IF wanted
            THEN /\ pending' = IF \E i \in 1..Len(pending) : pending[i].name = c THEN pending
                               ELSE Append(pending, [name |-> c, state |-> st])
                 /\ Go(p, "spawn")
            ELSE /\ UNCHANGED pending
                 /\ IF AfterEnqueue(call[p].op) = "idle" THEN Return(p) ELSE Go(p, "sync")
       /\ UNCHANGED <<known, store, creds, live, running, spawned, worker, calls, boots, mixed>>

Enqueue(p) ==
    LET c == call[p].name
        st == call[p].state
        wanted == running /\ (st.enabled \/ call[p].op \in {"enable", "restart"})
    IN /\ call[p].at = "enqueue" /\ (running \/ call[p].op # "restart")
       /\ IF wanted
            THEN /\ pending' = Append(SelectSeq(pending, LAMBDA r : r.name # c),
                                      [name |-> c, state |-> st])
                 /\ Go(p, "spawn")
            ELSE /\ UNCHANGED pending
                 /\ IF AfterEnqueue(call[p].op) = "idle" THEN Return(p) ELSE Go(p, "sync")
       /\ UNCHANGED <<known, store, creds, live, running, spawned, worker, calls, boots, mixed>>

(* StartChannel: the connector of an enabled channel, with its config.     *)
Started(st) == IF st.enabled THEN st.config ELSE Absent

(* RestartChannel of a manager that is not running does it itself.         *)
RestartDirectly(p) ==
    /\ call[p].at = "enqueue" /\ call[p].op = "restart" /\ ~running
    /\ live' = [live EXCEPT ![call[p].name] =
                  Started(call[p].state)]
    /\ Return(p)
    /\ UNCHANGED <<known, store, creds, running, pending, spawned, worker, calls, boots, mixed>>

(* ... and the worker is started unless the flag says it runs.             *)
SpawnWorker(p) ==
    /\ call[p].at = "spawn"
    /\ spawned' = TRUE
    /\ worker' = IF spawned THEN worker ELSE [Idle EXCEPT !.at = "top"]
    /\ IF AfterEnqueue(call[p].op) = "idle" THEN Return(p) ELSE Go(p, "sync")
    /\ UNCHANGED <<known, store, creds, live, running, pending, calls, boots, mixed>>

(* DeleteChannel: StopChannel, the keys, the entry.                        *)
DeleteStops(p) ==
    /\ call[p].at = "stop"
    /\ live' = [live EXCEPT ![call[p].name] = Absent]
    /\ Go(p, "unstore")
    /\ UNCHANGED <<known, store, creds, running, pending, spawned, worker, calls, boots, mixed>>

DeleteByPrefix(p) ==
    /\ call[p].at = "unstore"
    /\ store' = [store EXCEPT ![call[p].name] = Unstored]
    /\ Go(p, "erase")
    /\ UNCHANGED <<known, creds, live, running, pending, spawned, worker, calls, boots, mixed>>

DeleteErases(p) ==
    /\ call[p].at = "erase"
    /\ known' = [known EXCEPT ![call[p].name] = Absent]
    /\ Return(p)
    /\ UNCHANGED <<store, creds, live, running, pending, spawned, worker, calls, boots, mixed>>

-----------------------------------------------------------------------------
WorkerPops_ClearsLater ==
    /\ \/ /\ worker.at = "top" /\ pending = <<>>
          /\ worker' = [worker EXCEPT !.at = "exit"] /\ UNCHANGED <<pending, spawned>>
       \/ /\ worker.at = "exit"
          /\ worker' = Idle /\ spawned' = FALSE /\ UNCHANGED pending
       \/ /\ worker.at = "top" /\ pending # <<>>
          /\ worker' = [worker EXCEPT !.at = "stop", !.name = Head(pending).name,
                                      !.state = Head(pending).state]
          /\ pending' = Tail(pending) /\ UNCHANGED spawned
    /\ UNCHANGED <<known, store, creds, live, running, call, calls, boots, mixed>>

(* ProcessPendingRestarts: the flag is cleared under the same lock that    *)
(* finds the queue empty.                                                  *)
WorkerPops ==
    /\ worker.at = "top"
    /\ IF pending = <<>>
         THEN worker' = Idle /\ spawned' = FALSE /\ UNCHANGED pending
         ELSE /\ worker' = [worker EXCEPT !.at = "stop", !.name = Head(pending).name,
                                          !.state = Head(pending).state]
              /\ pending' = Tail(pending)
              /\ UNCHANGED spawned
    /\ UNCHANGED <<known, store, creds, live, running, call, calls, boots, mixed>>

WorkerStops ==
    /\ worker.at = "stop"
    /\ live' = [live EXCEPT ![worker.name] = Absent]
    /\ worker' = [worker EXCEPT !.at = "start"]
    /\ UNCHANGED <<known, store, creds, running, pending, spawned, call, calls, boots, mixed>>

(* StartChannel of the copy made when the restart was asked for.           *)
WorkerStarts ==
    /\ worker.at = "start"
    /\ live' = [live EXCEPT ![worker.name] =
                  Started(worker.state)]
    /\ worker' = [Idle EXCEPT !.at = "top"]
    /\ UNCHANGED <<known, store, creds, running, pending, spawned, call, calls, boots, mixed>>

(* Shutdown() clears the queue and stops every connector; it does not wait *)
(* for the worker.                                                         *)
Shutdown ==
    /\ running
    /\ running' = FALSE
    /\ pending' = <<>>
    /\ live' = [c \in Channels |-> Absent]
    /\ mixed' = IF worker.at \in {"stop", "start"} \/ \E p \in Callers : call[p].at # "idle"
                  THEN Channels ELSE mixed
    /\ UNCHANGED <<known, store, creds, spawned, worker, call, calls, boots>>

(* A crash, or the end of a stopped process, and Initialize() of the next: *)
(* LoadChannelsFromConfigStore takes what has a type, every enabled one is *)
(* started, and credentials are synced again.                              *)
Loaded(c) ==
    IF store[c].type = Absent THEN Absent
    ELSE [enabled |-> store[c].enabled = TRUE, config |-> store[c].config]

Reboot ==
    /\ boots < MaxBoots
    /\ boots' = boots + 1
    /\ known' = [c \in Channels |-> Loaded(c)]
    /\ live' = [c \in Channels |-> IF Loaded(c) = Absent THEN Absent ELSE Started(Loaded(c))]
    /\ creds' = [c \in Channels |-> IF Loaded(c) = Absent THEN creds[c] ELSE Loaded(c).config]
    /\ running' = TRUE /\ pending' = <<>> /\ spawned' = FALSE
    /\ worker' = Idle /\ call' = [p \in Callers |-> Idle]
    /\ mixed' = {}
    /\ UNCHANGED <<store, calls>>

Call(p) ==
    \/ \E c \in Channels :
         \/ \E d \in Def : CreateChannel(p, c, d)
         \/ \E cfg \in Configs : UpdateChannelConfig(p, c, cfg)
         \/ DeleteChannel(p, c)
         \/ \E on \in BOOLEAN : SetChannelEnabled(p, c, on)
         \/ RestartChannel(p, c)
    \/ \E key \in {"type", "enabled", "config"} : Persist(p, key)
    \/ Remember(p) \/ SyncCredentials(p) \/ Enqueue(p) \/ RestartDirectly(p) \/ SpawnWorker(p)
    \/ DeleteStops(p) \/ DeleteByPrefix(p) \/ DeleteErases(p)

CmNext ==
    \/ \E p \in Callers : Call(p)
    \/ WorkerPops \/ WorkerStops \/ WorkerStarts
    \/ Shutdown \/ Reboot

-----------------------------------------------------------------------------
(* A restart in the queue always has a worker to take it, or a caller that *)
(* is about to start one: the flag is read by callers outside the lock     *)
(* under which the worker clears it (ChannelManager.cpp:769, :780).        *)
NoRestartLost ==
    pending # <<>> => worker.at # "idle" \/ \E p \in Callers : call[p].at = "spawn"

(* Once the calls and restarts of a channel are over, what is running is   *)
(* what is configured, and what is configured is what the next start       *)
(* loads, unless two calls on the name overlapped, or a delete or shutdown *)
(* met a restart in progress (DeleteChannel does not take the name out of  *)
(* the queue, Shutdown does not wait for the worker).                      *)
Settled(c) == worker.at = "idle" /\ ~Restarting(c) /\ \A p \in Callers : call[p].name # c

LiveAsConfigured ==
    \A c \in Channels \ mixed : Settled(c) =>
        /\ live[c] = IF running /\ known[c] # Absent /\ known[c].enabled
                       THEN known[c].config ELSE Absent
        /\ known[c] = Loaded(c)
        /\ known[c] # Absent => creds[c] = known[c].config

(* "Clear pending restarts so the restart thread doesn't race with         *)
(* shutdown" (ChannelManager.cpp:381): nothing is started after Shutdown.  *)
StoppedStaysStopped == ~running => \A c \in Channels : live[c] = Absent

CmSpec == CmInit /\ [][CmNext]_cmVars
=============================================================================
