---------------------------- MODULE EmailAdapter -----------------------------
(***************************************************************************)
(* The e-mail adapter, with the supervisor of its WebSocket in front.      *)
(***************************************************************************)
EXTENDS Naturals, FiniteSets

(***************************************************************************)
(* src/kernel/channel/ConnectionSupervisor.cpp: the supervisor that owns   *)
(* one reconnecting websocket on an event loop of its own.                 *)
(*                                                                         *)
(* Everything the loop runs (connect callback, close handler, reconnect    *)
(* timer, watchdog) is one atomic action: the loop has a single thread.    *)
(* RequestStop comes from other threads and falls between any two of them, *)
(* and between the two halves of Run.                                      *)
(*                                                                         *)
(* m_generation is kept as the only thing it decides, whether a pending    *)
(* reconnect timer is current: timers says which kinds are pending.  A     *)
(* client that m_ws no longer points to is ghost: its callbacks still come *)
(* and must do nothing.  Delays are abstract: a timer or a watchdog tick   *)
(* may come at any time, which covers every backoff, jitter and cooldown.  *)
(***************************************************************************)

VARIABLES
    run,            \* Run(): "idle", "reset", "looping", "quit", "returned"
    conn,           \* m_state
    why,            \* m_lastError: "none", "auth" (what FatalError was told), "fatal"
    stop,           \* m_stopRequested
    fatal,          \* m_fatal
    inFlight,       \* m_connectInFlight
    ws,             \* the client m_ws points to: "none", "handshake", "open",
                    \* "stopping" (its close handler may still come), "closed"
    ghost,          \* a superseded client may still call back
    timers,         \* pending reconnect timers: subset of {"current", "stale"}
    queued,         \* what runInLoop/queueInLoop left for the loop: {"connect", "quit"}
    missed          \* history: the last RequestStop to take effect found no loop to quit

supVars == <<run, conn, why, stop, fatal, inFlight, ws, ghost, timers, queued, missed>>

States == {"Disabled", "Connecting", "Connected", "Backoff", "Error"}

SupTypeOK ==
    /\ run \in {"idle", "reset", "looping", "quit", "returned"}
    /\ conn \in States
    /\ why \in {"none", "auth", "fatal"}
    /\ ws \in {"none", "handshake", "open", "stopping", "closed"}
    /\ {stop, fatal, inFlight, ghost, missed} \subseteq BOOLEAN
    /\ timers \subseteq {"current", "stale"}
    /\ queued \subseteq {"connect", "quit"}

SupInit ==
    /\ run = "idle" /\ conn = "Disabled" /\ why = "none"
    /\ stop = FALSE /\ fatal = FALSE /\ inFlight = FALSE
    /\ ws = "none" /\ ghost = FALSE
    /\ timers = {} /\ queued = {} /\ missed = FALSE

(* Transition: a repeat of the same state records nothing, Error records   *)
(* its reason.                                                             *)
Transition(to, reason) ==
    /\ conn' = to
    /\ why' = IF to = "Error" /\ conn # "Error" THEN reason ELSE why

(* m_generation.fetch_add(1): the timers pending until now no-op.          *)
Stale == IF timers = {} THEN {} ELSE {"stale"}

(* The guard most loop callbacks begin with.                               *)
Going == run = "looping" /\ ~stop /\ ~fatal

(* Run, first half: the flags are reset, whoever asked to stop before.     *)
RunReset ==
    /\ run = "idle"
    /\ run' = "reset"
    /\ why' = "none"
    /\ stop' = FALSE /\ fatal' = FALSE /\ inFlight' = FALSE
    /\ timers' = {}
    /\ UNCHANGED <<conn, ws, ghost, queued, missed>>

(* Run, second half: m_loop is set, Connect is queued and the loop starts. *)
RunStart ==
    /\ run = "reset"
    /\ run' = "looping"
    /\ Transition("Connecting", "start")
    /\ queued' = {"connect"}
    /\ UNCHANGED <<stop, fatal, inFlight, ws, ghost, timers, missed>>

(* Connect(): single flight, then a new client takes m_ws and the one it   *)
(* supersedes is stopped.  In a step where the guards fail nothing         *)
(* happens; bumped is what the caller did to the timers.                   *)
Connect(bumped) ==
    /\ timers' = bumped
    /\ IF stop \/ fatal \/ inFlight \/ conn = "Connected"
         THEN UNCHANGED <<conn, why, inFlight, ws, ghost>>
         ELSE /\ inFlight' = TRUE
              /\ ws' = "handshake"
              /\ ghost' = (ghost \/ ws # "none")
              /\ Transition("Connecting", "connect attempt")

(* ScheduleReconnect(): latest wins.                                       *)
ScheduleReconnect ==
    timers' = IF stop \/ fatal THEN timers ELSE Stale \cup {"current"}

FirstConnect ==
    /\ run = "looping" /\ "connect" \in queued
    /\ queued' = queued \ {"connect"}
    /\ Connect(timers)
    /\ UNCHANGED <<run, stop, fatal, missed>>

HandshakeFails_KeepsFlight ==
    /\ run = "looping" /\ ws = "handshake"
    /\ ws' = "stopping"
    /\ IF stop \/ fatal THEN UNCHANGED <<conn, why>>
                        ELSE Transition("Backoff", "connect failed")
    /\ ScheduleReconnect
    /\ UNCHANGED <<run, stop, fatal, inFlight, ghost, queued, missed>>

(* The connect callback of the current client, with its three outcomes.    *)
HandshakeFails ==
    /\ run = "looping" /\ ws = "handshake"
    /\ inFlight' = FALSE
    /\ ws' = "stopping"
    /\ IF stop \/ fatal THEN UNCHANGED <<conn, why>>
                        ELSE Transition("Backoff", "connect failed")
    /\ ScheduleReconnect
    /\ UNCHANGED <<run, stop, fatal, ghost, queued, missed>>

HandshakeOk ==
    /\ run = "looping" /\ ws = "handshake"
    /\ inFlight' = FALSE
    /\ ws' = "open"
    /\ IF stop \/ fatal THEN UNCHANGED <<conn, why>>
                        ELSE Transition("Connected", "handshake ok")
    /\ UNCHANGED <<run, stop, fatal, ghost, timers, queued, missed>>

(* The close handler of the current client.  It asks for m_stopRequested   *)
(* and not for m_fatal.                                                    *)
Closed ==
    /\ run = "looping" /\ ws \in {"open", "stopping"}
    /\ ws' = "closed"
    /\ IF stop THEN UNCHANGED <<conn, why, timers>>
               ELSE Transition("Backoff", "connection closed") /\ ScheduleReconnect
    /\ UNCHANGED <<run, stop, fatal, inFlight, ghost, queued, missed>>

(* A callback of a superseded client returns at the m_ws comparison.       *)
GhostCallback ==
    /\ run = "looping" /\ ghost
    /\ ghost' = FALSE
    /\ UNCHANGED <<run, conn, why, stop, fatal, inFlight, ws, timers, queued, missed>>

(* The timer runs Connect only in the generation it was scheduled in.      *)
TimerFires(t) ==
    /\ run = "looping" /\ t \in timers
    /\ IF t = "current" /\ ~stop /\ ~fatal
         THEN Connect(timers \ {t})
         ELSE timers' = timers \ {t} /\ UNCHANGED <<conn, why, inFlight, ws, ghost>>
    /\ UNCHANGED <<run, stop, fatal, queued, missed>>

(* A scheduled reconnect that never fires ("timer starvation").            *)
TimerLost ==
    /\ run = "looping" /\ "current" \in timers
    /\ timers' = timers \ {"current"}
    /\ UNCHANGED <<run, conn, why, stop, fatal, inFlight, ws, ghost, queued, missed>>

(* The watchdog on a connection without pongs: ForceReconnect.  The close  *)
(* handler of the stopped client may come (Closed) or be missed.           *)
ForceReconnect ==
    /\ Going /\ conn = "Connected"
    /\ timers' = Stale
    /\ Transition("Backoff", "transport dead")
    /\ ws' = "stopping"
    /\ UNCHANGED <<run, stop, fatal, inFlight, ghost, queued, missed>>

OrphanHeal_IfTimer ==
    /\ Going /\ conn = "Backoff" /\ "current" \in timers
    /\ Connect(Stale)
    /\ UNCHANGED <<run, stop, fatal, queued, missed>>

(* The watchdog on a Backoff older than its timer: orphan heal.            *)
OrphanHeal ==
    /\ Going /\ conn = "Backoff"
    /\ Connect(Stale)
    /\ UNCHANGED <<run, stop, fatal, queued, missed>>

(* FatalError(), called on the loop thread from on_message.                *)
FatalError ==
    /\ run = "looping" /\ ws = "open" /\ ~fatal
    /\ fatal' = TRUE
    /\ Transition("Error", "auth")
    /\ timers' = Stale
    /\ queued' = queued \cup {"quit"}
    /\ UNCHANGED <<run, stop, inFlight, ws, ghost, missed>>

RequestStop_IfClient ==
    /\ stop' = TRUE
    /\ IF stop
         THEN UNCHANGED <<timers, queued, missed>>
         ELSE /\ timers' = Stale
              /\ queued' = IF run = "looping" /\ ws # "none" THEN queued \cup {"quit"} ELSE queued
              /\ missed' = (run \in {"idle", "reset"})
    /\ UNCHANGED <<run, conn, why, fatal, inFlight, ws, ghost>>

(* RequestStop(), from any thread: only the first call does anything, and  *)
(* while m_loop is not set it has no loop to quit.                         *)
RequestStop ==
    /\ stop' = TRUE
    /\ IF stop
         THEN UNCHANGED <<timers, queued, missed>>
         ELSE /\ timers' = Stale
              /\ queued' = IF run = "looping" THEN queued \cup {"quit"} ELSE queued
              /\ missed' = (run \in {"idle", "reset"})
    /\ UNCHANGED <<run, conn, why, fatal, inFlight, ws, ghost>>

(* The queued lambda: m_ws->stop() and loop->quit().                       *)
Quit ==
    /\ run = "looping" /\ "quit" \in queued
    /\ run' = "quit"
    /\ queued' = queued \ {"quit"}
    /\ ws' = IF ws \in {"none", "closed"} THEN ws ELSE "stopping"
    /\ UNCHANGED <<conn, why, stop, fatal, inFlight, ghost, timers, missed>>

(* m_ws->stop() may run the close handler before the loop is left.         *)
ClosedByQuit ==
    /\ run = "quit" /\ ws = "stopping" /\ ~stop
    /\ ws' = "closed"
    /\ Transition("Backoff", "connection closed")
    /\ ScheduleReconnect
    /\ UNCHANGED <<run, stop, fatal, inFlight, ghost, queued, missed>>

RunReturns_Disabled ==
    /\ run = "quit"
    /\ run' = "returned"
    /\ ws' = "none" /\ ghost' = FALSE /\ timers' = {} /\ queued' = {}
    /\ Transition("Disabled", "stopped")
    /\ UNCHANGED <<stop, fatal, inFlight, missed>>

(* What Run does after loop.loop() returned.                               *)
RunReturns ==
    /\ run = "quit"
    /\ run' = "returned"
    /\ ws' = "none" /\ ghost' = FALSE /\ timers' = {} /\ queued' = {}
    /\ Transition(IF fatal THEN "Error" ELSE "Disabled", "fatal")
    /\ UNCHANGED <<stop, fatal, inFlight, missed>>

LoopNext ==
    \/ RunReset \/ RunStart \/ FirstConnect
    \/ HandshakeFails \/ HandshakeOk \/ Closed \/ GhostCallback
    \/ \E t \in timers : TimerFires(t)
    \/ TimerLost
    \/ ForceReconnect \/ OrphanHeal \/ Quit \/ ClosedByQuit \/ RunReturns

-----------------------------------------------------------------------------
(***************************************************************************)
(* The e-mail adapter (RemainingAdapters.cpp): the supervised websocket on *)
(* a thread of its own (the first part), the monitor thread that           *)
(* bridges to polling while the socket is unhealthy, the dedup cache both  *)
(* transports share, and Stop() from the channel manager's thread.         *)
(*                                                                         *)
(* The monitor ticks once a second; the gate's grace window is counted in  *)
(* ticks.  A poll pass interleaves with the websocket thread message by    *)
(* message.  When a pass is due is left open (25s, 30s after a failure).   *)
(***************************************************************************)

CONSTANTS
    Mail,           \* messages that may arrive in the inbox
    Sent,           \* those of Mail the agent itself sent: they raise no event
    EngageAfter,    \* poll_fallback_after, in monitor ticks
    MaxSeen         \* kMaxSeenIds

VARIABLES
    active,         \* rt->active
    mon,            \* monitor thread: "begin", "loop", "poll", "join", "done"
    caller,         \* the thread that calls Stop(): "away", "join", "done"
    since,          \* m_unhealthySince: ticks since then at the next tick, 0 if unset
    engaged,        \* gate.m_engaged
    bridge,         \* m_pollFallbackActive
    inbox,          \* what the server would list
    events,         \* message.received events on their way down the open socket
    seen,           \* seenEventStrIds
    listed,         \* what the running poll pass has still to look at
    ownKnown,       \* m_pollOwnAddress is resolved
    viaWs, viaPoll  \* history: how often each transport processed a message

adapterVars == <<active, mon, caller, since, engaged, bridge>>
mailVars == <<inbox, events, seen, listed, ownKnown, viaWs, viaPoll>>
emailVars == <<supVars, adapterVars, mailVars>>

EventId(m) == <<"event", m>>
MessageId(m) == <<"message", m>>

EmailInit ==
    /\ SupInit
    /\ active = TRUE /\ mon = "begin" /\ caller = "away"
    /\ since = 0 /\ engaged = FALSE /\ bridge = FALSE
    /\ inbox = {} /\ events = {} /\ seen = {} /\ listed = {} /\ ownKnown = FALSE
    /\ viaWs = [m \in Mail |-> 0] /\ viaPoll = [m \in Mail |-> 0]

(* RememberEventStr for an id that is not in the cache: a full cache first *)
(* drops half of its ids, in the order of their text and not of their age. *)
Remembered(S, id) ==
    LET dropped == IF Cardinality(S) < MaxSeen THEN {{}}
                   ELSE {D \in SUBSET S : Cardinality(D) = Cardinality(S) \div 2}
    IN {(S \ D) \cup {id} : D \in dropped}

(* ProcessMessage: the turn goes to the thread's session; counted here.    *)
Processed(count, m) == [count EXCEPT ![m] = @ + 1]

-----------------------------------------------------------------------------
(* The websocket thread.  Events that have not been read when the socket   *)
(* leaves "open" are gone; on_connected subscribes anew.                   *)
Socket ==
    /\ mon # "begin"
    /\ LoopNext
    /\ events' = IF ws' = "open" THEN events ELSE {}
    /\ UNCHANGED <<adapterVars, inbox, seen, listed, ownKnown, viaWs, viaPoll>>

(* An authentication error on the socket.                                  *)
AuthRejected ==
    /\ FatalError
    /\ UNCHANGED <<adapterVars, mailVars>>

WsMessage_EventIdOnly(m) ==
    /\ run = "looping" /\ ws = "open" /\ m \in events
    /\ events' \in {events, events \ {m}}
    /\ IF EventId(m) \in seen
         THEN UNCHANGED <<seen, viaWs>>
         ELSE /\ seen' \in Remembered(seen, EventId(m))
              /\ viaWs' = Processed(viaWs, m)
    /\ UNCHANGED <<supVars, adapterVars, inbox, listed, ownKnown, viaPoll>>

(* on_message with message.received; the server may repeat an event.       *)
WsMessage(m) ==
    /\ run = "looping" /\ ws = "open" /\ m \in events
    /\ events' \in {events, events \ {m}}
    /\ IF EventId(m) \in seen
         THEN UNCHANGED <<seen, viaWs>>
         ELSE /\ \E S \in Remembered(seen, EventId(m)) :
                   IF MessageId(m) \in S THEN seen' = S
                                         ELSE seen' \in Remembered(S, MessageId(m))
              /\ viaWs' = Processed(viaWs, m)
    /\ UNCHANGED <<supVars, adapterVars, inbox, listed, ownKnown, viaPoll>>

(* The mail server: a message reaches the inbox, and the subscriber.       *)
Arrive(m) ==
    /\ m \notin inbox
    /\ inbox' = inbox \cup {m}
    /\ events' = IF ws = "open" /\ m \notin Sent THEN events \cup {m} ELSE events
    /\ UNCHANGED <<supVars, adapterVars, seen, listed, ownKnown, viaWs, viaPoll>>

-----------------------------------------------------------------------------
(* The monitor thread: it makes the supervisor and its thread,             *)
MonitorBegin ==
    /\ mon = "begin"
    /\ mon' = "loop"
    /\ UNCHANGED <<supVars, active, caller, since, engaged, bridge, mailVars>>

(* PollFallbackGate::Tick.                                                 *)
GateTick(connected) ==
    IF connected
      THEN since' = 0 /\ engaged' = FALSE /\ bridge' = (bridge /\ ~engaged)
      ELSE /\ since' = IF since < EngageAfter THEN since + 1 ELSE since
           /\ engaged' = (engaged \/ since >= EngageAfter)
           /\ bridge' = (bridge \/ since >= EngageAfter)

(* then ticks: a terminal state ends it, the gate decides on the bridge,   *)
(* and a due pass of an active bridge lists the inbox (or fails to).       *)
MonitorTick ==
    /\ mon = "loop" /\ active /\ conn # "Error"
    /\ GateTick(conn = "Connected")
    /\ \/ mon' = "loop" /\ UNCHANGED listed
       \/ bridge' /\ mon' = "poll" /\ listed' = inbox
    /\ UNCHANGED <<supVars, active, caller, inbox, events, seen, ownKnown, viaWs, viaPoll>>

(* One message of PollOnce: dedup, the lazily resolved own address (its    *)
(* lookup may fail), the self-send guard, ProcessMessage.                  *)
PollMessage(m) ==
    /\ mon = "poll" /\ m \in listed
    /\ listed' = listed \ {m}
    /\ IF MessageId(m) \in seen
         THEN UNCHANGED <<seen, ownKnown, viaPoll>>
         ELSE /\ seen' \in Remembered(seen, MessageId(m))
              /\ ownKnown' \in {ownKnown, TRUE}
              /\ viaPoll' = IF ownKnown' /\ m \in Sent THEN viaPoll
                            ELSE Processed(viaPoll, m)
    /\ UNCHANGED <<supVars, adapterVars, inbox, events, viaWs>>

PollEnds ==
    /\ mon = "poll" /\ listed = {}
    /\ mon' = "loop"
    /\ UNCHANGED <<supVars, active, caller, since, engaged, bridge, mailVars>>

(* After the loop: the bridge is off, the supervisor is stopped, joined.   *)
MonitorLeaves ==
    /\ mon = "loop" /\ (~active \/ conn = "Error")
    /\ bridge' = FALSE
    /\ RequestStop
    /\ mon' = "join"
    /\ UNCHANGED <<active, caller, since, engaged, mailVars>>

MonitorJoined ==
    /\ mon = "join" /\ run = "returned"
    /\ mon' = "done"
    /\ UNCHANGED <<supVars, active, caller, since, engaged, bridge, mailVars>>

(* Stop(): RequestStop if the supervisor exists, rt->active = false, join. *)
StopAdapter ==
    /\ caller = "away"
    /\ IF mon = "begin" THEN UNCHANGED supVars ELSE RequestStop
    /\ caller' = "stop"
    /\ UNCHANGED <<active, mon, since, engaged, bridge, mailVars>>

Deactivate ==
    /\ caller = "stop"
    /\ active' = FALSE
    /\ caller' = "join"
    /\ UNCHANGED <<supVars, mon, since, engaged, bridge, mailVars>>

StopJoined ==
    /\ caller = "join" /\ mon = "done"
    /\ caller' = "done"
    /\ UNCHANGED <<supVars, active, mon, since, engaged, bridge, mailVars>>

Monitor ==
    \/ MonitorBegin \/ MonitorTick \/ (\E m \in listed : PollMessage(m)) \/ PollEnds
    \/ MonitorLeaves \/ MonitorJoined

EmailNext ==
    \/ Socket \/ AuthRejected
    \/ \E m \in Mail : WsMessage(m) \/ Arrive(m)
    \/ Monitor
    \/ StopAdapter \/ Deactivate \/ StopJoined

(* What the threads do not put off for ever: what is queued on the loop or *)
(* due on it, the connect callback, the monitor's ticks, Stop's own steps. *)
LoopRuns == Socket /\ run' # run
HandshakeEnds == ws = "handshake" /\ Socket /\ ws' # ws
BackoffEnds == conn = "Backoff" /\ Socket /\ inFlight'
EmailFairness ==
    /\ WF_emailVars(LoopRuns)
    /\ WF_emailVars(HandshakeEnds)
    /\ WF_emailVars(BackoffEnds)
    /\ WF_emailVars(Monitor)
    /\ WF_emailVars(Deactivate \/ StopJoined)

-----------------------------------------------------------------------------
(* While the supervisor is neither stopped nor terminal it always has a    *)
(* way forward: a queued first Connect, one handshake in flight, an open   *)
(* socket, or a Backoff (which the watchdog leaves).  A lost flag or a     *)
(* callback of the wrong client would leave it in none of these.           *)
NeverWedged ==
    Going => \/ conn = "Connecting" /\ "connect" \in queued /\ ~inFlight
             \/ conn = "Connecting" /\ inFlight /\ ws = "handshake"
             \/ conn = "Connected" /\ ~inFlight /\ ws = "open"
             \/ conn = "Backoff" /\ ~inFlight /\ ws \in {"stopping", "closed"}

(* Dedup of e-mail across the two transports (RemainingAdapters.cpp:102):  *)
(* an event the server repeats is processed once, a pass never processes a *)
(* message twice, and never one the websocket has processed before.        *)
PollSkips == \A m \in Mail : /\ viaWs'[m] <= 1
                             /\ viaPoll'[m] > viaPoll[m] => viaWs[m] + viaPoll[m] = 0
PollAfterWsSkips == [][PollSkips]_emailVars

(* "Shared message_id dedup makes the overlap safe" (:127): no message is  *)
(* processed twice.                                                        *)
ProcessedOnce == \A m \in Mail : viaWs[m] + viaPoll[m] <= 1

(* Backoff is left, whatever timer or close event was lost (orphan heal).  *)
Retrying == Going /\ conn = "Backoff"
BackoffLeft == Retrying ~> ~Retrying

(* Stop() returns, unless RequestStop came before Run had set m_loop: the  *)
(* quit is then never queued, Run resets the flag or a second RequestStop  *)
(* finds it set, and both joins wait for ever.                             *)
Stopping == caller = "join"
Stopped == caller = "done" \/ missed
StopReturns == Stopping ~> Stopped

(* A rejected key is final: the state ends as Error, the bridge is off and *)
(* the threads are gone, though the close handler ignores m_fatal.         *)
Rejected == fatal
AllEnded == conn = "Error" /\ ~bridge /\ mon \in {"join", "done"}
TerminalIsFinal == Rejected ~> []AllEnded

EmailSpec == EmailInit /\ [][EmailNext]_emailVars /\ EmailFairness
=============================================================================
