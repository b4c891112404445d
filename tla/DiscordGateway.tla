--------------------------- MODULE DiscordGateway ---------------------------
(***************************************************************************)
(* src/kernel/DiscordGatewayLoop.cpp: the reconnect loop around one event  *)
(* loop and one websocket client per connection, the gateway protocol      *)
(* (hello, identify or resume, dispatch, heartbeat, invalid session) and   *)
(* the dedup of messages that a resumed session replays.                   *)
(*                                                                         *)
(* The service numbers the events of a session from 1 (READY); on a resume *)
(* it sends again from the number it is given, or from an earlier one.     *)
(* The client library may reconnect a closed socket by itself, but not one *)
(* that was stopped.                                                       *)
(***************************************************************************)
EXTENDS Naturals, Sequences, SequencesExt, FiniteSetsExt

CONSTANTS
    Posts,          \* messages users may post (numbered in order of their ids)
    MaxSessions,    \* bound: sessions the service opens
    MaxDrops,       \* bound: connections that end
    MaxErrors,      \* 5 failed connects stop the loop
    MaxStale,       \* 3 stale checks force a reconnect
    SeenLimit       \* 500 remembered message ids

VARIABLES
    active,     \* state->active
    loop,       \* "top" (between connections), "run", "left" (after loop.loop()), "gone"
    sock,       \* "none", "handshake", "open", "hello" (identify or resume sent),
                \* "live", "closed" (the library may reconnect), "stopped"
    up,         \* state->ws_connected
    alive, reconnect, acked,    \* gatewayAlive, shouldReconnect, heartbeatAcked
    errors,     \* state->consecutive_errors
    session, identified, lastSeq,   \* kept across connections (0: no session)
    quits,      \* the 2s timer of INVALID_SESSION is pending
    heard,      \* seenEventStrIds
    server,     \* the service: its session, sessions opened, the session's events,
                \* the number of the event to send next
    processed,  \* history: message -> times handed over
    drops

gwVars == <<active, loop, sock, up, alive, reconnect, acked, errors, session, identified,
            lastSeq, quits, heard, server, processed, drops>>
service == <<server, drops>>

GwInit ==
    /\ active = TRUE /\ loop = "top" /\ sock = "none" /\ up = FALSE
    /\ alive = TRUE /\ reconnect = FALSE /\ acked = TRUE /\ errors = 0
    /\ session = 0 /\ identified = FALSE /\ lastSeq = 0
    /\ quits = FALSE /\ heard = {}
    /\ server = [session |-> 0, opened |-> 0, log |-> <<>>, next |-> 1]
    /\ processed = [m \in Posts |-> 0] /\ drops = 0

Running == loop = "run"

(* The top of the reconnect loop: the url (a failed request is retried),   *)
(* a client, the per-connection flags, connectToServer.                    *)
StartConnection ==
    /\ loop = "top" /\ active
    /\ loop' = "run" /\ sock' = "handshake"
    /\ alive' = TRUE /\ reconnect' = FALSE /\ acked' = TRUE /\ quits' = FALSE
    /\ UNCHANGED <<active, up, errors, session, identified, lastSeq, heard, processed, service>>

(* The connect callback.                                                   *)
ConnectFails ==
    /\ Running /\ sock = "handshake"
    /\ errors' = errors + 1
    /\ active' = (active /\ errors' < MaxErrors)
    /\ up' = FALSE /\ alive' = FALSE /\ reconnect' = TRUE
    /\ loop' = "left" /\ sock' = "stopped"
    /\ UNCHANGED <<acked, session, identified, lastSeq, quits, heard, processed, service>>

Connected ==
    /\ Running /\ sock = "handshake"
    /\ sock' = "open" /\ errors' = 0
    /\ UNCHANGED <<active, loop, up, alive, reconnect, acked, session, identified, lastSeq,
                   quits, heard, processed, service>>

(* HELLO: the first heartbeat is scheduled, then RESUME with the last      *)
(* number if the session was identified, IDENTIFY otherwise.  The service  *)
(* answers a resume of its session by sending again from at most the next  *)
(* number, an identify by a new session.                                   *)
Hello ==
    /\ Running /\ sock = "open"
    /\ sock' = "hello"
    /\ IF session # 0 /\ identified
         THEN \/ session = server.session /\ server' \in {[server EXCEPT !.next = n] : n \in 2..(lastSeq + 1)}
              \/ server' = [server EXCEPT !.session = 0]
         ELSE \/ server.opened < MaxSessions
                 /\ server' = [session |-> server.opened + 1, opened |-> server.opened + 1,
                               log |-> <<0>>, next |-> 1]
              \/ server' = [server EXCEPT !.session = 0]
    /\ UNCHANGED <<active, loop, up, alive, reconnect, acked, errors, session, identified,
                   lastSeq, quits, heard, processed, drops>>

(* DISPATCH of READY.                                                      *)
Ready ==
    /\ Running /\ sock = "hello" /\ server.session # 0 /\ server.next = 1
    /\ session' = server.session /\ identified' = TRUE /\ lastSeq' = 1
    /\ up' = TRUE /\ errors' = 0 /\ sock' = "live"
    /\ server' = [server EXCEPT !.next = 2]
    /\ UNCHANGED <<active, loop, alive, reconnect, acked, quits, heard, processed, drops>>

Remember(m) ==
    LET all == heard \cup {m}
    IN IF Cardinality(all) > SeenLimit THEN all \ {Min(all)} ELSE all

MessageCreate_NoDedup(m) ==
    /\ heard' = Remember(m)
    /\ processed' = [processed EXCEPT ![m] = @ + 1]

(* MESSAGE_CREATE: dedup by message id, the cache drops its smallest id;   *)
(* then the routing decision and the hand-over to the session.             *)
MessageCreate(m) ==
    IF m \in heard THEN UNCHANGED <<heard, processed>>
    ELSE /\ heard' = Remember(m)
         /\ processed' = [processed EXCEPT ![m] = @ + 1]

(* DISPATCH of the next message (RESUMED, guild and thread events change   *)
(* only the name caches).  The number is taken over before anything else.  *)
Dispatch ==
    /\ Running /\ sock \in {"hello", "live"} /\ server.session # 0
    /\ server.next \in 2..Len(server.log)
    /\ lastSeq' = server.next
    /\ MessageCreate(server.log[server.next])
    /\ server' = [server EXCEPT !.next = @ + 1]
    /\ UNCHANGED <<active, loop, sock, up, alive, reconnect, acked, errors, session, identified,
                   quits, drops>>

(* INVALID_SESSION, not resumable: the session is forgotten (lastSeq is    *)
(* not), and the loop is left after two seconds.                           *)
InvalidSession ==
    /\ Running /\ sock \in {"hello", "live"} /\ server.session = 0
    /\ session' = 0 /\ identified' = FALSE
    /\ reconnect' = TRUE /\ alive' = FALSE /\ quits' = TRUE
    /\ UNCHANGED <<active, loop, sock, up, acked, errors, lastSeq, heard, processed, service>>

QuitTimer ==
    /\ Running /\ quits
    /\ loop' = "left" /\ quits' = FALSE
    /\ UNCHANGED <<active, sock, up, alive, reconnect, acked, errors, session, identified,
                   lastSeq, heard, processed, service>>

(* RECONNECT.                                                              *)
ReconnectAsked ==
    /\ Running /\ sock \in {"hello", "live"} /\ drops < MaxDrops
    /\ reconnect' = TRUE /\ alive' = FALSE /\ loop' = "left" /\ drops' = drops + 1
    /\ UNCHANGED <<active, sock, up, acked, errors, session, identified, lastSeq, quits, heard,
                   server, processed>>

(* The heartbeat timers send only while gatewayAlive; one that finds the   *)
(* last beat unacknowledged stops the client, and leaves the loop running. *)
Heartbeat ==
    /\ Running /\ alive /\ sock \in {"hello", "live"}
    /\ IF acked THEN acked' = FALSE /\ UNCHANGED <<alive, sock>>
                ELSE alive' = FALSE /\ sock' = "stopped" /\ UNCHANGED acked
    /\ UNCHANGED <<active, loop, up, reconnect, errors, session, identified, lastSeq, quits,
                   heard, processed, service>>

HeartbeatAck ==
    /\ Running /\ sock \in {"hello", "live"} /\ ~acked
    /\ acked' = TRUE
    /\ UNCHANGED <<active, loop, sock, up, alive, reconnect, errors, session, identified,
                   lastSeq, quits, heard, processed, service>>

(* The close handler: it marks the reconnect and does not quit the loop.   *)
Closed ==
    /\ Running /\ sock \in {"open", "hello", "live"} /\ drops < MaxDrops
    /\ sock' = "closed" /\ drops' = drops + 1
    /\ up' = FALSE /\ alive' = FALSE /\ reconnect' = (reconnect \/ active)
    /\ UNCHANGED <<active, loop, acked, errors, session, identified, lastSeq, quits, heard,
                   server, processed>>

LibraryReconnects ==
    /\ Running /\ sock = "closed"
    /\ sock' = "handshake"
    /\ UNCHANGED <<active, loop, up, alive, reconnect, acked, errors, session, identified,
                   lastSeq, quits, heard, processed, service>>

(* The 5s check: shutdown, and a connection without events for minutes.    *)
Check ==
    /\ Running
    /\ \/ /\ ~active /\ alive' = FALSE /\ loop' = "left"
          /\ UNCHANGED <<up, reconnect, errors>>
       \/ /\ active /\ up /\ alive
          /\ IF errors + 1 >= MaxStale
               THEN up' = FALSE /\ alive' = FALSE /\ reconnect' = TRUE /\ errors' = 0 /\ loop' = "left"
               ELSE errors' = errors + 1 /\ UNCHANGED <<up, alive, reconnect, loop>>
    /\ UNCHANGED <<active, sock, acked, session, identified, lastSeq, quits, heard, processed,
                   service>>

(* After loop.loop(): the connection is closed and the client stopped      *)
(* before the next cycle or the end.                                       *)
Teardown ==
    /\ loop = "left"
    /\ sock' = "none"
    /\ up' = IF sock \in {"open", "hello", "live"} THEN FALSE ELSE up
    /\ loop' = IF reconnect /\ active THEN "top" ELSE "gone"
    /\ UNCHANGED <<active, alive, reconnect, acked, errors, session, identified, lastSeq,
                   quits, heard, processed, service>>

EndsAtTop ==
    /\ loop = "top" /\ ~active
    /\ loop' = "gone"
    /\ UNCHANGED <<active, sock, up, alive, reconnect, acked, errors, session, identified,
                   lastSeq, quits, heard, processed, service>>

(* Stop() of the adapter.                                                  *)
StopGateway ==
    /\ active /\ active' = FALSE
    /\ UNCHANGED <<loop, sock, up, alive, reconnect, acked, errors, session, identified,
                   lastSeq, quits, heard, processed, service>>

(* A user posts: the service logs it for the session it has.               *)
UserPosts(m) ==
    /\ server.session # 0 /\ ~Contains(server.log, m)
    /\ processed[m] = 0 /\ \A n \in Posts : n < m => processed[n] > 0 \/ Contains(server.log, n)
    /\ server' = [server EXCEPT !.log = Append(@, m)]
    /\ UNCHANGED <<active, loop, sock, up, alive, reconnect, acked, errors, session, identified,
                   lastSeq, quits, heard, processed, drops>>

GwNext ==
    \/ StartConnection \/ ConnectFails \/ Connected \/ Hello \/ Ready \/ Dispatch
    \/ InvalidSession \/ QuitTimer \/ ReconnectAsked \/ Heartbeat \/ HeartbeatAck
    \/ Closed \/ LibraryReconnects \/ Check \/ Teardown \/ EndsAtTop \/ StopGateway
    \/ \E m \in Posts : UserPosts(m)

GwFairness ==
    /\ WF_gwVars(StartConnection \/ Teardown \/ EndsAtTop \/ QuitTimer)
    /\ WF_gwVars(Connected) /\ WF_gwVars(Hello \/ Ready \/ InvalidSession)
    /\ WF_gwVars(Check)

-----------------------------------------------------------------------------
(* Every event of the session up to the number that a RESUME would send    *)
(* was handed to the agent exactly once, over any number of connections,   *)
(* replays and new sessions (the cache holds all ids here).                *)
ResumesWhereItStopped ==
    /\ session # 0 /\ session = server.session /\ identified =>
         \A i \in 2..lastSeq : processed[server.log[i]] = 1
    /\ \A m \in Posts : processed[m] <= 1

(* "Mark for reconnect and quit the loop" (DiscordGatewayLoop.cpp:683): a  *)
(* connection marked for reconnect is given up for a new one.              *)
MarkedIsLeft == (Running /\ reconnect /\ active) ~> (~Running \/ ~active)

GwSpec == GwInit /\ [][GwNext]_gwVars /\ GwFairness
=============================================================================
