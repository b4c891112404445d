------------------------------- MODULE NodeCalls -------------------------------
(***************************************************************************)
(* Tool calls forwarded to a remote node: src/kernel/NodeManager.cpp, the  *)
(* controller of /ws/node (admin/internal/AdminServerNodeWebSocket.inc)    *)
(* and the daemon at the other end, src/kernel/NodeDaemon.cpp.             *)
(*                                                                         *)
(* The server has one HTTP thread (AdminServer.cpp:1372): it reads every   *)
(* connection, and most of what it reads needs m_mutex, which a chain      *)
(* holds from the moment it sends a call until it is told the result.  One *)
(* node name and one token are modelled; each chain makes one call.        *)
(***************************************************************************)
EXTENDS Naturals, Sequences, SequencesExt

CONSTANTS
    Calls,          \* the chains' calls, by their call_id
    NodeSigns,      \* the daemon was given the signing key
    MaxConns, MaxBeats, MaxLists, MaxRestarts

VARIABLES
    mtx,        \* m_mutex: "free" or the call that holds it
    http,       \* what the HTTP thread is doing: Idle, or [conn, msg]
    toServer,   \* connection -> what the node sent, last "closed"
    toNode,     \* connection -> the calls sent, with whether they are signed
    reg,        \* m_nodes: the connection registered under the name, or 0
    ctxs,       \* connection -> [named, signing]: its NodeContext
    pending,    \* connection -> call -> the promise: "none", "made", "set"
    tokens,     \* [valid, signing]: m_tokensByHash, m_signingKeysByHash
    revoked,    \* the row of node_tokens
    node,       \* the daemon: [conn, registered]
    pc,         \* call -> where its chain is
    value,      \* call -> what its promise was set to
    told,       \* call -> what its chain was told
    ran,        \* the calls the node has run
    count       \* [conns, beats, lists, restarts]

nodeVars == <<mtx, http, toServer, toNode, reg, ctxs, pending, tokens, revoked, node, pc, value,
              told, ran, count>>

Conns == 1..MaxConns
Msg(op) == [op |-> op, call |-> "none", ok |-> FALSE]
Result(k, done) == [op |-> "result", call |-> k, ok |-> done]
Idle == [conn |-> 0, msg |-> Msg("none")]
Off == [conn |-> 0, registered |-> FALSE]
NoCtx == [named |-> FALSE, signing |-> FALSE]

NodeInit ==
    /\ mtx = "free" /\ http = Idle /\ reg = 0 /\ revoked = FALSE /\ node = Off /\ ran = {}
    /\ toServer = [c \in Conns |-> << >>] /\ toNode = [c \in Conns |-> << >>]
    /\ ctxs = [c \in Conns |-> NoCtx] /\ pending = [c \in Conns |-> [k \in Calls |-> "none"]]
    /\ tokens = [valid |-> TRUE, signing |-> TRUE]
    /\ pc = [k \in Calls |-> "idle"] /\ value = [k \in Calls |-> "none"]
    /\ told = [k \in Calls |-> "none"]
    /\ count = [conns |-> 0, beats |-> 0, lists |-> 0, restarts |-> 0]

Untouched == UNCHANGED <<tokens, revoked>>

-----------------------------------------------------------------------------
(* The daemon: one event loop that also runs the tools.                    *)
InitiateConnection ==
    /\ node.conn = 0 /\ count.conns < MaxConns
    /\ count' = [count EXCEPT !.conns = @ + 1]
    /\ node' = [conn |-> count'.conns, registered |-> FALSE]
    /\ toServer' = [toServer EXCEPT ![count'.conns] = <<Msg("open"), Msg("register")>>]
    /\ UNCHANGED <<mtx, http, toNode, reg, ctxs, pending, pc, value, told, ran>> /\ Untouched

SendHeartbeat ==
    /\ node.conn # 0 /\ node.registered /\ count.beats < MaxBeats
    /\ count' = [count EXCEPT !.beats = @ + 1]
    /\ toServer' = [toServer EXCEPT ![node.conn] = Append(@, Msg("heartbeat"))]
    /\ UNCHANGED <<mtx, http, toNode, reg, ctxs, pending, node, pc, value, told, ran>> /\ Untouched

(* HandleServerMessage: "registered" is noted, a call verified and run.    *)
Accepted(msg) == NodeSigns => msg.signed

HandleServerMessage ==
    LET c == node.conn
        msg == Head(toNode[c])
    IN  /\ c # 0 /\ toNode[c] # << >> /\ toNode' = [toNode EXCEPT ![c] = Tail(@)]
        /\ IF msg.call = "registered"
           THEN node' = [node EXCEPT !.registered = TRUE] /\ UNCHANGED <<toServer, ran>>
           ELSE /\ toServer' = [toServer EXCEPT ![c] = Append(@, Result(msg.call, Accepted(msg)))]
                /\ ran' = IF Accepted(msg) THEN ran \cup {msg.call} ELSE ran
                /\ UNCHANGED node
        /\ UNCHANGED <<mtx, http, reg, ctxs, pending, pc, value, told, count>> /\ Untouched

(* The connection breaks: the daemon sees it at once and will connect      *)
(* anew, the server sees it when it gets to it.                            *)
ConnectionLost ==
    /\ node.conn # 0 /\ node' = Off
    /\ toServer' = [toServer EXCEPT ![node.conn] = Append(@, Msg("closed"))]
    /\ toNode' = [toNode EXCEPT ![node.conn] = << >>]
    /\ UNCHANGED <<mtx, http, reg, ctxs, pending, pc, value, told, ran, count>> /\ Untouched

-----------------------------------------------------------------------------
(* The HTTP thread takes one message, or one request of the admin page.    *)
HttpReads(c) ==
    /\ http = Idle /\ toServer[c] # << >>
    /\ http' = [conn |-> c, msg |-> Head(toServer[c])]
    /\ toServer' = [toServer EXCEPT ![c] = Tail(@)]
    /\ UNCHANGED <<mtx, toNode, reg, ctxs, pending, node, pc, value, told, ran, count>> /\ Untouched

AdminRequest(op) ==
    /\ http = Idle /\ count.lists < MaxLists
    /\ http' = [conn |-> 0, msg |-> Msg(op)] /\ count' = [count EXCEPT !.lists = @ + 1]
    /\ UNCHANGED <<mtx, toServer, toNode, reg, ctxs, pending, node, pc, value, told, ran>>
    /\ Untouched

Doing(op) == http.msg.op = op /\ http' = Idle
Locked == mtx = "free" /\ UNCHANGED mtx
ServerOnly == UNCHANGED <<toServer, node, pc, told, ran, count>>

(* handleNewConnection: an unknown token shuts the connection down.        *)
NewConnection ==
    /\ Doing("open") /\ Locked
    /\ IF tokens.valid
       THEN ctxs' = [ctxs EXCEPT ![http.conn].signing = tokens.signing] /\ UNCHANGED <<toServer, node, toNode>>
       ELSE /\ toServer' = [toServer EXCEPT ![http.conn] = << >>] /\ toNode' = [toNode EXCEPT ![http.conn] = << >>]
            /\ node' = IF node.conn = http.conn THEN Off ELSE node
            /\ UNCHANGED ctxs
    /\ UNCHANGED <<reg, pending, pc, value, told, ran, count>> /\ Untouched

(* m_nodes goes by the name: whatever had it is replaced, or removed.      *)
RegisterNode(c) == reg' = c
RemoveNode == reg' = 0

HandleRegister ==
    /\ Doing("register") /\ Locked
    /\ ctxs' = [ctxs EXCEPT ![http.conn].named = TRUE] /\ RegisterNode(http.conn)
    /\ toNode' = IF node.conn = http.conn
                 THEN [toNode EXCEPT ![http.conn] = Append(@, [call |-> "registered", signed |-> FALSE])] ELSE toNode
    /\ UNCHANGED <<pending, value>> /\ ServerOnly /\ Untouched

UpdateNodeLastSeen ==
    /\ Doing("heartbeat") /\ Locked
    /\ UNCHANGED <<toNode, reg, ctxs, pending, value>> /\ ServerOnly /\ Untouched

(* ListNodes and ListNodesForAgent, GetNode, the token requests: they read *)
(* what the mutex guards.                                                  *)
ListNodes ==
    /\ Doing("list") /\ Locked
    /\ UNCHANGED <<toNode, reg, ctxs, pending, value>> /\ ServerOnly /\ Untouched

(* RevokeToken: the row, then the cache; a connection made stays.          *)
RevokeToken ==
    /\ Doing("revoke") /\ Locked
    /\ revoked' = TRUE /\ tokens' = [tokens EXCEPT !.valid = FALSE]
    /\ UNCHANGED <<toNode, reg, ctxs, pending, value>> /\ ServerOnly

(* HandleToolResult needs pendingMutex only.                               *)
Matches_Any(c, k) == \E x \in Calls : x = k /\ pending[c][x] = "made"

Matches(c, k) == k = http.msg.call /\ pending[c][k] = "made"

HandleToolResult ==
    /\ Doing("result")
    /\ LET hit == {k \in Calls : Matches(http.conn, k)}
       IN  /\ value' = [k \in Calls |-> IF k \in hit THEN IF http.msg.ok THEN "ok" ELSE "refused" ELSE value[k]]
           /\ pending' = [pending EXCEPT ![http.conn] = [k \in Calls |-> IF k \in hit THEN "set" ELSE @[k]]]
    /\ UNCHANGED <<mtx, toNode, reg, ctxs>> /\ ServerOnly /\ Untouched

(* handleConnectionClosed: RemoveNode by name, then fail what is pending.  *)
HandleConnectionClosed ==
    LET open == {k \in Calls : pending[http.conn][k] = "made"}
    IN  /\ Doing("closed") /\ Locked
        /\ IF ctxs[http.conn].named THEN RemoveNode ELSE UNCHANGED reg
        /\ value' = [k \in Calls |-> IF k \in open THEN "disconnected" ELSE value[k]]
        /\ pending' = [pending EXCEPT ![http.conn] = [k \in Calls |-> IF k \in open THEN "set" ELSE @[k]]]
        /\ UNCHANGED <<toNode, ctxs>> /\ ServerOnly /\ Untouched

HttpRuns ==
    \/ NewConnection \/ HandleRegister \/ UpdateNodeLastSeen \/ ListNodes \/ RevokeToken
    \/ HandleToolResult \/ HandleConnectionClosed

-----------------------------------------------------------------------------
(* ExecuteOnNode: m_mutex is held until the call returns.                  *)
Tell(k, what) ==
    /\ told' = [told EXCEPT ![k] = what] /\ pc' = [pc EXCEPT ![k] = "done"] /\ mtx' = "free"

ExecuteOnNode(k) ==
    /\ pc[k] = "idle" /\ mtx = "free"
    /\ IF reg = 0 THEN Tell(k, "not connected") /\ UNCHANGED <<toNode, pending>>
       ELSE /\ mtx' = k /\ pc' = [pc EXCEPT ![k] = "sent"] /\ UNCHANGED told
            /\ pending' = [pending EXCEPT ![reg][k] = "made"]
            /\ toNode' = IF node.conn # reg THEN toNode
                         ELSE [toNode EXCEPT ![reg] = Append(@, [call |-> k, signed |-> ctxs[reg].signing])]
    /\ UNCHANGED <<http, toServer, reg, ctxs, node, value, ran, count>> /\ Untouched

OfCall(k) == CHOOSE c \in Conns : pending[c][k] # "none"

(* get_future after the send, on a reference into the map: when the result *)
(* has come meanwhile its entry, and the promise with it, is gone.         *)
GetFuture(k) ==
    /\ pc[k] = "sent"
    /\ IF pending[OfCall(k)][k] = "made"
       THEN pc' = [pc EXCEPT ![k] = "waiting"] /\ UNCHANGED <<told, mtx>>
       ELSE \E what \in {value[k], "no state"} : Tell(k, what)
    /\ UNCHANGED <<http, toServer, toNode, reg, ctxs, pending, node, value, ran, count>>
    /\ Untouched

ResultComes(k) ==
    /\ pc[k] = "waiting" /\ value[k] # "none" /\ Tell(k, value[k])
    /\ UNCHANGED <<http, toServer, toNode, reg, ctxs, pending, node, value, ran, count>>
    /\ Untouched

(* 30 s: the promise is erased, unless it was set a moment before.         *)
WaitTimesOut_Never(k) == FALSE /\ UNCHANGED nodeVars

WaitTimesOut(k) ==
    /\ pc[k] = "waiting" /\ value[k] = "none"
    /\ pending' = [pending EXCEPT ![OfCall(k)][k] = "set"] /\ Tell(k, "timeout")
    /\ UNCHANGED <<http, toServer, toNode, reg, ctxs, node, value, ran, count>> /\ Untouched

(* The server restarts: LoadTokens reads the tokens that are not revoked;  *)
(* signing keys are not stored.                                            *)
Restart ==
    /\ count.restarts < MaxRestarts /\ \A k \in Calls : pc[k] \in {"idle", "done"}
    /\ count' = [count EXCEPT !.restarts = @ + 1]
    /\ tokens' = [valid |-> ~revoked, signing |-> FALSE]
    /\ http' = Idle /\ reg' = 0 /\ node' = Off
    /\ toServer' = [c \in Conns |-> << >>] /\ toNode' = [c \in Conns |-> << >>]
    /\ ctxs' = [c \in Conns |-> NoCtx]
    /\ UNCHANGED <<mtx, pending, revoked, pc, value, told, ran>>

NodeNext ==
    \/ InitiateConnection \/ SendHeartbeat \/ HandleServerMessage \/ ConnectionLost
    \/ \E c \in Conns : HttpReads(c)
    \/ \E op \in {"list", "revoke"} : AdminRequest(op)
    \/ HttpRuns \/ Restart
    \/ \E k \in Calls : ExecuteOnNode(k) \/ GetFuture(k) \/ ResultComes(k) \/ WaitTimesOut(k)

(* Threads run, timers expire and messages are read; connections need not  *)
(* break and admins need not ask.  With finitely many calls the mutex is   *)
(* free for good in the end.                                               *)
ChainRuns(k) == GetFuture(k) \/ ResultComes(k) \/ WaitTimesOut(k)

NodeFairness ==
    /\ WF_nodeVars(HttpRuns) /\ \A c \in Conns : WF_nodeVars(HttpReads(c))
    /\ WF_nodeVars(HandleServerMessage)
    /\ \A k \in Calls : WF_nodeVars(ChainRuns(k)) /\ WF_nodeVars(ExecuteOnNode(k))

NodeSpec == NodeInit /\ [][NodeNext]_nodeVars /\ NodeFairness

-----------------------------------------------------------------------------
(* A chain that is told its call succeeded had that very call run, and one *)
(* told that there was no node, or that the node refused, had not: late    *)
(* results, reconnects and calls of other chains never answer it.          *)
ToldIsRan ==
    \A k \in Calls : /\ told[k] = "ok" => k \in ran
                     /\ told[k] \in {"not connected", "refused"} => k \notin ran

(* Every call returns and the HTTP thread is never held for good, though   *)
(* the thread that would bring the result waits for the mutex the call     *)
(* holds: only the 30 s end it.                                            *)
Calling(k) == pc[k] \notin {"idle", "done"}
HttpHeld == http # Idle
CallsReturn == (\A k \in Calls : Calling(k) ~> ~Calling(k)) /\ (HttpHeld ~> ~HttpHeld)

(* Holds, against "Fail any pending tool calls" (AdminServerNodeWebSocket  *)
(* .inc:150): RemoveNode waits for the pending call, so none is left to    *)
(* fail and a call whose connection is gone waits out its 30 s.            *)
LossIsNeverTold == \A k \in Calls : value[k] # "disconnected"

(* Violated: a call is answered when its node answers.  A heartbeat read   *)
(* before the result waits for the mutex, and the call times out.          *)
TimeoutOnlyUnanswered ==
    \A k \in Calls : told[k] = "timeout" =>
        \A c \in Conns : \A i \in DOMAIN toServer[c] : toServer[c][i] # Result(k, TRUE)

(* Violated: a registered daemon is registered.  The server may see the    *)
(* old connection close after the new one has registered, and RemoveNode   *)
(* goes by name.                                                           *)
RegisteredIsKnown ==
    (node.registered /\ http = Idle /\ \A c \in Conns : toServer[c] = << >>) => reg = node.conn

(* Violated: a node that verifies runs what it is sent (README.md:387).    *)
(* The signing key is not stored, and after a restart nothing is signed.   *)
VerifiedIsRun == \A k \in Calls : told[k] # "refused"

(* Violated: the promise outlives the wait.                                *)
FutureHasState == \A k \in Calls : told[k] # "no state"
================================================================================
