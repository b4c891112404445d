---------------------------- MODULE IrcInterface -----------------------------
(***************************************************************************)
(* One IRC connection, and the registry that starts and stops them. Each   *)
(* has a specification of its own.                                         *)
(***************************************************************************)
EXTENDS Naturals, Sequences, FiniteSets

(***************************************************************************)
(* IrcInterfaceRuntime (IrcInterface.cpp): the reconnecting run loop of an *)
(* IRC channel, registration, the lines of the server, replies sent from   *)
(* other threads in chunks, and Stop, which closes the socket under the    *)
(* loop's feet and joins the thread.                                       *)
(*                                                                         *)
(* A socket is a number; sockets 1 .. MaxDials are opened in turn.  A line *)
(* is its kind.  TLS is an instance parameter.                             *)
(***************************************************************************)

CONSTANTS
    Channels,       \* m_config.channels
    UseTls,         \* m_config.useTls
    Reconnect,      \* m_config.reconnectEnabled
    Chunks,         \* pieces of 380 bytes a reply is cut into
    MaxDials        \* bound: sockets opened; the last one does not fail

VARIABLES
    loop,           \* the thread: "none", "dial", "tls", "register", "recv", "report", "wait", "ended"
    stopReq,        \* m_stopRequested
    stopper,        \* the caller of Stop: "idle", "join", "done"
    fd,             \* m_socket, 0 for -1
    mine,           \* connectedFd, the local of Connect
    open,           \* sockets the process has not closed
    twice,          \* history: sockets closed after they had been closed
    welcomed,       \* sockets the server has sent 001 on
    joined,         \* the local `joined` of ConnectAndRun
    inside,         \* channels the server has us in, on the current socket
    status,         \* last ReportStatus
    saying,         \* chunks SendPrivmsg still has to send, 0: no call
    unheard         \* history: chunks SendRaw took for a socket the server had not welcomed

ircVars == <<loop, stopReq, stopper, fd, mine, open, twice, welcomed, joined, inside, status,
             saying, unheard>>

IrcInit ==
    /\ loop = "none" /\ stopReq = FALSE /\ stopper = "idle"
    /\ fd = 0 /\ mine = 0 /\ open = {} /\ twice = {} /\ welcomed = {}
    /\ joined = FALSE /\ inside = {} /\ status = FALSE /\ saying = 0 /\ unheard = 0

Start ==
    /\ loop = "none" /\ stopper = "idle"
    /\ loop' = "dial" /\ stopReq' = FALSE
    /\ UNCHANGED <<stopper, fd, mine, open, twice, welcomed, joined, inside, status, saying,
                   unheard>>

Close(s) ==
    /\ open' = open \ {s}
    /\ twice' = IF s \in open THEN twice ELSE twice \cup {s}

(* m_socket.exchange(-1): whoever gets the descriptor closes it.           *)
CloseSocket ==
    /\ fd' = 0
    /\ IF fd = 0 THEN UNCHANGED <<open, twice>> ELSE Close(fd)

MayFail == mine < MaxDials

(* Name lookup and the addresses in turn; stop is looked at in every wait. *)
DialFails ==
    /\ loop = "dial" /\ (stopReq \/ mine + 1 < MaxDials)
    /\ mine' = IF stopReq THEN mine ELSE mine + 1
    /\ loop' = "report"
    /\ UNCHANGED <<stopReq, stopper, fd, open, twice, welcomed, joined, inside, status, saying,
                   unheard>>

DialConnects ==
    /\ loop = "dial" /\ ~stopReq /\ mine < MaxDials
    /\ mine' = mine + 1 /\ open' = open \cup {mine'} /\ fd' = mine'
    /\ inside' = {}
    /\ loop' = IF UseTls THEN "tls" ELSE "register"
    /\ UNCHANGED <<stopReq, stopper, twice, welcomed, joined, status, saying, unheard>>

(* The handshake gives up at 15s, on an error or on stop, and closes its   *)
(* own descriptor whether or not Stop has closed it.                       *)
HandshakeEnds ==
    /\ loop = "tls"
    /\ \/ ~stopReq /\ loop' = "register" /\ UNCHANGED <<fd, open, twice>>
       \/ (stopReq \/ MayFail) /\ loop' = "report" /\ Close(mine) /\ fd' = 0
    /\ UNCHANGED <<stopReq, stopper, mine, welcomed, joined, inside, status, saying, unheard>>

(* PASS, NICK, USER.  A send that fails leaves without closing the socket. *)
Register ==
    /\ loop = "register"
    /\ \/ fd # 0 /\ loop' = "recv" /\ joined' = FALSE
       \/ (fd = 0 \/ MayFail) /\ loop' = "report" /\ UNCHANGED joined
    /\ UNCHANGED <<stopReq, stopper, fd, mine, open, twice, welcomed, inside, status, saying,
                   unheard>>

HandleLine_JoinedKept ==
    /\ loop = "recv" /\ ~stopReq /\ fd # 0
    /\ IF welcomed = {}
         THEN joined' = TRUE /\ inside' = Channels /\ status' = TRUE
         ELSE UNCHANGED <<joined, inside, status>>
    /\ welcomed' = welcomed \cup {fd}
    /\ UNCHANGED <<loop, stopReq, stopper, fd, mine, open, twice, saying, unheard>>

(* 001: every configured channel is joined and the status reported, once   *)
(* per connection.  PING, PRIVMSG and the other lines leave this state     *)
(* alone.                                                                  *)
HandleLine ==
    /\ loop = "recv" /\ ~stopReq /\ fd # 0
    /\ IF joined
         THEN UNCHANGED <<joined, inside, status>>
         ELSE joined' = TRUE /\ inside' = Channels /\ status' = TRUE
    /\ welcomed' = welcomed \cup {fd}
    /\ UNCHANGED <<loop, stopReq, stopper, fd, mine, open, twice, saying, unheard>>

(* The receive loop is left: stop, the descriptor gone, or an error.       *)
ReceiveEnds ==
    /\ loop = "recv" /\ (stopReq \/ fd = 0 \/ MayFail)
    /\ CloseSocket
    /\ loop' = "report" /\ inside' = {}
    /\ UNCHANGED <<stopReq, stopper, mine, welcomed, joined, status, saying, unheard>>

(* ConnectAndRun always answers false, so every end is reported.           *)
Report ==
    /\ loop = "report"
    /\ status' = FALSE
    /\ loop' = IF stopReq \/ ~Reconnect THEN "ended" ELSE "wait"
    /\ UNCHANGED <<stopReq, stopper, fd, mine, open, twice, welcomed, joined, inside, saying,
                   unheard>>

Wait ==
    /\ loop = "wait"
    /\ loop' = IF stopReq THEN "ended" ELSE "dial"
    /\ UNCHANGED <<stopReq, stopper, fd, mine, open, twice, welcomed, joined, inside, status,
                   saying, unheard>>

StopBegins ==
    /\ stopper = "idle" /\ loop # "none"
    /\ stopReq' = TRUE /\ stopper' = "join"
    /\ CloseSocket
    /\ inside' = {}
    /\ UNCHANGED <<loop, mine, welcomed, joined, status, saying, unheard>>

StopJoins ==
    /\ stopper = "join" /\ loop = "ended"
    /\ stopper' = "done"
    /\ UNCHANGED <<loop, stopReq, fd, mine, open, twice, welcomed, joined, inside, status, saying,
                   unheard>>

(* A reply of the agent: one SendRaw per chunk, the first that fails ends  *)
(* the call.  The socket may be another one, not welcomed yet, by the next *)
(* chunk.                                                                  *)
SendPrivmsg ==
    /\ saying = 0 /\ status /\ unheard = 0
    /\ saying' = Chunks
    /\ UNCHANGED <<loop, stopReq, stopper, fd, mine, open, twice, welcomed, joined, inside,
                   status, unheard>>

SendChunk ==
    /\ saying > 0
    /\ saying' = IF fd = 0 THEN 0 ELSE saying - 1
    /\ unheard' = IF fd # 0 /\ fd \notin welcomed THEN unheard + 1 ELSE unheard
    /\ UNCHANGED <<loop, stopReq, stopper, fd, mine, open, twice, welcomed, joined, inside, status>>

(* Join and Part: an operator changes the membership by hand.              *)
Join(c) ==
    /\ fd # 0 /\ fd \in welcomed /\ c \notin inside
    /\ inside' = inside \cup {c}
    /\ UNCHANGED <<loop, stopReq, stopper, fd, mine, open, twice, welcomed, joined, status,
                   saying, unheard>>

Part(c) ==
    /\ fd # 0 /\ fd \in welcomed /\ c \in inside
    /\ inside' = inside \ {c}
    /\ UNCHANGED <<loop, stopReq, stopper, fd, mine, open, twice, welcomed, joined, status,
                   saying, unheard>>

IrcThread ==
    DialFails \/ DialConnects \/ HandshakeEnds \/ Register \/ ReceiveEnds \/ Report \/ Wait

IrcNext ==
    \/ Start \/ IrcThread \/ HandleLine \/ StopBegins \/ StopJoins \/ SendPrivmsg \/ SendChunk
    \/ \E c \in Channels : Join(c) \/ Part(c)

(* The thread is scheduled, a server that took the connection welcomes it, *)
(* and dialling succeeds once failures have run out.                       *)
IrcFairness ==
    WF_ircVars(IrcThread) /\ WF_ircVars(HandleLine) /\ WF_ircVars(StopJoins)

IrcSpec == IrcInit /\ [][IrcNext]_ircVars /\ IrcFairness

-----------------------------------------------------------------------------
(* "the thread checks m_stopRequested every 1-2 seconds, so join completes *)
(* quickly" (IrcInterface.cpp:134): Stop returns from wherever it finds    *)
(* the loop.                                                               *)
Stopping == stopper = "join"
IrcStopReturns == Stopping ~> (stopper = "done")

(* Being registered is the state the loop returns to after every lost      *)
(* connection, for as long as nobody stops it and it may reconnect.        *)
Away == loop # "none" /\ Reconnect /\ ~(status \/ stopReq)
IrcComesBack == Away ~> ~Away

(* A status of "connected" is of a connection the server welcomed, from    *)
(* 001 until the end of that connection is reported.                       *)
StatusIsOfThisConnection ==
    status => mine \in welcomed /\ loop \in {"recv", "report"}

(* No descriptor is closed twice.  The code does not keep this: Stop and   *)
(* the handshake both close it.                                            *)
ClosedOnce == twice = {}

(* A connection that was given up is closed.  The code does not keep this: *)
(* a failed NICK leaves the socket open and the next dial overwrites it.   *)
NoneLeaked == open \subseteq {mine}

-----------------------------------------------------------------------------
(***************************************************************************)
(* src/kernel/admin/InterfaceManager.cpp: the interfaces the admin         *)
(* configures, the file they are kept in, and the IRC connections that     *)
(* SyncIrcInterfaces starts and stops to follow the configuration.         *)
(*                                                                         *)
(* Who runs at once: the thread of the HTTP server (there is one,          *)
(* AdminServer.cpp:1372), the thread of AdminServer::Start, which syncs    *)
(* once when the server is already up, the thread of each connection,      *)
(* which reports its status, and the jobs that answer a message.           *)
(*                                                                         *)
(* All interfaces are of type irc.  A configuration is numbered by the     *)
(* edit that made it; its secret is what was typed, or the mask the API    *)
(* shows instead.  A connection is numbered by its creation.               *)
(***************************************************************************)

CONSTANTS
    Names,
    MaxEdits, MaxStarts, MaxMessages, MaxBoots

VARIABLES
    iface,          \* m_interfacesByName: name -> [enabled, connected, config, secret]
    disk,           \* the file: name -> [enabled, config, secret]
    conn,           \* m_ircInterfaces: name -> number of the connection
    live,           \* number -> [name, config, running]
    todo,           \* thread -> the rest of its sync, or what it does next
    early,          \* a request changed something while the first sync ran
    edits, jobs, sent, boots

ifVars == <<iface, disk, conn, live, todo, early, edits, jobs, sent, boots>>

KernelThreads == {"main", "http"}
Idle == [pc |-> "idle"]
Mask == 0
Known == DOMAIN iface
Running == {n \in DOMAIN live : live[n].running}

IfInit ==
    /\ iface = << >> /\ disk = << >> /\ conn = << >> /\ live = << >> /\ boots = 0
    /\ todo = [t \in KernelThreads |-> IF t = "main" THEN [pc |-> "sync"] ELSE Idle]
    /\ early = FALSE /\ edits = 0 /\ jobs = {} /\ sent = {}

With(f, x, v) == [y \in DOMAIN f \cup {x} |-> IF y = x THEN v ELSE f[y]]
Less(f, x) == [y \in DOMAIN f \ {x} |-> f[y]]
Go(t, r) == todo' = [todo EXCEPT ![t] = r]
Syncing(t) == todo[t] # Idle

Request(next) ==
    /\ todo["http"] = Idle /\ edits < MaxEdits /\ edits' = edits + 1
    /\ Go("http", [pc |-> next]) /\ early' = (early \/ Syncing("main"))
    /\ UNCHANGED <<disk, conn, live, jobs, sent, boots>>

-----------------------------------------------------------------------------
(* The routes change the map, save, and sync; delete syncs before it       *)
(* saves.  A configuration is validated before.                            *)
CreateInterface(n, on) ==
    /\ n \notin Known /\ Request("save")
    /\ iface' = With(iface, n,
                     [enabled |-> on, connected |-> FALSE, config |-> edits + 1,
                      secret |-> edits + 1])

(* NormalizeUpdatedConfig: a secret that is the mask of the stored one     *)
(* stands for it (RestoreMaskedSecrets).                                   *)
RestoreMaskedSecrets_Not(typed, stored) == typed

RestoreMaskedSecrets(typed, stored) == IF typed = Mask THEN stored ELSE typed

UpdateInterfaceConfig(n, typed) ==
    /\ n \in Known /\ Request("save")
    /\ iface' = [iface EXCEPT ![n].config = edits + 1, ![n].secret = RestoreMaskedSecrets(typed, @)]

SetInterfaceEnabled(n, on) ==
    /\ n \in Known /\ iface[n].enabled # on /\ Request("save")
    /\ iface' = [iface EXCEPT ![n].enabled = on, ![n].connected = FALSE]

DeleteInterface(n) ==
    /\ n \in Known /\ Request("sync_save")
    /\ iface' = Less(iface, n)

(* SaveToDisk; one that fails ends the request with an error, without a    *)
(* sync.                                                                   *)
SaveToDisk ==
    /\ todo["http"].pc \in {"save", "save_last"}
    /\ disk' = [n \in Known |-> [enabled |-> iface[n].enabled, config |-> iface[n].config,
                                 secret |-> iface[n].secret]]
    /\ Go("http", IF todo["http"].pc = "save" THEN [pc |-> "sync"] ELSE Idle)
    /\ UNCHANGED <<iface, conn, live, early, edits, jobs, sent, boots>>

-----------------------------------------------------------------------------
(* SyncIrcInterfaces: a copy of the interfaces, then the names of the      *)
(* connections, then one interface after the other.                        *)
Leftover_None(wanted) == {}

Leftover(wanted) == DOMAIN conn \ wanted

SyncCopies(t) ==
    /\ todo[t].pc \in {"sync", "sync_save"}
    /\ Go(t, [pc |-> "stop", wanted |-> [n \in Known |-> iface[n]],
              names |-> Leftover(Known), rest |-> Known,
              then |-> IF todo[t].pc = "sync" THEN Idle ELSE [pc |-> "save_last"]])
    /\ UNCHANGED <<iface, disk, conn, live, early, edits, jobs, sent, boots>>

(* StopIrcInterfaceLocked: out of the map, then Stop joins the thread.     *)
Stopped(n) ==
    IF n \in DOMAIN conn THEN conn' = Less(conn, n) /\ live' = [live EXCEPT ![conn[n]].running = FALSE]
    ELSE UNCHANGED <<conn, live>>

SyncStops(t, n) ==
    /\ todo[t].pc = "stop" /\ n \in todo[t].names
    /\ Stopped(n) /\ Go(t, [todo[t] EXCEPT !.names = @ \ {n}])
    /\ UNCHANGED <<iface, disk, early, edits, jobs, sent, boots>>

SyncDisables(t, n) ==
    /\ todo[t].pc = "stop" /\ todo[t].names = {} /\ n \in todo[t].rest /\ ~todo[t].wanted[n].enabled
    /\ Stopped(n) /\ Go(t, [todo[t] EXCEPT !.rest = @ \ {n}])
    /\ UNCHANGED <<iface, disk, early, edits, jobs, sent, boots>>

SyncSkips(t, n) ==
    /\ todo[t].pc = "stop" /\ todo[t].names = {} /\ n \in todo[t].rest
    /\ todo[t].wanted[n].enabled /\ n \in DOMAIN conn
    /\ Go(t, [todo[t] EXCEPT !.rest = @ \ {n}])
    /\ UNCHANGED <<iface, disk, conn, live, early, edits, jobs, sent, boots>>

(* StartIrcInterfaceLocked, with the configuration of the copy.            *)
StartIrcInterface(t, n) ==
    /\ todo[t].pc = "stop" /\ todo[t].names = {} /\ n \in todo[t].rest
    /\ todo[t].wanted[n].enabled /\ n \notin DOMAIN conn /\ Len(live) < MaxStarts
    /\ live' = Append(live, [name |-> n, config |-> todo[t].wanted[n].config, running |-> TRUE])
    /\ conn' = With(conn, n, Len(live) + 1)
    /\ Go(t, [todo[t] EXCEPT !.rest = @ \ {n}])
    /\ UNCHANGED <<iface, disk, early, edits, jobs, sent, boots>>

SyncEnds(t) ==
    /\ todo[t].pc = "stop" /\ todo[t].names = {} /\ todo[t].rest = {}
    /\ Go(t, todo[t].then)
    /\ UNCHANGED <<iface, disk, conn, live, early, edits, jobs, sent, boots>>

-----------------------------------------------------------------------------
(* The status callback of a connection, by name.                           *)
Shown_Any(up, n) == up

Shown(up, n) == up /\ iface[n].enabled

SetInterfaceConnectionStatus(c, up) ==
    /\ c \in Running /\ live[c].name \in Known
    /\ iface' = [iface EXCEPT ![live[c].name].connected = Shown(up, live[c].name)]
    /\ UNCHANGED <<disk, conn, live, todo, early, edits, jobs, sent, boots>>

(* A message: dropped unless the interface is known and enabled; its job   *)
(* answers through the connection of that name at the end of the chain.    *)
OnMessage(c) ==
    /\ c \in Running /\ live[c].name \in Known /\ iface[live[c].name].enabled
    /\ Cardinality(jobs) + Cardinality(sent) < MaxMessages
    /\ jobs' = jobs \cup {[conn |-> c, name |-> live[c].name]}
    /\ UNCHANGED <<iface, disk, conn, live, todo, early, edits, sent, boots>>

AnswerMessage(j) ==
    /\ j \in jobs /\ jobs' = jobs \ {j}
    /\ sent' = IF j.name \in DOMAIN conn THEN sent \cup {[of |-> j.conn, by |-> conn[j.name]]}
           ELSE sent
    /\ UNCHANGED <<iface, disk, conn, live, todo, early, edits, boots>>

(* The server goes down and comes up again: LoadFromDisk.                  *)
LoadFromDisk ==
    iface' = [n \in DOMAIN disk |->
                [enabled |-> disk[n].enabled, connected |-> FALSE, config |-> disk[n].config,
                 secret |-> disk[n].secret]]

Reboot ==
    /\ boots < MaxBoots /\ boots' = boots + 1 /\ LoadFromDisk
    /\ conn' = << >> /\ live' = [c \in DOMAIN live |-> [live[c] EXCEPT !.running = FALSE]]
    /\ todo' = [t \in KernelThreads |-> IF t = "main" THEN [pc |-> "sync"] ELSE Idle]
    /\ early' = FALSE /\ jobs' = {} /\ UNCHANGED <<disk, edits, sent>>

IfNext ==
    \/ \E n \in Names :
         \/ \E on \in BOOLEAN : CreateInterface(n, on) \/ SetInterfaceEnabled(n, on)
         \/ \E typed \in {Mask, edits + 1} : UpdateInterfaceConfig(n, typed)
         \/ DeleteInterface(n)
         \/ \E t \in KernelThreads : SyncStops(t, n) \/ SyncDisables(t, n) \/ SyncSkips(t, n)
                 \/ StartIrcInterface(t, n)
    \/ \E t \in KernelThreads : SyncCopies(t) \/ SyncEnds(t)
    \/ SaveToDisk \/ Reboot
    \/ \E c \in DOMAIN live : OnMessage(c)
            \/ \E up \in BOOLEAN : SetInterfaceConnectionStatus(c, up)
    \/ \E j \in jobs : AnswerMessage(j)

IfSpec == IfInit /\ [][IfNext]_ifVars

-----------------------------------------------------------------------------
(* An interface shown as connected is enabled, however late a connection   *)
(* reports, and no secret is ever the mask that stands for it.             *)
ConnectedIsEnabled ==
    \A n \in Known : (iface[n].connected => iface[n].enabled) /\ iface[n].secret # Mask

(* Once the syncs are through, the connections are those of the enabled    *)
(* interfaces, one each and none beside, unless a request came in while    *)
(* the first sync ran.                                                     *)
RunsAsEnabled ==
    (\A t \in KernelThreads : todo[t] = Idle) /\ ~early =>
      /\ {live[c].name : c \in Running} = {n \in Known : iface[n].enabled}
      /\ \A c \in Running : live[c].name \in DOMAIN conn /\ conn[live[c].name] = c

(* The same without the exception.  Violated: the first sync starts what   *)
(* it copied as enabled, after a request disabled it.                      *)
RunsAlways ==
    (\A t \in KernelThreads : todo[t] = Idle) =>
      {live[c].name : c \in Running} = {n \in Known : iface[n].enabled}

(* A connection runs with the configuration that is stored.  Violated: a   *)
(* sync leaves a running connection as it is (InterfaceManager.cpp:449).   *)
RunsAsConfigured ==
    (\A t \in KernelThreads : todo[t] = Idle) /\ ~early =>
      \A c \in Running : live[c].config = iface[live[c].name].config

(* An answer leaves by the connection its message came from.  Violated: it *)
(* is looked up by name when the chain ends.                               *)
AnsweredThere == \A s \in sent : s.of = s.by
=============================================================================
