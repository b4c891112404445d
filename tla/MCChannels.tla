----------------------------- MODULE MCChannels -----------------------------
(***************************************************************************)
(* The ways a message comes in and an answer goes out, each checked on its *)
(* own: channel manager and interfaces, pollers, Discord and WhatsApp, the *)
(* Signal ratchet, the web chat and the cards that route replies.  A       *)
(* behaviour of this module is a behaviour of one of them, chosen at the   *)
(* start.                                                                  *)
(***************************************************************************)
EXTENDS Naturals, Sequences, FiniteSets

\* The component this behaviour is of, and its state as the INSTANCEs name it.
VARIABLES
    part, s1, s2, s3, s4, s5, s6, s7, s8, s9, s10, s11, s12, s13, s14, s15, s16, s17, s18, s19

vars == <<part, s1, s2, s3, s4, s5, s6, s7, s8, s9, s10, s11, s12, s13, s14, s15, s16, s17, s18,
        s19>>

CONSTANT Absent     \* ChannelManager: no value, a model value

(* PollingAdapters: the first and the third post are in the room the       *)
(* adapter monitors.                                                       *)
RoomOf == <<"r1", "r2", "r1">>

(* WhatsAppGateway: two chats; the second and the third message have the   *)
(* same time.                                                              *)
ChatOf == <<"c1", "c1", "c2">>
TimeOf == <<1, 2, 2>>

(* ReplyRouting: a wall of one agent and the web chat of another.          *)
SessionOf(m) == IF m = "w1" THEN "web" ELSE "wall"
SurfaceOf(s) == IF s = "wall" THEN "bluesky" ELSE "webchat"
AgentOf(s) == IF s = "web" THEN "a" ELSE "b"
Connected == {[type |-> "bluesky", name |-> "x", agent |-> "b"],
              [type |-> "irc", name |-> "y", agent |-> "b"]}

\* Some modules hold two components.  The INSTANCE of one of them leaves what belongs to
\* the other at 0 and takes none of its actions.
Manager == INSTANCE ChannelManager WITH
    known <- s1, store <- s2, creds <- s3, live <- s4, running <- s5, pending <- s6,
    spawned <- s7, worker <- s8, call <- s9, calls <- s10, boots <- s11, mixed <- s12,
    Channels <- {"c1"}, Configs <- {"a", "b"}, Callers <- {"p", "q"}, MaxCalls <- 3,
    MaxBoots <- 2, Absent <- Absent

Poll == INSTANCE PollingAdapters WITH
    kind <- s1, posted <- s2, cursor <- s3, saved <- s4, page <- s5, at <- s6, sweep <- s7,
    seen <- s8, queue <- s9, handed <- s10, turns <- s11, dropped <- s12, boots <- s13,
    Kinds <- {"telegram", "vk", "slack", "nextcloud", "moltbook", "bluesky", "blueskychat"},
    MaxPosts <- 3, Convs <- {"r1", "r2"}, ConvOf <- RoomOf, Monitored <- {"r1"}, Skip <- {3},
    Limit <- 3, MaxBoots <- 2,
    Envelopes <- 0, MaxBreaks <- 0, acks <- 0, breaks <- 0, cycle <- 0, due <- 0, handled <- 0,
    hello <- 0, link <- 0, on <- 0

Disc == INSTANCE DiscordGateway WITH
    active <- s1, loop <- s2, sock <- s3, up <- s4, alive <- s5, reconnect <- s6, acked <- s7,
    errors <- s8, session <- s9, identified <- s10, lastSeq <- s11, quits <- s12, heard <- s13,
    server <- s14, processed <- s15, drops <- s16,
    Posts <- {1, 2}, MaxSessions <- 2, MaxDrops <- 2, MaxErrors <- 2, MaxStale <- 2,
    SeenLimit <- 2

Wa == INSTANCE WhatsAppGateway WITH
    enabled <- s1, phase <- s2, wire <- s3, shaken <- s4, paired <- s5, qr <- s6, step <- s7,
    preKeys <- s8, pool <- s9, made <- s10, lastTs <- s11, offline <- s12, outbox <- s13,
    due <- s14, sent <- s15, given <- s16, told <- s17, excused <- s18, conns <- s19,
    Msgs <- {1, 2, 3}, ChatOf <- ChatOf, TimeOf <- TimeOf, Target <- 2, MaxConns <- 3

If == INSTANCE IrcInterface WITH
    iface <- s1, disk <- s2, conn <- s3, live <- s4, todo <- s5, early <- s6, edits <- s7,
    jobs <- s8, sent <- s9, boots <- s10,
    Names <- {"n1"}, MaxEdits <- 3, MaxStarts <- 3, MaxMessages <- 1, MaxBoots <- 1,
    Channels <- 0, Chunks <- 0, MaxDials <- 0, Reconnect <- 0, UseTls <- 0, fd <- 0,
    inside <- 0, joined <- 0, loop <- 0, mine <- 0, open <- 0, saying <- 0, status <- 0,
    stopReq <- 0, stopper <- 0, twice <- 0, unheard <- 0, welcomed <- 0

Route == INSTANCE ReplyRouting WITH
    arrivals <- s1, pc <- s2, shown <- s3, sent <- s4, crashes <- s5,
    Messages <- {"m1", "m2", "w1"}, SessionOf <- SessionOf, SurfaceOf <- SurfaceOf,
    AgentOf <- AgentOf, Channels <- Connected, KeepLast <- 2, MaxCrashes <- 1

Sig == INSTANCE SignalSession WITH
    session <- s1, opk <- s2, reader <- s3, sender <- s4, peer <- s5, toUs <- s6, toPeer <- s7,
    made <- s8, read <- s9, failed <- s10, peerFailed <- s11, excused <- s12, replies <- s13,
    again <- s14, crashes <- s15,
    Opk <- TRUE, Reorder <- FALSE, MaxSkip <- 3, MaxMsgs <- 4, MaxReplies <- 3, MaxAgain <- 1,
    MaxCrashes <- 1

Chat == INSTANCE ChatStream WITH
    connected <- s1, known <- s2, signal <- s3, stop <- s4, at <- s5, of <- s6, turns <- s7,
    cards <- s8, shown <- s9, with <- s10, events <- s11, result <- s12, ack <- s13,
    late <- s14, done <- s15, stops <- s16,
    Requests <- {"q1", "q2"}, ChatSessions <- {"s1"}, Slots <- 2, MaxEvents <- 2, MaxStops <- 1,
    MaxAttempts <- 0, MaxCalls <- 0, MaxLines <- 0, MaxRun <- 0, RepeatsId <- 0, Wires <- 0,
    acc <- 0, attempt <- 0, body <- 0, buf <- 0, err <- 0, phase <- 0, reuse <- 0, sent <- 0,
    status <- 0, stream <- 0, taken <- 0, wire <- 0

\* A component with k variables leaves the others at 0.
From19 == s19 = 0
From18 == s18 = 0 /\ From19
From17 == s17 = 0 /\ From18
From16 == s16 = 0 /\ From17
From15 == s15 = 0 /\ From16
From14 == s14 = 0 /\ From15
From13 == s13 = 0 /\ From14
From12 == s12 = 0 /\ From13
From11 == s11 = 0 /\ From12
From10 == s10 = 0 /\ From11
From9 == s9 = 0 /\ From10
From8 == s8 = 0 /\ From9
From7 == s7 = 0 /\ From8
From6 == s6 = 0 /\ From7

Init ==
    \/ part = "manager" /\ Manager!CmInit /\ From13
    \/ part = "pollers" /\ Poll!PollInit /\ From14
    \/ part = "discord" /\ Disc!GwInit /\ From17
    \/ part = "whatsapp" /\ Wa!WaInit
    \/ part = "interfaces" /\ If!IfInit /\ From11
    \/ part = "replies" /\ Route!RouteInit /\ From6
    \/ part = "signal" /\ Sig!SigInit /\ From16
    \/ part = "chat" /\ Chat!ChatInit /\ From17

Next ==
    \/ part = "manager" /\ Manager!CmNext /\ UNCHANGED <<part, s13, s14, s15, s16, s17, s18, s19>>
    \/ part = "pollers" /\ Poll!PollNext /\ UNCHANGED <<part, s14, s15, s16, s17, s18, s19>>
    \/ part = "discord" /\ Disc!GwNext /\ UNCHANGED <<part, s17, s18, s19>>
    \/ part = "whatsapp" /\ Wa!WaNext /\ UNCHANGED <<part>>
    \/ part = "interfaces" /\ If!IfNext /\ UNCHANGED <<part, s11, s12, s13, s14, s15, s16, s17,
        s18, s19>>
    \/ part = "replies" /\ Route!RouteNext /\ UNCHANGED <<part, s6, s7, s8, s9, s10, s11, s12,
        s13, s14, s15, s16, s17, s18, s19>>
    \/ part = "signal" /\ Sig!SigNext /\ UNCHANGED <<part, s16, s17, s18, s19>>
    \/ part = "chat" /\ Chat!ChatNext /\ UNCHANGED <<part, s17, s18, s19>>

Spec == Init /\ [][Next]_vars

-----------------------------------------------------------------------------
(* Inbound messages are neither passed over nor given twice: what lies     *)
(* below a poller's stored position was handed on, filtered or threw, and  *)
(* the adapters that store it first never answer twice; every Discord      *)
(* event before the number a RESUME sends was given once; a receipted      *)
(* WhatsApp message reaches its session once, but for the two losses       *)
(* WhatsAppGateway names.                                                  *)
InboundInOrder ==
    /\ part = "pollers" => Poll!NothingPassedOver /\ Poll!AnsweredOnce
    /\ part = "discord" => Disc!ResumesWhereItStopped
    /\ part = "whatsapp" => Wa!ReceiptedIsGiven

(* What is configured is what runs: no restart asked of the channel        *)
(* manager is lost, a channel whose calls are over runs as configured and  *)
(* as the next start loads it, and the connections of the interfaces are   *)
(* those of the enabled ones.                                              *)
ConfiguredIsLive ==
    /\ part = "manager" => Manager!NoRestartLost /\ Manager!LiveAsConfigured
    /\ part = "interfaces" => If!ConnectedIsEnabled /\ If!RunsAsEnabled

(* The peer can read what is sent and we what it sends: both ends of the   *)
(* double ratchet stay on the same roots while messages cross, and every   *)
(* one-time key the service may hand out is the key kept under its id.     *)
RatchetsInStep ==
    /\ part = "signal" => Sig!PeerReadsAll /\ Sig!InTurnRead
    /\ part = "whatsapp" => Wa!PoolKeysAreOurs

(* An answer is about what is current: a reply with no target answers no   *)
(* older message than its own, a card ends with its chain and is seen by   *)
(* no chain begun later, and once "stopped" was told a request sends no    *)
(* more than the callback under way and its closing frames.                *)
AnswersAreCurrent ==
    /\ part = "replies" => Route!ReplyNotStale /\ Route!CardEndsWithChain
    /\ part = "chat" => Chat!CardsAreCurrent /\ Chat!QuietAfterStop
=============================================================================
