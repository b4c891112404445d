---------------------------- MODULE MCEventually ----------------------------
(***************************************************************************)
(* What must happen in the end, for the components that wait: the provider *)
(* throttle between chats and channels, the message queue of a channel,    *)
(* the long-lived connections (e-mail, Slack, IRC), the consolidation      *)
(* intake, the calls of remote nodes and a crashing at-least-once          *)
(* scheduler.  A behaviour is a behaviour of one of them, chosen at the    *)
(* start; the throttle is this module's own state and rests while another  *)
(* part runs.                                                              *)
(***************************************************************************)
EXTENDS ThrottledDispatch, TLC

\* The component this behaviour is of, and its state as the INSTANCEs name it.
VARIABLES
    part, s1, s2, s3, s4, s5, s6, s7, s8, s9, s10, s11, s12, s13, s14, s15, s16, s17, s18, s19,
    s20, s21, s22, s23, s24

allVars == <<allDispatchVars, part, s1, s2, s3, s4, s5, s6, s7, s8, s9, s10, s11, s12, s13, s14,
        s15, s16, s17, s18, s19, s20, s21, s22, s23, s24>>

MCLimits == {0, 1, 2}

(* ChannelQueue: one session with a cooldown and a window.                 *)
OnlyInterval == "chat" :> 2
OnlyWindow == "chat" :> 1
OffInterjection == "chat" :> FALSE

(* The throttle of a behaviour that is of another part.                    *)
Resting ==
    /\ limit = [p \in Providers |-> 1]
    /\ prov = [t \in Threads |-> CHOOSE p \in Providers : TRUE]
    /\ DispatchInit

\* Some modules hold two components.  The INSTANCE of one of them leaves what belongs to
\* the other at 0 and takes none of its actions.
Email == INSTANCE EmailAdapter WITH
    run <- s1, conn <- s2, why <- s3, stop <- s4, fatal <- s5, inFlight <- s6, ws <- s7,
    ghost <- s8, timers <- s9, queued <- s10, missed <- s11, active <- s12, mon <- s13,
    caller <- s14, since <- s15, engaged <- s16, bridge <- s17, inbox <- s18, events <- s19,
    seen <- s20, listed <- s21, ownKnown <- s22, viaWs <- s23, viaPoll <- s24,
    Mail <- {"m1", "m2"}, Sent <- {"m2"}, EngageAfter <- 1, MaxSeen <- 4

Slack == INSTANCE PollingAdapters WITH
    on <- s1, cycle <- s2, link <- s3, hello <- s4, due <- s5, acks <- s6, handled <- s7,
    breaks <- s8,
    Envelopes <- {"e1", "e2"}, MaxBreaks <- 2,
    ConvOf <- 0, Convs <- 0, Kinds <- 0, Limit <- 0, MaxBoots <- 0, MaxPosts <- 0,
    Monitored <- 0, Skip <- 0, at <- 0, boots <- 0, cursor <- 0, dropped <- 0, handed <- 0,
    kind <- 0, page <- 0, posted <- 0, queue <- 0, saved <- 0, seen <- 0, sweep <- 0, turns <- 0

Irc == INSTANCE IrcInterface WITH
    loop <- s1, stopReq <- s2, stopper <- s3, fd <- s4, mine <- s5, open <- s6, twice <- s7,
    welcomed <- s8, joined <- s9, inside <- s10, status <- s11, saying <- s12, unheard <- s13,
    Channels <- {"c1", "c2"}, UseTls <- TRUE, Reconnect <- TRUE, Chunks <- 2, MaxDials <- 3,
    MaxBoots <- 0, MaxEdits <- 0, MaxMessages <- 0, MaxStarts <- 0, Names <- 0, boots <- 0,
    conn <- 0, disk <- 0, early <- 0, edits <- 0, iface <- 0, jobs <- 0, live <- 0, sent <- 0,
    todo <- 0

Intake == INSTANCE MemoryLayers WITH
    turns <- s1, diary <- s2, files <- s3, clock <- s4, watermark <- s5, reported <- s6,
    runs <- s7, pipe <- s8, seen <- s9, read <- s10, failures <- s11,
    Chats <- {"c1"}, MaxTurns <- 2, MaxEntries <- 1, MaxFiles <- 1, MaxClock <- 1, MaxRuns <- 1,
    Batch <- 2, MaxFailures <- 1,
    Agents <- 0, Defaults <- 0, Extra <- 0, MaxBoots <- 0, MaxId <- 0, MaxOps <- 0,
    Workers <- 0, agents <- 0, begun <- 0, boots <- 0, lastId <- 0, layer <- 0, op <- 0, sched <- 0

Nodes == INSTANCE NodeCalls WITH
    mtx <- s1, http <- s2, toServer <- s3, toNode <- s4, reg <- s5, ctxs <- s6, pending <- s7,
    tokens <- s8, revoked <- s9, node <- s10, pc <- s11, value <- s12, told <- s13, ran <- s14,
    count <- s15,
    Calls <- {"k1", "k2"}, NodeSigns <- FALSE, MaxConns <- 1, MaxBeats <- 1, MaxLists <- 1,
    MaxRestarts <- 0

Once == INSTANCE LeaseScheduler WITH
    now <- s1, sched <- s2, lease <- s3, claim <- s4, up <- s5, link <- s6, down <- s7,
    fresh <- s8, attempt <- s9, poll <- s10, fired <- s11, left <- s12,
    Node <- {1}, Semantics <- "at_least_once", Period <- 2, MaxFires <- 0, TTL <- 2,
    RenewEvery <- 1, Grace <- 1, RetryEvery <- 1, Visibility <- 1, MaxTime <- 6, MaxEpoch <- 1,
    MaxCrashes <- 3, MaxCuts <- 0, MaxReleases <- 0, FalseDown <- FALSE, Timely <- FALSE

Queue == INSTANCE ChannelQueue WITH
    running <- s1, jobs <- s2, arriving <- s3, sent <- s4, target <- s5, msgs <- s6,
    active <- s7, timer <- s8, due <- s9, cool <- s10, age <- s11, hand <- s12, queued <- s13,
    chains <- s14, said <- s15, lost <- s16,
    Session <- {"chat"}, Timer <- "timer", Interval <- OnlyInterval, Window <- OnlyWindow,
    Interjection <- OffInterjection, MaxQueued <- 3, Workers <- 2, MaxMessages <- 4,
    MayDrop <- TRUE, MayThrow <- FALSE, MayStop <- FALSE

\* A component with k variables leaves the others at 0.
From24 == s24 = 0
From23 == s23 = 0 /\ From24
From22 == s22 = 0 /\ From23
From21 == s21 = 0 /\ From22
From20 == s20 = 0 /\ From21
From19 == s19 = 0 /\ From20
From18 == s18 = 0 /\ From19
From17 == s17 = 0 /\ From18
From16 == s16 = 0 /\ From17
From15 == s15 = 0 /\ From16
From14 == s14 = 0 /\ From15
From13 == s13 = 0 /\ From14
From12 == s12 = 0 /\ From13
From11 == s11 = 0 /\ From12
From10 == s10 = 0 /\ From11
From9 == s9 = 0 /\ From10
From8 == s8 = 0 /\ From9
From7 == s7 = 0 /\ From8
From6 == s6 = 0 /\ From7
From5 == s5 = 0 /\ From6
From4 == s4 = 0 /\ From5
From3 == s3 = 0 /\ From4
From2 == s2 = 0 /\ From3
From1 == s1 = 0 /\ From2

MCInit ==
    \/ part = "throttle" /\ DispatchInit /\ From1
    \/ part = "email" /\ Resting /\ Email!EmailInit
    \/ part = "slack" /\ Resting /\ Slack!SlackInit /\ From9
    \/ part = "irc" /\ Resting /\ Irc!IrcInit /\ From14
    \/ part = "intake" /\ Resting /\ Intake!IntakeInit /\ From12
    \/ part = "nodes" /\ Resting /\ Nodes!NodeInit /\ From16
    \/ part = "once" /\ Resting /\ Once!Init /\ From13
    \/ part = "queue" /\ Resting /\ Queue!Init /\ From17

MCNext ==
    \/ part = "throttle" /\ DispatchNext /\ UNCHANGED <<part, s1, s2, s3, s4, s5, s6, s7, s8,
        s9, s10, s11, s12, s13, s14, s15, s16, s17, s18, s19, s20, s21, s22, s23, s24>>
    \/ part = "email" /\ Email!EmailNext /\ UNCHANGED <<allDispatchVars, part>>
    \/ part = "slack" /\ Slack!SlackNext /\ UNCHANGED <<allDispatchVars, part, s9, s10, s11,
        s12, s13, s14, s15, s16, s17, s18, s19, s20, s21, s22, s23, s24>>
    \/ part = "irc" /\ Irc!IrcNext /\ UNCHANGED <<allDispatchVars, part, s14, s15, s16, s17,
        s18, s19, s20, s21, s22, s23, s24>>
    \/ part = "intake" /\ Intake!IntakeNext /\ UNCHANGED <<allDispatchVars, part, s12, s13, s14,
        s15, s16, s17, s18, s19, s20, s21, s22, s23, s24>>
    \/ part = "nodes" /\ Nodes!NodeNext /\ UNCHANGED <<allDispatchVars, part, s16, s17, s18,
        s19, s20, s21, s22, s23, s24>>
    \/ part = "once" /\ Once!Next /\ UNCHANGED <<allDispatchVars, part, s13, s14, s15, s16, s17,
        s18, s19, s20, s21, s22, s23, s24>>
    \/ part = "queue" /\ Queue!Next /\ UNCHANGED <<allDispatchVars, part, s17, s18, s19, s20,
        s21, s22, s23, s24>>

-----------------------------------------------------------------------------
(* The fairness of every part, as its module states and explains it.       *)
Fair ==
    /\ \A t \in Threads :
         /\ WF_allDispatchVars(part = "throttle" /\ Acquires(t))
         /\ WF_allDispatchVars(part = "throttle" /\ Chat(t))
         /\ WF_allDispatchVars(part = "throttle" /\ (SubmitChain(t) \/ DispatchReturns(t)))
    /\ \A p \in Providers : /\ WF_allDispatchVars(part = "throttle" /\ StartChain(p))
                            /\ WF_allDispatchVars(part = "throttle" /\ EndChain(p))
    /\ WF_(Email!emailVars)(part = "email" /\ Email!LoopRuns)
    /\ WF_(Email!emailVars)(part = "email" /\ Email!HandshakeEnds)
    /\ WF_(Email!emailVars)(part = "email" /\ Email!BackoffEnds)
    /\ WF_(Email!emailVars)(part = "email" /\ Email!Monitor)
    /\ WF_(Email!emailVars)(part = "email" /\ (Email!Deactivate \/ Email!StopJoined))
    /\ WF_(Slack!slackVars)(part = "slack" /\ (Slack!OpenSocket \/ Slack!LoopLeft \/ Slack!SocketEnds))
    /\ WF_(Slack!slackVars)(part = "slack" /\ Slack!SaysHello)
    /\ WF_(Slack!slackVars)(part = "slack" /\ Slack!Watchdog)
    /\ \A e \in {"e1", "e2"} : WF_(Slack!slackVars)(part = "slack" /\ Slack!OnEnvelope(e))
    /\ WF_(Irc!ircVars)(part = "irc" /\ Irc!IrcThread)
    /\ WF_(Irc!ircVars)(part = "irc" /\ Irc!HandleLine)
    /\ WF_(Irc!ircVars)(part = "irc" /\ Irc!StopJoins)
    /\ SF_(Intake!intakeVars)(part = "intake" /\ Intake!FireIntake)
    /\ WF_(Intake!intakeVars)(part = "intake" /\ Intake!HandleSummary(1))
    /\ WF_(Nodes!nodeVars)(part = "nodes" /\ Nodes!HttpRuns)
    /\ WF_(Nodes!nodeVars)(part = "nodes" /\ Nodes!HttpReads(1))
    /\ WF_(Nodes!nodeVars)(part = "nodes" /\ Nodes!HandleServerMessage)
    /\ \A k \in {"k1", "k2"} :
         /\ WF_(Nodes!nodeVars)(part = "nodes" /\ Nodes!ChainRuns(k))
         /\ WF_(Nodes!nodeVars)(part = "nodes" /\ Nodes!ExecuteOnNode(k))
    /\ WF_(Once!vars)(part = "once" /\ Once!PollStep(1))
    /\ WF_(Once!vars)(part = "once" /\ Once!Restart(1))
    /\ WF_(Queue!vars)(part = "queue" /\ Queue!TimerLoop)
    /\ WF_(Queue!vars)(part = "queue" /\ Queue!Tick)
    /\ WF_(Queue!vars)(part = "queue" /\ Queue!Push("chat"))
    /\ \A f \in {"chat", "timer"} : WF_(Queue!vars)(part = "queue" /\ Queue!FlushStep(f))
    /\ WF_(Queue!vars)(part = "queue" /\ Queue!StartsChain)
    /\ WF_(Queue!vars)(part = "queue" /\ Queue!EndsChain)

EventuallySpec == MCInit /\ [][MCNext]_allVars /\ Fair

-----------------------------------------------------------------------------
(* Nobody waits for what nobody will bring: a connection supervisor that   *)
(* is not stopped has a way forward, IRC reports connected only while the  *)
(* connection the server welcomed lasts, and a session of the queue that   *)
(* takes itself for busy has a chain, with no timer that is over and       *)
(* nothing to flush.                                                       *)
NobodyStuck ==
    /\ part = "email" => Email!NeverWedged
    /\ part = "irc" => Irc!StatusIsOfThisConnection
    /\ part = "queue" => Queue!ActiveHasChain /\ Queue!NoSpin

(* Nothing happens early, twice or out of turn: a slot goes to the oldest  *)
(* waiter, a batch leaves the queue after its window and the cooldown, a   *)
(* poll skips the mail the websocket has processed, and a window is fired  *)
(* once however often the scheduler crashes.                               *)
InTurn ==
    /\ part = "throttle" => OldestFirst
    /\ part = "queue" => Queue!KeepsCooldown /\ Queue!KeepsWindow
    /\ part = "email" => Email!PollSkips
    /\ part = "once" => Once!FiredOncePerNode'
StepsInTurn == [][InTurn]_allVars

(* A part's i-th thread or client that is cut off, or kept waiting by Stop. *)
CutOff(i) ==
    CASE part = "email" -> IF i = 1 THEN Email!Retrying ELSE Email!Stopping
      [] part = "slack" -> Slack!Due(IF i = 1 THEN "e1" ELSE "e2")
      [] part = "irc" -> IF i = 1 THEN Irc!Away ELSE Irc!Stopping
      [] OTHER -> FALSE
Back(i) ==
    CASE part = "email" -> IF i = 1 THEN ~Email!Retrying ELSE Email!Stopped
      [] part = "slack" -> Slack!GivenOrOff(IF i = 1 THEN "e1" ELSE "e2")
      [] OTHER -> ~CutOff(i)

(* Connections come back and stops return: backoff is left whatever event  *)
(* was lost, a Slack envelope arrives though sockets go deaf, IRC is       *)
(* registered again, the callers of Stop are not kept waiting, and a       *)
(* rejected key is final.                                                  *)
LinksComeBack ==
    /\ \A i \in 1 .. 2 : CutOff(i) ~> Back(i)
    /\ (part = "email" /\ Email!Rejected) ~> [](part = "email" /\ Email!AllEnded)

(* A part's i-th thread, message or call that waits to be served.          *)
Asks(i) ==
    CASE part = "throttle" -> IF i = 4 THEN \E p \in Providers : Waits(p)
                              ELSE pc[i] \in {"entering", "waiting"}
      [] part = "queue" -> Queue!Pends("chat", i)
      [] part = "intake" -> i = 1 /\ Intake!Untaken
      [] part = "nodes" -> IF i = 3 THEN Nodes!HttpHeld ELSE i < 3 /\ Nodes!Calling(<<"k1", "k2">>[i])
      [] part = "once" -> i = 1 /\ Once!Overdue(1)
      [] OTHER -> FALSE
Served(i) ==
    CASE part = "throttle" -> IF i = 4 THEN ~Asks(i) ELSE pc[i] = "holding"
      [] part = "queue" -> Queue!Handed("chat", i)
      [] OTHER -> ~Asks(i)

(* Whoever asks is served: Acquire returns, a channel's chain gets a       *)
(* worker though chats that wait for its slot hold them, a pending message *)
(* becomes a turn or is dropped for want of a provider, a stored turn is   *)
(* taken by an intake, a call of a node returns and frees the HTTP thread, *)
(* and a schedule leaves a due window behind.                              *)
WorkGetsDone == \A i \in 1 .. 4 : Asks(i) ~> Served(i)
=============================================================================
