---------------------------- MODULE ReplyRouting ----------------------------
(***************************************************************************)
(* How a chain knows what it answers and where its answer goes:            *)
(* ChannelContextStore.cpp (the trusted arrivals of a session),            *)
(* ChannelContextProvider.cpp (the cards shown in the prompt),             *)
(* ChannelsTool.cpp and CompositeTool.cpp (the reply), the recording and   *)
(* the consumption of arrivals in AgentKernel.cpp and                      *)
(* ChatSessionService.cpp.                                                 *)
(*                                                                         *)
(* A message arrives in a session and is answered by a chain of its own;   *)
(* chains of one session may run at the same time.  The identifiers a      *)
(* reply needs (post, peer, chat, thread) are one target, named by the     *)
(* message.  A session key is its name and the empty components that       *)
(* SessionKey::ToString appends to it.                                     *)
(***************************************************************************)
EXTENDS Naturals, Sequences, FiniteSets

CONSTANTS
    Messages,
    SessionOf(_),   \* message -> session
    SurfaceOf(_),   \* session -> "webchat" or the type of its channel
    AgentOf(_),     \* session -> agent, "" for a session without one
    Channels,       \* configured channels: [type, name, agent]
    KeepLast,       \* arrivals a session keeps
    MaxCrashes

VARIABLES
    arrivals,   \* the stored arrivals, in the order of their ids
    pc,         \* message -> "new", "recorded", "running" or "ended"
    shown,      \* message -> the messages whose cards its prompts have shown
    sent,       \* what the tool sent last: {} or {[by, platform, to]}
    crashes

routeVars == <<arrivals, pc, shown, sent, crashes>>

Explicit == "explicit"
Bridged == {"irc", "whatsapp"}
Key(s, bars) == [name |-> s, bars |-> bars]
DispatchKey(m) == Key(SessionOf(m), 0)
FullKey(m) == Key(SessionOf(m), 2)
NameOf(s) == CHOOSE n \in {c.name : c \in Channels} : [type |-> SurfaceOf(s), name |-> n,
                                                       agent |-> AgentOf(s)] \in Channels
PlatformOf(s) == IF SurfaceOf(s) = "webchat" THEN [type |-> "webchat", name |-> ""]
                                             ELSE [type |-> SurfaceOf(s), name |-> NameOf(s)]
NoPlatform == [type |-> "", name |-> ""]

RouteInit ==
    /\ arrivals = <<>> /\ sent = {} /\ crashes = 0
    /\ pc = [m \in Messages |-> "new"] /\ shown = [m \in Messages |-> {}]

-----------------------------------------------------------------------------
(* The store.  Every boundary strips the empty components of the key.      *)
NormalizeSessionKey(k) == [k EXCEPT !.bars = 0]
InSession(a, k, agent) == a.key = NormalizeSessionKey(k) /\ a.agent = agent
Of(k, agent) == SelectSeq(arrivals, LAMBDA a : InSession(a, k, agent))

PendingArrivals(k, agent) == {a \in {arrivals[i] : i \in DOMAIN arrivals} : InSession(a, k, agent) /\ ~a.consumed}

LatestArrival_Pending(k, agent) ==
    LET p == SelectSeq(Of(k, agent), LAMBDA a : ~a.consumed) IN IF p = <<>> THEN {} ELSE {p[1]}

LatestArrival(k, agent) == IF Of(k, agent) = <<>> THEN {} ELSE {Of(k, agent)[Len(Of(k, agent))]}

Prune(as, k, agent) ==
    LET mine == {i \in DOMAIN as : InSession(as[i], k, agent)}
        kept == {i \in mine : Cardinality({j \in mine : j > i}) < KeepLast}
        keep == {i \in DOMAIN as : i \in mine => i \in kept}
        nth[n \in Nat] == CHOOSE i \in keep : Cardinality({j \in keep : j <= i}) = n
    IN [n \in 1 .. Cardinality(keep) |-> as[nth[n]]]

AddArrival(m, k, agent) ==
    LET a == [key |-> NormalizeSessionKey(k), agent |-> agent, msg |-> m,
              platform |-> PlatformOf(SessionOf(m)), consumed |-> FALSE]
    IN arrivals' = Prune(Append(arrivals, a), k, agent)

MarkAllConsumed_RawKey(k, agent) ==
    arrivals' = [i \in DOMAIN arrivals |->
                    IF arrivals[i].key = k /\ arrivals[i].agent = agent
                    THEN [arrivals[i] EXCEPT !.consumed = TRUE] ELSE arrivals[i]]

MarkAllConsumed(k, agent) ==
    arrivals' = [i \in DOMAIN arrivals |->
                    IF InSession(arrivals[i], k, agent)
                        THEN [arrivals[i] EXCEPT !.consumed = TRUE] ELSE arrivals[i]]

-----------------------------------------------------------------------------
(* A channel's message is recorded by the dispatcher, a chat's by its job, *)
(* under the agent "default" when the session has none.                    *)
ExecuteChannelDispatch(m) ==
    /\ pc[m] = "new" /\ SurfaceOf(SessionOf(m)) # "webchat"
    /\ AddArrival(m, DispatchKey(m), AgentOf(SessionOf(m)))
    /\ pc' = [pc EXCEPT ![m] = "recorded"]
    /\ UNCHANGED <<shown, sent, crashes>>

ChatAgent(m) == IF AgentOf(SessionOf(m)) = "" THEN "default" ELSE AgentOf(SessionOf(m))

ChatJob(m) ==
    /\ pc[m] = "new" /\ SurfaceOf(SessionOf(m)) = "webchat"
    /\ AddArrival(m, FullKey(m), ChatAgent(m))
    /\ pc' = [pc EXCEPT ![m] = "recorded"]
    /\ UNCHANGED <<shown, sent, crashes>>

(* A prompt of the chain is assembled: one card per pending arrival of the *)
(* session's own agent.                                                    *)
Provide(m) ==
    /\ pc[m] \in {"recorded", "running"} /\ pc' = [pc EXCEPT ![m] = "running"]
    /\ shown' = [shown EXCEPT ![m] = @ \cup
          IF AgentOf(SessionOf(m)) = "" THEN {}
          ELSE {a.msg : a \in PendingArrivals(FullKey(m), AgentOf(SessionOf(m)))}]
    /\ UNCHANGED <<arrivals, sent, crashes>>

-----------------------------------------------------------------------------
(* The channels tool.  A call names the platform and the target or leaves  *)
(* either out.  The platform of the bridges' check is the call's, the      *)
(* latest arrival's, or that of the only IRC channel there is.             *)
Irc == {c \in Channels : c.type = "irc"}
SoleIrc == IF Cardinality(Irc) = 1 THEN {[type |-> c.type, name |-> c.name] : c \in Irc} ELSE {}

Latest(m) == LatestArrival(FullKey(m), AgentOf(SessionOf(m)))

Hoisted(m, given) ==
    IF given # NoPlatform THEN given
    ELSE LET from == {a.platform : a \in Latest(m)}
             all == IF from # {} THEN from ELSE SoleIrc
         IN IF all = {} THEN NoPlatform ELSE CHOOSE p \in all : TRUE

Sent(m, platform, to) == sent' = {[by |-> m, platform |-> platform, to |-> to]}

(* The bridges return before the target is filled in.                      *)
BridgeReply(m, given, target) ==
    /\ pc[m] = "running" /\ Hoisted(m, given).type \in Bridged
    /\ IF target = Explicit THEN Sent(m, Hoisted(m, given), Explicit)
           ELSE Sent(m, Hoisted(m, given), "refused")
    /\ UNCHANGED <<arrivals, pc, shown, crashes>>

(* Otherwise what the call left out comes from the latest arrival, and the *)
(* platform's plugin takes the call.                                       *)
FillIfMissing(m, given, target) ==
    LET a == Latest(m)
    IN [platform |-> IF given = NoPlatform /\ a # {} THEN (CHOOSE x \in a : TRUE).platform ELSE given,
        to       |-> IF target = Explicit THEN Explicit
                     ELSE IF a # {} THEN (CHOOSE x \in a : TRUE).msg ELSE "refused"]

PluginReply(m, given, target) ==
    LET call == FillIfMissing(m, given, target)
    IN /\ pc[m] = "running" /\ Hoisted(m, given).type \notin Bridged
       /\ IF call.platform.type \in {c.type : c \in Channels}
          THEN Sent(m, call.platform, call.to) ELSE Sent(m, call.platform, "refused")
       /\ UNCHANGED <<arrivals, pc, shown, crashes>>

(* The channels assigned to an agent.                                      *)
GetPlatformIdsForAgent(agent) == {[type |-> c.type,
                                   name |-> c.name] : c \in {d \in Channels : d.agent = agent}}

-----------------------------------------------------------------------------
(* The chain is over: all that is pending in the session is consumed.      *)
ChainEnds(m) ==
    /\ pc[m] = "running" /\ pc' = [pc EXCEPT ![m] = "ended"]
    /\ IF SurfaceOf(SessionOf(m)) = "webchat"
       THEN MarkAllConsumed(FullKey(m), ChatAgent(m))
       ELSE MarkAllConsumed(DispatchKey(m), AgentOf(SessionOf(m)))
    /\ UNCHANGED <<shown, sent, crashes>>

(* The process dies: the chains are gone, the arrivals are not.            *)
Crash ==
    /\ crashes < MaxCrashes /\ crashes' = crashes + 1
    /\ pc' = [m \in Messages |-> IF pc[m] = "new" THEN "new" ELSE "ended"]
    /\ UNCHANGED <<arrivals, shown, sent>>

Given == {NoPlatform} \cup {[type |-> c.type, name |-> c.name] : c \in Channels}

RouteNext ==
    \/ \E m \in Messages : \/ ExecuteChannelDispatch(m) \/ ChatJob(m) \/ Provide(m) \/ ChainEnds(m)
                           \/ \E p \in Given, t \in {Explicit, "omitted"} : BridgeReply(m, p, t)
                                   \/ PluginReply(m, p, t)
    \/ Crash

RouteSpec == RouteInit /\ [][RouteNext]_routeVars

-----------------------------------------------------------------------------
Minimal(m) == {s \in sent : s.by = m /\ s.to \notin {Explicit, "refused"}}

(* A reply whose target was left out answers a message of its own session  *)
(* that is not older than its own: the store's defaults never send it back *)
(* to a conversation that is over.                                         *)
Index(m) == CHOOSE i \in DOMAIN arrivals : arrivals[i].msg = m
Stored(m) == \E i \in DOMAIN arrivals : arrivals[i].msg = m
ReplyNotStale ==
    \A m \in Messages : \A s \in Minimal(m) :
        /\ SessionOf(s.to) = SessionOf(m)
        /\ Stored(s.to) /\ Stored(m) => Index(s.to) >= Index(m)

(* When a chain has ended, with no crash, its card is not shown to the     *)
(* next one, whichever spelling of the key recorded or consumed it         *)
(* (ChatSessionService.cpp: "it must not leak into the next turn's         *)
(* prompt").                                                               *)
CardEndsWithChain ==
    crashes = 0 => \A i \in DOMAIN arrivals : pc[arrivals[i].msg] = "ended" => arrivals[i].consumed

(* A chain's prompts show the card of its own message.  Violated: the end  *)
(* of another chain of the session consumes the arrival first              *)
(* (AgentKernel.cpp: "Chain saw the pending arrivals"), and a chat without *)
(* an agent is recorded under "default" but looked up under "".            *)
OwnCardShown == \A m \in Messages : pc[m] = "running" => m \in shown[m]

(* A reply without target answers the message of its chain.  Violated by a *)
(* message that arrives while the chain runs.                              *)
AnswersItsMessage == \A m \in Messages : \A s \in Minimal(m) : s.to = m

(* A reply that leaves its target out gets one.  Violated on IRC and       *)
(* WhatsApp (ChannelsTool.cpp: "the reply-target resolution above fills it *)
(* from the latest arrival's peer_id when omitted").                       *)
OmittedIsFilled ==
    \A s \in sent : s.to = "refused"
        => s.platform.type \notin Bridged \/ ~\E i \in DOMAIN arrivals : arrivals[i].msg = s.by

(* A call without platform goes out over a channel of its own agent.       *)
(* Violated in a session without a stored arrival: the only IRC channel is *)
(* taken, whoever it belongs to ("unambiguous by definition").             *)
OwnChannel ==
    [][\A m \in Messages : BridgeReply(m, NoPlatform, Explicit) =>
          Hoisted(m, NoPlatform) \in GetPlatformIdsForAgent(AgentOf(SessionOf(m)))]_routeVars
=============================================================================
