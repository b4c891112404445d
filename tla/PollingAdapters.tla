--------------------------- MODULE PollingAdapters ---------------------------
(***************************************************************************)
(* The adapters that poll a service, and Slack in socket mode behind them. *)
(* Each has a specification of its own.                                    *)
(***************************************************************************)
EXTENDS Integers, Sequences, SequencesExt, FiniteSetsExt, Naturals

(***************************************************************************)
(* The adapters that poll a platform and remember how far they have read:  *)
(* Telegram, VK, Slack (polling mode), Nextcloud Talk, Moltbook, Bluesky   *)
(* posts and Bluesky chats.  They differ in when the position is advanced, *)
(* when it is written to the config store and what is checked before a     *)
(* message is handed to the kernel: that order is all a crash can tell     *)
(* apart, and all this module keeps.                                       *)
(*                                                                         *)
(* Messages are numbered in the order the platform got them; one adapter   *)
(* (kind) runs per behaviour.  A message handed over lives in the kernel's *)
(* memory (ChannelQueue) until its turn is stored in the session.          *)
(***************************************************************************)

CONSTANTS
    Kinds,          \* adapters under test
    MaxPosts,       \* bound: messages posted
    Convs,          \* conversations the adapter watches
    ConvOf,         \* message -> conversation
    Monitored,      \* Slack: monitored_channels
    Skip,           \* messages the adapter's filters drop (its own, bots, no mention)
    Limit,          \* messages in one page
    MaxBoots        \* bound: starts of the process

VARIABLES
    kind,
    posted,         \* newest message on the platform
    cursor,         \* position in memory, per conversation; Unknown after a bad restore
    saved,          \* position in the config store
    page,           \* what the running pass has still to look at
    at,             \* "idle", "page", "hand"
    sweep,          \* Slack: conversations of this round still to be read
    seen,           \* VK: seenEventIds; page adapters: what counts for the new position
    queue,          \* handed over, turn not yet stored
    handed, turns,  \* history: how often
    dropped,        \* history: messages an exception or a failed long poll cost
    boots

pollVars == <<kind, posted, cursor, saved, page, at, sweep, seen, queue, handed, turns, dropped,
              boots>>

Messages == 1..MaxPosts
Unknown == -1
Everywhere(v) == [c \in Convs |-> v]
Only == CHOOSE c \in Convs : TRUE    \* adapters with one position use one entry

PollInit ==
    /\ kind \in Kinds
    /\ posted = 0 /\ boots = 1
    /\ cursor = Everywhere(0) /\ saved = Everywhere(0)
    /\ page = <<>> /\ at = "idle" /\ sweep = {} /\ seen = {}
    /\ queue = {} /\ dropped = {}
    /\ handed = [m \in Messages |-> 0] /\ turns = [m \in Messages |-> 0]

(* The newest Limit messages of a set, oldest or newest first.             *)
Newest(S) == {m \in S : Cardinality({n \in S : n > m}) < Limit}
Ascending(S) == SetToSortSeq(S, LAMBDA x, y : x < y)
Descending(S) == SetToSortSeq(S, LAMBDA x, y : x > y)
After(pos, S) == {m \in S : m > pos /\ m <= posted}

(* Dispatch: routing, prompt and card, then the kernel's callback.         *)
Hand(m) ==
    IF m \in Skip THEN UNCHANGED <<queue, handed>>
    ELSE queue' = queue \cup {m} /\ handed' = [handed EXCEPT ![m] = @ + 1]

Post ==
    /\ posted < MaxPosts
    /\ posted' = posted + 1
    /\ UNCHANGED <<kind, cursor, saved, page, at, sweep, seen, queue, handed, turns, dropped,
                   boots>>

(* The turn of a handed message, with its dedup ids, reaches the session.  *)
StoreTurn(m) ==
    /\ m \in queue
    /\ queue' = queue \ {m}
    /\ turns' = [turns EXCEPT ![m] = @ + 1]
    /\ UNCHANGED <<kind, posted, cursor, saved, page, at, sweep, seen, handed, dropped, boots>>

(* A new process: PollerAdapterBase::Start restores the Telegram position; *)
(* lp_ts is assigned four times, the last key belongs to e-mail, so what   *)
(* VK and Slack had stored is not used.                                    *)
Restored ==
    CASE kind = "vk" -> Everywhere(Unknown)
      [] kind = "slack" -> Everywhere(0)
      [] OTHER -> saved

Restart ==
    /\ boots < MaxBoots
    /\ boots' = boots + 1
    /\ cursor' = Restored
    /\ page' = <<>> /\ at' = "idle" /\ sweep' = {} /\ seen' = {} /\ queue' = {}
    /\ UNCHANGED <<kind, posted, saved, handed, turns, dropped>>

-----------------------------------------------------------------------------
TelegramFetch_SavesFirst ==
    /\ kind = "telegram" /\ at = "idle"
    /\ After(cursor[Only], Messages) # {}
    /\ page' = Ascending(After(cursor[Only], Messages)) /\ at' = "page"
    /\ saved' = Everywhere(posted)
    /\ UNCHANGED <<kind, posted, cursor, sweep, seen, queue, handed, turns, dropped, boots>>

(* TelegramAdapter::RunLoop: the offset of the request is the position.    *)
(* An update moves it before it is processed; an exception ends the batch  *)
(* unsaved.                                                                *)
TelegramFetch ==
    /\ kind = "telegram" /\ at = "idle"
    /\ After(cursor[Only], Messages) # {}
    /\ page' = Ascending(After(cursor[Only], Messages)) /\ at' = "page"
    /\ UNCHANGED <<kind, posted, cursor, saved, sweep, seen, queue, handed, turns, dropped, boots>>

(* ProcessMessage: text, sender and chat become a turn of the chat.        *)
ProcessMessage(m) == Hand(m)

TelegramUpdate ==
    /\ kind = "telegram" /\ at = "page" /\ page # <<>>
    /\ cursor' = [cursor EXCEPT ![Only] = Head(page)]
    /\ \/ ProcessMessage(Head(page)) /\ page' = Tail(page) /\ UNCHANGED <<at, dropped>>
       \/ page' = <<>> /\ at' = "idle" /\ dropped' = dropped \cup {Head(page)}
          /\ UNCHANGED <<queue, handed>>
    /\ UNCHANGED <<kind, posted, saved, sweep, seen, turns, boots>>

TelegramSave ==
    /\ kind = "telegram" /\ at = "page" /\ page = <<>>
    /\ saved' = cursor /\ at' = "idle"
    /\ UNCHANGED <<kind, posted, cursor, page, sweep, seen, queue, handed, turns, dropped, boots>>

(* VkAdapter::RunLoop: ts is stored before the updates are processed; a    *)
(* failed long poll takes a new ts (1) or a new server (2, 3), and what    *)
(* came before it is not read.                                             *)
VkPoll ==
    /\ kind = "vk" /\ at = "idle" /\ cursor[Only] # Unknown
    /\ After(cursor[Only], Messages) # {}
    /\ cursor' = Everywhere(posted) /\ saved' = cursor'
    /\ page' = Ascending(After(cursor[Only], Messages)) /\ at' = "page"
    /\ UNCHANGED <<kind, posted, sweep, seen, queue, handed, turns, dropped, boots>>

VkFailed ==
    /\ kind = "vk" /\ at = "idle"
    /\ cursor' = Everywhere(posted)
    /\ saved' \in {saved, cursor'}
    /\ dropped' = dropped \cup (1..posted)
    /\ UNCHANGED <<kind, posted, page, at, sweep, seen, queue, handed, turns, boots>>

VkEvent ==
    /\ kind = "vk" /\ at = "page" /\ page # <<>>
    /\ page' = Tail(page)
    /\ seen' = seen \cup {Head(page)}
    /\ \/ Head(page) \notin seen /\ Hand(Head(page)) /\ UNCHANGED dropped
       \/ Head(page) \in seen /\ UNCHANGED <<queue, handed, dropped>>
       \/ dropped' = dropped \cup {Head(page)} /\ UNCHANGED <<queue, handed>>
    /\ UNCHANGED <<kind, posted, cursor, saved, at, sweep, turns, boots>>

VkDone ==
    /\ kind = "vk" /\ at = "page" /\ page = <<>>
    /\ at' = "idle"
    /\ UNCHANGED <<kind, posted, cursor, saved, page, sweep, seen, queue, handed, turns, dropped,
                   boots>>

(* SlackAdapter::PollingLoop: one latestTs for all conversations, set to   *)
(* the message just handed over; without one the newest page is read.      *)
SlackRound ==
    /\ kind = "slack" /\ at = "idle" /\ posted > 0
    /\ sweep' = Monitored /\ at' = "page"
    /\ UNCHANGED <<kind, posted, cursor, saved, page, seen, queue, handed, turns, dropped, boots>>

SlackHistory(c) ==
    /\ kind = "slack" /\ at = "page" /\ page = <<>> /\ c \in sweep
    /\ sweep' = sweep \ {c}
    /\ page' = Ascending(Newest({m \in After(cursor[Only], Messages) : ConvOf[m] = c}))
    /\ UNCHANGED <<kind, posted, cursor, saved, at, seen, queue, handed, turns, dropped, boots>>

SlackMessage ==
    /\ kind = "slack" /\ at = "page" /\ page # <<>>
    /\ Hand(Head(page))
    /\ cursor' = IF Head(page) \in Skip THEN cursor ELSE Everywhere(Head(page))
    /\ page' = Tail(page)
    /\ UNCHANGED <<kind, posted, saved, at, sweep, seen, turns, dropped, boots>>

SlackSave ==
    /\ kind = "slack" /\ at = "page" /\ page = <<>> /\ sweep = {}
    /\ saved' = cursor /\ at' = "idle"
    /\ UNCHANGED <<kind, posted, cursor, page, sweep, seen, queue, handed, turns, dropped, boots>>

(* NextcloudAdapter::RunLoop: a position per room, stored before the       *)
(* message is filtered and dispatched.                                     *)
NextcloudFetch(c) ==
    /\ kind = "nextcloud" /\ at = "idle"
    /\ {m \in After(cursor[c], Messages) : ConvOf[m] = c} # {}
    /\ page' = Ascending({m \in After(cursor[c], Messages) : ConvOf[m] = c}) /\ at' = "page"
    /\ UNCHANGED <<kind, posted, cursor, saved, sweep, seen, queue, handed, turns, dropped, boots>>

NextcloudTake ==
    /\ kind = "nextcloud" /\ at = "page" /\ page # <<>>
    /\ cursor' = [cursor EXCEPT ![ConvOf[Head(page)]] = Head(page)]
    /\ saved' = [saved EXCEPT ![ConvOf[Head(page)]] = Head(page)]
    /\ at' = "hand"
    /\ UNCHANGED <<kind, posted, page, sweep, seen, queue, handed, turns, dropped, boots>>

NextcloudDispatch ==
    /\ kind = "nextcloud" /\ at = "hand"
    /\ \/ /\ Hand(Head(page)) /\ page' = Tail(page)
          /\ at' = IF Len(page) > 1 THEN "page" ELSE "idle"
          /\ UNCHANGED dropped
       \/ page' = <<>> /\ at' = "idle" /\ dropped' = dropped \cup {Head(page)}
          /\ UNCHANGED <<queue, handed>>
    /\ UNCHANGED <<kind, posted, cursor, saved, sweep, seen, turns, boots>>

(* MoltbookAdapter::RunLoop and the two Bluesky loops: a page of the       *)
(* newest, each message above the position (Bluesky: and without a stored  *)
(* turn) handed over, the highest number stored after the page.  A post of *)
(* a kind Bluesky ignores does not count for the number.                   *)
PageKinds == {"moltbook", "bluesky", "blueskychat"}

Recorded_Never(m) == FALSE

Recorded(m) == kind # "moltbook" /\ turns[m] > 0

(* The notifications or messages above the position, and one page of them. *)
News == After(cursor[Only], Newest(1..posted))

PageFetch(listed) ==
    /\ at = "idle" /\ News # {}
    /\ page' = listed /\ at' = "page"
    /\ UNCHANGED <<kind, posted, cursor, saved, sweep, seen, queue, handed, turns, dropped, boots>>

(* One of them; counted says whether it moves the highest number.          *)
PageMessage(counted) ==
    /\ at = "page" /\ page # <<>>
    /\ IF Recorded(Head(page)) THEN UNCHANGED <<queue, handed>> ELSE Hand(Head(page))
    /\ seen' = IF counted THEN seen \cup {Head(page)} ELSE seen
    /\ page' = Tail(page)
    /\ UNCHANGED <<kind, posted, cursor, saved, at, sweep, turns, dropped, boots>>

PageSave ==
    /\ at = "page" /\ page = <<>>
    /\ cursor' = Everywhere(Max(seen \cup {cursor[Only]})) /\ saved' = cursor'
    /\ at' = "idle" /\ seen' = {}
    /\ UNCHANGED <<kind, posted, page, sweep, queue, handed, turns, dropped, boots>>

MoltbookFetch == kind = "moltbook" /\ PageFetch(Descending(News))
ProcessNotification == kind = "moltbook" /\ PageMessage(TRUE)
MoltbookSave == kind = "moltbook" /\ PageSave

BlueskyFetch == kind = "bluesky" /\ PageFetch(Descending(News))
BlueskyPost ==
    /\ kind = "bluesky" /\ page # <<>>
    /\ \E counted \in BOOLEAN : (counted \/ Head(page) \in Skip) /\ PageMessage(counted)
BlueskySave == kind = "bluesky" /\ PageSave

ChatFetch == kind = "blueskychat" /\ PageFetch(Ascending(News))
ChatMessage == kind = "blueskychat" /\ PageMessage(TRUE)
ChatSave == kind = "blueskychat" /\ PageSave

PollNext ==
    \/ Post \/ Restart \/ \E m \in queue : StoreTurn(m)
    \/ TelegramFetch \/ TelegramUpdate \/ TelegramSave
    \/ VkPoll \/ VkFailed \/ VkEvent \/ VkDone
    \/ SlackRound \/ (\E c \in Convs : SlackHistory(c)) \/ SlackMessage \/ SlackSave
    \/ (\E c \in Convs : NextcloudFetch(c)) \/ NextcloudTake \/ NextcloudDispatch
    \/ MoltbookFetch \/ ProcessNotification \/ MoltbookSave
    \/ BlueskyFetch \/ BlueskyPost \/ BlueskySave
    \/ ChatFetch \/ ChatMessage \/ ChatSave

-----------------------------------------------------------------------------
(* No adapter that stores its position after the work loses a message to a *)
(* crash of the pass: what lies below the stored position was handed over, *)
(* filtered, or was itself the one whose processing threw.  (The page is   *)
(* long enough for the burst: Limit is MaxPosts here.)                     *)
NothingPassedOver ==
    kind \in {"telegram"} \cup PageKinds =>
        \A m \in Messages \ (Skip \cup dropped) : m <= saved[Only] => handed[m] > 0

(* Adapters that store their position before the work (VK, Nextcloud) or   *)
(* that look a message up in the session (Bluesky) never answer it twice,  *)
(* whatever moment the process dies at; Slack does not within one process  *)
(* and one conversation.                                                   *)
AnsweredOnce ==
    kind \in {"vk", "nextcloud", "bluesky", "blueskychat"} \/ (kind = "slack" /\ boots = 1) =>
        \A m \in Messages : turns[m] <= 1

(* "Slack: restore latest_ts" (PollerAdapterBase.cpp:42): a restart does   *)
(* not hand over again what the store says was read.                       *)
SlackRestores ==
    [][kind = "slack" => \A m \in Messages : handed'[m] > handed[m] => m > saved[Only]]_pollVars

PollSpec == PollInit /\ [][PollNext]_pollVars

-----------------------------------------------------------------------------
(***************************************************************************)
(* SlackAdapter::SocketModeLoop (RemainingAdapters.cpp): a fresh websocket *)
(* per cycle, envelopes that are acknowledged and then processed, and the  *)
(* 10s watchdog that ends a silent connection or a stalled handshake.      *)
(*                                                                         *)
(* A socket may die without a close event ("deaf").  The service sends an  *)
(* envelope again until it has seen its acknowledgement; the adapter keeps *)
(* no record of what it has processed.                                     *)
(***************************************************************************)

CONSTANTS
    Envelopes,      \* messages of users
    MaxBreaks       \* bound: connections that end or go deaf

VARIABLES
    on,             \* rt->active
    cycle,          \* "top", "run", "left", "gone"
    link,           \* the socket: "none", "handshake", "open", "deaf", "closed"
    hello,          \* rt->ws_connected
    due,            \* envelopes the service has to deliver
    acks,           \* acknowledgements on their way to the service
    handled,        \* history: envelope -> times dispatched
    breaks

slackVars == <<on, cycle, link, hello, due, acks, handled, breaks>>

SlackInit ==
    /\ on = TRUE /\ cycle = "top" /\ link = "none" /\ hello = FALSE
    /\ due = {} /\ acks = {} /\ handled = [e \in Envelopes |-> 0] /\ breaks = 0

(* apps.connections.open (retried until it answers), the client, connect.  *)
OpenSocket ==
    /\ cycle = "top" /\ on
    /\ cycle' = "run" /\ link' = "handshake"
    /\ UNCHANGED <<on, hello, due, acks, handled, breaks>>

HandshakeFailed ==
    /\ cycle = "run" /\ link = "handshake" /\ breaks < MaxBreaks
    /\ breaks' = breaks + 1
    /\ hello' = FALSE /\ cycle' = "left" /\ link' = "closed"
    /\ UNCHANGED <<on, due, acks, handled>>

SaysHello ==
    /\ cycle = "run" /\ link = "handshake"
    /\ link' = "open" /\ hello' = TRUE
    /\ UNCHANGED <<on, cycle, due, acks, handled, breaks>>

(* An envelope: acknowledged, then filtered and dispatched, in one         *)
(* callback.                                                               *)
OnEnvelope(e) ==
    /\ cycle = "run" /\ link = "open" /\ e \in due \ acks
    /\ acks' = acks \cup {e}
    /\ handled' = [handled EXCEPT ![e] = @ + 1]
    /\ UNCHANGED <<on, cycle, link, hello, due, breaks>>

(* "disconnect" from the service, or the close handler: both leave the     *)
(* loop; acknowledgements still on their way are lost.                     *)
Disconnected ==
    /\ cycle = "run" /\ link = "open" /\ breaks < MaxBreaks
    /\ breaks' = breaks + 1
    /\ hello' = FALSE /\ link' = "closed" /\ cycle' = "left" /\ acks' = {}
    /\ UNCHANGED <<on, due, handled>>

(* The service drops the connection silently, or never says hello.         *)
GoesDeaf ==
    /\ cycle = "run" /\ link \in {"handshake", "open"} /\ breaks < MaxBreaks
    /\ breaks' = breaks + 1
    /\ link' = "deaf" /\ acks' = {}
    /\ UNCHANGED <<on, cycle, hello, due, handled>>

Watchdog_IfConnected ==
    /\ cycle = "run"
    /\ \/ ~on /\ UNCHANGED hello
       \/ on /\ link = "deaf" /\ hello /\ hello' = FALSE
    /\ link' = "closed" /\ cycle' = "left" /\ acks' = {}
    /\ UNCHANGED <<on, due, handled, breaks>>

(* The watchdog: stop, 180s of silence once connected, 60s without hello.  *)
Watchdog ==
    /\ cycle = "run"
    /\ \/ ~on /\ UNCHANGED hello
       \/ on /\ link = "deaf" /\ hello /\ hello' = FALSE
       \/ on /\ link = "deaf" /\ ~hello /\ UNCHANGED hello
    /\ link' = "closed" /\ cycle' = "left" /\ acks' = {}
    /\ UNCHANGED <<on, due, handled, breaks>>

LoopLeft ==
    /\ cycle = "left"
    /\ hello' = FALSE /\ link' = "none"
    /\ cycle' = IF on THEN "top" ELSE "gone"
    /\ UNCHANGED <<on, due, acks, handled, breaks>>

SocketEnds ==
    /\ cycle = "top" /\ ~on
    /\ cycle' = "gone"
    /\ UNCHANGED <<on, link, hello, due, acks, handled, breaks>>

StopSlack ==
    /\ on /\ on' = FALSE
    /\ UNCHANGED <<cycle, link, hello, due, acks, handled, breaks>>

(* The service: a message becomes due once, until its ack has arrived.     *)
Posted(e) ==
    /\ e \notin due /\ handled[e] = 0
    /\ due' = due \cup {e}
    /\ UNCHANGED <<on, cycle, link, hello, acks, handled, breaks>>

AckArrives(e) ==
    /\ e \in acks
    /\ acks' = acks \ {e} /\ due' = due \ {e}
    /\ UNCHANGED <<on, cycle, link, hello, handled, breaks>>

SlackNext ==
    \/ OpenSocket \/ HandshakeFailed \/ SaysHello \/ Disconnected \/ GoesDeaf \/ Watchdog
    \/ LoopLeft \/ SocketEnds \/ StopSlack
    \/ \E e \in Envelopes : OnEnvelope(e) \/ Posted(e) \/ AckArrives(e)

SlackFairness ==
    /\ WF_slackVars(OpenSocket \/ LoopLeft \/ SocketEnds)
    /\ WF_slackVars(SaysHello) /\ WF_slackVars(Watchdog)
    /\ \A e \in Envelopes : WF_slackVars(OnEnvelope(e))

-----------------------------------------------------------------------------
(* A message the service has to deliver is dispatched in the end, however  *)
(* connections end or go deaf, unless the adapter is stopped: nothing but  *)
(* the watchdog leaves a deaf socket.                                      *)
Due(e) == e \in due
GivenOrOff(e) == handled[e] > 0 \/ ~on
EnvelopeArrives == \A e \in Envelopes : Due(e) ~> GivenOrOff(e)

(* A message is dispatched once.  The adapter does not promise it: an      *)
(* acknowledgement lost with its socket makes the service send again.      *)
EnvelopeOnce == \A e \in Envelopes : handled[e] <= 1

SlackSpec == SlackInit /\ [][SlackNext]_slackVars /\ SlackFairness
=============================================================================
