--------------------------- MODULE WhatsAppGateway ---------------------------
(***************************************************************************)
(* src/kernel/WhatsAppGatewayLoop.cpp and whatsapp/WhatsAppTransport.cpp:  *)
(* the connection cycle, pairing, the post-login steps, one-time pre-keys, *)
(* the messages that arrive before the login is done, the timestamp filter *)
(* and the outbox.                                                         *)
(*                                                                         *)
(* Frames are handled on the transport's read thread, the monitor loop     *)
(* runs beside it; one callback and one pass of the loop are one action    *)
(* each.  Encryption is abstract: a message decrypts.                      *)
(***************************************************************************)
EXTENDS Naturals, Sequences, SequencesExt, FiniteSets

CONSTANTS
    Msgs,       \* messages peers send: 1..n in the order the service has them
    ChatOf,     \* message -> chat
    TimeOf,     \* message -> timestamp in seconds
    Target,     \* PREKEY_TARGET: one-time keys the service is to hold
    MaxConns    \* bound: connections

VARIABLES
    enabled,    \* state->active
    phase,      \* inner loop: "out", "setup", "monitor", "closing", "end"
    wire,       \* transport: "down", "connecting", "up"
    shaken,     \* handshakeComplete
    paired,     \* auth.paired and the account it was paired with; as on disk
    qr,         \* whatsapp_qr_url is shown
    step,       \* postLoginStep: "idle", "count", "passive", "digest", "done"
    preKeys,    \* auth.preKeys, as on disk: id -> key
    pool,       \* the service's one-time keys: set of [id, key]
    made,       \* keys generated so far (the key's identity)
    lastTs,     \* auth.lastMessageTs, as on disk
    offline,    \* pendingOffline
    outbox,     \* replies queued by ChannelManager::SendReply
    due,        \* the service: messages sent and not yet receipted
    sent,       \* the service: messages peers have sent
    given,      \* history: message -> times handed to a session
    told,       \* history: replies handed to the transport
    excused,    \* history: messages the two losing paths below took
    conns

connVars == <<enabled, phase, wire, shaken, paired, qr, step, conns>>
keyVars == <<preKeys, pool, made>>
msgVars == <<lastTs, offline, due, sent, given, excused>>
outVars == <<outbox, told>>
waVars == <<connVars, keyVars, msgVars, outVars>>

Chats == {ChatOf[m] : m \in Msgs}

WaInit ==
    /\ enabled = TRUE /\ phase = "out" /\ wire = "down" /\ shaken = FALSE
    /\ paired = FALSE /\ qr = FALSE /\ step = "idle" /\ conns = 0
    /\ preKeys = <<>> /\ pool = {} /\ made = 0
    /\ lastTs = [c \in Chats |-> 0] /\ offline = <<>>
    /\ due = {} /\ sent = {} /\ given = [m \in Msgs |-> 0] /\ excused = {}
    /\ outbox = <<>> /\ told = 0

(* WhatsAppGatewayLoopInner: auth and signal store are read from disk, the *)
(* outbox is made and its address published, the transport connects on a   *)
(* thread of its own.                                                      *)
Setup ==
    /\ phase = "out" /\ enabled /\ conns < MaxConns
    /\ phase' = "monitor" /\ wire' = "connecting" /\ shaken' = FALSE
    /\ qr' = FALSE /\ step' = "idle" /\ conns' = conns + 1
    /\ offline' = <<>> /\ outbox' = <<>>
    /\ UNCHANGED <<enabled, paired, keyVars, lastTs, due, sent, given, excused, told>>

(* onConnect: success sends the client hello, a failure only counts.       *)
TransportConnects ==
    /\ wire = "connecting" /\ phase = "monitor"
    /\ wire' \in {"up", "down"}
    /\ UNCHANGED <<enabled, phase, shaken, paired, qr, step, conns, keyVars, msgVars, outVars>>

Frame == phase = "monitor" /\ wire = "up"

(* The first frame: server hello, client finish, login or registration.    *)
ServerHello ==
    /\ Frame /\ ~shaken
    /\ shaken' = TRUE
    /\ UNCHANGED <<enabled, phase, wire, paired, qr, step, conns, keyVars, msgVars, outVars>>

(* iq/set pair-device: the QR code is shown.                               *)
PairDevice ==
    /\ Frame /\ shaken /\ ~paired /\ ~qr
    /\ qr' = TRUE
    /\ UNCHANGED <<enabled, phase, wire, shaken, paired, step, conns, keyVars, msgVars, outVars>>

(* iq/set pair-success whose HMAC and signature verify: the account is     *)
(* stored, then the signature sent; the service restarts the stream.       *)
PairSuccess ==
    /\ Frame /\ shaken /\ ~paired /\ qr
    /\ paired' = TRUE
    /\ wire' = "down" /\ shaken' = FALSE
    /\ UNCHANGED <<enabled, phase, qr, step, conns, keyVars, msgVars, outVars>>

(* failure 401, stream:error 401 or 403: the account is forgotten; any     *)
(* other failure or stream error only closes the connection.               *)
StreamFailure ==
    /\ Frame /\ shaken
    /\ paired' \in {paired, FALSE}
    /\ wire' = "down"
    /\ UNCHANGED <<enabled, phase, shaken, qr, step, conns, keyVars, msgVars, outVars>>

(* "success" (again on every login): the post-login steps begin.           *)
Success ==
    /\ Frame /\ shaken /\ paired /\ step = "idle"
    /\ step' = "count"
    /\ UNCHANGED <<enabled, phase, wire, shaken, paired, qr, conns, keyVars, msgVars, outVars>>

FirstId_FromCount == Cardinality(pool) + 1

(* The ids of new keys follow those ever made: auth.preKeys only grows.    *)
FirstId == Len(preKeys) + 1

(* The answer to the count: keys up to the target are made, stored and     *)
(* uploaded; then presence and passive.                                    *)
CountResult ==
    LET missing == IF Cardinality(pool) < Target THEN Target - Cardinality(pool) ELSE 0
        new == [i \in 1..missing |-> [id |-> FirstId + i - 1, key |-> made + i]]
    IN /\ Frame /\ shaken /\ step = "count"
       /\ step' = "passive"
       /\ preKeys' = preKeys \o new
       /\ pool' = pool \cup ToSet(new)
       /\ made' = made + missing
       /\ UNCHANGED <<enabled, phase, wire, shaken, paired, qr, conns, msgVars, outVars>>

PassiveResult ==
    /\ Frame /\ shaken /\ step = "passive"
    /\ step' = "digest"
    /\ UNCHANGED <<enabled, phase, wire, shaken, paired, qr, conns, keyVars, msgVars, outVars>>

Give(count, S) == [m \in Msgs |-> IF m \in S THEN count[m] + 1 ELSE count[m]]

DigestResult_LastOnly ==
    /\ Frame /\ shaken /\ step = "digest"
    /\ step' = "done"
    /\ given' = Give(given, {m \in ToSet(offline) : \A n \in ToSet(offline) : ChatOf[n] = ChatOf[m] => n <= m})
    /\ offline' = <<>>
    /\ UNCHANGED <<enabled, phase, wire, shaken, paired, qr, conns, keyVars,
                   lastTs, due, sent, excused, outVars>>

(* The answer to the digest: what waited is handed over, one turn per      *)
(* chat; then props, blocklist, privacy, presence.                         *)
DigestResult ==
    /\ Frame /\ shaken /\ step = "digest"
    /\ step' = "done"
    /\ given' = Give(given, ToSet(offline))
    /\ offline' = <<>>
    /\ UNCHANGED <<enabled, phase, wire, shaken, paired, qr, conns, keyVars,
                   lastTs, due, sent, excused, outVars>>

(* A message: one not newer than the last of its chat is skipped; before   *)
(* the login is done it waits, though its time is stored; otherwise it is  *)
(* handed over and its time stored.  Every one gets a read receipt.        *)
MessageFrame(m) ==
    LET c == ChatOf[m]
        old == lastTs[c] # 0 /\ TimeOf[m] <= lastTs[c]
    IN /\ Frame /\ shaken /\ paired /\ m \in due
       /\ due' = due \ {m}
       /\ lastTs' = IF old THEN lastTs ELSE [lastTs EXCEPT ![c] = TimeOf[m]]
       /\ offline' = IF ~old /\ step # "done" THEN Append(offline, m) ELSE offline
       /\ given' = IF ~old /\ step = "done" THEN Give(given, {m}) ELSE given
       /\ excused' = IF old THEN excused \cup {m} ELSE excused
       /\ UNCHANGED <<connVars, keyVars, sent, outVars>>

(* A peer uses one of the service's keys: its first message to us.         *)
PeerTakesKey(k) ==
    /\ k \in pool
    /\ pool' = pool \ {k}
    /\ UNCHANGED <<connVars, preKeys, made, msgVars, outVars>>

PeerSends(m) ==
    /\ m \notin sent /\ \A n \in Msgs : n < m => n \in sent
    /\ sent' = sent \cup {m} /\ due' = due \cup {m}
    /\ UNCHANGED <<connVars, keyVars, lastTs, offline, given, excused, outVars>>

(* The service or the network ends the connection: onClose.                *)
WireDrops ==
    /\ phase = "monitor" /\ wire = "up"
    /\ wire' = "down" /\ shaken' = FALSE
    /\ UNCHANGED <<enabled, phase, paired, qr, step, conns, keyVars, msgVars, outVars>>

(* A pass of the monitor loop: the outbox is sent over a finished          *)
(* handshake (a reply that fails is dropped), then the loop is left when   *)
(* stopped, when silent for 300s, or when the transport is not connected   *)
(* -- a connect that takes longer than the first pass is broken off.       *)
SendOutbox ==
    /\ Frame /\ shaken /\ outbox # <<>>
    /\ told' \in told..(told + Len(outbox))
    /\ outbox' = <<>>
    /\ UNCHANGED <<connVars, keyVars, msgVars>>

LeaveMonitor ==
    /\ phase = "monitor"
    /\ phase' = "closing"
    /\ wire' = "down" /\ shaken' = FALSE
    /\ UNCHANGED <<enabled, paired, qr, step, conns, keyVars, msgVars, outVars>>

(* The end of the inner loop: outbox and waiting messages go with it.      *)
InnerReturns ==
    /\ phase = "closing"
    /\ phase' = IF enabled THEN "out" ELSE "end"
    /\ excused' = excused \cup ToSet(offline)
    /\ offline' = <<>> /\ outbox' = <<>> /\ step' = "idle"
    /\ UNCHANGED <<enabled, wire, shaken, paired, qr, conns, keyVars, lastTs, due, sent, given,
                   told>>

(* ChannelManager::SendReply queues while the outbox is published.         *)
QueueReply ==
    /\ phase = "monitor" /\ outbox = <<>> /\ told < 1
    /\ outbox' = Append(outbox, "reply")
    /\ UNCHANGED <<connVars, keyVars, msgVars, told>>

StopWhatsApp ==
    /\ enabled /\ enabled' = FALSE
    /\ UNCHANGED <<phase, wire, shaken, paired, qr, step, conns, keyVars, msgVars, outVars>>

WaNext ==
    \/ Setup \/ TransportConnects \/ ServerHello \/ PairDevice \/ PairSuccess \/ StreamFailure
    \/ Success \/ CountResult \/ PassiveResult \/ DigestResult
    \/ \E m \in Msgs : MessageFrame(m) \/ PeerSends(m)
    \/ \E k \in pool : PeerTakesKey(k)
    \/ WireDrops \/ SendOutbox \/ LeaveMonitor \/ InnerReturns \/ QueueReply \/ StopWhatsApp

-----------------------------------------------------------------------------
(* Every one-time key the service may hand to a peer is the key we keep    *)
(* under that id: a key uploaded again under an old id would make the      *)
(* peer's first message undecryptable, at every later count of the pool.   *)
PoolKeysAreOurs ==
    \A k \in pool : k.id <= Len(preKeys) /\ preKeys[k.id] = k

(* A message that was receipted reaches its session exactly once, over any *)
(* number of connections, but for the two ways the code loses one: a time  *)
(* not newer than the last of its chat, and a connection that ends before  *)
(* the post-login steps (the time is stored when the message is put off).  *)
ReceiptedIsGiven ==
    \A m \in sent \ due : m \in excused \/ m \in ToSet(offline) \/ given[m] = 1

(* No message is lost between the service and the session (what the        *)
(* offline queue is for, WhatsAppGatewayLoop.cpp:403).                     *)
OfflineKept == \A m \in sent \ due : m \in ToSet(offline) \/ given[m] = 1

WaSpec == WaInit /\ [][WaNext]_waVars
=============================================================================
