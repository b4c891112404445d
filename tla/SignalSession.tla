---------------------------- MODULE SignalSession ----------------------------
(***************************************************************************)
(* The Signal session between the WhatsApp gateway and one peer device:    *)
(* src/kernel/signal/ (DoubleRatchet.cpp, SignalCrypto.cpp,                *)
(* SignalSessionManager.cpp, FileSignalStore.cpp) as used by               *)
(* whatsapp/WhatsAppMessageHandler.cpp and WhatsAppGatewayLoop.cpp.        *)
(*                                                                         *)
(* Keys are symbolic.  A ratchet key pair is a number; a root key is the   *)
(* sequence of the Diffie-Hellman pairs mixed into it; a chain is the root *)
(* derived along with it and a message key is the chain with an index, so  *)
(* two sides can read each other exactly when these agree.  The peer runs  *)
(* the full ratchet of DoubleRatchet.cpp, which keeps the keys it skips;   *)
(* the gateway reads with decrypt_whisper, which keeps none.               *)
(*                                                                         *)
(* Frames are read on the transport's thread and replies are encrypted on  *)
(* the monitor loop's; each loads the session and stores it later.         *)
(***************************************************************************)
EXTENDS Naturals, Sequences, SequencesExt, FiniteSets

CONSTANTS
    Opk,            \* the peer's first message uses a one-time pre-key
    Reorder,        \* the service may deliver to us out of order
    MaxSkip,        \* MAX_SKIP
    MaxMsgs, MaxReplies, MaxAgain, MaxCrashes

VARIABLES
    session,    \* the stored session, NoSession: none
    opk,        \* the one-time pre-key is in the store in memory
    reader,     \* transport thread
    sender,     \* monitor loop
    peer,       \* the peer's ratchet
    toUs,       \* what the service has for us
    toPeer,     \* our messages on their way
    made,       \* ratchet key pairs generated
    read,       \* history: messages of the peer we have read
    failed,     \* history: messages of the peer that failed at first delivery
    peerFailed, \* history: messages of ours the peer could not read
    excused,    \* history: "crossed", the two threads were between load and store at once;
                \* "renewed", a session in use was made anew
    replies, again, crashes

sigVars == <<session, opk, reader, sender, peer, toUs, toPeer, made, read, failed, peerFailed,
             excused, replies, again, crashes>>

NoSession == [self |-> 0]
Idle == [pc |-> "idle"]
NoKey == 0
NoChain == <<>>
Spk == 1                        \* our signed pre-key
PeerFirst == 2                  \* the ratchet key of the peer's first message

(* dh_compute and kdf_rk; a chain is named by the root it comes with.      *)
Dh(a, b) == {a, b}
Kdf(root, dh) == Append(root, dh)

(* ratchet_init_as_recipient and ratchet_init_as_initiator                 *)
InitRecipient ==
    [self |-> Spk, remote |-> NoKey, root |-> <<>>, send |-> NoChain, recv |-> NoChain,
     ns |-> 0, nr |-> 0, pn |-> 0, skipped |-> {}]

InitInitiator ==
    LET r == Kdf(<<>>, Dh(PeerFirst, Spk))
    IN [InitRecipient EXCEPT !.self = PeerFirst, !.remote = Spk, !.root = r, !.send = r]

SigInit ==
    /\ session = NoSession /\ opk = Opk /\ reader = Idle /\ sender = Idle
    /\ peer = InitInitiator /\ toUs = <<>> /\ toPeer = {} /\ made = PeerFirst
    /\ read = {} /\ failed = {} /\ peerFailed = {} /\ excused = {} /\ replies = 0 /\ again = 0
    /\ crashes = 0

-----------------------------------------------------------------------------
(* dh_ratchet_step: a new receiving chain from their key, then a new key   *)
(* pair and a new sending chain.                                           *)
DhStep(s, key, fresh) ==
    LET r1 == Kdf(s.root, Dh(s.self, key))
        r2 == Kdf(r1, Dh(fresh, key))
    IN [s EXCEPT !.remote = key, !.recv = r1, !.nr = 0, !.self = fresh,
                 !.root = r2, !.send = r2, !.pn = s.ns, !.ns = 0]

(* The same step in decrypt_whisper.                                       *)
WhisperStep_NoSendHalf(s, key, fresh) ==
    LET r1 == Kdf(s.root, Dh(s.self, key))
    IN [s EXCEPT !.remote = key, !.recv = r1, !.nr = 0, !.self = fresh, !.root = r1]

WhisperStep_KeepsCount(s, key, fresh) == [DhStep(s, key, fresh) EXCEPT !.nr = s.nr]

WhisperStep(s, key, fresh) == DhStep(s, key, fresh)

(* decrypt_whisper: no key is kept for a message that was passed over, so  *)
(* one that comes later has an uninitialised key and fails its MAC.        *)
Whisper(s, m) == IF m.key = s.remote THEN s ELSE WhisperStep(s, m.key, made + 1)

WhisperReads(s, m) == LET t == Whisper(s, m) IN t.recv # NoChain /\ m.n >= t.nr /\ m.chain = t.recv

AfterWhisper(s, m) == [Whisper(s, m) EXCEPT !.nr = m.n + 1]

(* skip_message_keys and try_skipped of the full ratchet.                  *)
Skip_Forgets(s, until) == IF s.recv = NoChain \/ s.nr >= until THEN s ELSE [s EXCEPT !.nr = until]

Skip(s, until) ==
    IF s.recv = NoChain \/ s.nr >= until THEN s
    ELSE [s EXCEPT !.nr = until,
                   !.skipped = @
                       \cup {[key |-> s.remote, n |-> i,
                              chain |-> s.recv] : i \in s.nr .. until - 1}]

SkippedKeys(s, m) == {k \in s.skipped : k.key = m.key /\ k.n = m.n}

FullStep(s, m) ==
    LET a == IF m.key = s.remote THEN s ELSE DhStep(Skip(s, m.pn), m.key, made + 1)
    IN Skip(a, m.n)

RatchetReads(s, m) ==
    IF SkippedKeys(s, m) # {} THEN \E k \in SkippedKeys(s, m) : k.chain = m.chain
    ELSE LET t == FullStep(s, m)
         IN t.recv # NoChain /\ m.n = t.nr /\ m.chain = t.recv /\ Cardinality(t.skipped) <= MaxSkip

AfterRatchet(s, m) ==
    IF SkippedKeys(s, m) # {} THEN [s EXCEPT !.skipped = @ \ SkippedKeys(s, m)]
    ELSE [FullStep(s, m) EXCEPT !.nr = @ + 1]

-----------------------------------------------------------------------------
(* The peer.  Until it has read something of ours its messages carry the   *)
(* pre-key header.                                                         *)
Cipher(s, kind, id) ==
    [kind |-> kind, id |-> id, key |-> s.self, pn |-> s.pn, n |-> s.ns, chain |-> s.send]

Ids == {toUs[i].id : i \in DOMAIN toUs}
InHand == IF reader = Idle THEN {} ELSE {reader.msg.id}
Sent == Cardinality(Ids \cup InHand \cup read \cup failed)

PeerSends ==
    /\ Sent < MaxMsgs
    /\ toUs' = Append(toUs, Cipher(peer, IF peer.recv = NoChain THEN "pkmsg" ELSE "msg", Sent + 1))
    /\ peer' = [peer EXCEPT !.ns = @ + 1]
    /\ UNCHANGED <<session, opk, reader, sender, toPeer, made, read, failed, peerFailed, excused,
                   replies, again, crashes>>

PeerReads(m) ==
    /\ m \in toPeer /\ toPeer' = toPeer \ {m}
    /\ IF RatchetReads(peer, m)
       THEN /\ peer' = AfterRatchet(peer, m) /\ UNCHANGED peerFailed
            /\ made' = IF peer'.self = made + 1 THEN made + 1 ELSE made
       ELSE peerFailed' = peerFailed \cup {m.id} /\ UNCHANGED <<peer, made>>
    /\ UNCHANGED <<session, opk, reader, sender, toUs, read, failed, excused, replies, again,
                   crashes>>

-----------------------------------------------------------------------------
(* handleEncryptedMessage on the transport's thread.  A receipt that does  *)
(* not get through leaves the message with the service.                    *)
Delivered(i, acked) ==
    IF acked THEN toUs' = RemoveAt(toUs, i) /\ UNCHANGED again
    ELSE again < MaxAgain /\ again' = again + 1 /\ UNCHANGED toUs

Fails(m) == failed' = IF m.id \in read THEN failed ELSE failed \cup {m.id}

(* initialize_session_as_receiver                                          *)
ReceiverSession == IF Opk /\ ~opk THEN NoSession ELSE InitRecipient

(* decryptPreKeyMessage: the session is made anew from the pre-keys and    *)
(* stored; a one-time key that is gone is an error.                        *)
ReadPreKey(i, acked) ==
    LET m == toUs[i]
    IN /\ reader = Idle /\ m.kind = "pkmsg" /\ Delivered(i, acked)
       /\ IF ReceiverSession = NoSession
              THEN Fails(m) /\ UNCHANGED <<session, opk, reader, excused>>
          ELSE /\ excused' = excused \cup (IF session = NoSession THEN {} ELSE {"renewed"})
                                 \cup (IF sender = Idle THEN {} ELSE {"crossed"})
               /\ session' = ReceiverSession /\ opk' = FALSE
               /\ reader' = [pc |-> "inner", msg |-> m] /\ UNCHANGED failed
       /\ UNCHANGED <<sender, peer, toPeer, made, read, peerFailed, replies, crashes>>

ReadMsg(i, acked) ==
    LET m == toUs[i]
    IN /\ reader = Idle /\ m.kind = "msg" /\ Delivered(i, acked)
       /\ IF session = NoSession THEN Fails(m) /\ UNCHANGED reader
          ELSE reader' = [pc |-> "inner", msg |-> m] /\ UNCHANGED failed
       /\ UNCHANGED <<session, opk, sender, peer, toPeer, made, read, peerFailed, excused,
                      replies, crashes>>

(* decrypt_whisper loads and decrypts, then stores; a failure stores       *)
(* nothing.                                                                *)
DecryptWhisper ==
    LET m == reader.msg
    IN /\ reader.pc = "inner"
       /\ IF WhisperReads(session, m)
          THEN /\ reader' = [pc |-> "store", msg |-> m,
                             s |-> AfterWhisper(session, m)] /\ UNCHANGED failed
               /\ made' = IF m.key = session.remote THEN made ELSE made + 1
          ELSE Fails(m) /\ reader' = Idle /\ UNCHANGED made
       /\ UNCHANGED <<session, opk, sender, peer, toUs, toPeer, read, peerFailed, excused,
                      replies, again, crashes>>

ReaderStores ==
    /\ reader.pc = "store"
    /\ excused' = excused \cup (IF sender = Idle THEN {} ELSE {"crossed"})
    /\ session' = reader.s /\ read' = read \cup {reader.msg.id} /\ reader' = Idle
    /\ UNCHANGED <<opk, sender, peer, toUs, toPeer, made, failed, peerFailed, replies, again,
                   crashes>>

(* encrypt_1to1 makes the sending chain when a recipient has none yet.     *)
WithSendChain(s) ==
    IF s.send # NoChain THEN s
    ELSE LET r == Kdf(s.root, Dh(made + 1, s.remote))
         IN [s EXCEPT !.self = made + 1, !.root = r, !.send = r, !.pn = s.ns, !.ns = 0]

CanSend == session # NoSession /\ ~(session.send = NoChain /\ session.remote = NoKey)

(* sendQueuedMessage on the monitor loop: without a session the reply is   *)
(* dropped; encrypt_1to1 loads, then stores and sends.                     *)
EncryptLoads ==
    /\ sender = Idle /\ replies < MaxReplies /\ replies' = replies + 1
    /\ IF CanSend
       THEN /\ sender' = [pc |-> "store", s |-> WithSendChain(session)]
            /\ made' = IF session.send = NoChain THEN made + 1 ELSE made
       ELSE UNCHANGED <<sender, made>>
    /\ UNCHANGED <<session, opk, reader, peer, toUs, toPeer, read, failed, peerFailed, excused,
                   again, crashes>>

EncryptStores ==
    /\ sender.pc = "store" /\ sender' = Idle
    /\ excused' = excused \cup (IF reader = Idle THEN {} ELSE {"crossed"})
    /\ session' = [sender.s EXCEPT !.ns = @ + 1]
    /\ toPeer' = toPeer \cup {Cipher(sender.s, "msg", replies)}
    /\ UNCHANGED <<opk, reader, peer, toUs, made, read, failed, peerFailed, replies, again,
                   crashes>>

(* A restart: sessions come back from the file, pre-keys from the account, *)
(* where the one that was used still is.                                   *)
Restart ==
    /\ crashes < MaxCrashes /\ crashes' = crashes + 1
    /\ reader' = Idle /\ sender' = Idle /\ opk' = Opk
    /\ failed' = failed \cup (InHand \ (Ids \cup read))
    /\ UNCHANGED <<session, peer, toUs, toPeer, made, read, peerFailed, excused, replies, again>>

SigNext ==
    \/ PeerSends
    \/ \E m \in toPeer : PeerReads(m)
    \/ \E i \in DOMAIN toUs, acked \in BOOLEAN : (Reorder \/ i = 1) /\ (ReadPreKey(i, acked) \/ ReadMsg(i, acked))
    \/ DecryptWhisper \/ ReaderStores \/ EncryptLoads \/ EncryptStores
    \/ Restart

SigSpec == SigInit /\ [][SigNext]_sigVars

-----------------------------------------------------------------------------
(* The peer reads every message of ours it takes, in any order, while the  *)
(* two sides' messages cross: our step on its key and its step on ours     *)
(* stay on the same roots.  Two cases break it and are told apart: the two *)
(* threads overlapping, and a session in use made anew.                    *)
PeerReadsAll == excused = {} => peerFailed = {}

(* A message of the session proper can be read when it is next, whatever   *)
(* the other thread has stored over the session meanwhile.                 *)
NextIsReadable ==
    toUs # <<>> /\ session # NoSession /\ reader = Idle /\ Head(toUs).kind = "msg" /\ Head(toUs).id \notin read \cup failed
        => WhisperReads(session, Head(toUs))

InTurnRead == "renewed" \notin excused => NextIsReadable

(* FileSignalStore.cpp: "restarts are transparent to peers".  Violated:    *)
(* the used one-time pre-key comes back with the account, and a first      *)
(* message delivered again makes the session anew.                         *)
RestartTransparent == NextIsReadable

(* No two of our messages are under one message key.  Violated when a      *)
(* reply is encrypted while a message is read: the later store puts the    *)
(* older counters back.                                                    *)
KeysUsedOnce == \A m1, m2 \in toPeer : m1.id # m2.id => <<m1.chain, m1.n>> # <<m2.chain, m2.n>>

(* Every message of the peer is read.  Violated by the peer's second       *)
(* message when it had no answer to its first: the pre-key header makes    *)
(* the session anew and its one-time key is gone.                          *)
EveryMessageRead == failed = {}
=============================================================================
