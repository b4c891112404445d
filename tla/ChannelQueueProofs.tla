------------------------ MODULE ChannelQueueProofs ------------------------
(***************************************************************************)
(* Proofs about ChannelQueue, for any finite set of sessions, any knobs,   *)
(* any valve and any number of workers and messages.                       *)
(***************************************************************************)
EXTENDS ChannelQueue, TLAPS

(* The stored reply target is the newest message that has reached the       *)
(* dispatch callback: one ahead of the queue while its push is on its way.  *)
TargetIsNewest ==
  \A s \in Session : target[s] = IF arriving[s] THEN sent[s] + 1 ELSE sent[s]

(* What is pending, or extracted and without a target yet, has been pushed. *)
OnlyPushed ==
  /\ \A s \in Session : \A m \in msgs[s] : m <= sent[s]
  /\ \A f \in Thread : \A b \in hand[f] :
       \A m \in b.batch : m <= sent[b.session]

IInv == TypeOK /\ TargetIsNewest /\ OnlyPushed /\ TargetCovers /\ Armed

-----------------------------------------------------------------------------

\* Init establishes the inductive invariant.
LEMMA InitIInv == Init => IInv
<1> SUFFICES ASSUME Init PROVE IInv
  OBVIOUS
<1>0. MaxMessages \in Nat
  BY ChannelQueueAssumption
<1>1. TypeOK
  BY <1>0 DEF Init, TypeOK, Message, Batches
<1>2. TargetIsNewest /\ OnlyPushed /\ TargetCovers /\ Armed
  BY DEF Init, TargetIsNewest, OnlyPushed, TargetCovers, Armed,
         Extracted
<1> QED
  BY <1>1, <1>2 DEF IInv

\* A batch is in somebody's hand if one of the threads holds it.
LEMMA InSomeHand ==
  ASSUME NEW h, NEW b
  PROVE  b \in UNION {h[f] : f \in Thread} <=> \E f \in Thread : b \in h[f]
  BY Zenon

\* A batch made of typed parts is typed.
LEMMA BatchType ==
  ASSUME NEW s \in Session, NEW B \in SUBSET Message, NEW r \in 0..MaxMessages
  PROVE  /\ Batch(s, B, r) \in Batches
         /\ Batch(s, B, r).session = s
         /\ Batch(s, B, r).batch = B
         /\ Batch(s, B, r).reply = r
  BY DEF Batch, Batches

\* The parts of the type invariant, one by one.
LEMMA TypeParts ==
  ASSUME TypeOK
  PROVE  /\ arriving \in [Session -> BOOLEAN] /\ active \in [Session -> BOOLEAN]
         /\ timer \in [Session -> BOOLEAN]
         /\ sent \in [Session -> 0..MaxMessages]
         /\ target \in [Session -> 0..MaxMessages]
         /\ msgs \in [Session -> SUBSET Message]
         /\ said \in [Session -> SUBSET Message]
         /\ lost \in [Session -> SUBSET Message]
         /\ due \in [Session -> Nat] /\ cool \in [Session -> Nat]
         /\ age \in [Session -> Nat]
  BY DEF TypeOK

\* The bound on the messages is a number.
LEMMA MaxMessagesNat == MaxMessages \in Nat
  BY ChannelQueueAssumption

\* Numbers of the constants and the two operators on them.
LEMMA Numbers ==
  /\ MaxMessages \in Nat
  /\ \A s \in Session : Interval[s] \in Nat /\ Window[s] \in Nat
  /\ \A x, y \in Nat : Later(x, y) \in Nat /\ Later(x, y) >= x /\ Later(x, y) >= y
  /\ \A x \in Nat : Sooner(x) \in Nat /\ Sooner(x) <= x
  BY ChannelQueueAssumption DEF Later, Sooner


-----------------------------------------------------------------------------

\* What a push knows of its message: it is within the bound and the newest.
LEMMA PushFacts ==
  ASSUME IInv, NEW s \in Session, PushCommon(s)
  PROVE  /\ sent[s] + 1 \in Message /\ sent' \in [Session -> 0..MaxMessages]
         /\ Pushed(s) \in SUBSET Message
         /\ arriving' \in [Session -> BOOLEAN]
         /\ TargetIsNewest'
         /\ \A x \in Session : sent[x] <= sent'[x]
         /\ \A m \in Pushed(s) : m <= sent'[s]
<1>0. TypeOK /\ TargetIsNewest /\ OnlyPushed
  BY DEF IInv
<1>1. arriving[s] /\ target[s] = sent[s] + 1
  BY <1>0 DEF PushCommon, TargetIsNewest
<1>2. sent[s] + 1 \in Message
  BY <1>0, <1>1, TypeParts, Numbers DEF Message
<1>3. sent' \in [Session -> 0..MaxMessages] /\ arriving' \in [Session -> BOOLEAN]
  <2>1. sent[s] + 1 \in 0..MaxMessages
    BY <1>2, MaxMessagesNat DEF Message
  <2>2. /\ sent \in [Session -> 0..MaxMessages]
        /\ arriving \in [Session -> BOOLEAN]
    BY <1>0, TypeParts
  <2> QED
    BY <2>1, <2>2 DEF PushCommon
<1>4. Pushed(s) \in SUBSET Message
  BY <1>0, <1>2, TypeParts DEF Pushed
<1>5. TargetIsNewest'
  BY <1>0, <1>1, TypeParts, Numbers DEF PushCommon, TargetIsNewest
<1>6. \A x \in Session : sent[x] <= sent'[x] /\ sent[x] \in Nat
  <2>1. sent \in [Session -> 0..MaxMessages]
    BY <1>0, TypeParts
  <2>2. \A x \in Session : sent[x] \in Nat
    BY <2>1, MaxMessagesNat
  <2>3. \A x \in Session : sent'[x] = IF x = s THEN sent[x] + 1 ELSE sent[x]
    BY <2>1 DEF PushCommon
  <2> QED
    BY <2>2, <2>3
<1>7. \A m \in Pushed(s) : m <= sent'[s]
  <2> SUFFICES ASSUME NEW m \in Pushed(s) PROVE m <= sent'[s]
    OBVIOUS
  <2>1. sent'[s] = sent[s] + 1 /\ sent[s] \in Nat
    BY <1>0, TypeParts, Numbers DEF PushCommon
  <2>2. CASE m = sent[s] + 1
    BY <2>1, <2>2
  <2>3. CASE m \in msgs[s]
    <3>1. m \in Nat /\ m <= sent[s]
      BY <1>0, <2>3, TypeParts, Numbers DEF OnlyPushed, Message
    <3> QED
      BY <2>1, <3>1
  <2> QED
    BY <2>2, <2>3 DEF Pushed
<1> QED
  BY <1>2, <1>3, <1>4, <1>5, <1>6, <1>7

\* Type correctness and the newest target are kept.
LEMMA StepType ==
  ASSUME IInv, [Next]_vars
  PROVE  TypeOK' /\ TargetIsNewest'
<1>0. TypeOK /\ TargetIsNewest
  BY DEF IInv
<1>1. ASSUME NEW s \in Session, Dispatch(s) PROVE TypeOK' /\ TargetIsNewest'
  <2>1. sent[s] + 1 \in 0..MaxMessages
    <3>1. sent[s] \in 0..MaxMessages
      BY <1>0, TypeParts
    <3> QED
      BY <1>1, <3>1, MaxMessagesNat DEF Dispatch
  <2>2. /\ arriving' \in [Session -> BOOLEAN]
        /\ target' \in [Session -> 0..MaxMessages]
    BY <1>0, <1>1, <2>1, TypeParts DEF Dispatch
  <2>3. TypeOK'
    BY <1>0, <1>1, <2>2, TypeParts DEF Dispatch, TypeOK
  <2>4. TargetIsNewest'
    BY <1>0, <1>1, TypeParts DEF Dispatch, TargetIsNewest
  <2> QED
    BY <2>3, <2>4
<1>2. ASSUME NEW s \in Session, PushQueues(s) PROVE TypeOK' /\ TargetIsNewest'
  <2>1. PushCommon(s)
    BY <1>2 DEF PushQueues
  <2>2. msgs' \in [Session -> SUBSET Message] /\ age' \in [Session -> Nat]
    BY <1>0, <1>2, <2>1, PushFacts, TypeParts DEF PushQueues
  <2>3. timer' \in [Session -> BOOLEAN] /\ due' \in [Session -> Nat]
    <3>1. Later(Window[s], cool[s]) \in Nat
      BY <1>0, TypeParts, Numbers
    <3> QED
      BY <1>0, <1>2, <3>1, TypeParts DEF PushQueues
  <2>p. /\ sent' \in [Session -> 0..MaxMessages]
        /\ arriving' \in [Session -> BOOLEAN]
    BY <2>1, PushFacts
  <2>4. TypeOK'
    BY <1>0, <1>2, <2>2, <2>3, <2>p, TypeParts DEF PushQueues, PushCommon, TypeOK
  <2> QED
    BY <2>1, <2>4, PushFacts
<1>3. ASSUME NEW s \in Session, PushFlushes(s) PROVE TypeOK' /\ TargetIsNewest'
  <2>1. PushCommon(s)
    BY <1>3 DEF PushFlushes
  <2>2. Batch(s, Pushed(s), 0) \in Batches
    BY <2>1, PushFacts, BatchType, Numbers
  <2>3. hand' \in [Thread -> SUBSET Batches]
    BY <1>0, <1>3, <2>2 DEF PushFlushes, TypeOK
  <2>4. /\ msgs' \in [Session -> SUBSET Message]
        /\ timer' \in [Session -> BOOLEAN]
    BY <1>0, <1>3, TypeParts DEF PushFlushes
  <2>p. /\ sent' \in [Session -> 0..MaxMessages]
        /\ arriving' \in [Session -> BOOLEAN]
    BY <2>1, PushFacts
  <2>5. TypeOK'
    BY <1>0, <1>3, <2>3, <2>4, <2>p, TypeParts DEF PushFlushes, PushCommon, TypeOK
  <2> QED
    BY <2>1, <2>5, PushFacts
<1>4. ASSUME NEW s \in Session, DrainInterjection(s)
      PROVE  TypeOK' /\ TargetIsNewest'
  <2>1. /\ said' \in [Session -> SUBSET Message]
        /\ msgs' \in [Session -> SUBSET Message]
    BY <1>0, <1>4, TypeParts DEF DrainInterjection
  <2>2. TypeOK'
    BY <1>0, <1>4, <2>1, TypeParts DEF DrainInterjection, TypeOK
  <2> QED
    BY <1>0, <1>4, <2>2 DEF DrainInterjection, TargetIsNewest
<1>5. ASSUME TimerLoop PROVE TypeOK' /\ TargetIsNewest'
  <2> DEFINE E == {s \in Session : Expired(s)}
  <2>1. \A s \in E : Batch(s, msgs[s], 0) \in Batches
    BY <1>0, BatchType, TypeParts, Numbers
  <2>2. {Batch(s, msgs[s], 0) : s \in E} \in SUBSET Batches
    BY <2>1
  <2>3. hand' = [hand EXCEPT ![Timer] = {Batch(s, msgs[s], 0) : s \in E}]
    BY <1>5 DEF TimerLoop
  <2>4. hand' \in [Thread -> SUBSET Batches]
    BY <1>0, <2>2, <2>3 DEF TypeOK
  <2>5. msgs' \in [Session -> SUBSET Message] /\ timer' \in [Session -> BOOLEAN]
    BY <1>0, <1>5, TypeParts DEF TimerLoop
  <2>6. TypeOK'
    BY <1>0, <1>5, <2>4, <2>5, TypeParts DEF TimerLoop, TypeOK
  <2> QED
    BY <1>0, <1>5, <2>6 DEF TimerLoop, TargetIsNewest
<1>6. ASSUME Tick PROVE TypeOK' /\ TargetIsNewest'
  <2>1. /\ due' \in [Session -> Nat] /\ cool' \in [Session -> Nat]
        /\ age' \in [Session -> Nat]
    <3>1. \A s \in Session : due[s] \in Nat /\ cool[s] \in Nat /\ age[s] \in Nat
      BY <1>0, TypeParts
    <3>2. \A s \in Session : Sooner(due[s]) \in Nat /\ Sooner(cool[s]) \in Nat
      BY <3>1, Numbers
    <3> QED
      BY <1>6, <3>1, <3>2 DEF Tick
  <2>2. TypeOK'
    BY <1>0, <1>6, <2>1, TypeParts DEF Tick, TypeOK
  <2> QED
    BY <1>0, <1>6, <2>2 DEF Tick, TargetIsNewest
<1>7. ASSUME Stop \/ Shutdown PROVE TypeOK' /\ TargetIsNewest'
  BY <1>0, <1>7, TypeParts DEF Stop, Shutdown, TypeOK, TargetIsNewest
<1>8. ASSUME NEW f \in Thread, ReadTarget(f) PROVE TypeOK' /\ TargetIsNewest'
  <2> PICK b \in hand[f] :
        hand' = [hand EXCEPT ![f] = (@ \ {b}) \cup
                   {Batch(b.session, b.batch, target[b.session])}]
    BY <1>8 DEF ReadTarget
  <2>1. b \in Batches
    BY <1>0 DEF TypeOK
  <2>2. Batch(b.session, b.batch, target[b.session]) \in Batches
    <3>1. b.session \in Session /\ b.batch \in SUBSET Message
      BY <2>1 DEF Batches
    <3>2. target[b.session] \in 0..MaxMessages
      BY <1>0, <3>1, TypeParts
    <3> QED
      BY <3>1, <3>2, BatchType
  <2>3. hand' \in [Thread -> SUBSET Batches]
    BY <1>0, <2>2 DEF TypeOK
  <2>4. TypeOK'
    BY <1>0, <1>8, <2>3, TypeParts DEF ReadTarget, TypeOK
  <2> QED
    BY <1>0, <1>8, <2>4 DEF ReadTarget, TargetIsNewest
<1>9. ASSUME NEW f \in Thread, NEW b \in hand[f], LoseBatch(f, b)
      PROVE  /\ hand' \in [Thread -> SUBSET Batches]
             /\ lost' \in [Session -> SUBSET Message]
  <2>1. b \in Batches
    BY <1>0 DEF TypeOK
  <2>2. b.session \in Session /\ b.batch \in SUBSET Message
    BY <2>1 DEF Batches
  <2> QED
    BY <1>0, <1>9, <2>2, TypeParts DEF LoseBatch, TypeOK
<1>10. ASSUME NEW f \in Thread, Drop(f) PROVE TypeOK' /\ TargetIsNewest'
  <2>1. /\ hand' \in [Thread -> SUBSET Batches]
        /\ lost' \in [Session -> SUBSET Message]
    BY <1>9, <1>10 DEF Drop
  <2>2. TypeOK'
    BY <1>0, <1>10, <2>1, TypeParts DEF Drop, TypeOK
  <2> QED
    BY <1>0, <1>10, <2>2 DEF Drop, TargetIsNewest
<1>11. ASSUME NEW f \in Thread, ExecuteChannelDispatch(f)
       PROVE  TypeOK' /\ TargetIsNewest'
  <2> PICK b \in hand[f] :
        /\ IF Interval[b.session] > 0 THEN NotifyChainStart(b.session)
           ELSE UNCHANGED <<active, timer>>
        /\ IF jobs
           THEN /\ queued' = queued \cup {b}
                /\ hand' = [hand EXCEPT ![f] = @ \ {b}]
                /\ UNCHANGED lost
           ELSE LoseBatch(f, b) /\ UNCHANGED queued
    BY <1>11 DEF ExecuteChannelDispatch
  <2>1. b \in Batches /\ b.session \in Session
    BY <1>0 DEF TypeOK, Batches
  <2>2. active' \in [Session -> BOOLEAN] /\ timer' \in [Session -> BOOLEAN]
    BY <1>0, <2>1, TypeParts DEF NotifyChainStart
  <2>3. /\ hand' \in [Thread -> SUBSET Batches]
        /\ lost' \in [Session -> SUBSET Message]
        /\ queued' \subseteq Batches
    <3>1. CASE jobs
      BY <1>0, <2>1, <3>1, TypeParts DEF TypeOK
    <3>2. CASE ~jobs
      BY <1>0, <1>9, <3>2 DEF TypeOK
    <3> QED
      BY <3>1, <3>2
  <2>4. TypeOK'
    BY <1>0, <1>11, <2>2, <2>3, TypeParts DEF ExecuteChannelDispatch, TypeOK
  <2> QED
    BY <1>0, <1>11, <2>4 DEF ExecuteChannelDispatch, TargetIsNewest
<1>12. ASSUME NEW c \in queued, StartChain(c) PROVE TypeOK' /\ TargetIsNewest'
  <2>1. c \in Batches /\ c.session \in Session /\ c.batch \in SUBSET Message
    BY <1>0 DEF TypeOK, Batches
  <2>2. said' \in [Session -> SUBSET Message]
    BY <1>0, <1>12, <2>1, TypeParts DEF StartChain
  <2>3. TypeOK'
    BY <1>0, <1>12, <2>1, <2>2, TypeParts DEF StartChain, TypeOK
  <2> QED
    BY <1>0, <1>12, <2>3 DEF StartChain, TargetIsNewest
<1>13. ASSUME NEW c \in chains, EndChain(c) PROVE TypeOK' /\ TargetIsNewest'
  <2>1. c.session \in Session
    BY <1>0 DEF TypeOK, Batches
  <2>2. Interval[c.session] \in Nat
        /\ Later(Interval[c.session], Window[c.session]) \in Nat
    BY <2>1, Numbers
  <2>3. /\ active' \in [Session -> BOOLEAN] /\ timer' \in [Session -> BOOLEAN]
        /\ cool' \in [Session -> Nat] /\ due' \in [Session -> Nat]
    BY <1>0, <1>13, <2>1, <2>2, TypeParts DEF EndChain, NotifyChainEnd
  <2>4. TypeOK'
    BY <1>0, <1>13, <2>3, TypeParts DEF EndChain, TypeOK
  <2> QED
    BY <1>0, <1>13, <2>4 DEF EndChain, TargetIsNewest
<1>14. ASSUME NEW c \in chains, ChainThrows(c) PROVE TypeOK' /\ TargetIsNewest'
  BY <1>0, <1>14, TypeParts DEF ChainThrows, TypeOK, TargetIsNewest
<1>15. ASSUME UNCHANGED vars PROVE TypeOK' /\ TargetIsNewest'
  BY <1>0, <1>15, TypeParts DEF vars, TypeOK, TargetIsNewest
<1> QED
  BY <1>1, <1>2, <1>3, <1>4, <1>5, <1>6, <1>7, <1>8, <1>10, <1>11, <1>12, <1>13,
     <1>14, <1>15 DEF Next, Push, FlushStep

\* Pending and extracted messages have been pushed, still.
LEMMA StepPushed ==
  ASSUME IInv, [Next]_vars
  PROVE  OnlyPushed'
<1>0. TypeOK /\ OnlyPushed
  BY DEF IInv
<1>s. \A s \in Session : sent[s] \in Nat
  BY <1>0, TypeParts, MaxMessagesNat
<1>t. \A f \in Thread : \A b \in hand[f] :
        b \in Batches /\ b.session \in Session /\ b.batch \in SUBSET Message
  BY <1>0 DEF TypeOK, Batches
<1>m. \A m \in Message : m \in Nat
  BY MaxMessagesNat DEF Message
\* A push raises sent, which disturbs none of the other batches.
<1>r. ASSUME NEW s \in Session, PushCommon(s)
      PROVE  /\ \A x \in Session : \A m \in msgs[x] : m <= sent'[x]
             /\ \A f \in Thread : \A b \in hand[f] :
                  \A m \in b.batch : m <= sent'[b.session]
  <2>1. \A x \in Session : sent[x] <= sent'[x] /\ sent'[x] \in Nat
    BY <1>r, PushFacts, MaxMessagesNat
  <2>2. \A x \in Session : \A m \in msgs[x] : m \in Nat
    BY <1>0, <1>m, TypeParts
  <2>3. \A x \in Session : \A m \in msgs[x] : m <= sent'[x]
    BY <1>0, <1>s, <2>1, <2>2 DEF OnlyPushed
  <2>4. \A f \in Thread : \A b \in hand[f] :
          \A m \in b.batch : m <= sent'[b.session]
    <3> SUFFICES ASSUME NEW f \in Thread, NEW b \in hand[f], NEW m \in b.batch
                 PROVE  m <= sent'[b.session]
      OBVIOUS
    <3>1. m <= sent[b.session] /\ m \in Nat /\ b.session \in Session
      BY <1>0, <1>t, <1>m DEF OnlyPushed
    <3> QED
      BY <1>s, <2>1, <3>1
  <2> QED
    BY <2>3, <2>4
<1>1. ASSUME NEW s \in Session, PushQueues(s) PROVE OnlyPushed'
  <2>1. PushCommon(s) /\ UNCHANGED hand
    BY <1>1 DEF PushQueues
  <2>2. \A x \in Session : msgs'[x] = IF x = s THEN Pushed(s) ELSE msgs[x]
    BY <1>0, <1>1, TypeParts DEF PushQueues
  <2>3. \A m \in Pushed(s) : m <= sent'[s]
    BY <2>1, PushFacts
  <2> QED
    BY <1>r, <2>1, <2>2, <2>3 DEF OnlyPushed
<1>2. ASSUME NEW s \in Session, PushFlushes(s) PROVE OnlyPushed'
  <2>1. PushCommon(s)
    BY <1>2 DEF PushFlushes
  <2>2. \A x \in Session : msgs'[x] = IF x = s THEN {} ELSE msgs[x]
    BY <1>0, <1>2, TypeParts DEF PushFlushes
  <2>3. \A f \in Thread : hand'[f] = IF f = s THEN {Batch(s, Pushed(s), 0)}
                                     ELSE hand[f]
    BY <1>0, <1>2 DEF PushFlushes, TypeOK
  <2>4. /\ Batch(s, Pushed(s), 0).batch = Pushed(s)
        /\ Batch(s, Pushed(s), 0).session = s
    BY DEF Batch
  <2>5. \A m \in Pushed(s) : m <= sent'[s]
    BY <2>1, PushFacts
  <2> QED
    BY <1>r, <2>1, <2>2, <2>3, <2>4, <2>5 DEF OnlyPushed
<1>3. ASSUME TimerLoop PROVE OnlyPushed'
  <2> DEFINE E == {s \in Session : Expired(s)}
  <2>1. \A f \in Thread : hand'[f] = IF f = Timer
                                     THEN {Batch(s, msgs[s], 0) : s \in E}
                                     ELSE hand[f]
    BY <1>0, <1>3 DEF TimerLoop, TypeOK
  <2>2. \A s \in Session : msgs'[s] \subseteq msgs[s]
    BY <1>3 DEF TimerLoop
  <2>3. sent' = sent
    BY <1>3 DEF TimerLoop
  <2>4. \A b \in {Batch(s, msgs[s], 0) : s \in E} :
          b.session \in Session /\ b.batch = msgs[b.session]
    BY DEF Batch
  <2>5. \A s \in Session : \A m \in msgs'[s] : m <= sent'[s]
    BY <1>0, <2>2, <2>3 DEF OnlyPushed
  <2>6. ASSUME NEW f \in Thread, NEW b \in hand'[f], NEW m \in b.batch
        PROVE  m <= sent'[b.session]
    <3>1. CASE f = Timer
      BY <1>0, <2>1, <2>3, <2>4, <3>1 DEF OnlyPushed
    <3>2. CASE f # Timer
      BY <1>0, <2>1, <2>3, <3>2 DEF OnlyPushed
    <3> QED
      BY <3>1, <3>2
  <2> QED
    BY <2>5, <2>6 DEF OnlyPushed
<1>4. ASSUME NEW f \in Thread, ReadTarget(f) PROVE OnlyPushed'
  <2> PICK b \in hand[f] :
        hand' = [hand EXCEPT ![f] = (@ \ {b}) \cup
                   {Batch(b.session, b.batch, target[b.session])}]
    BY <1>4 DEF ReadTarget
  <2> DEFINE r == Batch(b.session, b.batch, target[b.session])
  <2>1. r.session = b.session /\ r.batch = b.batch
    BY DEF Batch
  <2>2. \A g \in Thread : \A d \in hand'[g] : d \in hand[g] \/ (g = f /\ d = r)
    BY <1>0 DEF TypeOK
  <2>3. msgs' = msgs /\ sent' = sent
    BY <1>4 DEF ReadTarget
  <2>4. ASSUME NEW g \in Thread, NEW d \in hand'[g], NEW m \in d.batch
        PROVE  m <= sent'[d.session]
    <3>1. CASE d \in hand[g]
      BY <1>0, <2>3, <3>1 DEF OnlyPushed
    <3>2. CASE d = r
      BY <1>0, <2>1, <2>3, <3>2 DEF OnlyPushed
    <3> QED
      BY <2>2, <3>1, <3>2
  <2> QED
    BY <1>0, <2>3, <2>4 DEF OnlyPushed
\* The other steps take messages and batches away, or leave them alone.
<1>5. ASSUME sent' = sent,
             \A s \in Session : msgs'[s] \subseteq msgs[s],
             \A f \in Thread : hand'[f] \subseteq hand[f]
      PROVE  OnlyPushed'
  BY <1>0, <1>5 DEF OnlyPushed
<1>6. ASSUME NEW s \in Session, Dispatch(s) \/ DrainInterjection(s)
      PROVE  OnlyPushed'
  <2>1. sent' = sent /\ hand' = hand /\ \A x \in Session : msgs'[x] \subseteq msgs[x]
    BY <1>0, <1>6, TypeParts DEF Dispatch, DrainInterjection
  <2> QED
    BY <1>5, <2>1
<1>7. ASSUME NEW f \in Thread, Drop(f) \/ ExecuteChannelDispatch(f)
      PROVE  OnlyPushed'
  <2>1. sent' = sent /\ msgs' = msgs
    BY <1>7 DEF Drop, ExecuteChannelDispatch
  <2>2. \A g \in Thread : hand'[g] \subseteq hand[g]
    BY <1>0, <1>7 DEF Drop, ExecuteChannelDispatch, LoseBatch, TypeOK
  <2> QED
    BY <1>5, <2>1, <2>2
<1>8. ASSUME \/ Tick \/ Stop \/ Shutdown \/ UNCHANGED vars
             \/ \E c \in queued : StartChain(c)
             \/ \E c \in chains : EndChain(c) \/ ChainThrows(c)
      PROVE  OnlyPushed'
  <2>1. sent' = sent /\ msgs' = msgs /\ hand' = hand
    BY <1>8 DEF Tick, Stop, Shutdown, vars, StartChain, EndChain, ChainThrows
  <2> QED
    BY <1>5, <2>1
<1> QED
  BY <1>1, <1>2, <1>3, <1>4, <1>6, <1>7, <1>8 DEF Next, Push, FlushStep

\* A batch is answered to its newest message or to a later one, still: the
\* target is read after the extraction and was stored before the push.
LEMMA StepCovers ==
  ASSUME IInv, [Next]_vars
  PROVE  TargetCovers'
<1>0. TypeOK /\ TargetIsNewest /\ OnlyPushed /\ TargetCovers
  BY DEF IInv
<1> DEFINE Covered(b) == b.reply > 0 => \A m \in b.batch : m <= b.reply
<1> DEFINE Held == Extracted \cup queued \cup chains
<1>a. /\ \A f \in Thread : \A b \in hand[f] : Covered(b)
      /\ \A b \in queued : Covered(b)
      /\ \A b \in chains : Covered(b)
  <2>1. \A b \in Held : Covered(b)
    BY <1>0 DEF TargetCovers
  <2>2. \A b : b \in Held <=> (\E f \in Thread : b \in hand[f])
                             \/ b \in queued \/ b \in chains
    BY InSomeHand DEF Extracted
  <2> HIDE DEF Covered, Held
  <2> QED
    BY <2>1, <2>2
<1>b. ASSUME \A f \in Thread : \A b \in hand'[f] : Covered(b),
             \A b \in queued' \cup chains' : Covered(b)
      PROVE  TargetCovers'
  <2>1. \A b : b \in Held' <=> (\E f \in Thread : b \in hand'[f])
                              \/ b \in queued' \/ b \in chains'
    BY InSomeHand DEF Extracted
  <2>2. ASSUME NEW b \in Held' PROVE Covered(b)
    <3> HIDE DEF Covered, Held
    <3> QED
      BY <1>b, <2>1, <2>2
  <2> QED
    BY <2>2 DEF TargetCovers
\* A batch just extracted has no target yet.
<1>c. ASSUME NEW s, NEW B PROVE Covered(Batch(s, B, 0))
  BY DEF Batch
<1>1. ASSUME NEW s \in Session, PushFlushes(s) PROVE TargetCovers'
  <2>1. \A f \in Thread : hand'[f] = IF f = s THEN {Batch(s, Pushed(s), 0)}
                                     ELSE hand[f]
    BY <1>0, <1>1 DEF PushFlushes, TypeOK
  <2>2. queued' = queued /\ chains' = chains
    BY <1>1 DEF PushFlushes, PushCommon
  <2> HIDE DEF Covered
  <2> QED
    BY <1>a, <1>b, <1>c, <2>1, <2>2
<1>2. ASSUME TimerLoop PROVE TargetCovers'
  <2> DEFINE E == {s \in Session : Expired(s)}
  <2>1. \A f \in Thread : hand'[f] = IF f = Timer
                                     THEN {Batch(s, msgs[s], 0) : s \in E}
                                     ELSE hand[f]
    BY <1>0, <1>2 DEF TimerLoop, TypeOK
  <2>2. queued' = queued /\ chains' = chains
    BY <1>2 DEF TimerLoop
  <2>3. \A b \in {Batch(s, msgs[s], 0) : s \in E} : Covered(b)
    BY <1>c
  <2> HIDE DEF Covered, E
  <2> QED
    BY <1>a, <1>b, <2>1, <2>2, <2>3
<1>3. ASSUME NEW f \in Thread, ReadTarget(f) PROVE TargetCovers'
  <2> PICK b \in hand[f] :
        hand' = [hand EXCEPT ![f] = (@ \ {b}) \cup
                   {Batch(b.session, b.batch, target[b.session])}]
    BY <1>3 DEF ReadTarget
  <2> DEFINE r == Batch(b.session, b.batch, target[b.session])
  <2>1. b.session \in Session /\ b.batch \in SUBSET Message
    BY <1>0 DEF TypeOK, Batches
  <2>2. sent[b.session] \in Nat /\ target[b.session] >= sent[b.session]
    BY <1>0, <2>1, TypeParts, MaxMessagesNat DEF TargetIsNewest
  <2>3. \A m \in b.batch : m \in Nat /\ m <= sent[b.session]
    BY <1>0, <2>1, MaxMessagesNat DEF OnlyPushed, Message
  <2>4. target[b.session] \in Nat
    BY <1>0, <2>1, TypeParts, MaxMessagesNat
  <2>5. \A m \in b.batch : m <= target[b.session]
    BY <2>2, <2>3, <2>4
  <2>6. r.batch = b.batch /\ r.reply = target[b.session]
    BY DEF Batch
  <2>7. Covered(r)
    BY <2>5, <2>6
  <2>8. \A g \in Thread : \A d \in hand'[g] : d \in hand[g] \/ d = r
    BY <1>0 DEF TypeOK
  <2>9. queued' = queued /\ chains' = chains
    BY <1>3 DEF ReadTarget
  <2> HIDE DEF Covered, r
  <2> QED
    BY <1>a, <1>b, <2>7, <2>8, <2>9
\* The other steps move batches along, or take them away.
<1>4. ASSUME \A f \in Thread : hand'[f] \subseteq hand[f],
             \A b \in queued' \cup chains' :
               b \in queued \cup chains \/ \E f \in Thread : b \in hand[f]
      PROVE  TargetCovers'
  <2> HIDE DEF Covered
  <2> QED
    BY <1>a, <1>b, <1>4
<1>5. ASSUME NEW f \in Thread, Drop(f) \/ ExecuteChannelDispatch(f)
      PROVE  TargetCovers'
  <2>1. \A g \in Thread : hand'[g] \subseteq hand[g]
    BY <1>0, <1>5 DEF Drop, ExecuteChannelDispatch, LoseBatch, TypeOK
  <2>2. \A b \in queued' : b \in queued \/ b \in hand[f]
    BY <1>5 DEF Drop, ExecuteChannelDispatch
  <2>3. chains' = chains
    BY <1>5 DEF Drop, ExecuteChannelDispatch
  <2> QED
    BY <1>4, <2>1, <2>2, <2>3
<1>6. ASSUME \/ \E s \in Session :
                  Dispatch(s) \/ PushQueues(s) \/ DrainInterjection(s)
             \/ Tick \/ Stop \/ Shutdown \/ UNCHANGED vars
             \/ \E c \in queued : StartChain(c)
             \/ \E c \in chains : EndChain(c) \/ ChainThrows(c)
      PROVE  TargetCovers'
  <2>1. hand' = hand
    BY <1>6 DEF Dispatch, PushQueues, DrainInterjection, Tick, Stop, Shutdown,
                vars, StartChain, EndChain, ChainThrows
  <2>2. queued' \cup chains' \subseteq queued \cup chains
    BY <1>6 DEF Dispatch, PushQueues, PushCommon, DrainInterjection, Tick, Stop,
                Shutdown, vars, StartChain, EndChain, ChainThrows
  <2> QED
    BY <1>4, <2>1, <2>2
<1> QED
  BY <1>1, <1>2, <1>3, <1>5, <1>6 DEF Next, Push, FlushStep

\* Whatever is pending has a timer or a chain, still.
LEMMA StepArmed ==
  ASSUME IInv, [Next]_vars
  PROVE  Armed'
<1>0. TypeOK /\ Armed
  BY DEF IInv
<1>1. ASSUME NEW s \in Session, PushQueues(s) PROVE Armed'
  <2>1. active' = active
    BY <1>1 DEF PushQueues, PushCommon
  <2>2. \A x \in Session : x # s => msgs'[x] = msgs[x] /\ timer'[x] = timer[x]
    BY <1>0, <1>1, TypeParts DEF PushQueues
  <2>3. timer'[s] \/ active[s]
    BY <1>0, <1>1, TypeParts DEF PushQueues, Unattended
  <2> QED
    BY <1>0, <2>1, <2>2, <2>3 DEF Armed
<1>2. ASSUME NEW s \in Session, PushFlushes(s) PROVE Armed'
  BY <1>0, <1>2, TypeParts DEF PushFlushes, PushCommon, Armed
<1>3. ASSUME NEW s \in Session, Dispatch(s) \/ DrainInterjection(s) PROVE Armed'
  BY <1>0, <1>3, TypeParts DEF Dispatch, DrainInterjection, Armed
<1>4. ASSUME TimerLoop PROVE Armed'
  BY <1>0, <1>4, TypeParts DEF TimerLoop, Armed
<1>5. ASSUME NEW f \in Thread, ExecuteChannelDispatch(f) PROVE Armed'
  <2>1. \A s \in Session : \/ active'[s]
                           \/ active'[s] = active[s] /\ timer'[s] = timer[s]
    BY <1>0, <1>5, TypeParts DEF ExecuteChannelDispatch, NotifyChainStart
  <2>2. msgs' = msgs
    BY <1>5 DEF ExecuteChannelDispatch
  <2> QED
    BY <1>0, <2>1, <2>2 DEF Armed
<1>6. ASSUME NEW c \in chains, EndChain(c) PROVE Armed'
  <2>1. msgs' = msgs
    BY <1>6 DEF EndChain
  <2>2. \A s \in Session : s # c.session => /\ active'[s] = active[s]
                                            /\ timer'[s] = timer[s]
    BY <1>0, <1>6, TypeParts DEF EndChain, NotifyChainEnd
  <2>3. c.session \in Session /\ msgs[c.session] # {} => timer'[c.session]
    BY <1>0, <1>6, TypeParts DEF EndChain, NotifyChainEnd
  <2> QED
    BY <1>0, <2>1, <2>2, <2>3 DEF Armed
<1>7. ASSUME \/ Tick \/ Stop \/ Shutdown \/ UNCHANGED vars
             \/ \E f \in Thread : ReadTarget(f) \/ Drop(f)
             \/ \E c \in queued : StartChain(c)
             \/ \E c \in chains : ChainThrows(c)
      PROVE  Armed'
  <2>1. msgs' = msgs /\ timer' = timer /\ active' = active
    BY <1>7 DEF Tick, Stop, Shutdown, vars, ReadTarget, Drop, StartChain,
                ChainThrows
  <2> QED
    BY <1>0, <2>1 DEF Armed
<1> QED
  BY <1>1, <1>2, <1>3, <1>4, <1>5, <1>6, <1>7 DEF Next, Push, FlushStep

-----------------------------------------------------------------------------

\* The inductive invariant holds in every reachable state.
THEOREM InductiveInvariant == Spec => []IInv
<1>1. IInv /\ [Next]_vars => IInv'
  BY StepType, StepPushed, StepCovers, StepArmed DEF IInv
<1> QED
  BY InitIInv, <1>1, PTL DEF Spec

\* Type correctness of the queue, its threads and the chains.
THEOREM TypeCorrect == Spec => []TypeOK
<1>1. IInv => TypeOK
  BY DEF IInv
<1> QED
  BY InductiveInvariant, <1>1, PTL

\* No pending message is forgotten: a timer is armed for it or a chain is
\* active whose end arms one, whatever the knobs of the sessions, and even
\* when chains throw or interject (Push, TimerLoop, NotifyChainEnd).
THEOREM PendingArmed == Spec => []Armed
<1>1. IInv => Armed
  BY DEF IInv
<1> QED
  BY InductiveInvariant, <1>1, PTL

\* A batch is answered to its newest message or a later one, for any number
\* of sessions and messages (the flush callback reads after the extraction
\* the target that the dispatch callback stored before the push).
THEOREM ReplyCovers == Spec => []TargetCovers
<1>1. IInv => TargetCovers
  BY DEF IInv
<1> QED
  BY InductiveInvariant, <1>1, PTL

-----------------------------------------------------------------------------
(* Chains that always reach NotifyChainEnd *)

\* A busy session has a chain, still, if no chain throws.
LEMMA StepBusy ==
  ASSUME ~MayThrow, IInv, ActiveHasChain, [Next]_vars
  PROVE  ActiveHasChain'
<1>0. TypeOK /\ ActiveHasChain
  BY DEF IInv
<1>1. ASSUME NEW f \in Thread, ExecuteChannelDispatch(f) PROVE ActiveHasChain'
  <2> PICK b \in hand[f] :
        /\ IF Interval[b.session] > 0 THEN NotifyChainStart(b.session)
           ELSE UNCHANGED <<active, timer>>
        /\ IF jobs THEN queued' = queued \cup {b} ELSE UNCHANGED queued
    BY <1>1 DEF ExecuteChannelDispatch
  <2>1. jobs' = jobs /\ chains' = chains
    BY <1>1 DEF ExecuteChannelDispatch
  <2>2. \A s \in Session : s # b.session => active'[s] = active[s]
    BY <1>0, TypeParts DEF NotifyChainStart
  <2> QED
    BY <1>0, <2>1, <2>2 DEF ActiveHasChain
<1>2. ASSUME NEW c \in chains, EndChain(c) PROVE ActiveHasChain'
  <2>1. /\ jobs' = jobs /\ queued' = queued /\ chains' = chains \ {c}
        /\ c.session \in Session => ~active'[c.session]
    BY <1>0, <1>2, TypeParts DEF EndChain, NotifyChainEnd
  <2>2. \A s \in Session : s # c.session => active'[s] = active[s]
    BY <1>0, <1>2, TypeParts DEF EndChain, NotifyChainEnd
  <2> QED
    BY <1>0, <2>1, <2>2 DEF ActiveHasChain
<1>3. ASSUME NEW c \in queued, StartChain(c) PROVE ActiveHasChain'
  <2>1. /\ jobs' = jobs /\ active' = active
        /\ queued' \cup chains' = queued \cup chains
    BY <1>3 DEF StartChain
  <2> QED
    BY <1>0, <2>1 DEF ActiveHasChain
<1>4. ASSUME Stop PROVE ActiveHasChain'
  BY <1>4 DEF Stop, ActiveHasChain
<1>5. ASSUME \/ \E s \in Session : Dispatch(s) \/ Push(s) \/ DrainInterjection(s)
             \/ TimerLoop \/ Tick \/ Shutdown \/ UNCHANGED vars
             \/ \E f \in Thread : ReadTarget(f) \/ Drop(f)
      PROVE  ActiveHasChain'
  <2>1. /\ jobs' = jobs /\ active' = active
        /\ queued' = queued /\ chains' = chains
    BY <1>5 DEF Dispatch, Push, PushQueues, PushFlushes, PushCommon,
                DrainInterjection, TimerLoop, Tick, Shutdown, vars, ReadTarget,
                Drop
  <2> QED
    BY <1>0, <2>1 DEF ActiveHasChain
<1> QED
  BY <1>1, <1>2, <1>3, <1>4, <1>5 DEF Next, FlushStep, ChainThrows

\* A session that takes itself for busy has a chain that will end, as long as
\* chains return: the exception that ends a job before NotifyChainEnd is the
\* only way to a silenced session while jobs are taken
\* (ExecuteChannelDispatch and its job).
THEOREM BusyHasChain ==
  ASSUME ~MayThrow
  PROVE  Spec => []ActiveHasChain
<1>1. Init => ActiveHasChain
  BY DEF Init, ActiveHasChain
<1>2. IInv /\ ActiveHasChain /\ [Next]_vars => ActiveHasChain'
  BY StepBusy
<1> QED
  BY InductiveInvariant, <1>1, <1>2, PTL DEF Spec

-----------------------------------------------------------------------------
(* Sessions without interjection *)

(* An armed timer has something to flush, and is over neither before the    *)
(* cooldown nor before the window of the oldest pending message.            *)
TimerKeeps ==
  \A s \in Session :
    timer[s] => /\ msgs[s] # {}
                /\ due[s] >= cool[s]
                /\ due[s] + age[s] >= Window[s]

\* The knobs are numbers.
LEMMA Knobs ==
  Interval \in [Session -> Nat] /\ Window \in [Session -> Nat]
  BY ChannelQueueAssumption

\* An armed timer keeps cooldown and window, still.
LEMMA StepTimer ==
  ASSUME \A s \in Session : ~Interjection[s], IInv, TimerKeeps, [Next]_vars
  PROVE  TimerKeeps'
<1>0. TypeOK /\ TimerKeeps
  BY DEF IInv
<1> DEFINE Same(x) == /\ timer'[x] => timer[x] /\ msgs'[x] = msgs[x]
                      /\ due'[x] = due[x] /\ cool'[x] = cool[x]
                      /\ age'[x] = age[x]
<1>a. ASSUME NEW s, \A x \in Session : x # s => Same(x),
             s \in Session /\ timer'[s] =>
               /\ msgs'[s] # {}
               /\ due'[s] >= cool'[s]
               /\ due'[s] + age'[s] >= Window[s]
      PROVE  TimerKeeps'
  BY <1>0, <1>a DEF TimerKeeps
<1>1. ASSUME NEW s \in Session, PushQueues(s) PROVE TimerKeeps'
  <2>0. cool' = cool
    BY <1>1 DEF PushQueues, PushCommon
  <2>1. \A x \in Session : x # s => Same(x)
    BY <1>0, <1>1, <2>0, TypeParts DEF PushQueues
  <2>2. msgs'[s] # {}
    BY <1>0, <1>1, TypeParts DEF PushQueues, Pushed
  <2>3. age'[s] \in Nat /\ (msgs[s] # {} => age'[s] = age[s])
    BY <1>0, <1>1, TypeParts DEF PushQueues
  <2>4. CASE Unattended(s)
    <3>1. due'[s] = Later(Window[s], cool[s])
      BY <1>0, <1>1, <2>4, TypeParts DEF PushQueues
    <3>2. due'[s] >= cool[s] /\ due'[s] + age'[s] >= Window[s]
      BY <1>0, <2>3, <3>1, TypeParts, Knobs DEF Later
    <3> QED
      BY <1>a, <2>0, <2>1, <2>2, <3>2
  <2>5. CASE ~Unattended(s)
    <3>1. due' = due /\ timer' = timer
      BY <1>1, <2>5 DEF PushQueues
    <3> QED
      BY <1>0, <1>a, <2>0, <2>1, <2>2, <2>3, <3>1 DEF TimerKeeps
  <2> QED
    BY <2>4, <2>5
<1>2. ASSUME NEW s \in Session, PushFlushes(s) PROVE TimerKeeps'
  <2>1. \A x \in Session : x # s => Same(x)
    BY <1>0, <1>2, TypeParts DEF PushFlushes, PushCommon
  <2>2. ~timer'[s]
    BY <1>0, <1>2, TypeParts DEF PushFlushes
  <2> QED
    BY <1>a, <2>1, <2>2
<1>3. ASSUME TimerLoop PROVE TimerKeeps'
  <2>1. due' = due /\ cool' = cool /\ age' = age
    BY <1>3 DEF TimerLoop
  <2>2. \A x \in Session : timer'[x] => timer[x] /\ msgs'[x] = msgs[x]
    BY <1>3 DEF TimerLoop
  <2> QED
    BY <1>0, <2>1, <2>2 DEF TimerKeeps
<1>4. ASSUME Tick PROVE TimerKeeps'
  <2>1. msgs' = msgs /\ timer' = timer
    BY <1>4 DEF Tick
  <2> SUFFICES ASSUME NEW x \in Session, timer[x]
               PROVE  /\ due'[x] >= cool'[x]
                      /\ due'[x] + age'[x] >= Window[x]
    BY <1>0, <2>1 DEF TimerKeeps
  <2>2. /\ msgs[x] # {} /\ due[x] >= cool[x]
        /\ due[x] + age[x] >= Window[x]
    BY <1>0 DEF TimerKeeps
  <2>3. /\ due'[x] = Sooner(due[x]) /\ cool'[x] = Sooner(cool[x])
        /\ age'[x] = IF age[x] < Window[x] THEN age[x] + 1 ELSE age[x]
    BY <1>4, <2>2 DEF Tick
  <2>4. /\ due[x] \in Nat /\ cool[x] \in Nat /\ age[x] \in Nat
        /\ Window[x] \in Nat
    BY <1>0, TypeParts, Knobs
  <2> QED
    BY <2>2, <2>3, <2>4 DEF Sooner
<1>5. ASSUME NEW c \in chains, EndChain(c) PROVE TimerKeeps'
  <2> DEFINE s == c.session
  <2>1. msgs' = msgs /\ age' = age
    BY <1>5 DEF EndChain
  <2>2. \A x \in Session : x # s => Same(x)
    BY <1>0, <1>5, <2>1, TypeParts DEF EndChain, NotifyChainEnd
  <2>3. s \in Session
    BY <1>0 DEF TypeOK, Batches
  <2>4. CASE msgs[s] = {}
    <3>1. timer' = timer
      BY <1>5, <2>4 DEF EndChain, NotifyChainEnd
    <3> QED
      BY <1>0, <1>a, <2>2, <2>3, <2>4, <3>1 DEF TimerKeeps
  <2>5. CASE msgs[s] # {}
    <3>1. due'[s] = Later(Interval[s], Window[s]) /\ cool'[s] = Interval[s]
      BY <1>0, <1>5, <2>3, <2>5, TypeParts DEF EndChain, NotifyChainEnd
    <3>2. age[s] \in Nat
      BY <1>0, <2>3, TypeParts
    <3>3. due'[s] >= cool'[s] /\ due'[s] + age[s] >= Window[s]
      BY <2>3, <3>1, <3>2, Knobs DEF Later
    <3> QED
      BY <1>a, <2>1, <2>2, <2>5, <3>3
  <2> QED
    BY <2>4, <2>5
<1>6. ASSUME NEW f \in Thread, ExecuteChannelDispatch(f) PROVE TimerKeeps'
  <2>1. msgs' = msgs /\ due' = due /\ cool' = cool /\ age' = age
    BY <1>6 DEF ExecuteChannelDispatch
  <2>2. \A x \in Session : timer'[x] => timer[x]
    BY <1>0, <1>6, TypeParts DEF ExecuteChannelDispatch, NotifyChainStart
  <2> QED
    BY <1>0, <2>1, <2>2 DEF TimerKeeps
<1>7. ASSUME \/ Stop \/ Shutdown \/ UNCHANGED vars
             \/ \E s \in Session : Dispatch(s)
             \/ \E f \in Thread : ReadTarget(f) \/ Drop(f)
             \/ \E c \in queued : StartChain(c)
             \/ \E c \in chains : ChainThrows(c)
      PROVE  TimerKeeps'
  <2>1. /\ msgs' = msgs /\ due' = due /\ cool' = cool /\ age' = age
        /\ timer' = timer
    BY <1>7 DEF Stop, Shutdown, vars, Dispatch, ReadTarget, Drop, StartChain,
                ChainThrows
  <2> QED
    BY <1>0, <2>1 DEF TimerKeeps
<1> QED
  BY <1>1, <1>2, <1>3, <1>4, <1>5, <1>6, <1>7
     DEF Next, Push, FlushStep, DrainInterjection

\* What is extracted, other than by the safety valve, has waited out the
\* cooldown and the window.
LEMMA Extraction ==
  ASSUME IInv, TimerKeeps, [Next]_vars,
         NEW f \in Thread, NEW b \in hand'[f], b \notin hand[f],
         b.reply = 0, ~Full(b.batch)
  PROVE  cool[b.session] = 0 /\ age[b.session] >= Window[b.session]
<1>0. TypeOK /\ TimerKeeps
  BY DEF IInv
<1>1. ASSUME NEW s \in Session, PushFlushes(s)
      PROVE  cool[b.session] = 0 /\ age[b.session] >= Window[b.session]
  <2>1. b = Batch(s, Pushed(s), 0)
    BY <1>0, <1>1 DEF PushFlushes, TypeOK
  <2>2. b.session = s /\ b.batch = Pushed(s)
    BY <2>1 DEF Batch
  <2>3. ~NeedsTimer(s)
    BY <1>1, <2>2 DEF PushFlushes
  <2>4. cool[s] \in Nat /\ age[s] \in Nat /\ Window[s] \in Nat
    BY <1>0, TypeParts, Knobs
  <2> QED
    BY <2>2, <2>3, <2>4 DEF NeedsTimer
<1>2. ASSUME TimerLoop
      PROVE  cool[b.session] = 0 /\ age[b.session] >= Window[b.session]
  <2>1. hand'[f] = hand[f]
          \/ hand'[f] = {Batch(s, msgs[s], 0) : s \in {x \in Session : Expired(x)}}
    BY <1>0, <1>2 DEF TimerLoop, TypeOK
  <2> PICK s \in Session : Expired(s) /\ b = Batch(s, msgs[s], 0)
    BY <2>1
  <2>2. b.session = s
    BY DEF Batch
  <2>3. due[s] = 0 /\ due[s] >= cool[s] /\ due[s] + age[s] >= Window[s]
    BY <1>0 DEF Expired, TimerKeeps
  <2>4. cool[s] \in Nat /\ age[s] \in Nat /\ Window[s] \in Nat
    BY <1>0, TypeParts, Knobs
  <2> QED
    BY <2>2, <2>3, <2>4
\* A target read as 0 leaves the batch as it was.
<1>3. ASSUME NEW g \in Thread, ReadTarget(g) PROVE FALSE
  <2> PICK d \in hand[g] :
        hand' = [hand EXCEPT ![g] = (@ \ {d}) \cup
                   {Batch(d.session, d.batch, target[d.session])}]
    BY <1>3 DEF ReadTarget
  <2>1. d.reply = 0 /\ d \in Batches
    BY <1>0, <1>3 DEF ReadTarget, TypeOK
  <2>2. d = Batch(d.session, d.batch, 0)
    BY <2>1 DEF Batch, Batches
  <2>3. g = f /\ b = Batch(d.session, d.batch, target[d.session])
    BY <1>0 DEF TypeOK
  <2>4. b.reply = target[d.session]
    BY <2>3 DEF Batch
  <2> QED
    BY <2>2, <2>3, <2>4
<1>4. ASSUME \/ \E s \in Session :
                  Dispatch(s) \/ PushQueues(s) \/ DrainInterjection(s)
             \/ Tick \/ Stop \/ Shutdown \/ UNCHANGED vars
             \/ \E g \in Thread : Drop(g) \/ ExecuteChannelDispatch(g)
             \/ \E c \in queued : StartChain(c)
             \/ \E c \in chains : EndChain(c) \/ ChainThrows(c)
      PROVE  FALSE
  <2>1. ASSUME NEW g \in Thread, Drop(g) \/ ExecuteChannelDispatch(g)
        PROVE  hand'[f] \subseteq hand[f]
    BY <1>0, <2>1 DEF Drop, ExecuteChannelDispatch, LoseBatch, TypeOK
  <2>2. \/ hand' = hand
        \/ \E g \in Thread : Drop(g) \/ ExecuteChannelDispatch(g)
    BY <1>4 DEF Dispatch, PushQueues, DrainInterjection, Tick, Stop, Shutdown,
                vars, StartChain, EndChain, ChainThrows
  <2> QED
    BY <2>1, <2>2
<1> QED
  BY <1>1, <1>2, <1>3, <1>4 DEF Next, Push, FlushStep

\* An armed timer keeps cooldown and window in every reachable state.
LEMMA TimerInvariant ==
  ASSUME \A s \in Session : ~Interjection[s]
  PROVE  Spec => [](IInv /\ TimerKeeps)
<1>1. Init => TimerKeeps
  BY DEF Init, TimerKeeps
<1>2. IInv /\ TimerKeeps /\ [Next]_vars => TimerKeeps'
  BY StepTimer
<1> QED
  BY InductiveInvariant, <1>1, <1>2, PTL DEF Spec

\* The timer thread sleeps unless there is something to flush, in sessions
\* that no interjection drains behind the timer's back (TimerLoop).
THEOREM TimerSleeps ==
  ASSUME \A s \in Session : ~Interjection[s]
  PROVE  Spec => []NoSpin
<1>1. IInv /\ TimerKeeps => NoSpin
  BY DEF TimerKeeps, NoSpin
<1> QED
  BY TimerInvariant, <1>1, PTL

\* The cooldown after a chain is kept by every extraction but the safety
\* valve's, for any window and any interleaving (Push, TimerLoop,
\* NotifyChainEnd).
THEOREM CooldownHolds ==
  ASSUME \A s \in Session : ~Interjection[s]
  PROVE  Spec => CooldownKept
<1>1. IInv /\ TimerKeeps /\ [Next]_vars =>
        [\A f \in Thread : \A b \in hand'[f] \ hand[f] :
           b.reply = 0 /\ ~Full(b.batch) => cool[b.session] = 0]_vars
  BY Extraction
<1> QED
  BY TimerInvariant, <1>1, PTL DEF Spec, CooldownKept, KeepsCooldown

\* The aggregation window is kept by every extraction but the safety valve's
\* (Push, TimerLoop, NotifyChainEnd).
THEOREM WindowHolds ==
  ASSUME \A s \in Session : ~Interjection[s]
  PROVE  Spec => WindowKept
<1>1. IInv /\ TimerKeeps /\ [Next]_vars =>
        [\A f \in Thread : \A b \in hand'[f] \ hand[f] :
           b.reply = 0 /\ ~Full(b.batch) =>
             age[b.session] >= Window[b.session]]_vars
  BY Extraction
<1> QED
  BY TimerInvariant, <1>1, PTL DEF Spec, WindowKept, KeepsWindow

-----------------------------------------------------------------------------
(* The queue implements Inbox *)

(* A batch is in the hand of a thread or in the queue of the job system.    *)
Queue == CHOOSE q : q \notin Thread
Places == Thread \cup {Queue}
Held(p) == IF p \in Thread THEN hand[p] ELSE queued

(* Two batches share no message.                                            *)
Apart(b, c) == b.session = c.session => b.batch \cap c.batch = {}

(* No message is held twice; what is held was pushed and is not pending.    *)
OneHolder ==
  /\ \A p, q \in Places : \A b \in Held(p), c \in Held(q) :
       (p = q /\ b = c) \/ Apart(b, c)
  /\ \A p \in Places : \A b \in Held(p) :
       /\ b.batch # {} /\ b.batch \cap msgs[b.session] = {}
       /\ \A m \in b.batch : m <= sent[b.session]

(* An I/O thread that brings a message holds no batch.                      *)
HandFree == \A s \in Session : arriving[s] => hand[s] = {}

HeldInv == IInv /\ OneHolder /\ HandFree

\* The job system's queue is none of the threads.
LEMMA QueueIsNoThread ==
  /\ Queue \notin Thread /\ Queue \in Places
  /\ \A f \in Thread : f \in Places /\ f # Queue /\ Held(f) = hand[f]
  /\ Held(Queue) = queued
<1>1. \E q : q \notin Thread
  BY NoSetContainsEverything
<1>2. Queue \notin Thread
  BY <1>1 DEF Queue
<1> QED
  BY <1>2 DEF Places, Held

\* Who holds a message of a session waits with it.
LEMMA WaitingMeans ==
  ASSUME NEW s \in Session, NEW m
  PROVE  m \in Waiting(s) <=>
           \E p \in Places : \E b \in Held(p) : b.session = s /\ m \in b.batch
<1>1. m \in Waiting(s) <=>
        \E b : (b \in InHand(s) \/ (b \in queued /\ b.session = s)) /\ m \in b.batch
  BY DEF Waiting
<1>2. \A b : b \in InHand(s) <=> (\E f \in Thread : b \in hand[f]) /\ b.session = s
  BY InSomeHand DEF InHand, Extracted
<1>3. \A b : (\E p \in Places : b \in Held(p)) <=>
             (\E f \in Thread : b \in hand[f]) \/ b \in queued
  BY QueueIsNoThread DEF Places, Held
<1> QED
  BY <1>1, <1>2, <1>3

\* The same, after a step.
LEMMA WaitingMeansNext ==
  ASSUME NEW s \in Session, NEW m
  PROVE  m \in Waiting(s)' <=>
           \E p \in Places : \E b \in Held(p)' : b.session = s /\ m \in b.batch
<1>1. m \in Waiting(s)' <=>
        \E b : (b \in InHand(s)' \/ (b \in queued' /\ b.session = s)) /\ m \in b.batch
  BY DEF Waiting
<1>2. \A b : b \in InHand(s)' <=> (\E f \in Thread : b \in hand'[f]) /\ b.session = s
  BY InSomeHand DEF InHand, Extracted
<1>3. \A b : (\E p \in Places : b \in Held(p)') <=>
             (\E f \in Thread : b \in hand'[f]) \/ b \in queued'
  BY QueueIsNoThread DEF Places, Held
<1> QED
  BY <1>1, <1>2, <1>3

\* Held batches are typed.
LEMMA HeldType ==
  ASSUME TypeOK, NEW p \in Places, NEW b \in Held(p)
  PROVE  b.session \in Session /\ b.batch \in SUBSET Message /\ b \in Batches
BY DEF TypeOK, Held, Batches

\* Batches stay apart when holders only let go of batches, and no message is
\* pending that was not before, but those that are pushed now.
LEMMA LettingGo ==
  ASSUME TypeOK, OneHolder,
         \A p \in Places : Held(p)' \subseteq Held(p),
         \A s \in Session : \A m \in msgs'[s] : m \in msgs[s] \/ m = sent[s] + 1,
         \A s \in Session : sent'[s] = sent[s] \/ sent'[s] = sent[s] + 1
  PROVE  OneHolder'
<1>1. \A p, q \in Places : \A b \in Held(p)', c \in Held(q)' :
        (p = q /\ b = c) \/ Apart(b, c)
  BY DEF OneHolder
<1>2. ASSUME NEW p \in Places, NEW b \in Held(p)'
      PROVE  /\ b.batch # {} /\ b.batch \cap msgs'[b.session] = {}
             /\ \A m \in b.batch : m <= sent'[b.session]
  <2>1. /\ b \in Held(p) /\ b.batch # {} /\ b.batch \cap msgs[b.session] = {}
        /\ \A m \in b.batch : m <= sent[b.session]
    BY <1>2 DEF OneHolder
  <2>2. /\ b.session \in Session /\ sent[b.session] \in Nat
        /\ \A m \in b.batch : m \in Nat
    BY <2>1, HeldType, TypeParts, MaxMessagesNat DEF Message
  <2>3. sent'[b.session] = sent[b.session] \/ sent'[b.session] = sent[b.session] + 1
    BY <2>2
  <2>4. \A m \in b.batch : m # sent[b.session] + 1 /\ m <= sent'[b.session]
    BY <2>1, <2>2, <2>3
  <2> QED
    BY <2>1, <2>2, <2>4
<1> QED
  BY <1>1, <1>2 DEF OneHolder

\* Batches stay apart when a thread with empty hands extracts what is pending,
\* for one batch per session.
LEMMA Extracting ==
  ASSUME TypeOK, OneHolder, NEW f \in Thread, hand[f] = {},
         \A p \in Places \ {f} : Held(p)' = Held(p),
         \A b \in hand'[f] :
           /\ b.session \in Session /\ b.batch # {} /\ msgs'[b.session] = {}
           /\ \A m \in b.batch :
                /\ m \in msgs[b.session] \/ m = sent[b.session] + 1
                /\ m <= sent'[b.session],
         \A b, c \in hand'[f] : b.session = c.session => b = c,
         \A s \in Session : msgs'[s] \subseteq msgs[s],
         \A s \in Session : sent'[s] = sent[s] \/ sent'[s] = sent[s] + 1
  PROVE  OneHolder'
<1>f. Held(f)' = hand'[f] /\ f \in Places
  BY DEF Held, Places
<1>1. ASSUME NEW p \in Places, NEW b \in Held(p)', p # f, NEW c \in hand'[f]
      PROVE  Apart(b, c) /\ Apart(c, b)
  <2> SUFFICES ASSUME b.session = c.session, NEW m \in b.batch, m \in c.batch
               PROVE  FALSE
    BY DEF Apart
  <2>1. /\ b \in Held(p) /\ b.batch \cap msgs[b.session] = {}
        /\ m <= sent[b.session]
    BY <1>1 DEF OneHolder
  <2>2. m \in Nat /\ sent[b.session] \in Nat
    BY <2>1, HeldType, TypeParts, MaxMessagesNat DEF Message
  <2> QED
    BY <2>1, <2>2
<1>2. \A p, q \in Places : \A b \in Held(p)', c \in Held(q)' :
        (p = q /\ b = c) \/ Apart(b, c)
  <2> SUFFICES ASSUME NEW p \in Places, NEW q \in Places,
                      NEW b \in Held(p)', NEW c \in Held(q)'
               PROVE  (p = q /\ b = c) \/ Apart(b, c)
    OBVIOUS
  <2>1. CASE p # f /\ q # f
    BY <2>1 DEF OneHolder
  <2>2. CASE p = f /\ q = f
    BY <1>f, <2>2 DEF Apart
  <2>3. CASE (p = f) # (q = f)
    BY <1>f, <1>1, <2>3
  <2> QED
    BY <2>1, <2>2, <2>3
<1>3. ASSUME NEW p \in Places, NEW b \in Held(p)'
      PROVE  /\ b.batch # {} /\ b.batch \cap msgs'[b.session] = {}
             /\ \A m \in b.batch : m <= sent'[b.session]
  <2>1. CASE p = f
    BY <1>f, <1>3, <2>1
  <2>2. CASE p # f
    <3>1. /\ b \in Held(p) /\ b.batch # {} /\ b.batch \cap msgs[b.session] = {}
          /\ \A m \in b.batch : m <= sent[b.session]
      BY <1>3, <2>2 DEF OneHolder
    <3>2. /\ b.session \in Session /\ sent[b.session] \in Nat
          /\ \A m \in b.batch : m \in Nat
      BY <3>1, HeldType, TypeParts, MaxMessagesNat DEF Message
    <3> QED
      BY <3>1, <3>2
  <2> QED
    BY <2>1, <2>2
<1> QED
  BY <1>2, <1>3 DEF OneHolder

\* Batches stay apart when one is passed on, with its messages, by a thread.
LEMMA PassingOn ==
  ASSUME TypeOK, OneHolder, NEW f \in Thread, NEW b \in hand[f], NEW c, NEW t \in Places,
         c.session = b.session, c.batch = b.batch,
         \A p \in Places : \A d \in Held(p)' :
           \/ d \in Held(p) /\ (p = f => d # b)
           \/ p = t /\ d = c,
         msgs' = msgs, sent' = sent
  PROVE  OneHolder'
<1>f. Held(f) = hand[f] /\ f \in Places
  BY DEF Held, Places
<1>1. ASSUME NEW p \in Places, NEW d \in Held(p), p = f => d # b
      PROVE  Apart(c, d) /\ Apart(d, c)
  BY <1>f, <1>1 DEF OneHolder, Apart
<1>2. \A p, q \in Places : \A d \in Held(p)', e \in Held(q)' :
        (p = q /\ d = e) \/ Apart(d, e)
  <2> SUFFICES ASSUME NEW p \in Places, NEW q \in Places,
                      NEW d \in Held(p)', NEW e \in Held(q)'
               PROVE  (p = q /\ d = e) \/ Apart(d, e)
    OBVIOUS
  <2>1. CASE d \in Held(p) /\ e \in Held(q)
    BY <2>1 DEF OneHolder
  <2>2. CASE p = t /\ d = c /\ q = t /\ e = c
    BY <2>2
  <2>3. CASE p = t /\ d = c /\ e \in Held(q) /\ (q = f => e # b)
    BY <1>1, <2>3
  <2>4. CASE q = t /\ e = c /\ d \in Held(p) /\ (p = f => d # b)
    BY <1>1, <2>4
  <2> QED
    BY <2>1, <2>2, <2>3, <2>4
<1>3. ASSUME NEW p \in Places, NEW d \in Held(p)'
      PROVE  /\ d.batch # {} /\ d.batch \cap msgs'[d.session] = {}
             /\ \A m \in d.batch : m <= sent'[d.session]
  BY <1>f, <1>3 DEF OneHolder
<1> QED
  BY <1>2, <1>3 DEF OneHolder

\* Nobody holds a message twice, and who brings one holds none, still.
LEMMA StepHeld ==
  ASSUME HeldInv, [Next]_vars
  PROVE  OneHolder' /\ HandFree'
<1>0. IInv /\ TypeOK /\ OneHolder /\ HandFree
  BY DEF HeldInv, IInv
<1>t. /\ arriving \in [Session -> BOOLEAN]
      /\ sent \in [Session -> 0..MaxMessages]
      /\ msgs \in [Session -> SUBSET Message]
      /\ hand \in [Thread -> SUBSET Batches]
  BY <1>0, TypeParts DEF TypeOK
\* Where hand and sent stay, so does what is held, up to queued.
<1>a. ASSUME hand' = hand, queued' \subseteq queued, sent' = sent,
             \A s \in Session : msgs'[s] \subseteq msgs[s]
      PROVE  OneHolder'
  <2>1. \A p \in Places : Held(p)' \subseteq Held(p)
    BY <1>a DEF Held
  <2> QED
    BY <1>0, <1>a, <2>1, LettingGo
<1>1. ASSUME NEW s \in Session, Dispatch(s) PROVE OneHolder' /\ HandFree'
  BY <1>0, <1>1, <1>a, <1>t DEF Dispatch, HandFree
<1>2. ASSUME NEW s \in Session, PushQueues(s) PROVE OneHolder' /\ HandFree'
  <2>1. HandFree'
    BY <1>0, <1>2, <1>t DEF PushQueues, PushCommon, HandFree
  <2>2. \A p \in Places : Held(p)' \subseteq Held(p)
    BY <1>2 DEF PushQueues, PushCommon, Held
  <2>3. /\ sent' = [sent EXCEPT ![s] = @ + 1]
        /\ msgs' = [msgs EXCEPT ![s] = msgs[s] \cup {sent[s] + 1}]
    BY <1>2 DEF PushQueues, PushCommon, Pushed
  <2>4. OneHolder'
    BY <1>0, <1>t, <2>2, <2>3, LettingGo
  <2> QED
    BY <2>1, <2>4
<1>3. ASSUME NEW s \in Session, PushFlushes(s) PROVE OneHolder' /\ HandFree'
  <2> DEFINE b == Batch(s, Pushed(s), 0)
  <2>1. /\ arriving[s] /\ arriving' = [arriving EXCEPT ![s] = FALSE]
        /\ sent' = [sent EXCEPT ![s] = @ + 1] /\ queued' = queued
        /\ hand' = [hand EXCEPT ![s] = {b}] /\ msgs' = [msgs EXCEPT ![s] = {}]
    BY <1>3 DEF PushFlushes, PushCommon
  <2>2. HandFree'
    BY <1>0, <1>t, <2>1 DEF HandFree
  <2>3. s \in Thread /\ hand[s] = {} /\ hand'[s] = {b}
    BY <1>0, <1>t, <2>1 DEF HandFree, Thread
  <2>4. \A p \in Places \ {s} : Held(p)' = Held(p)
    BY <1>t, <2>1, <2>3 DEF Held, Places
  <2>5. b.session = s /\ b.batch = msgs[s] \cup {sent[s] + 1}
    BY DEF Batch, Pushed
  <2>6. \A m \in b.batch : m <= sent'[s]
    <3>1. PushCommon(s)
      BY <1>3 DEF PushFlushes
    <3> QED
      BY <1>0, <3>1, PushFacts DEF Batch
  <2>7. \A x \in Session : msgs'[x] \subseteq msgs[x]
    BY <1>t, <2>1
  <2>8. \A x \in Session : sent'[x] = sent[x] \/ sent'[x] = sent[x] + 1
    BY <1>t, <2>1
  <2>9. msgs'[s] = {}
    BY <1>t, <2>1
  <2>10. OneHolder'
    <3> HIDE DEF b
    <3> QED
      BY <1>0, <2>3, <2>4, <2>5, <2>6, <2>7, <2>8, <2>9, Extracting
  <2> QED
    BY <2>2, <2>10
<1>4. ASSUME NEW s \in Session, DrainInterjection(s) PROVE OneHolder' /\ HandFree'
  BY <1>0, <1>4, <1>a, <1>t DEF DrainInterjection, HandFree
<1>5. ASSUME TimerLoop PROVE OneHolder' /\ HandFree'
  <2> DEFINE E == {s \in Session : Expired(s)}
             N == {Batch(s, msgs[s], 0) : s \in E}
  <2>1. /\ hand[Timer] = {} /\ hand' = [hand EXCEPT ![Timer] = N]
        /\ msgs' = [s \in Session |-> IF s \in E THEN {} ELSE msgs[s]]
        /\ queued' = queued /\ sent' = sent /\ arriving' = arriving
    BY <1>5 DEF TimerLoop
  <2>2. Timer \in Thread /\ hand'[Timer] = N
    BY <1>t, <2>1 DEF Thread
  <2>3. \A p \in Places \ {Timer} : Held(p)' = Held(p)
    BY <1>t, <2>1, <2>2 DEF Held, Places
  <2>4. \A b \in N : b.session \in E /\ b.batch = msgs[b.session]
    BY DEF Batch
  <2>5. \A b \in N : /\ b.session \in Session /\ b.batch # {}
                     /\ msgs'[b.session] = {}
    <3>1. \A s \in E : s \in Session /\ msgs[s] # {}
      BY DEF Expired
    <3> HIDE DEF E, N
    <3> QED
      BY <2>1, <2>4, <3>1
  <2>6. \A b, c \in N : b.session = c.session => b = c
    BY DEF Batch
  <2>7. \A b \in N : \A m \in b.batch : m \in msgs[b.session] /\ m <= sent'[b.session]
    <3> HIDE DEF N
    <3> QED
      BY <1>0, <2>1, <2>4 DEF IInv, OnlyPushed
  <2>8. \A x \in Session : msgs'[x] \subseteq msgs[x] /\ sent'[x] = sent[x]
    <3> HIDE DEF E
    <3> QED
      BY <2>1
  <2>9. OneHolder'
    <3> HIDE DEF N
    <3> QED
      BY <1>0, <2>1, <2>2, <2>3, <2>5, <2>6, <2>7, <2>8, Extracting
  <2>10. HandFree'
    <3>1. \A s \in Session : s \in Thread /\ s # Timer
      BY ChannelQueueAssumption DEF Thread
    <3> HIDE DEF N
    <3> QED
      BY <1>0, <1>t, <2>1, <3>1 DEF HandFree
  <2> QED
    BY <2>9, <2>10
<1>6. ASSUME NEW f \in Thread, ReadTarget(f) PROVE OneHolder' /\ HandFree'
  <2>1. PICK b \in hand[f] :
          hand' = [hand EXCEPT ![f] = (@ \ {b}) \cup
                     {Batch(b.session, b.batch, target[b.session])}]
    BY <1>6 DEF ReadTarget
  <2> DEFINE c == Batch(b.session, b.batch, target[b.session])
  <2>2. c.session = b.session /\ c.batch = b.batch
    BY DEF Batch
  <2>3. /\ queued' = queued /\ msgs' = msgs /\ sent' = sent
        /\ arriving' = arriving
    BY <1>6 DEF ReadTarget
  <2> HIDE DEF c
  <2>4. \A p \in Places : \A d \in Held(p)' :
          \/ d \in Held(p) /\ (p = f => d # b)
          \/ p = f /\ d = c
    BY <1>t, <2>1, <2>3 DEF Held, Places, c
  <2>5. OneHolder'
    BY <1>0, <2>2, <2>3, <2>4, PassingOn DEF Places
  <2>6. HandFree'
    BY <1>0, <1>t, <2>1, <2>3 DEF HandFree
  <2> QED
    BY <2>5, <2>6
<1>7. ASSUME NEW f \in Thread, Drop(f) PROVE OneHolder' /\ HandFree'
  <2>1. /\ queued' = queued /\ msgs' = msgs /\ sent' = sent
        /\ arriving' = arriving /\ \A g \in Thread : hand'[g] \subseteq hand[g]
    BY <1>7, <1>t DEF Drop, LoseBatch
  <2>2. \A p \in Places : Held(p)' \subseteq Held(p)
    BY <2>1 DEF Held
  <2> QED
    BY <1>0, <1>t, <2>1, <2>2, LettingGo DEF HandFree, Thread
<1>8. ASSUME NEW f \in Thread, ExecuteChannelDispatch(f)
      PROVE  OneHolder' /\ HandFree'
  <2>1. PICK b \in hand[f] :
          /\ hand' = [hand EXCEPT ![f] = @ \ {b}]
          /\ queued' = queued \cup {b} \/ queued' = queued
    BY <1>8 DEF ExecuteChannelDispatch, LoseBatch
  <2>2. /\ msgs' = msgs /\ sent' = sent /\ arriving' = arriving
    BY <1>8 DEF ExecuteChannelDispatch
  <2>3. \A p \in Places : \A d \in Held(p)' :
          \/ d \in Held(p) /\ (p = f => d # b)
          \/ p = Queue /\ d = b
    BY <1>t, <2>1 DEF Held, Places
  <2>4. OneHolder'
    BY <1>0, <2>2, <2>3, PassingOn, QueueIsNoThread
  <2>5. HandFree'
    BY <1>0, <1>t, <2>1, <2>2 DEF HandFree
  <2> QED
    BY <2>4, <2>5
<1>9. ASSUME \/ Tick \/ Stop \/ Shutdown \/ UNCHANGED vars
             \/ \E c \in queued : StartChain(c)
             \/ \E c \in chains : EndChain(c) \/ ChainThrows(c)
      PROVE  OneHolder' /\ HandFree'
  <2>1. /\ hand' = hand /\ sent' = sent /\ msgs' = msgs /\ arriving' = arriving
        /\ queued' \subseteq queued
    BY <1>9 DEF Tick, Stop, Shutdown, vars, StartChain, EndChain, ChainThrows
  <2> QED
    BY <1>0, <1>a, <2>1 DEF HandFree
<1> QED
  BY <1>1, <1>2, <1>3, <1>4, <1>5, <1>6, <1>7, <1>8, <1>9
     DEF Next, Push, FlushStep

(* A message waits if it is pending or in a batch that somebody holds.      *)
Awaits(s, m) ==
  \/ m \in msgs[s]
  \/ \E p \in Places : \E b \in Held(p) : b.session = s /\ m \in b.batch

\* What Inbox sees as pending are the messages that wait.
LEMMA PendingMeans ==
  ASSUME NEW s \in Session, NEW m
  PROVE  /\ m \in Pending[s] <=> Awaits(s, m)
         /\ m \in Pending'[s] <=> Awaits(s, m)'
BY WaitingMeans, WaitingMeansNext DEF Pending, Awaits

\* What is pending after a step, from the messages that wait then.
LEMMA PendingNext ==
  ASSUME NEW P, P = [s \in Session |-> P[s]],
         \A s \in Session : \A m : Awaits(s, m)' <=> m \in P[s]
  PROVE  Pending' = P
<1>1. \A s \in Session : Pending'[s] = P[s]
  BY PendingMeans
<1>2. Pending' = [s \in Session |-> Pending'[s]]
  BY DEF Pending
<1> QED
  BY <1>1, <1>2

\* Nothing is seen of a step after which the same messages wait.
LEMMA Unseen ==
  ASSUME \A s \in Session : \A m : Awaits(s, m)' <=> Awaits(s, m),
         sent' = sent, said' = said, lost' = lost
  PROVE  UNCHANGED Abstract!inboxVars
<1>1. Pending = [s \in Session |-> Pending[s]]
  BY DEF Pending
<1>2. Pending' = Pending
  BY <1>1, PendingMeans, PendingNext
<1> QED
  BY <1>2 DEF Abstract!inboxVars

\* A message that comes in is seen to arrive.
LEMMA SeenToArrive ==
  ASSUME IInv, NEW s \in Session, PushCommon(s),
         \A x \in Session : \A m :
           Awaits(x, m)' <=> Awaits(x, m) \/ (x = s /\ m = sent[s] + 1)
  PROVE  Abstract!Arrive(s)
<1> DEFINE P == [Pending EXCEPT ![s] = @ \cup {sent[s] + 1}]
<1>1. P = [x \in Session |-> P[x]] /\
        \A x \in Session : P[x] = IF x = s THEN Pending[x] \cup {sent[s] + 1}
                                  ELSE Pending[x]
  BY DEF Pending
<1>2. \A x \in Session : \A m : Awaits(x, m)' <=> m \in P[x]
  <2> HIDE DEF P
  <2> QED
    BY <1>1, PendingMeans
<1>3. Pending' = P
  <2> HIDE DEF P
  <2> QED
    BY <1>1, <1>2, PendingNext
<1>4. sent[s] \in 0..MaxMessages /\ sent[s] + 1 \in Message
  BY PushFacts, TypeParts DEF IInv
<1>5. sent[s] < MaxMessages
  BY <1>4, MaxMessagesNat DEF Message
<1> QED
  BY <1>3, <1>5 DEF PushCommon, Abstract!Arrive

\* Messages that wait no longer are seen to leave.
LEMMA SeenToLeave ==
  ASSUME NEW s \in Session, NEW B, B # {}, \A m \in B : Awaits(s, m),
         \A x \in Session : \A m :
           Awaits(x, m)' <=> Awaits(x, m) /\ ~(x = s /\ m \in B),
         sent' = sent
  PROVE  B \in SUBSET Pending[s] /\ Abstract!Leave(s, B)
<1> DEFINE P == [Pending EXCEPT ![s] = @ \ B]
<1>0. B \in SUBSET Pending[s]
  BY PendingMeans
<1>1. P = [x \in Session |-> P[x]] /\
        \A x \in Session : P[x] = IF x = s THEN Pending[x] \ B ELSE Pending[x]
  BY DEF Pending
<1>2. \A x \in Session : \A m : Awaits(x, m)' <=> m \in P[x]
  <2> HIDE DEF P
  <2> QED
    BY <1>1, PendingMeans
<1>3. Pending' = P
  <2> HIDE DEF P
  <2> QED
    BY <1>1, <1>2, PendingNext
<1> QED
  BY <1>0, <1>3 DEF Abstract!Leave

\* A batch that its holder gives away is seen to leave.
LEMMA BatchLeaves ==
  ASSUME TypeOK, OneHolder, NEW f \in Places, NEW b \in Held(f),
         \A p \in Places : \A d :
           d \in Held(p)' <=> d \in Held(p) /\ ~(p = f /\ d = b),
         msgs' = msgs, sent' = sent
  PROVE  /\ b.session \in Session
         /\ b.batch \in SUBSET Pending[b.session]
         /\ Abstract!Leave(b.session, b.batch)
<1>1. b.session \in Session /\ b.batch # {}
  BY HeldType DEF OneHolder
<1>2. ASSUME NEW p \in Places, NEW d \in Held(p), ~(p = f /\ d = b),
             d.session = b.session, NEW m \in d.batch
      PROVE  m \notin b.batch
  BY <1>2 DEF OneHolder, Apart
<1>3. \A m \in b.batch : m \notin msgs[b.session] /\ Awaits(b.session, m)
  BY DEF OneHolder, Awaits
<1>4. ASSUME NEW x \in Session, NEW m
      PROVE  Awaits(x, m)' <=> Awaits(x, m) /\ ~(x = b.session /\ m \in b.batch)
  BY <1>2, <1>3 DEF Awaits
<1> QED
  BY <1>1, <1>3, <1>4, SeenToLeave

\* Every step of the queue is a step of Inbox, or is not seen.
LEMMA StepInbox ==
  ASSUME HeldInv, [Next]_vars
  PROVE  [Abstract!Next]_(Abstract!inboxVars)
<1>0. IInv /\ TypeOK /\ OneHolder /\ HandFree
  BY DEF HeldInv, IInv
<1>t. /\ sent \in [Session -> 0..MaxMessages]
      /\ msgs \in [Session -> SUBSET Message]
      /\ said \in [Session -> SUBSET Message] /\ lost \in [Session -> SUBSET Message]
      /\ hand \in [Thread -> SUBSET Batches]
  BY <1>0, TypeParts DEF TypeOK
<1>1. ASSUME NEW s \in Session, PushQueues(s) PROVE Abstract!Next
  <2>1. PushCommon(s) /\ hand' = hand /\ queued' = queued
    BY <1>1 DEF PushQueues, PushCommon
  <2>2. \A x \in Session : msgs'[x] = IF x = s THEN msgs[s] \cup {sent[s] + 1}
                                      ELSE msgs[x]
    BY <1>1, <1>t DEF PushQueues, Pushed
  <2>3. \A p \in Places : Held(p)' = Held(p)
    BY <2>1 DEF Held
  <2>4. \A x \in Session : \A m :
          Awaits(x, m)' <=> Awaits(x, m) \/ (x = s /\ m = sent[s] + 1)
    BY <2>2, <2>3 DEF Awaits
  <2> QED
    BY <1>0, <2>1, <2>4, SeenToArrive DEF Abstract!Next
<1>2. ASSUME NEW s \in Session, PushFlushes(s) PROVE Abstract!Next
  <2> DEFINE b == Batch(s, Pushed(s), 0)
  <2>1. /\ PushCommon(s) /\ arriving[s] /\ queued' = queued
        /\ hand' = [hand EXCEPT ![s] = {b}] /\ msgs' = [msgs EXCEPT ![s] = {}]
    BY <1>2 DEF PushFlushes, PushCommon
  <2>2. s \in Places /\ Held(s) = {} /\ Held(s)' = {b}
    BY <1>0, <1>t, <2>1 DEF HandFree, Held, Places, Thread
  <2>3. \A p \in Places : p # s => Held(p)' = Held(p)
    BY <1>t, <2>1, <2>2 DEF Held, Places
  <2>4. b.session = s /\ b.batch = msgs[s] \cup {sent[s] + 1}
    BY DEF Batch, Pushed
  <2>5. \A x \in Session : msgs'[x] = IF x = s THEN {} ELSE msgs[x]
    BY <1>t, <2>1
  <2>6. ASSUME NEW x \in Session, NEW m
        PROVE  Awaits(x, m)' <=> Awaits(x, m) \/ (x = s /\ m = sent[s] + 1)
    <3> HIDE DEF b
    <3> QED
      BY <2>2, <2>3, <2>4, <2>5 DEF Awaits
  <2> QED
    BY <1>0, <2>1, <2>6, SeenToArrive DEF Abstract!Next
<1>3. ASSUME NEW s \in Session, DrainInterjection(s) PROVE Abstract!Next
  <2>1. /\ hand' = hand /\ queued' = queued /\ msgs' = [msgs EXCEPT ![s] = {}]
        /\ sent' = sent /\ lost' = lost /\ msgs[s] # {}
        /\ said' = [said EXCEPT ![s] = @ \cup msgs[s]]
    BY <1>3 DEF DrainInterjection
  <2>2. \A p \in Places : Held(p)' = Held(p)
    BY <2>1 DEF Held
  <2>3. \A p \in Places : \A b \in Held(p) : b.session = s =>
          b.batch \cap msgs[s] = {}
    BY <1>0 DEF OneHolder
  <2>4. \A x \in Session : msgs'[x] = IF x = s THEN {} ELSE msgs[x]
    BY <1>t, <2>1
  <2>5. \A m \in msgs[s] : Awaits(s, m)
    BY DEF Awaits
  <2>6. ASSUME NEW x \in Session, NEW m
        PROVE  Awaits(x, m)' <=> Awaits(x, m) /\ ~(x = s /\ m \in msgs[s])
    BY <2>2, <2>3, <2>4 DEF Awaits
  <2>7. msgs[s] \in SUBSET Pending[s] /\ Abstract!Leave(s, msgs[s])
    BY <2>1, <2>5, <2>6, SeenToLeave
  <2> QED
    BY <2>1, <2>7 DEF Abstract!Next, Abstract!Deliver
<1>4. ASSUME NEW f \in Places, NEW b \in Held(f),
             \A p \in Places : \A d :
               d \in Held(p)' <=> d \in Held(p) /\ ~(p = f /\ d = b),
             msgs' = msgs, sent' = sent,
             \/ said' = [said EXCEPT ![b.session] = @ \cup b.batch] /\ lost' = lost
             \/ lost' = [lost EXCEPT ![b.session] = @ \cup b.batch] /\ said' = said
      PROVE  Abstract!Next
  <2>1. /\ b.session \in Session /\ b.batch \in SUBSET Pending[b.session]
        /\ Abstract!Leave(b.session, b.batch)
    BY <1>0, <1>4, BatchLeaves
  <2>2. \/ Abstract!Deliver(b.session, b.batch)
        \/ Abstract!GiveUp(b.session, b.batch)
    BY <1>4, <2>1 DEF Abstract!Deliver, Abstract!GiveUp
  <2> QED
    BY <2>1, <2>2 DEF Abstract!Next
<1>5. ASSUME NEW c \in queued, StartChain(c) PROVE Abstract!Next
  <2>1. /\ hand' = hand /\ queued' = queued \ {c} /\ msgs' = msgs /\ sent' = sent
        /\ said' = [said EXCEPT ![c.session] = @ \cup c.batch] /\ lost' = lost
    BY <1>5 DEF StartChain
  <2>2. /\ Queue \in Places /\ c \in Held(Queue)
        /\ \A p \in Places : \A d :
             d \in Held(p)' <=> d \in Held(p) /\ ~(p = Queue /\ d = c)
    BY <2>1, QueueIsNoThread DEF Held, Places
  <2> QED
    BY <1>4, <2>1, <2>2
<1>6. ASSUME NEW f \in Thread, NEW b \in hand[f], LoseBatch(f, b),
             queued' = queued, msgs' = msgs, sent' = sent, said' = said
      PROVE  Abstract!Next
  <2>1. \A p \in Places : \A d :
          d \in Held(p)' <=> d \in Held(p) /\ ~(p = f /\ d = b)
    BY <1>6, <1>t, QueueIsNoThread DEF LoseBatch, Held, Places
  <2>2. f \in Places /\ b \in Held(f)
    BY DEF Held, Places
  <2> QED
    BY <1>4, <1>6, <2>1, <2>2 DEF LoseBatch
<1>7. ASSUME NEW f \in Thread, Drop(f) PROVE Abstract!Next
  BY <1>6, <1>7 DEF Drop
<1>8. ASSUME NEW f \in Thread, ExecuteChannelDispatch(f)
      PROVE  Abstract!Next \/ UNCHANGED Abstract!inboxVars
  <2>1. msgs' = msgs /\ sent' = sent /\ said' = said
    BY <1>8 DEF ExecuteChannelDispatch
  <2>2. PICK b \in hand[f] :
          IF jobs THEN /\ queued' = queued \cup {b}
                       /\ hand' = [hand EXCEPT ![f] = @ \ {b}]
                       /\ UNCHANGED lost
          ELSE LoseBatch(f, b) /\ UNCHANGED queued
    BY <1>8 DEF ExecuteChannelDispatch
  <2>3. CASE ~jobs
    BY <1>6, <2>1, <2>2, <2>3
  <2>4. CASE jobs
    <3>1. \A p \in Places : \A d :
            d \in Held(p)' <=> \/ d \in Held(p) /\ ~(p = f /\ d = b)
                               \/ p = Queue /\ d = b
      BY <1>t, <2>2, <2>4, QueueIsNoThread DEF Held, Places
    <3>2. f \in Places /\ b \in Held(f) /\ Queue \in Places
      BY QueueIsNoThread
    <3>3. \A x \in Session : \A m : Awaits(x, m)' <=> Awaits(x, m)
      BY <2>1, <3>1, <3>2 DEF Awaits
    <3> QED
      BY <2>1, <2>2, <2>4, <3>3, Unseen
  <2> QED
    BY <2>3, <2>4
<1>9. ASSUME TimerLoop PROVE UNCHANGED Abstract!inboxVars
  <2> DEFINE E == {s \in Session : Expired(s)}
             N == {Batch(s, msgs[s], 0) : s \in E}
  <2>1. /\ hand[Timer] = {} /\ hand' = [hand EXCEPT ![Timer] = N]
        /\ msgs' = [s \in Session |-> IF s \in E THEN {} ELSE msgs[s]]
        /\ queued' = queued /\ sent' = sent /\ said' = said /\ lost' = lost
    BY <1>9 DEF TimerLoop
  <2>2. Timer \in Places /\ Held(Timer) = {} /\ Held(Timer)' = N
    BY <1>t, <2>1 DEF Thread, Held, Places
  <2>3. \A p \in Places : p # Timer => Held(p)' = Held(p)
    BY <1>t, <2>1, <2>2 DEF Held, Places
  <2>4. \A x \in Session : \A m :
          (\E b \in N : b.session = x /\ m \in b.batch) <=> x \in E /\ m \in msgs[x]
    <3>1. \A s : /\ Batch(s, msgs[s], 0).session = s
                 /\ Batch(s, msgs[s], 0).batch = msgs[s]
      BY DEF Batch
    <3>2. \A b : b \in N <=> \E s \in E : b = Batch(s, msgs[s], 0)
      OBVIOUS
    <3> HIDE DEF E, N
    <3> QED
      BY <3>1, <3>2
  <2>5. ASSUME NEW x \in Session, NEW m
        PROVE  Awaits(x, m)' <=> Awaits(x, m)
    <3>1. msgs'[x] = IF x \in E THEN {} ELSE msgs[x]
      BY <2>1
    <3> HIDE DEF E, N
    <3> QED
      BY <2>2, <2>3, <2>4, <3>1 DEF Awaits
  <2> QED
    BY <2>1, <2>5, Unseen
<1>10. ASSUME NEW f \in Thread, ReadTarget(f) PROVE UNCHANGED Abstract!inboxVars
  <2>1. PICK b \in hand[f] :
          hand' = [hand EXCEPT ![f] = (@ \ {b}) \cup
                     {Batch(b.session, b.batch, target[b.session])}]
    BY <1>10 DEF ReadTarget
  <2> DEFINE c == Batch(b.session, b.batch, target[b.session])
  <2>2. c.session = b.session /\ c.batch = b.batch
    BY DEF Batch
  <2>3. /\ queued' = queued /\ msgs' = msgs /\ sent' = sent /\ said' = said
        /\ lost' = lost
    BY <1>10 DEF ReadTarget
  <2> HIDE DEF c
  <2>4. \A p \in Places : \A d :
          d \in Held(p)' <=> \/ d \in Held(p) /\ ~(p = f /\ d = b)
                             \/ p = f /\ d = c
    BY <1>t, <2>1, <2>3 DEF Held, Places, c
  <2>5. f \in Places /\ b \in Held(f)
    BY DEF Held, Places
  <2>6. \A x \in Session : \A m : Awaits(x, m)' <=> Awaits(x, m)
    BY <2>2, <2>3, <2>4, <2>5 DEF Awaits
  <2> QED
    BY <2>3, <2>6, Unseen
<1>11. ASSUME \/ Tick \/ Stop \/ Shutdown \/ UNCHANGED vars
              \/ \E s \in Session : Dispatch(s)
              \/ \E c \in chains : EndChain(c) \/ ChainThrows(c)
       PROVE  UNCHANGED Abstract!inboxVars
  <2>1. /\ hand' = hand /\ queued' = queued /\ msgs' = msgs /\ sent' = sent
        /\ said' = said /\ lost' = lost
    BY <1>11 DEF Tick, Stop, Shutdown, vars, Dispatch, EndChain, ChainThrows
  <2>2. \A p \in Places : Held(p)' = Held(p)
    BY <2>1 DEF Held
  <2>3. \A x \in Session : \A m : Awaits(x, m)' <=> Awaits(x, m)
    BY <2>1, <2>2 DEF Awaits
  <2> QED
    BY <2>1, <2>3, Unseen
<1> QED
  BY <1>1, <1>2, <1>3, <1>5, <1>7, <1>8, <1>9, <1>10, <1>11
     DEF Next, Push, FlushStep

\* No batch is held twice, in every reachable state.
LEMMA HeldInvariant == Spec => []HeldInv
<1>1. Init => OneHolder /\ HandFree
  BY DEF Init, OneHolder, HandFree, Held
<1>2. HeldInv /\ [Next]_vars => OneHolder' /\ HandFree'
  BY StepHeld
<1> QED
  BY InductiveInvariant, <1>1, <1>2, PTL DEF Spec, HeldInv

\* The queue implements Inbox: for any sessions, knobs, valve, workers and
\* number of messages, with drops, throwing chains and a shutdown, a message
\* is handed to the model once or given up, and never comes back (Push,
\* ExtractPending, DrainInterjection, ExecuteChannelDispatch and its job).
THEOREM QueueImplementsInbox == Spec => ImplementsInbox
<1>1. Init => Abstract!Init
  <2> SUFFICES ASSUME Init PROVE Abstract!Init
    OBVIOUS
  <2>1. \A s \in Session : \A m : ~Awaits(s, m)
    BY DEF Init, Awaits, Held
  <2>2. Pending = [s \in Session |-> {}]
    <3>1. \A s \in Session : Pending[s] = {}
      BY <2>1, PendingMeans
    <3> QED
      BY <3>1 DEF Pending
  <2> QED
    BY <2>2 DEF Init, Abstract!Init, Abstract!Empty
<1>2. HeldInv /\ [Next]_vars => [Abstract!Next]_(Abstract!inboxVars)
  BY StepInbox
<1> QED
  BY HeldInvariant, <1>1, <1>2, PTL DEF Spec, ImplementsInbox, Abstract!Spec

\* The places stay apart when a message arrives or some of them leave.
LEMMA StepOnePlace ==
  ASSUME Abstract!IInv, [Abstract!Next]_(Abstract!inboxVars)
  PROVE  Abstract!IInv'
<1>0. /\ sent \in [Session -> Nat] /\ Pending \in [Session -> SUBSET Nat]
      /\ said \in [Session -> SUBSET Nat]
      /\ lost \in [Session -> SUBSET Nat]
      /\ Abstract!OnePlace
  BY DEF Abstract!IInv, Abstract!Shapes
<1>1. ASSUME NEW s \in Session, Abstract!Arrive(s) PROVE Abstract!IInv'
  <2>1. \A n \in Nat : 1..(n + 1) = (1..n) \cup {n + 1} /\ n + 1 \notin 1..n
    OBVIOUS
  <2>2. Abstract!Shapes'
    BY <1>0, <1>1 DEF Abstract!Arrive, Abstract!Shapes
  <2>3. Abstract!OnePlace'
    BY <1>0, <1>1, <2>1 DEF Abstract!Arrive, Abstract!OnePlace, Abstract!OnePlaceOf
  <2> QED
    BY <2>2, <2>3 DEF Abstract!IInv
<1>2. ASSUME NEW s \in Session, NEW B \in SUBSET Pending[s],
             Abstract!Deliver(s, B) \/ Abstract!GiveUp(s, B)
      PROVE  Abstract!IInv'
  <2>1. B \subseteq Nat
    BY <1>0
  <2>2. Abstract!Shapes'
    BY <1>0, <1>2, <2>1 DEF Abstract!Deliver, Abstract!GiveUp, Abstract!Leave, Abstract!Shapes
  <2>3. UNCHANGED sent /\ Pending' = [Pending EXCEPT ![s] = @ \ B]
    BY <1>2 DEF Abstract!Deliver, Abstract!GiveUp, Abstract!Leave
  <2>4. Abstract!OnePlaceOf(s)'
    <3>1. CASE Abstract!Deliver(s, B)
      <4>1. said'[s] = said[s] \cup B /\ lost' = lost
        BY <1>0, <3>1 DEF Abstract!Deliver
      <4> QED
        BY <1>0, <2>3, <4>1 DEF Abstract!OnePlace, Abstract!OnePlaceOf
    <3>2. CASE Abstract!GiveUp(s, B)
      <4>1. lost'[s] = lost[s] \cup B /\ said' = said
        BY <1>0, <3>2 DEF Abstract!GiveUp
      <4> QED
        BY <1>0, <2>3, <4>1 DEF Abstract!OnePlace, Abstract!OnePlaceOf
    <3> QED
      BY <1>2, <3>1, <3>2
  <2>5. ASSUME NEW t \in Session \ {s} PROVE Abstract!OnePlaceOf(t)'
    <3>1. /\ sent'[t] = sent[t] /\ Pending'[t] = Pending[t]
          /\ said'[t] = said[t] /\ lost'[t] = lost[t]
      BY <1>0, <1>2, <2>3, <2>5 DEF Abstract!Deliver, Abstract!GiveUp
    <3> QED
      BY <1>0, <2>5, <3>1 DEF Abstract!OnePlace, Abstract!OnePlaceOf
  <2>6. Abstract!OnePlace'
    BY <2>4, <2>5 DEF Abstract!OnePlace, Abstract!OnePlaceOf
  <2> QED
    BY <2>2, <2>6 DEF Abstract!IInv
<1>3. ASSUME UNCHANGED Abstract!inboxVars PROVE Abstract!IInv'
  BY <1>0, <1>3 DEF Abstract!inboxVars, Abstract!IInv, Abstract!Shapes, Abstract!OnePlace, Abstract!OnePlaceOf
<1> QED
  BY <1>1, <1>2, <1>3 DEF Abstract!Next

\* Whatever keeps the promise of Inbox has every message in one place.
THEOREM MessagesInOnePlace == Abstract!Spec => []Abstract!OnePlace
<1>1. Abstract!Init => Abstract!IInv
  BY DEF Abstract!Init, Abstract!Empty, Abstract!IInv, Abstract!Shapes, Abstract!OnePlace, Abstract!OnePlaceOf
<1>2. Abstract!IInv /\ [Abstract!Next]_(Abstract!inboxVars) => Abstract!IInv'
  BY StepOnePlace
<1>3. Abstract!IInv => Abstract!OnePlace
  BY DEF Abstract!IInv
<1> QED
  BY <1>1, <1>2, <1>3, PTL DEF Abstract!Spec
\* Every message that was pushed is in one place, and in one batch at most,
\* for any number of sessions and messages: Inbox promises the places, and no
\* two holders have it (ExtractPending, DrainInterjection, StartChain).
THEOREM EachMessageOnce == Spec => []EachOnce
<1>1. Spec => []Abstract!OnePlace
  BY QueueImplementsInbox, MessagesInOnePlace, PTL DEF ImplementsInbox
<1>2. HeldInv /\ Abstract!OnePlace => EachOnce
  <2> SUFFICES ASSUME HeldInv, Abstract!OnePlace, NEW s \in Session
               PROVE
                 /\ msgs[s] \cup Waiting(s) \cup said[s] \cup lost[s] = 1..sent[s]
                 /\ msgs[s] \cap (Waiting(s) \cup said[s] \cup lost[s]) = {}
                 /\ Waiting(s) \cap (said[s] \cup lost[s]) = {}
                 /\ said[s] \cap lost[s] = {}
                 /\ \A b, c \in InHand(s) \cup queued :
                      b.session = s /\ c.session = s /\ b # c =>
                        b.batch \cap c.batch = {}
    BY DEF EachOnce
  <2>0. OneHolder
    BY DEF HeldInv
  <2>1. Pending[s] = msgs[s] \cup Waiting(s)
    BY DEF Pending
  <2>2. /\ Pending[s] \cup said[s] \cup lost[s] = 1..sent[s]
        /\ Pending[s] \cap (said[s] \cup lost[s]) = {}
        /\ said[s] \cap lost[s] = {}
    BY DEF Abstract!OnePlace, Abstract!OnePlaceOf
  <2>3. msgs[s] \cap Waiting(s) = {}
    BY <2>0, WaitingMeans DEF OneHolder
  <2>4. \A b \in InHand(s) \cup queued : \E p \in Places : b \in Held(p)
    BY InSomeHand, QueueIsNoThread DEF InHand, Extracted
  <2>5. \A b, c \in InHand(s) \cup queued :
          b.session = s /\ c.session = s /\ b # c => b.batch \cap c.batch = {}
    BY <2>0, <2>4 DEF OneHolder, Apart
  <2> QED
    BY <2>1, <2>2, <2>3, <2>5
<1> QED
  BY HeldInvariant, <1>1, <1>2, PTL

=============================================================================
