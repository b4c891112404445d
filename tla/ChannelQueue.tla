---------------------------- MODULE ChannelQueue ----------------------------
(***************************************************************************)
(* The message queue between the channel adapters and the prompt chains    *)
(* (kernel/MessageQueue.cpp, the dispatch callbacks and                    *)
(* ExecuteChannelDispatch of AgentKernel.cpp, the interjections of         *)
(* ChainRunner.cpp).                                                       *)
(*                                                                         *)
(* One I/O thread per session pushes the messages of its channel; the      *)
(* timer thread flushes sessions whose window and cooldown are over; a     *)
(* flush becomes a chain on a worker of the job system.  The callbacks run *)
(* outside the queue's lock and wait for a slot of the provider throttle   *)
(* before they tell the queue that a chain has started.                    *)
(*                                                                         *)
(* The messages of a session are numbered in the order of their arrival.   *)
(* Points in time are kept as the ticks that are left until then.          *)
(***************************************************************************)
EXTENDS Integers, FiniteSets

CONSTANTS
  Session,       \* sessions of channels that queue
  Timer,         \* the timer thread
  Interval,      \* Interval[s]: min_response_interval of s's channel
  Window,        \* Window[s]: aggregation_window_ms
  Interjection,  \* Interjection[s]: allow_interjection
  MaxQueued,     \* the safety valve, 0 for none
  Workers,       \* threads of the job system
  MaxMessages,   \* bound: messages of a session
  MayDrop,       \* whether a session may have no provider
  MayThrow,      \* whether a chain may end by an exception
  MayStop        \* whether the kernel may be shut down

(* AgentKernel sends a channel's messages here only if a knob is set. *)
ASSUME ChannelQueueAssumption ==
  /\ Timer \notin Session /\ IsFiniteSet(Session)
  /\ {Interval, Window} \subseteq [Session -> Nat]
  /\ Interjection \in [Session -> BOOLEAN]
  /\ \A s \in Session : Interval[s] > 0 \/ Window[s] > 0
  /\ MaxQueued \in Nat /\ Workers \in Nat \ {0} /\ MaxMessages \in Nat
  /\ {MayDrop, MayThrow, MayStop} \subseteq BOOLEAN

VARIABLES
  running,    \* m_running of the queue
  jobs,       \* the job system takes jobs
  arriving,   \* arriving[s]: the I/O thread of s is about to push
  sent,       \* sent[s]: messages of s that have been pushed
  target,     \* m_pendingReplyTargets[s]: the message it was stored with
  msgs,       \* SessionState::messages
  active,     \* SessionState::chain_active
  timer,      \* SessionState::timer_running
  due,        \* ticks until timer_deadline
  cool,       \* ticks until chain_end_time + interval; 0 before a response
  age,        \* ticks since the oldest pending message, up to Window
  hand,       \* hand[f]: batches thread f has extracted and not dispatched
  queued,     \* chains waiting in the job system
  chains,     \* chains running
  said,       \* said[s]: messages that have become user turns of s
  lost        \* lost[s]: messages dropped for want of a provider or kernel

vars == <<running, jobs, arriving, sent, target, msgs, active, timer, due,
          cool, age, hand, queued, chains, said, lost>>

-----------------------------------------------------------------------------

Thread == Session \cup {Timer}
Later_Sooner(a, b) == IF a <= b THEN a ELSE b
Later(a, b) == IF a >= b THEN a ELSE b
Sooner_Past(a) == a - 1
Sooner(a) == IF a > 0 THEN a - 1 ELSE 0

(* A batch; reply is the message whose reply target it is answered to, 0    *)
(* until the flush callback has read it.                                    *)
Batch(s, B, r) == [session |-> s, batch |-> B, reply |-> r]

Init ==
  /\ running = TRUE /\ jobs = TRUE
  /\ arriving = [s \in Session |-> FALSE]
  /\ sent = [s \in Session |-> 0]
  /\ target = [s \in Session |-> 0]
  /\ msgs = [s \in Session |-> {}]
  /\ active = [s \in Session |-> FALSE]
  /\ timer = [s \in Session |-> FALSE]
  /\ due = [s \in Session |-> 0]
  /\ cool = [s \in Session |-> 0]
  /\ age = [s \in Session |-> 0]
  /\ hand = [f \in Thread |-> {}]
  /\ queued = {} /\ chains = {}
  /\ said = [s \in Session |-> {}]
  /\ lost = [s \in Session |-> {}]

-----------------------------------------------------------------------------
(* The dispatch callback on the I/O thread *)

(* The reply target is stored under a lock of its own before the push *)
Dispatch_KeepsFirst(s) ==
  /\ jobs /\ ~arriving[s] /\ hand[s] = {} /\ sent[s] < MaxMessages
  /\ arriving' = [arriving EXCEPT ![s] = TRUE]
  /\ target' = [target EXCEPT ![s] = IF @ = 0 THEN sent[s] + 1 ELSE @]
  /\ UNCHANGED <<running, jobs, sent, msgs, active, timer, due, cool, age,
                 hand, queued, chains, said, lost>>
Dispatch(s) ==
  /\ jobs /\ ~arriving[s] /\ hand[s] = {} /\ sent[s] < MaxMessages
  /\ arriving' = [arriving EXCEPT ![s] = TRUE]
  /\ target' = [target EXCEPT ![s] = sent[s] + 1]
  /\ UNCHANGED <<running, jobs, sent, msgs, active, timer, due, cool, age,
                 hand, queued, chains, said, lost>>

Full(B) == MaxQueued > 0 /\ Cardinality(B) >= MaxQueued

(* Neither chain nor timer will take care of the message *)
Unattended(s) == ~active[s] /\ ~timer[s]
NeedsTimer(s) == Window[s] > 0 \/ cool[s] > 0

Pushed(s) == msgs[s] \cup {sent[s] + 1}
PushCommon(s) ==
  /\ arriving[s]
  /\ arriving' = [arriving EXCEPT ![s] = FALSE]
  /\ sent' = [sent EXCEPT ![s] = @ + 1]
  /\ UNCHANGED <<running, jobs, target, active, cool, queued, chains, said,
                 lost>>

(* Push that only accumulates, or arms the timer *)
PushQueues(s) ==
  /\ PushCommon(s)
  /\ ~Full(Pushed(s)) /\ (Unattended(s) => NeedsTimer(s))
  /\ msgs' = [msgs EXCEPT ![s] = Pushed(s)]
  /\ age' = [age EXCEPT ![s] = IF msgs[s] = {} THEN 0 ELSE @]
  /\ IF Unattended(s)
     THEN /\ timer' = [timer EXCEPT ![s] = TRUE]
          /\ due' = [due EXCEPT ![s] = Later(Window[s], cool[s])]
     ELSE UNCHANGED <<timer, due>>
  /\ UNCHANGED hand

(* Push that extracts and goes on to the flush callback *)
PushFlushes(s) ==
  /\ PushCommon(s)
  /\ Full(Pushed(s)) \/ (Unattended(s) /\ ~NeedsTimer(s))
  /\ hand' = [hand EXCEPT ![s] = {Batch(s, Pushed(s), 0)}]
  /\ msgs' = [msgs EXCEPT ![s] = {}]
  /\ timer' = [timer EXCEPT ![s] = FALSE]
  /\ UNCHANGED <<due, age>>

Push(s) == PushQueues(s) \/ PushFlushes(s)

-----------------------------------------------------------------------------
(* The timer thread *)

Expired(s) == timer[s] /\ ~active[s] /\ due[s] = 0 /\ msgs[s] # {}
TimerLoop_KeepsTimer ==
  /\ running /\ hand[Timer] = {}
  /\ LET E == {s \in Session : Expired(s)}
     IN  /\ E # {}
         /\ hand' = [hand EXCEPT ![Timer] = {Batch(s, msgs[s], 0) : s \in E}]
         /\ msgs' = [s \in Session |-> IF s \in E THEN {} ELSE msgs[s]]
  /\ UNCHANGED <<running, jobs, arriving, sent, target, active, timer, due,
                 cool, age, queued, chains, said, lost>>
TimerLoop ==
  /\ running /\ hand[Timer] = {}
  /\ LET E == {s \in Session : Expired(s)}
     IN  /\ E # {}
         /\ hand' = [hand EXCEPT ![Timer] = {Batch(s, msgs[s], 0) : s \in E}]
         /\ msgs' = [s \in Session |-> IF s \in E THEN {} ELSE msgs[s]]
         /\ timer' = [s \in Session |-> timer[s] /\ s \notin E]
  /\ UNCHANGED <<running, jobs, arriving, sent, target, active, due, cool, age,
                 queued, chains, said, lost>>

(* Time passes for everybody *)
Tick ==
  /\ due' = [s \in Session |-> Sooner(due[s])]
  /\ cool' = [s \in Session |-> Sooner(cool[s])]
  /\ age' = [s \in Session |-> IF msgs[s] # {} /\ age[s] < Window[s]
                               THEN age[s] + 1 ELSE age[s]]
  /\ <<due, cool, age>>' # <<due, cool, age>>
  /\ UNCHANGED <<running, jobs, arriving, sent, target, msgs, active, timer,
                 hand, queued, chains, said, lost>>

-----------------------------------------------------------------------------
(* The flush callback and ExecuteChannelDispatch, on the thread that        *)
(* extracted the batch; one batch after the other.                          *)

ReadTarget(f) ==
  /\ \A b \in hand[f] : b.reply = 0
  /\ \E b \in hand[f] :
       hand' = [hand EXCEPT ![f] = (@ \ {b}) \cup
                  {Batch(b.session, b.batch, target[b.session])}]
  /\ UNCHANGED <<running, jobs, arriving, sent, target, msgs, active, timer,
                 due, cool, age, queued, chains, said, lost>>

LoseBatch(f, b) ==
  /\ hand' = [hand EXCEPT ![f] = @ \ {b}]
  /\ lost' = [lost EXCEPT ![b.session] = @ \cup b.batch]

(* No provider: the message is dropped *)
Drop_AfterStart(f) ==
  /\ MayDrop
  /\ \E b \in hand[f] : /\ b.reply > 0 /\ LoseBatch(f, b)
                        /\ active' = [active EXCEPT ![b.session] = TRUE]
  /\ UNCHANGED <<running, jobs, arriving, sent, target, msgs, timer, due, cool,
                 age, queued, chains, said>>
Drop(f) ==
  /\ MayDrop
  /\ \E b \in hand[f] : b.reply > 0 /\ LoseBatch(f, b)
  /\ UNCHANGED <<running, jobs, arriving, sent, target, msgs, active, timer,
                 due, cool, age, queued, chains, said>>

(* A slot of the throttle, NotifyChainStart where there is a cooldown, and  *)
(* the job, which a stopped job system refuses.                             *)
NotifyChainStart(s) ==
  /\ active' = [active EXCEPT ![s] = TRUE]
  /\ timer' = [timer EXCEPT ![s] = FALSE]
ExecuteChannelDispatch(f) ==
  /\ \E b \in hand[f] :
       /\ b.reply > 0
       /\ IF Interval[b.session] > 0 THEN NotifyChainStart(b.session)
          ELSE UNCHANGED <<active, timer>>
       /\ IF jobs
          THEN /\ queued' = queued \cup {b}
               /\ hand' = [hand EXCEPT ![f] = @ \ {b}]
               /\ UNCHANGED lost
          ELSE LoseBatch(f, b) /\ UNCHANGED queued
  /\ UNCHANGED <<running, jobs, arriving, sent, target, msgs, due, cool, age,
                 chains, said>>

-----------------------------------------------------------------------------
(* The chain, a job *)

(* The batch becomes a user turn of the session *)
StartChain(c) ==
  /\ c \in queued /\ Cardinality(chains) < Workers
  /\ queued' = queued \ {c}
  /\ chains' = chains \cup {c}
  /\ said' = [said EXCEPT ![c.session] = @ \cup c.batch]
  /\ UNCHANGED <<running, jobs, arriving, sent, target, msgs, active, timer,
                 due, cool, age, hand, lost>>

(* Between two steps of the chain: what has arrived meanwhile joins it *)
DrainInterjection_KeepsPending(s) ==
  /\ Interjection[s] /\ msgs[s] # {}
  /\ \E c \in chains : c.session = s
  /\ said' = [said EXCEPT ![s] = @ \cup msgs[s]]
  /\ UNCHANGED <<running, jobs, arriving, sent, target, msgs, active, timer,
                 due, cool, age, hand, queued, chains, lost>>
DrainInterjection(s) ==
  /\ Interjection[s] /\ msgs[s] # {}
  /\ \E c \in chains : c.session = s
  /\ said' = [said EXCEPT ![s] = @ \cup msgs[s]]
  /\ msgs' = [msgs EXCEPT ![s] = {}]
  /\ UNCHANGED <<running, jobs, arriving, sent, target, active, timer, due,
                 cool, age, hand, queued, chains, lost>>

NotifyChainEnd_ForgetsBacklog(s) ==
  /\ active' = [active EXCEPT ![s] = FALSE]
  /\ cool' = [cool EXCEPT ![s] = Interval[s]]
  /\ UNCHANGED <<timer, due>>
NotifyChainEnd(s) ==
  /\ active' = [active EXCEPT ![s] = FALSE]
  /\ cool' = [cool EXCEPT ![s] = Interval[s]]
  /\ IF msgs[s] # {}
     THEN /\ timer' = [timer EXCEPT ![s] = TRUE]
          /\ due' = [due EXCEPT ![s] = Later(Interval[s], Window[s])]
     ELSE UNCHANGED <<timer, due>>
EndChain(c) ==
  /\ c \in chains
  /\ chains' = chains \ {c}
  /\ NotifyChainEnd(c.session)
  /\ UNCHANGED <<running, jobs, arriving, sent, target, msgs, age, hand,
                 queued, said, lost>>

(* An exception of the chain ends the job before NotifyChainEnd *)
ChainThrows(c) ==
  /\ MayThrow /\ c \in chains
  /\ chains' = chains \ {c}
  /\ UNCHANGED <<running, jobs, arriving, sent, target, msgs, active, timer,
                 due, cool, age, hand, queued, said, lost>>

(* The kernel stops its channels, then its jobs; the timer thread goes on.   *)
Stop ==
  /\ MayStop /\ jobs
  /\ \A s \in Session : ~arriving[s] /\ hand[s] = {}
  /\ jobs' = FALSE
  /\ UNCHANGED <<running, arriving, sent, target, msgs, active, timer, due,
                 cool, age, hand, queued, chains, said, lost>>

(* The jobs are drained; the timer thread is joined after its flushes *)
Shutdown ==
  /\ running /\ ~jobs
  /\ queued = {} /\ chains = {}
  /\ running' = FALSE
  /\ UNCHANGED <<jobs, arriving, sent, target, msgs, active, timer, due, cool,
                 age, hand, queued, chains, said, lost>>

-----------------------------------------------------------------------------

FlushStep(f) == ReadTarget(f) \/ Drop(f) \/ ExecuteChannelDispatch(f)
Next ==
  \/ \E s \in Session : Dispatch(s) \/ Push(s) \/ DrainInterjection(s)
  \/ TimerLoop \/ Tick \/ Stop \/ Shutdown
  \/ \E f \in Thread : FlushStep(f)
  \/ \E c \in queued : StartChain(c)
  \/ \E c \in chains : EndChain(c) \/ ChainThrows(c)

Spec == Init /\ [][Next]_vars

StartsChain == \E c \in queued : StartChain(c)
EndsChain == \E c \in chains : EndChain(c)

(* Threads run, the throttle grants its slots, chains end and time passes *)
FairSpec ==
  /\ Spec
  /\ WF_vars(TimerLoop) /\ WF_vars(Tick)
  /\ \A s \in Session : WF_vars(Push(s))
  /\ \A f \in Thread : WF_vars(FlushStep(f))
  /\ WF_vars(StartsChain)
  /\ WF_vars(EndsChain)

-----------------------------------------------------------------------------
(* Properties *)

Extracted == UNION {hand[f] : f \in Thread}
InHand(s) == {b \in Extracted : b.session = s}
Waiting(s) == UNION {b.batch : b \in InHand(s) \cup {c \in queued : c.session = s}}
Message == 1..MaxMessages
Batches == [session : Session, batch : SUBSET Message, reply : 0..MaxMessages]

(* Type invariant of the queue, its threads and the chains. *)
TypeOK ==
  /\ {running, jobs} \subseteq BOOLEAN
  /\ {arriving, active, timer} \subseteq [Session -> BOOLEAN]
  /\ {sent, target} \subseteq [Session -> 0..MaxMessages]
  /\ {msgs, said, lost} \subseteq [Session -> SUBSET Message]
  /\ {due, cool, age} \subseteq [Session -> Nat]
  /\ hand \in [Thread -> SUBSET Batches]
  /\ queued \subseteq Batches /\ chains \subseteq Batches

(* No message is forgotten: whatever is pending has a timer that will flush *)
(* it or a chain whose end will arm one, however pushes, timer, interjected *)
(* and overlapping chains interleave (Push, ExtractPending,                 *)
(* DrainInterjection, NotifyChainStart, NotifyChainEnd).                    *)
Armed == \A s \in Session : msgs[s] # {} => timer[s] \/ active[s]

(* A session that takes itself for busy has a chain that will end: a        *)
(* chain_active nobody resets would silence the session                     *)
(* (ExecuteChannelDispatch and its job).                                    *)
ActiveHasChain ==
  \A s \in Session : jobs /\ active[s] =>
    \E c \in queued \cup chains : c.session = s

(* A message that was pushed is in one place: pending, extracted and on its *)
(* way to a chain, a turn of the session, or dropped, never in two of them  *)
(* and never in none (ExtractPending outside and inside the timer thread,   *)
(* DrainInterjection).                                                      *)
EachOnce ==
  \A s \in Session :
    /\ msgs[s] \cup Waiting(s) \cup said[s] \cup lost[s] = 1..sent[s]
    /\ msgs[s] \cap (Waiting(s) \cup said[s] \cup lost[s]) = {}
    /\ Waiting(s) \cap (said[s] \cup lost[s]) = {}
    /\ said[s] \cap lost[s] = {}
    /\ \A b, c \in InHand(s) \cup queued :
         b.session = s /\ c.session = s /\ b # c => b.batch \cap c.batch = {}

(* What the channels see of the queue: a message waits from its push until  *)
(* a chain takes it up, whichever thread or job holds it meanwhile.         *)
Pending == [s \in Session |-> msgs[s] \cup Waiting(s)]
Abstract == INSTANCE Inbox WITH
  arrived <- sent, pending <- Pending, delivered <- said, dropped <- lost

(* The queue keeps the promise of Inbox: however the I/O threads, the       *)
(* timer thread, the chains, their exceptions and the shutdown interleave,  *)
(* every message is in one place, is handed to the model once or is given   *)
(* up, and nothing that left the queue comes back (Push, ExtractPending,    *)
(* DrainInterjection, ExecuteChannelDispatch and its job).                  *)
ImplementsInbox == Abstract!Spec

(* A batch is answered to its last message or to a later arrival, never to  *)
(* an older one than it contains: the target is stored before the push and  *)
(* read after the extraction, on different threads (flush callback).        *)
TargetCovers ==
  \A b \in Extracted \cup queued \cup chains :
    b.reply > 0 => \A m \in b.batch : m <= b.reply

(* The cooldown is kept: no batch is extracted before the interval after    *)
(* the last chain's end is over, except by the safety valve (Push,          *)
(* TimerLoop: the window never short-circuits the cooldown).                *)
KeepsCooldown ==
  \A f \in Thread : \A b \in hand'[f] \ hand[f] :
    b.reply = 0 /\ ~Full(b.batch) => cool[b.session] = 0
CooldownKept == [][KeepsCooldown]_vars

(* The window is kept: a batch is extracted only when its oldest message    *)
(* has waited out the aggregation window, except by the safety valve (Push, *)
(* TimerLoop).                                                              *)
KeepsWindow ==
  \A f \in Thread : \A b \in hand'[f] \ hand[f] :
    b.reply = 0 /\ ~Full(b.batch) => age[b.session] >= Window[b.session]
WindowKept == [][KeepsWindow]_vars

(* The timer thread sleeps unless there is something to flush: no timer is  *)
(* over with nothing pending, which wait_until would return from at once    *)
(* for ever (TimerLoop).                                                    *)
NoSpin == \A s \in Session : ~(timer[s] /\ ~active[s] /\ due[s] = 0 /\ msgs[s] = {})

(* No two chains run on one session at the same time (chain_active).        *)
OneChain == \A c, d \in chains : c.session = d.session => c = d

(* Every message is answered: what is pending becomes a turn of its         *)
(* session, or is dropped for want of a provider (the whole queue).         *)
Pends(s, m) == m \in msgs[s]
Handed(s, m) == m \in said[s] \cup lost[s]
Answered ==
  \A s \in Session : \A m \in Message : Pends(s, m) ~> Handed(s, m)

=============================================================================
