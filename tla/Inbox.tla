-------------------------------- MODULE Inbox --------------------------------
(***************************************************************************)
(* What the message queue promises the channels: a message that arrives    *)
(* waits until it is handed to the model, together with whatever else      *)
(* waits, or is given up for want of a provider.  It never gets lost on    *)
(* the way, is never handed over twice and never comes back.  How long     *)
(* messages are held, and by which thread, is left open.                   *)
(***************************************************************************)
EXTENDS Naturals

CONSTANTS Session, MaxMessages

VARIABLES
  arrived,    \* arrived[s]: messages of s so far, numbered as they came
  pending,    \* pending[s]: messages that wait
  delivered,  \* delivered[s]: messages that became turns of the session
  dropped     \* dropped[s]: messages given up

inboxVars == <<arrived, pending, delivered, dropped>>

Empty == [s \in Session |-> {}]
Init ==
  /\ arrived = [s \in Session |-> 0]
  /\ pending = Empty /\ delivered = Empty /\ dropped = Empty

Arrive(s) ==
  /\ arrived[s] < MaxMessages
  /\ arrived' = [arrived EXCEPT ![s] = @ + 1]
  /\ pending' = [pending EXCEPT ![s] = @ \cup {arrived[s] + 1}]
  /\ UNCHANGED <<delivered, dropped>>

(* The messages B leave the queue *)
Leave(s, B) ==
  /\ B # {}
  /\ pending' = [pending EXCEPT ![s] = @ \ B]
  /\ UNCHANGED arrived

Deliver(s, B) ==
  /\ Leave(s, B)
  /\ delivered' = [delivered EXCEPT ![s] = @ \cup B]
  /\ UNCHANGED dropped

GiveUp(s, B) ==
  /\ Leave(s, B)
  /\ dropped' = [dropped EXCEPT ![s] = @ \cup B]
  /\ UNCHANGED delivered

Next ==
  \E s \in Session :
    \/ Arrive(s)
    \/ \E B \in SUBSET pending[s] : Deliver(s, B) \/ GiveUp(s, B)

Spec == Init /\ [][Next]_inboxVars

(* A message is in one place: it waits, has become a turn or was given up.  *)
OnePlaceOf(s) ==
  /\ pending[s] \cup delivered[s] \cup dropped[s] = 1..arrived[s]
  /\ pending[s] \cap (delivered[s] \cup dropped[s]) = {}
  /\ delivered[s] \cap dropped[s] = {}
OnePlace == \A s \in Session : OnePlaceOf(s)

-----------------------------------------------------------------------------

(* The inductive invariant: the shapes of the state, and where each message *)
(* is.                                                                      *)
Shapes ==
  /\ arrived \in [Session -> Nat]
  /\ {pending, delivered, dropped} \subseteq [Session -> SUBSET Nat]
IInv == Shapes /\ OnePlace
=============================================================================
