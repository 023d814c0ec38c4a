--------------------------- MODULE SubscriberProofs ---------------------------
(***************************************************************************)
(* Proofs about Subscriber for every number of goroutines, notifications,  *)
(* handlers and crashes.                                                   *)
(*                                                                         *)
(* The lifecycle argument: the compare-and-swap lets one Start through for *)
(* the life of the subscriber object (OneWinner), so the context is made   *)
(* once (FreshContext) and nothing follows the winner's return.            *)
(* The delivery argument: a callback that has reached its handler holds a  *)
(* notification that could be decoded for it (DecodedBeforeHandling).      *)
(***************************************************************************)
EXTENDS Subscriber, TLAPS

Started(s) == start[s] \notin {"ready", "panicked"}

IdleIsFresh ==
    state = "idle" => \A s \in Starters : start[s] = "ready"

OneWinner ==
    \A s1, s2 \in Starters : Started(s1) /\ Started(s2) => s1 = s2

FreshContext ==
    state = "idle" \/ (\E s \in Starters : start[s] = "publishing") =>
        ctx = "none" /\ cancelContext = "default"

NoCallbackAfterReturn ==
    \A s \in Starters : start[s] = "returned" => \A w \in Workers : worker[w] = Idle

DecodedBeforeHandling ==
    \A w \in Workers :
        worker[w].pc = "handling" => ~Malformed(worker[w].msg) /\ ~NoHandler(worker[w].msg)

Lifecycle == TypeOK /\ IdleIsFresh /\ OneWinner /\ FreshContext /\ NoCallbackAfterReturn
Delivery == TypeOK /\ DecodedBeforeHandling /\ NoNotificationLost

-----------------------------------------------------------------------------
(* What a busy callback holds. *)
LEMMA BusyCallback ==
    ASSUME TypeOK, NEW w \in Workers
    PROVE  /\ worker[w].pc \in {"idle", "received", "handling"}
           /\ worker[w].pc \in {"received", "handling"} =>
                /\ worker[w] \in Callback
                /\ worker[w].msg \in Messages
  BY DEF TypeOK, Callback, Idle

(* What handleReceive says of a body that json accepts. *)
LEMMA StatusMeaning ==
    ASSUME NEW m \in Messages, Notification[m].body = "ok"
    PROVE  /\ Status(Notification[m]) = "malformed_message" <=> Malformed(m)
           /\ Status(Notification[m]) \in {"unknown_message", "skipped"} <=> NoHandler(m)
           /\ Status(Notification[m]) = "handled" <=> ~Malformed(m) /\ ~NoHandler(m)
  BY SubscriberAssumption DEF Status, Malformed, NoHandler, Payload

(* The steps of Next, one per goroutine. *)
StarterStep(s) == StartSwap(s) \/ StartPublish(s) \/ ReceiveFails(s) \/ ReceiveReturns(s)
StopperStep(t) == StopSwap(t) \/ StopCancel(t)

LEMMA TypeInit == Init => TypeOK
  BY SubscriberAssumption DEF Init, NewSubscriber, TypeOK, StartPC, StopPC, Idle

LEMMA TypeStep == TypeOK /\ [Next]_vars => TypeOK'
<1> SUFFICES ASSUME TypeOK, [Next]_vars PROVE TypeOK'
  OBVIOUS
<1> USE DEF TypeOK, lifecycle
<1>1. ASSUME NEW s \in Starters, StarterStep(s) PROVE TypeOK'
  BY <1>1 DEF StarterStep, StartSwap, StartPublish, ReceiveFails, ReceiveReturns, StartPC
<1>2. ASSUME NEW t \in Stoppers, StopperStep(t) PROVE TypeOK'
  BY <1>2 DEF StopperStep, StopSwap, StopCancel, StopPC
<1>3. ASSUME NEW w \in Workers, NEW m \in Messages, Deliver(w, m) PROVE TypeOK'
  BY <1>3 DEF Deliver, Callback
<1>4. ASSUME NEW w \in Workers, CallHandler(w) PROVE TypeOK'
  BY <1>4, BusyCallback DEF CallHandler, Callback
<1>5. ASSUME NEW w \in Workers, NEW v \in Verdicts,
             Refuse(w, v) \/ Skip(w, v) \/ HandlerSucceeds(w, v) \/ HandlerFails(w, v)
      PROVE  TypeOK'
  BY <1>5, BusyCallback DEF Refuse, Skip, HandlerSucceeds, HandlerFails, Ack, Nack
<1>6. ASSUME NEW m \in Messages, LeaseExpires(m) PROVE TypeOK'
  BY <1>6 DEF LeaseExpires
<1>7. CASE Crash
  BY <1>7, SubscriberAssumption DEF Crash, StartPC, StopPC
<1>8. CASE UNCHANGED vars
  BY <1>8 DEF vars
<1> QED
  BY <1>1, <1>2, <1>3, <1>4, <1>5, <1>6, <1>7, <1>8 DEF Next, StarterStep, StopperStep

(* The variables always have their types: in particular no callback ever   *)
(* holds something that is not a notification.                             *)
THEOREM TypeCorrect == Spec => []TypeOK
<1>1. Init => TypeOK
  BY TypeInit
<1>2. TypeOK /\ [Next]_vars => TypeOK'
  BY TypeStep
<1> QED
  BY <1>1, <1>2, PTL DEF Spec

-----------------------------------------------------------------------------
(* The lifecycle *)

LEMMA LifecycleStep == Lifecycle /\ [Next]_vars => Lifecycle'
<1> SUFFICES ASSUME Lifecycle, [Next]_vars PROVE Lifecycle'
  OBVIOUS
<1>0. TypeOK /\ TypeOK'
  BY TypeStep DEF Lifecycle
<1> DEFINE Facts == IdleIsFresh /\ OneWinner /\ FreshContext /\ NoCallbackAfterReturn
<1>f. Facts
  BY DEF Lifecycle
<1>g. SUFFICES Facts'
  BY <1>0 DEF Lifecycle
<1>1. ASSUME NEW s \in Starters, StartSwap(s) PROVE Facts'
  BY <1>0, <1>1, <1>f DEF StartSwap, TypeOK, IdleIsFresh, OneWinner, FreshContext,
     NoCallbackAfterReturn, Started
<1>2. ASSUME NEW s \in Starters, StartPublish(s) PROVE Facts'
  BY <1>0, <1>2, <1>f DEF StartPublish, TypeOK, IdleIsFresh, OneWinner, FreshContext,
     NoCallbackAfterReturn, Started
<1>3. ASSUME NEW s \in Starters, ReceiveFails(s) \/ ReceiveReturns(s) PROVE Facts'
  BY <1>0, <1>3, <1>f DEF ReceiveFails, ReceiveReturns, TypeOK, IdleIsFresh, OneWinner,
     FreshContext, NoCallbackAfterReturn, Started
<1>4. ASSUME NEW t \in Stoppers, StopperStep(t) PROVE Facts'
  <2>1. CASE StopSwap(t)
    BY <1>f, <2>1 DEF StopSwap, IdleIsFresh, OneWinner, FreshContext,
       NoCallbackAfterReturn, Started
  <2>2. CASE StopCancel(t)
    BY <1>0, <1>f, <2>2 DEF StopCancel, TypeOK, IdleIsFresh, OneWinner, FreshContext,
       NoCallbackAfterReturn, Started
  <2> QED
    BY <1>4, <2>1, <2>2 DEF StopperStep
<1>5. ASSUME NEW w \in Workers, NEW m \in Messages, Deliver(w, m) PROVE Facts'
  BY <1>0, <1>5, <1>f DEF Deliver, Receiving, lifecycle, TypeOK, IdleIsFresh, OneWinner,
     FreshContext, NoCallbackAfterReturn, Started
<1>6. ASSUME NEW w \in Workers, CallbackStep(w) PROVE Facts'
  <2>1. lifecycle' = lifecycle /\ worker[w] # Idle
    BY <1>6 DEF CallbackStep, CallHandler, Refuse, Skip, HandlerSucceeds, HandlerFails, Idle
  <2> QED
    BY <1>0, <1>f, <2>1 DEF lifecycle, IdleIsFresh, OneWinner, FreshContext,
       NoCallbackAfterReturn, Started
<1>7. CASE Crash
  BY <1>7 DEF Crash, IdleIsFresh, OneWinner, FreshContext, NoCallbackAfterReturn, Started
<1>8. CASE (\E m \in Messages : LeaseExpires(m)) \/ UNCHANGED vars
  BY <1>f, <1>8 DEF LeaseExpires, vars, lifecycle, IdleIsFresh, OneWinner, FreshContext,
     NoCallbackAfterReturn, Started
<1> QED
  BY <1>1, <1>2, <1>3, <1>4, <1>5, <1>6, <1>7, <1>8 DEF Next, StopperStep, CallbackStep

LEMMA LifecycleInvariant == Spec => []Lifecycle
<1>1. Init => Lifecycle
  BY TypeInit DEF Init, NewSubscriber, Lifecycle, IdleIsFresh, OneWinner, FreshContext,
     NoCallbackAfterReturn, Started
<1> QED
  BY <1>1, LifecycleStep, PTL DEF Spec

(* At most one Start gets past the state machine and into Receive. *)
THEOREM OneReceiverHolds == Spec => []OneReceiver
<1>1. Lifecycle => OneReceiver
  BY DEF Lifecycle, OneWinner, Started, OneReceiver, InReceive
<1> QED
  BY <1>1, LifecycleInvariant, PTL

(* When a Start has returned, no callback runs and none will. *)
THEOREM QuietAfterReturnHolds == Spec => []QuietAfterReturn
<1>1. Lifecycle => QuietAfterReturn
  BY DEF Lifecycle, OneWinner, Started, NoCallbackAfterReturn, QuietAfterReturn, Receiving
<1> QED
  BY <1>1, LifecycleInvariant, PTL

(* A receiver that Stop has cancelled is never revived in its process. *)
THEOREM NeverRevivedHolds == Spec => NeverRevived
<1> DEFINE Kept == ctx = "cancelled" /\ crashes' = crashes => ctx' = "cancelled"
<1>1. Lifecycle /\ [Next]_vars => [Kept]_vars
  <2> SUFFICES ASSUME Lifecycle, [Next]_vars PROVE Kept
    OBVIOUS
  <2>1. CASE \E s \in Starters : StarterStep(s)
    BY <2>1 DEF Lifecycle, FreshContext, StarterStep, StartSwap, StartPublish, ReceiveFails,
       ReceiveReturns
  <2>2. CASE \E t \in Stoppers : StopperStep(t)
    BY <2>2 DEF StopperStep, StopSwap, StopCancel
  <2>3. CASE Crash
    BY <2>3 DEF Crash, Lifecycle, TypeOK
  <2>4. CASE UNCHANGED ctx
    BY <2>4
  <2> QED
    BY <2>1, <2>2, <2>3, <2>4 DEF Next, StarterStep, StopperStep, Deliver, CallHandler, Refuse,
       Skip, HandlerSucceeds, HandlerFails, LeaseExpires, lifecycle, vars
<1> QED
  BY <1>1, LifecycleInvariant, PTL DEF Spec, NeverRevived

-----------------------------------------------------------------------------
(* Delivery *)

(* What a callback or the subscription can do to a notification. *)
LEMMA DeliveryStep == Delivery /\ [Next]_vars => Delivery'
<1> SUFFICES ASSUME Delivery, [Next]_vars PROVE Delivery'
  OBVIOUS
<1>0. TypeOK /\ TypeOK' /\ DecodedBeforeHandling /\ NoNotificationLost
  BY TypeStep DEF Delivery
<1> SUFFICES DecodedBeforeHandling' /\ NoNotificationLost'
  BY <1>0 DEF Delivery
<1>1. ASSUME UNCHANGED <<worker, broker, processed>>
      PROVE  DecodedBeforeHandling' /\ NoNotificationLost'
  BY <1>0, <1>1 DEF DecodedBeforeHandling, NoNotificationLost
<1>2. ASSUME NEW w \in Workers, NEW m \in Messages, Deliver(w, m)
      PROVE  DecodedBeforeHandling' /\ NoNotificationLost'
  BY <1>0, <1>2 DEF Deliver, TypeOK, DecodedBeforeHandling, NoNotificationLost
<1>3. ASSUME NEW w \in Workers, CallHandler(w)
      PROVE  DecodedBeforeHandling' /\ NoNotificationLost'
  <2>1. ~Malformed(worker[w].msg) /\ ~NoHandler(worker[w].msg)
    BY <1>0, <1>3, BusyCallback, StatusMeaning DEF CallHandler
  <2>2. DecodedBeforeHandling'
    BY <1>0, <1>3, <2>1 DEF CallHandler, TypeOK, DecodedBeforeHandling
  <2>3. NoNotificationLost'
    BY <1>0, <1>3 DEF CallHandler, NoNotificationLost
  <2> QED
    BY <2>2, <2>3
<1>4. ASSUME NEW w \in Workers, NEW v \in Verdicts, Refuse(w, v) \/ HandlerFails(w, v)
      PROVE  DecodedBeforeHandling' /\ NoNotificationLost'
  <2>1. worker[w].msg \in Messages
    BY <1>0, <1>4, BusyCallback DEF Refuse, HandlerFails
  <2>2. DecodedBeforeHandling'
    BY <1>0, <1>4 DEF Refuse, HandlerFails, TypeOK, DecodedBeforeHandling, Idle
  <2>3. \A m \in Messages : broker'[m] = "acked" => broker[m] = "acked"
    BY <1>0, <1>4, <2>1 DEF Refuse, HandlerFails, Nack, TypeOK
  <2>4. processed' = processed
    BY <1>4 DEF Refuse, HandlerFails
  <2> QED
    BY <1>0, <2>2, <2>3, <2>4 DEF NoNotificationLost
<1>5. ASSUME NEW w \in Workers, NEW v \in Verdicts, Skip(w, v)
      PROVE  DecodedBeforeHandling' /\ NoNotificationLost'
  <2> DEFINE n == worker[w].msg
  <2>1. n \in Messages
    BY <1>0, <1>5, BusyCallback DEF Skip
  <2>2. NoHandler(n) /\ ~Malformed(n)
    BY <1>5, <2>1, StatusMeaning DEF Skip, Malformed, NoHandler
  <2>3. DecodedBeforeHandling'
    BY <1>0, <1>5 DEF Skip, TypeOK, DecodedBeforeHandling, Idle
  <2>4. \A m \in Messages : broker'[m] = "acked" => broker[m] = "acked" \/ m = n
    BY <1>0, <1>5, <2>1 DEF Skip, Ack, TypeOK
  <2>5. processed' = processed
    BY <1>5 DEF Skip
  <2> QED
    BY <1>0, <2>2, <2>3, <2>4, <2>5 DEF NoNotificationLost
<1>6. ASSUME NEW w \in Workers, NEW v \in Verdicts, HandlerSucceeds(w, v)
      PROVE  DecodedBeforeHandling' /\ NoNotificationLost'
  <2> DEFINE n == worker[w].msg
  <2>1. n \in Messages
    BY <1>0, <1>6, BusyCallback DEF HandlerSucceeds
  <2>2. ~Malformed(n)
    BY <1>0, <1>6 DEF HandlerSucceeds, DecodedBeforeHandling
  <2>3. DecodedBeforeHandling'
    BY <1>0, <1>6 DEF HandlerSucceeds, TypeOK, DecodedBeforeHandling, Idle
  <2>4. \A m \in Messages : broker'[m] = "acked" => broker[m] = "acked" \/ m = n
    BY <1>0, <1>6, <2>1 DEF HandlerSucceeds, Ack, TypeOK
  <2>5. processed' = processed \cup {n}
    BY <1>6 DEF HandlerSucceeds
  <2> QED
    BY <1>0, <2>2, <2>3, <2>4, <2>5 DEF NoNotificationLost
<1>7. ASSUME NEW m \in Messages, LeaseExpires(m)
      PROVE  DecodedBeforeHandling' /\ NoNotificationLost'
  BY <1>0, <1>7 DEF LeaseExpires, TypeOK, DecodedBeforeHandling, NoNotificationLost
<1>8. CASE Crash
  BY <1>0, <1>8 DEF Crash, DecodedBeforeHandling, NoNotificationLost, Idle
<1>9. CASE \/ \E s \in Starters : StarterStep(s)
           \/ \E t \in Stoppers : StopperStep(t)
           \/ UNCHANGED vars
  BY <1>1, <1>9 DEF StarterStep, StopperStep, StartSwap, StartPublish, ReceiveFails,
     ReceiveReturns, StopSwap, StopCancel, vars
<1> QED
  BY <1>2, <1>3, <1>4, <1>5, <1>6, <1>7, <1>8, <1>9 DEF Next, StarterStep, StopperStep

LEMMA DeliveryInvariant == Spec => []Delivery
<1>1. Init => Delivery
  BY TypeInit DEF Init, Delivery, DecodedBeforeHandling, NoNotificationLost, Idle
<1> QED
  BY <1>1, DeliveryStep, PTL DEF Spec

(* No notification leaves the subscription before its handler has returned *)
(* nil, unless it could be decoded and nobody registered a handler for it. *)
THEOREM NoNotificationLostHolds == Spec => []NoNotificationLost
<1>1. Delivery => NoNotificationLost
  BY DEF Delivery
<1> QED
  BY <1>1, DeliveryInvariant, PTL

-----------------------------------------------------------------------------
(* The refinement *)

Outstanding == {m \in Messages : broker[m] # "acked"}

LEMMA QueueStep == Delivery /\ [Next]_vars => [Queue!Next]_(Queue!vars)
<1> SUFFICES ASSUME Delivery, [Next]_vars PROVE [Queue!Next]_(Queue!vars)
  OBVIOUS
<1>0. TypeOK /\ DecodedBeforeHandling
  BY DEF Delivery
<1>1. ASSUME UNCHANGED processed,
             \A m \in Messages : broker'[m] = "acked" <=> broker[m] = "acked"
      PROVE  [Queue!Next]_(Queue!vars)
  BY <1>1 DEF Queue!vars
<1>2. ASSUME NEW w \in Workers, NEW v \in Verdicts, Skip(w, v)
      PROVE  [Queue!Next]_(Queue!vars)
  <2> DEFINE n == worker[w].msg
  <2>1. n \in Messages
    BY <1>0, <1>2, BusyCallback DEF Skip
  <2>2. NoHandler(n) /\ ~Malformed(n) /\ UNCHANGED processed
    BY <1>2, <2>1, StatusMeaning DEF Skip, Malformed, NoHandler
  <2>3. CASE broker' = broker \/ broker[n] = "acked"
    <3>1. \A m \in Messages : broker'[m] = "acked" <=> broker[m] = "acked"
      BY <1>0, <1>2, <2>1, <2>3 DEF Skip, Ack, TypeOK
    <3> QED
      BY <1>1, <2>2, <3>1
  <2>4. CASE Ack(n) /\ broker[n] # "acked"
    <3>1. Outstanding' = Outstanding \ {n} /\ n \in Outstanding
      BY <1>0, <2>1, <2>4 DEF Outstanding, Ack, TypeOK
    <3>2. Queue!Settle(n)
      BY <2>1, <2>2, <3>1 DEF Queue!Settle, Outstanding
    <3>3. Queue!Next
      BY <2>1, <3>2 DEF Queue!Next, Queue!Settle
    <3> QED
      BY <3>3
  <2> QED
    BY <1>2, <2>3, <2>4 DEF Skip
<1>3. ASSUME NEW w \in Workers, NEW v \in Verdicts, HandlerSucceeds(w, v)
      PROVE  [Queue!Next]_(Queue!vars)
  <2> DEFINE n == worker[w].msg
  <2>1. n \in Messages /\ ~Malformed(n) /\ ~NoHandler(n)
    BY <1>0, <1>3, BusyCallback DEF HandlerSucceeds, DecodedBeforeHandling
  <2>2. processed' = processed \cup {n}
    BY <1>3 DEF HandlerSucceeds
  <2>3. CASE broker' = broker \/ broker[n] = "acked"
    <3>1. Outstanding' = Outstanding
      BY <1>0, <1>3, <2>1, <2>3 DEF HandlerSucceeds, Ack, TypeOK, Outstanding
    <3>2. Queue!Process(n)
      BY <2>1, <2>2, <3>1 DEF Queue!Process, Outstanding
    <3>3. Queue!Next
      BY <2>1, <3>2 DEF Queue!Next, Queue!Process
    <3> QED
      BY <3>3
  <2>4. CASE Ack(n) /\ broker[n] # "acked"
    <3>1. Outstanding' = Outstanding \ {n} /\ n \in Outstanding
      BY <1>0, <2>1, <2>4 DEF Outstanding, Ack, TypeOK
    <3>2. Queue!ProcessAndSettle(n)
      BY <2>1, <2>2, <3>1 DEF Queue!ProcessAndSettle, Outstanding
    <3>3. Queue!Next
      BY <2>1, <3>2 DEF Queue!Next, Queue!ProcessAndSettle
    <3> QED
      BY <3>3
  <2> QED
    BY <1>3, <2>3, <2>4 DEF HandlerSucceeds
<1>4. ASSUME NEW w \in Workers, NEW v \in Verdicts, Refuse(w, v) \/ HandlerFails(w, v)
      PROVE  [Queue!Next]_(Queue!vars)
  <2>1. worker[w].msg \in Messages
    BY <1>0, <1>4, BusyCallback DEF Refuse, HandlerFails
  <2>2. \A m \in Messages : broker'[m] = "acked" <=> broker[m] = "acked"
    BY <1>0, <1>4, <2>1 DEF Refuse, HandlerFails, Nack, TypeOK
  <2> QED
    BY <1>1, <1>4, <2>2 DEF Refuse, HandlerFails
<1>5. ASSUME NEW w \in Workers, NEW m \in Messages, Deliver(w, m)
      PROVE  [Queue!Next]_(Queue!vars)
  BY <1>0, <1>1, <1>5 DEF Deliver, TypeOK
<1>6. ASSUME NEW m \in Messages, LeaseExpires(m)
      PROVE  [Queue!Next]_(Queue!vars)
  BY <1>0, <1>1, <1>6 DEF LeaseExpires, TypeOK
<1>7. CASE UNCHANGED <<broker, processed>>
  BY <1>1, <1>7
<1> QED
  BY <1>2, <1>3, <1>4, <1>5, <1>6, <1>7 DEF Next, StartSwap, StartPublish, ReceiveFails,
     ReceiveReturns, StopSwap, StopCancel, CallHandler, Crash, vars

(* The subscriber implements the at-least-once queue of NotificationQueue: *)
(* each of its steps settles, processes or stutters there.                 *)
THEOREM SubscriberImplementsQueue == Spec => ImplementsQueue
<1>1. Init => Queue!Init
  BY DEF Init, Queue!Init
<1> QED
  BY <1>1, QueueStep, DeliveryInvariant, PTL DEF Spec, ImplementsQueue, Queue!Spec
===============================================================================
