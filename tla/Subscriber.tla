----------------------------- MODULE Subscriber -----------------------------
(***************************************************************************)
(* The notifications subscriber (notifications/v1/subscriber.go): Start    *)
(* and Stop racing on one subscriber object, the callback that Receive     *)
(* runs for every delivery, and the Pub/Sub subscription underneath        *)
(* (external: at-least-once, unordered, leases that expire).               *)
(*                                                                         *)
(* A crash of the process loses everything but the subscription; the next  *)
(* process builds a new subscriber object.                                 *)
(*                                                                         *)
(* s.cancelContext is written by Start and read by Stop without            *)
(* synchronisation.  It is one word: the racy read yields the old or the   *)
(* new function, which is the order of StartPublish and StopCancel here.   *)
(***************************************************************************)
EXTENDS Naturals

CONSTANTS
    Starters,      \* goroutines that call Start
    Stoppers,      \* goroutines that call Stop
    Workers,       \* callback goroutines, ReceiveSettings.MaxOutstandingMessages of them
    Messages,      \* notifications published to the subscription
    Notification,  \* [Messages -> Payload]
    Handlers,      \* the names whose field in SubscriberHandlers is not nil
    MaxCrashes     \* bound: how often the process crashes

KnownNames ==
    {"UserDeleted", "UserRolesUpdated", "UserMetadataUpdated", "SessionInvalidated"}

(* body and metadata say whether json.Unmarshal accepts them. *)
Payload ==
    [body : {"ok", "malformed"},
     name : KnownNames \cup {"other"},
     metadata : {"ok", "malformed"}]

ASSUME SubscriberAssumption ==
    /\ Notification \in [Messages -> Payload]
    /\ Handlers \subseteq KnownNames
    /\ MaxCrashes \in Nat

VARIABLES
    state,          \* s.state.value
    cancelContext,  \* s.cancelContext: the logging default, or the receiver's cancel
    ctx,            \* the context made by Start
    start,          \* start[s]: where the Start call of s is
    stop,           \* stop[t]: where the Stop call of t is
    worker,         \* worker[w]: the callback w is running, if any
    broker,         \* broker[m]: m as the subscription sees it
    processed,      \* history: notifications whose handler returned nil
    crashes         \* how often the process has crashed

lifecycle == <<state, cancelContext, ctx, start, stop>>
vars == <<lifecycle, worker, broker, processed, crashes>>

Idle == [pc |-> "idle"]

Callback == [pc : {"received", "handling"}, msg : Messages]

StartPC == {"ready", "publishing", "receiving", "draining", "returned", "panicked"}
StopPC == {"ready", "cancelling", "returned", "panicked"}

(* One invariant that types the state. *)
TypeOK ==
    /\ state \in {"idle", "started", "stopped"}
    /\ cancelContext \in {"default", "cancel"}
    /\ ctx \in {"none", "live", "cancelled"}
    /\ start \in [Starters -> StartPC]
    /\ stop \in [Stoppers -> StopPC]
    /\ worker \in [Workers -> {Idle} \cup Callback]
    /\ broker \in [Messages -> {"pending", "leased", "acked"}]
    /\ processed \subseteq Messages
    /\ crashes \in 0..MaxCrashes

(* Mutant: the constructor leaves the cancel function nil. *)
NewSubscriberNil ==
    /\ state = "idle"
    /\ cancelContext = "nil"
    /\ ctx = "none"
    /\ start = [s \in Starters |-> "ready"]
    /\ stop = [t \in Stoppers |-> "ready"]

(* A subscriber object as the constructor leaves it. *)
NewSubscriber ==
    /\ state = "idle"
    /\ cancelContext = "default"
    /\ ctx = "none"
    /\ start = [s \in Starters |-> "ready"]
    /\ stop = [t \in Stoppers |-> "ready"]

Init ==
    /\ NewSubscriber
    /\ worker = [w \in Workers |-> Idle]
    /\ broker = [m \in Messages |-> "pending"]
    /\ processed = {}
    /\ crashes = 0

-----------------------------------------------------------------------------
(* Start *)

(* Mutant: the state is set without looking at what it was. *)
StartSwapUnchecked(s) ==
    /\ start[s] = "ready"
    /\ state' = "started"
    /\ start' = [start EXCEPT ![s] = "publishing"]
    /\ UNCHANGED <<cancelContext, ctx, stop, worker, broker, processed, crashes>>

(* Mutant: a subscriber that was stopped may be started again. *)
StartSwapRestart(s) ==
    /\ start[s] = "ready"
    /\ \/ /\ state # "started"
          /\ state' = "started"
          /\ start' = [start EXCEPT ![s] = "publishing"]
       \/ /\ state = "started"
          /\ start' = [start EXCEPT ![s] = "panicked"]
          /\ UNCHANGED state
    /\ UNCHANGED <<cancelContext, ctx, stop, worker, broker, processed, crashes>>

(* toStarted: the compare-and-swap decides which Start goes on. *)
StartSwap(s) ==
    /\ start[s] = "ready"
    /\ \/ /\ state = "idle"
          /\ state' = "started"
          /\ start' = [start EXCEPT ![s] = "publishing"]
       \/ /\ state # "idle"
          /\ start' = [start EXCEPT ![s] = "panicked"]
          /\ UNCHANGED state
    /\ UNCHANGED <<cancelContext, ctx, stop, worker, broker, processed, crashes>>

(* The context is made and its cancel function published for Stop. *)
StartPublish(s) ==
    /\ start[s] = "publishing"
    /\ ctx' = "live"
    /\ cancelContext' = "cancel"
    /\ start' = [start EXCEPT ![s] = "receiving"]
    /\ UNCHANGED <<state, stop, worker, broker, processed, crashes>>

(* Receive meets an error it does not retry: it delivers nothing more. *)
ReceiveFails(s) ==
    /\ start[s] = "receiving"
    /\ ctx = "live"
    /\ start' = [start EXCEPT ![s] = "draining"]
    /\ UNCHANGED <<state, cancelContext, ctx, stop, worker, broker, processed, crashes>>

(* Receive returns after the last outstanding callback, and Start with it. *)
ReceiveReturns(s) ==
    /\ \/ start[s] = "draining"
       \/ start[s] = "receiving" /\ ctx = "cancelled"
    /\ \A w \in Workers : worker[w] = Idle
    /\ start' = [start EXCEPT ![s] = "returned"]
    /\ UNCHANGED <<state, cancelContext, ctx, stop, worker, broker, processed, crashes>>

-----------------------------------------------------------------------------
(* Stop *)

StopSwap(t) ==
    /\ stop[t] = "ready"
    /\ \/ /\ state = "started"
          /\ state' = "stopped"
          /\ stop' = [stop EXCEPT ![t] = "cancelling"]
       \/ /\ state # "started"
          /\ stop' = [stop EXCEPT ![t] = "panicked"]
          /\ UNCHANGED state
    /\ UNCHANGED <<cancelContext, ctx, start, worker, broker, processed, crashes>>

(* Mutant: Stop forgets to call the cancel function. *)
StopCancelForgotten(t) ==
    /\ stop[t] = "cancelling"
    /\ stop' = [stop EXCEPT ![t] = "returned"]
    /\ UNCHANGED <<state, cancelContext, ctx, start, worker, broker, processed, crashes>>

(* s.cancelContext() is read and called; the default one only logs. *)
StopCancel(t) ==
    /\ stop[t] = "cancelling"
    /\ ctx' = IF cancelContext = "cancel" THEN "cancelled" ELSE ctx
    /\ stop' = [stop EXCEPT ![t] = "returned"]
    /\ UNCHANGED <<state, cancelContext, start, worker, broker, processed, crashes>>

-----------------------------------------------------------------------------
(* The callback of Receive *)

Receiving == ctx = "live" /\ \E s \in Starters : start[s] = "receiving"

(* Pub/Sub hands a pending notification to a free callback goroutine. *)
Deliver(w, m) ==
    /\ Receiving
    /\ worker[w] = Idle
    /\ broker[m] = "pending"
    /\ broker' = [broker EXCEPT ![m] = "leased"]
    /\ worker' = [worker EXCEPT ![w] = [pc |-> "received", msg |-> m]]
    /\ UNCHANGED <<lifecycle, processed, crashes>>

(* Mutant: a notification without a handler is reported as malformed. *)
StatusOfNilHandler(n) ==
    IF n.name \notin KnownNames THEN "unknown_message"
    ELSE IF n.name \in Handlers /\ n.metadata = "ok" THEN "handled"
    ELSE "malformed_message"

(* handleReceive up to the call of the handler. *)
Status(n) ==
    IF n.name \notin KnownNames THEN "unknown_message"
    ELSE IF n.name \notin Handlers THEN "skipped"
    ELSE IF n.metadata = "malformed" THEN "malformed_message"
    ELSE "handled"

(* msg.Ack and msg.Nack are best effort: the call may not reach Pub/Sub. *)
Ack(m) ==
    broker' = [broker EXCEPT ![m] = "acked"]

Nack(m) ==
    broker' = [broker EXCEPT ![m] = IF @ = "acked" THEN @ ELSE "pending"]

Verdicts == {"received", "lost"}

(* Mutant: what cannot be decoded is dropped. *)
RefuseAcked(w, verdict) ==
    /\ worker[w].pc = "received"
    /\ LET m == worker[w].msg IN
        /\ \/ Notification[m].body = "malformed"
           \/ Status(Notification[m]) = "malformed_message"
        /\ \/ verdict = "received" /\ Ack(m)
           \/ verdict = "lost" /\ UNCHANGED broker
    /\ worker' = [worker EXCEPT ![w] = Idle]
    /\ UNCHANGED <<lifecycle, processed, crashes>>

(* The callback decodes the notification.  It ends without a handler when  *)
(* the payload is malformed (Nack) or nobody handles the name (Ack).       *)
Refuse(w, verdict) ==
    /\ worker[w].pc = "received"
    /\ LET m == worker[w].msg IN
        /\ \/ Notification[m].body = "malformed"
           \/ Status(Notification[m]) = "malformed_message"
        /\ \/ verdict = "received" /\ Nack(m)
           \/ verdict = "lost" /\ UNCHANGED broker
    /\ worker' = [worker EXCEPT ![w] = Idle]
    /\ UNCHANGED <<lifecycle, processed, crashes>>

Skip(w, verdict) ==
    /\ worker[w].pc = "received"
    /\ LET m == worker[w].msg IN
        /\ Notification[m].body = "ok"
        /\ Status(Notification[m]) \in {"unknown_message", "skipped"}
        /\ \/ verdict = "received" /\ Ack(m)
           \/ verdict = "lost" /\ UNCHANGED broker
    /\ worker' = [worker EXCEPT ![w] = Idle]
    /\ UNCHANGED <<lifecycle, processed, crashes>>

CallHandler(w) ==
    /\ worker[w].pc = "received"
    /\ Notification[worker[w].msg].body = "ok"
    /\ Status(Notification[worker[w].msg]) = "handled"
    /\ worker' = [worker EXCEPT ![w] = [pc |-> "handling", msg |-> worker[w].msg]]
    /\ UNCHANGED <<lifecycle, broker, processed, crashes>>

HandlerSucceeds(w, verdict) ==
    /\ worker[w].pc = "handling"
    /\ LET m == worker[w].msg IN
        /\ processed' = processed \cup {m}
        /\ \/ verdict = "received" /\ Ack(m)
           \/ verdict = "lost" /\ UNCHANGED broker
    /\ worker' = [worker EXCEPT ![w] = Idle]
    /\ UNCHANGED <<lifecycle, crashes>>

(* Mutant: the error of the handler is only logged. *)
HandlerFailsAcked(w, verdict) ==
    /\ worker[w].pc = "handling"
    /\ LET m == worker[w].msg IN
        \/ verdict = "received" /\ Ack(m)
        \/ verdict = "lost" /\ UNCHANGED broker
    /\ worker' = [worker EXCEPT ![w] = Idle]
    /\ UNCHANGED <<lifecycle, processed, crashes>>

HandlerFails(w, verdict) ==
    /\ worker[w].pc = "handling"
    /\ LET m == worker[w].msg IN
        \/ verdict = "received" /\ Nack(m)
        \/ verdict = "lost" /\ UNCHANGED broker
    /\ worker' = [worker EXCEPT ![w] = Idle]
    /\ UNCHANGED <<lifecycle, processed, crashes>>

-----------------------------------------------------------------------------
(* The environment *)

(* A lease runs out, also under a callback that is still at work. *)
LeaseExpires(m) ==
    /\ broker[m] = "leased"
    /\ broker' = [broker EXCEPT ![m] = "pending"]
    /\ UNCHANGED <<lifecycle, worker, processed, crashes>>

(* The process dies anywhere (a panic in Start or Stop included) and a new *)
(* one begins with a new subscriber.                                       *)
Crash ==
    /\ crashes < MaxCrashes
    /\ crashes' = crashes + 1
    /\ state' = "idle"
    /\ cancelContext' = "default"
    /\ ctx' = "none"
    /\ start' = [s \in Starters |-> "ready"]
    /\ stop' = [t \in Stoppers |-> "ready"]
    /\ worker' = [w \in Workers |-> Idle]
    /\ UNCHANGED <<broker, processed>>

Next ==
    \/ \E s \in Starters :
        StartSwap(s) \/ StartPublish(s) \/ ReceiveFails(s) \/ ReceiveReturns(s)
    \/ \E t \in Stoppers : StopSwap(t) \/ StopCancel(t)
    \/ \E w \in Workers, m \in Messages : Deliver(w, m)
    \/ \E w \in Workers : CallHandler(w)
    \/ \E w \in Workers, v \in Verdicts :
        Refuse(w, v) \/ Skip(w, v) \/ HandlerSucceeds(w, v) \/ HandlerFails(w, v)
    \/ \E m \in Messages : LeaseExpires(m)
    \/ Crash

Spec == Init /\ [][Next]_vars

-----------------------------------------------------------------------------
(* Fairness.  The Go scheduler runs every goroutine that can go on, and a  *)
(* handler returns sometime.  Pub/Sub ends every lease, delivers a pending *)
(* notification when it has the chance over and over, and a notification   *)
(* that is delivered over and over is sometime handled without an error    *)
(* and its acknowledgement received.  Nothing makes the program call Start *)
(* or Stop, makes Receive fail or the process crash.                       *)

CallbackStep(w) ==
    \/ CallHandler(w)
    \/ \E v \in Verdicts :
        Refuse(w, v) \/ Skip(w, v) \/ HandlerSucceeds(w, v) \/ HandlerFails(w, v)

SettledBy(w, m) ==
    /\ worker[w] # Idle
    /\ worker[w].msg = m
    /\ Skip(w, "received") \/ HandlerSucceeds(w, "received")

Fairness ==
    /\ \A s \in Starters : WF_vars(StartPublish(s)) /\ WF_vars(ReceiveReturns(s))
    /\ \A t \in Stoppers : WF_vars(StopCancel(t))
    /\ \A w \in Workers : WF_vars(CallbackStep(w))
    /\ \A m \in Messages :
        /\ WF_vars(LeaseExpires(m))
        /\ SF_vars(\E w \in Workers : Deliver(w, m))
        /\ SF_vars(\E w \in Workers : SettledBy(w, m))

FairSpec == Spec /\ Fairness

-----------------------------------------------------------------------------
(* Properties *)

(* A payload that can not be decoded for its handler. *)
Malformed(m) ==
    LET n == Notification[m] IN
    n.body = "malformed" \/ (n.name \in Handlers /\ n.metadata = "malformed")

NoHandler(m) ==
    Notification[m].body = "ok" /\ Notification[m].name \notin Handlers

(* A notification leaves the subscription only if nobody registered a      *)
(* handler for it or its handler has returned nil, whatever deliveries of  *)
(* it overlap, fail, time out or die with the process; one whose payload   *)
(* cannot be decoded for its handler never leaves it.                      *)
NoNotificationLost ==
    \A m \in Messages :
        broker[m] = "acked" => ~Malformed(m) /\ (NoHandler(m) \/ m \in processed)

InReceive(s) == start[s] \in {"publishing", "receiving", "draining"}

(* However many goroutines call Start, at most one of them gets past the   *)
(* state machine and calls Receive, so there is one cancel function.       *)
OneReceiver ==
    \A s1, s2 \in Starters : InReceive(s1) /\ InReceive(s2) => s1 = s2

(* Once some Start has returned no callback runs and none will: Receive    *)
(* waits for its callbacks and no other Start can call it again, so the    *)
(* process may release what the handlers use.                              *)
QuietAfterReturn ==
    (\E s \in Starters : start[s] = "returned") =>
        /\ \A w \in Workers : worker[w] = Idle
        /\ ~Receiving

(* A receiver that Stop has cancelled is never revived in this process.    *)
NeverRevived ==
    [][ctx = "cancelled" /\ crashes' = crashes => ctx' = "cancelled"]_vars

(* A Stop that gets to its cancel function after Start has published it    *)
(* ends the receiver, whatever the callbacks are at.                       *)
StopEndsReceive ==
    \A t \in Stoppers :
        stop[t] = "cancelling" /\ cancelContext = "cancel"
            ~> \A s \in Starters : ~InReceive(s)

(* While the receiver keeps running, every notification that can be        *)
(* settled is settled sometime: failed handlers are retried, and malformed *)
(* notifications that come back for ever do not starve the others.         *)
EventuallySettled ==
    \A m \in Messages :
        ~Malformed(m) => ([]<>~Receiving \/ <>(broker[m] = "acked"))

(* README.md: "subscriber.Stop() // Stop receiving notifications."  Once   *)
(* Stop has returned, the receiver is not live.                            *)
StopStopsReceiving ==
    (\E t \in Stoppers : stop[t] = "returned") => ctx # "live"

(* The subscriber keeps the promise of NotificationQueue. *)
Queue == INSTANCE NotificationQueue WITH
    Undeliverable <- {m \in Messages : Malformed(m)},
    Unhandled <- {m \in Messages : NoHandler(m)},
    outstanding <- {m \in Messages : broker[m] # "acked"}

ImplementsQueue == Queue!Spec
=============================================================================
