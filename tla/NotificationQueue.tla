-------------------------- MODULE NotificationQueue --------------------------
(***************************************************************************)
(* What the notifications subscriber promises about one Pub/Sub            *)
(* subscription, whatever its goroutines do (notifications/v1/             *)
(* subscriber.go:175-211): a notification leaves the subscription only     *)
(* when it is well formed and either nobody registered a handler for it or *)
(* the handler has returned without an error.  Until then it stays, and    *)
(* its handler may run any number of times (at-least-once processing).     *)
(***************************************************************************)
CONSTANTS
    Messages,     \* the notifications published to the subscription
    Undeliverable, \* those (of Messages) that can never be decoded for a handler
    Unhandled     \* those (of Messages) no registered handler is interested in

VARIABLES
    outstanding,  \* notifications the subscription still holds
    processed     \* notifications whose handler returned without an error

vars == <<outstanding, processed>>

Init ==
    /\ outstanding = Messages
    /\ processed = {}

(* A handler returns without an error; the notification stays outstanding. *)
Process(m) ==
    /\ m \notin Undeliverable \cup Unhandled
    /\ processed' = processed \cup {m}
    /\ UNCHANGED outstanding

(* The subscription drops a notification that needs nothing more. *)
Settle(m) ==
    /\ m \in outstanding
    /\ m \notin Undeliverable
    /\ m \in Unhandled \cup processed
    /\ outstanding' = outstanding \ {m}
    /\ UNCHANGED processed

(* The acknowledgement of a successful handler is received at once. *)
ProcessAndSettle(m) ==
    /\ m \in outstanding
    /\ m \notin Undeliverable \cup Unhandled
    /\ processed' = processed \cup {m}
    /\ outstanding' = outstanding \ {m}

Next ==
    \E m \in Messages : Process(m) \/ Settle(m) \/ ProcessAndSettle(m)

Spec == Init /\ [][Next]_vars
==============================================================================
