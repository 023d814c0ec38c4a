---------------------------- MODULE MCSubscriber ----------------------------
(* Instances of Subscriber: which notifications are on the subscription.   *)
EXTENDS Subscriber

CONSTANTS deleted, roles, session, future, garbled, truncated

Note(body, name, metadata) == [body |-> body, name |-> name, metadata |-> metadata]

(* One of each fate: handled, skipped, unknown to this version, with bad   *)
(* metadata, and not even a notification.                                  *)
MCNotification ==
    [m \in Messages |->
        CASE m = deleted -> Note("ok", "UserDeleted", "ok")
          [] m = roles -> Note("ok", "UserRolesUpdated", "ok")
          [] m = session -> Note("ok", "SessionInvalidated", "malformed")
          [] m = future -> Note("ok", "other", "ok")
          [] m = garbled -> Note("ok", "UserDeleted", "malformed")
          [] m = truncated -> Note("malformed", "other", "malformed")]
=============================================================================
