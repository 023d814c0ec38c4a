---------------------------- MODULE Registrations ----------------------------
(***************************************************************************)
(* What replicas that register their resources of one type may rely on.    *)
(* One registration at a time is written.  Nothing registered is removed   *)
(* until a registration is complete, which leaves exactly its offer, all   *)
(* of it written before.  A replica that is told of no error has completed *)
(* its registration or has left the type to another.                       *)
(***************************************************************************)
CONSTANTS
    Replicas,
    Resources,
    Offer,  \* Offer[c]: what c registers
    None    \* no replica

VARIABLES
    registered,  \* the resources that are registered
    writer,      \* the replica whose registration is written, None if none
    fate,        \* fate[c]: what has become of the registration of c
    told         \* told[c]: what c has been told of it

registrations == <<registered, writer, fate, told>>

Init ==
    /\ registered \in SUBSET Resources
    /\ writer = None
    /\ fate = [c \in Replicas |-> "open"]
    /\ told = [c \in Replicas |-> "nothing"]

Start(c) ==
    /\ fate[c] = "open"
    /\ writer = None
    /\ writer' = c
    /\ UNCHANGED <<registered, fate, told>>

Write(c) ==
    /\ writer = c
    /\ \E resources \in SUBSET Offer[c] : registered' = registered \cup resources
    /\ UNCHANGED <<writer, fate, told>>

Complete(c) ==
    /\ writer = c
    /\ Offer[c] \subseteq registered
    /\ registered' = Offer[c]
    /\ writer' = None
    /\ fate' = [fate EXCEPT ![c] = "complete"]
    /\ UNCHANGED told

(* Another replica is registering. *)
Yield(c) ==
    /\ fate[c] = "open"
    /\ writer \notin {None, c}
    /\ fate' = [fate EXCEPT ![c] = "left to another"]
    /\ UNCHANGED <<registered, writer, told>>

(* What was written stays. *)
Break(c) ==
    /\ fate[c] = "open"
    /\ fate' = [fate EXCEPT ![c] = "broken"]
    /\ writer' = IF writer = c THEN None ELSE writer
    /\ UNCHANGED <<registered, told>>

Tell(c) ==
    /\ told[c] = "nothing"
    /\ \/ /\ fate[c] \in {"complete", "left to another"}
          /\ told' = [told EXCEPT ![c] = "no error"]
       \/ told' = [told EXCEPT ![c] = "error"]
    /\ UNCHANGED <<registered, writer, fate>>

Next ==
    \E c \in Replicas :
        Start(c) \/ Write(c) \/ Complete(c) \/ Yield(c) \/ Break(c) \/ Tell(c)

Spec == Init /\ [][Next]_registrations
===============================================================================
