------------------------------ MODULE StaleReads ------------------------------
(***************************************************************************)
(* What a cache of things that end promises its readers.  A key holds (a   *)
(* token is active, a session signed in) until it ends, once and for all.  *)
(* A read that answers "yes" may be behind, but by no more than Bound when *)
(* it began.  One that answers "no" is never wrong: nobody is turned away  *)
(* for a key that still holds.                                             *)
(***************************************************************************)
EXTENDS Integers

CONSTANTS
    Readers, Keys,
    Bound,  \* how far behind a read may be
    None    \* no value

VARIABLES
    now,      \* the clock
    endedAt,  \* endedAt[x]: when x ended, None if it holds
    read      \* read[k]: the read of k, None between reads

(* A read under way or answered. *)
Reading == [key : Keys, began : Nat, answer : {"pending", "yes", "no"}]

Init ==
    /\ now \in Nat
    /\ endedAt \in [Keys -> {None} \cup 0..now]
    /\ read = [k \in Readers |-> None]

(* What a read of x may answer that began at the instant began. *)
MayAnswer(x, began, answer) ==
    \/ answer = "yes" /\ (endedAt[x] # None => began <= endedAt[x] + Bound)
    \/ answer = "no" /\ endedAt[x] # None

(* A read may be answered at once. *)
Begin(k, x) ==
    /\ read[k] = None
    /\ \E answer \in {"pending", "yes", "no"} :
        /\ answer # "pending" => MayAnswer(x, now, answer)
        /\ read' = [read EXCEPT ![k] = [key |-> x, began |-> now, answer |-> answer]]
    /\ UNCHANGED <<now, endedAt>>

Answer(k) ==
    /\ read[k] # None
    /\ read[k].answer = "pending"
    /\ \E answer \in {"yes", "no"} :
        /\ MayAnswer(read[k].key, read[k].began, answer)
        /\ read' = [read EXCEPT ![k].answer = answer]
    /\ UNCHANGED <<now, endedAt>>

(* A read fails, or its reader has taken the answer. *)
Finish(k) ==
    /\ read[k] # None
    /\ read' = [read EXCEPT ![k] = None]
    /\ UNCHANGED <<now, endedAt>>

End(x) ==
    /\ endedAt[x] = None
    /\ endedAt' = [endedAt EXCEPT ![x] = now]
    /\ UNCHANGED <<now, read>>

(* Time passes, and some keys end with it. *)
Tick ==
    /\ now' = now + 1
    /\ \E ending \in SUBSET {x \in Keys : endedAt[x] = None} :
        endedAt' = [x \in Keys |-> IF x \in ending THEN now' ELSE endedAt[x]]
    /\ UNCHANGED read

(* That the read changes follows from each disjunct, and is quicker to     *)
(* evaluate than they are.                                                 *)
ReadStep(k) ==
    /\ read'[k] # read[k]
    /\ Answer(k) \/ Finish(k) \/ \E x \in Keys : Begin(k, x)

Next ==
    \/ \E k \in Readers : ReadStep(k)
    \/ \E x \in Keys : End(x)
    \/ Tick

Spec == Init /\ [][Next]_<<now, endedAt, read>>
===============================================================================
