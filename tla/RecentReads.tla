------------------------------ MODULE RecentReads ------------------------------
(***************************************************************************)
(* What a cache of values that change promises its readers: the answer of  *)
(* a read is the value of its key, or was so no longer ago than Bound when *)
(* the read began.  A value may be taken again later.                      *)
(***************************************************************************)
EXTENDS Integers

CONSTANTS
    Readers, Keys, Values,
    Bound,  \* how far behind a read may be
    None    \* no read, no instant

VARIABLES
    now,     \* the clock
    value,   \* value[x]: what x is
    lastAt,  \* lastAt[x][v]: when x last ceased to be v, None if never
    read     \* read[k]: the read of k, None between reads

(* A read under way has no answer, and then one. *)
Reading == [key : Keys, began : Nat, answers : {{}} \cup {{v} : v \in Values}]

Init ==
    /\ now \in Nat
    /\ value \in [Keys -> Values]
    /\ lastAt = [x \in Keys |-> [v \in Values |-> None]]
    /\ read = [k \in Readers |-> None]

(* What a read of x may answer that began at the instant began. *)
MayAnswer(x, began, v) ==
    \/ value[x] = v
    \/ lastAt[x][v] # None /\ began <= lastAt[x][v] + Bound

(* A read may be answered at once. *)
Begin(k, x) ==
    /\ read[k] = None
    /\ \E answers \in {{}} \cup {{v} : v \in Values} :
        /\ \A v \in answers : MayAnswer(x, now, v)
        /\ read' = [read EXCEPT ![k] = [key |-> x, began |-> now, answers |-> answers]]
    /\ UNCHANGED <<now, value, lastAt>>

Answer(k) ==
    /\ read[k] # None
    /\ read[k].answers = {}
    /\ \E v \in Values :
        /\ MayAnswer(read[k].key, read[k].began, v)
        /\ read' = [read EXCEPT ![k].answers = {v}]
    /\ UNCHANGED <<now, value, lastAt>>

(* A read fails, or its reader has taken the answer. *)
Finish(k) ==
    /\ read[k] # None
    /\ read' = [read EXCEPT ![k] = None]
    /\ UNCHANGED <<now, value, lastAt>>

Change(x, v) ==
    /\ value[x] # v
    /\ value' = [value EXCEPT ![x] = v]
    /\ lastAt' = [lastAt EXCEPT ![x][value[x]] = now]
    /\ UNCHANGED <<now, read>>

Tick ==
    /\ now' = now + 1
    /\ UNCHANGED <<value, lastAt, read>>

(* That the read changes follows from each disjunct, and is quicker to     *)
(* evaluate than they are.                                                 *)
ReadStep(k) ==
    /\ read'[k] # read[k]
    /\ Answer(k) \/ Finish(k) \/ \E x \in Keys : Begin(k, x)

Next ==
    \/ \E k \in Readers : ReadStep(k)
    \/ \E x \in Keys, v \in Values : Change(x, v)
    \/ Tick

Spec == Init /\ [][Next]_<<now, value, lastAt, read>>
===============================================================================
