------------------------------ MODULE AtMostOnce ------------------------------
(***************************************************************************)
(* What a remote call promises: it is carried out at most once, and what   *)
(* its caller is told is true for ever.  A caller told that it is done may *)
(* rely on that, a caller told that it was refused may try again, and one  *)
(* that is told neither (the network failed, the time ran out) knows       *)
(* nothing: its call may even be carried out later.                        *)
(***************************************************************************)
EXTENDS Naturals

CONSTANT Calls

VARIABLES
    executed,  \* executed[c]: how often c has been carried out
    told       \* told[c]: what the caller of c knows

Init ==
    /\ executed = [c \in Calls |-> 0]
    /\ told = [c \in Calls |-> "nothing"]

Execute(c) ==
    /\ executed[c] = 0
    /\ told[c] \in {"nothing", "unknown"}
    /\ executed' = [executed EXCEPT ![c] = 1]
    /\ UNCHANGED told

Tell(c) ==
    /\ told[c] = "nothing"
    /\ \/ executed[c] = 1 /\ told' = [told EXCEPT ![c] = "done"]
       \/ executed[c] = 0 /\ told' = [told EXCEPT ![c] = "refused"]
       \/ told' = [told EXCEPT ![c] = "unknown"]
    /\ UNCHANGED executed

Next == \E c \in Calls : Execute(c) \/ Tell(c)

Spec == Init /\ [][Next]_<<executed, told>>
===============================================================================
