------------------------------- MODULE SignIns -------------------------------
(***************************************************************************)
(* What an application may rely on when a user is signed in.  A sign-in is *)
(* for a request that names a login begun before in the same browser, and  *)
(* is paid for with an approval the user gave to such a login; an approval *)
(* pays for one sign-in only, however often the browser comes back with    *)
(* it, and may come to nothing.  A lenient application, which takes what   *)
(* its session is missing for an empty value, lets a request without a     *)
(* name pass as well, and an approval that nobody in the browser asked for *)
(* if it is bound to no other login either.                                *)
(*                                                                         *)
(* A request names one login and may bring the approval of another that    *)
(* the same browser began: the session holds one state and one nonce, and  *)
(* two tabs may have left each one of them.                                *)
(***************************************************************************)
CONSTANTS
    Logins,     \* the logins a user can begin
    Approvals,  \* the times a user can approve one
    Other,      \* a login of another browser
    Requests,   \* what can end in a sign-in
    None        \* no login, no approval

VARIABLES
    lenient,   \* whether the application is
    begun,     \* the logins that wait for approvals
    approved,  \* the approvals given, <<login, approval>>
    signedIn   \* signedIn[c]: the login and the approval c was signed in with, if any

signIns == <<lenient, begun, approved, signedIn>>

Init ==
    /\ lenient \in BOOLEAN
    /\ begun = {}
    /\ approved = {Other, None} \X Approvals
    /\ signedIn = [c \in Requests |-> None]

Begin(l) ==
    /\ begun' = begun \cup {l}
    /\ UNCHANGED <<lenient, approved, signedIn>>

Approve(l, a) ==
    /\ l \in begun
    /\ approved' = approved \cup {<<l, a>>}
    /\ UNCHANGED <<lenient, begun, signedIn>>

Accepted == IF lenient THEN begun \cup {None} ELSE begun

SignIn(c, l, approval) ==
    /\ signedIn[c] = None
    /\ l \in Accepted
    /\ approval[1] \in Accepted
    /\ \A other \in Requests : signedIn[other] # None => signedIn[other].code # approval
    /\ signedIn' = [signedIn EXCEPT ![c] = [state |-> l, code |-> approval]]
    /\ UNCHANGED <<lenient, begun, approved>>

Next ==
    \/ \E l \in Logins : Begin(l)
    \/ \E l \in Logins, a \in Approvals : Approve(l, a)
    \/ \E c \in Requests, l \in Logins \cup {None}, approval \in approved :
          SignIn(c, l, approval)

Spec == Init /\ [][Next]_signIns
===============================================================================
