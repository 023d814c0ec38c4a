---------------------------- MODULE SessionsCache ----------------------------
(***************************************************************************)
(* Session lookups and sign-outs through the cache (clientv1_sessions.go): *)
(* concurrent GetSessionByID and SignOutSession calls over one expirable   *)
(* LRU, in front of SAMS, where users also sign in and out elsewhere.      *)
(*                                                                         *)
(* The LRU is external and abstracted as in TokenCache: any entry may be   *)
(* evicted at any time.  Of a session its user is kept: nobody before a    *)
(* sign-in and after a sign-out, and somebody, perhaps another user, after *)
(* the next sign-in.                                                       *)
(***************************************************************************)
EXTENDS Naturals

CONSTANTS
    Callers,     \* goroutines that use the client
    Sessions,
    Users,
    None,        \* no value: nobody, never
    TTL,         \* sessionsCacheExpiry
    MaxLatency,  \* assumed: how long the answer of SAMS is under way at most
    MaxTime      \* bound: the last instant of the clock

ASSUME SessionsCacheAssumption ==
    /\ None \notin Nat \cup Users
    /\ TTL \in Nat
    /\ MaxLatency \in Nat
    /\ MaxTime \in Nat

VARIABLES
    now,          \* the clock
    user,         \* user[s]: who is signed in to s at SAMS
    lastAt,       \* history: lastAt[s][u]: when u last ceased to be the user of s
    cache,        \* cache[s]: the entry of s in the LRU, None if there is none
    pc,           \* pc[k]: where the call of k is
    session,      \* session[k]: its argument
    signedOut,    \* signedOut[k]: the user a SignOutSession is for
    began,        \* began[k]: when it began
    reply,        \* reply[k]: the session a GetSessionByID has in hand
    acknowledged, \* history: sessions a SignOutSession of this client reported signed out
    afterwards,   \* history: the GetSessionByID calls that began after such a report
    overtaken     \* history: sessions with an answer under way at such a report

sams == <<user, lastAt>>
call == <<pc, session, signedOut, began, reply>>
history == <<acknowledged, afterwards, overtaken>>
vars == <<now, sams, cache, call, history>>

Start == 1

UserOrNobody == Users \cup {None}

(* servedAt is history: when SAMS made the response. *)
Reply == [user : UserOrNobody, servedAt : Nat]

(* until: the last instant at which the LRU returns the entry. *)
Entry == [reply : Reply, until : Nat]

GetPC == {"getting", "receiving", "got"}
SignOutPC == {"signingOut", "committed"}
CallPC == {"idle"} \cup GetPC \cup SignOutPC

TypeOK ==
    /\ now \in Nat
    /\ user \in [Sessions -> UserOrNobody]
    /\ lastAt \in [Sessions -> [UserOrNobody -> Nat \cup {None}]]
    /\ cache \in [Sessions -> Entry \cup {None}]
    /\ pc \in [Callers -> CallPC]
    /\ session \in [Callers -> Sessions]
    /\ signedOut \in [Callers -> UserOrNobody]
    /\ began \in [Callers -> Nat]
    /\ reply \in [Callers -> Reply]
    /\ acknowledged \subseteq Sessions
    /\ afterwards \subseteq Callers
    /\ overtaken \subseteq Sessions

NoReply == [user |-> None, servedAt |-> Start]

Init ==
    /\ now = Start
    /\ user \in [Sessions -> UserOrNobody]
    /\ lastAt = [s \in Sessions |-> [u \in UserOrNobody |-> None]]
    /\ cache = [s \in Sessions |-> None]
    /\ pc = [k \in Callers |-> "idle"]
    /\ session \in [Callers -> Sessions]
    /\ signedOut = [k \in Callers |-> None]
    /\ began = [k \in Callers |-> Start]
    /\ reply = [k \in Callers |-> NoReply]
    /\ acknowledged = {}
    /\ afterwards = {}
    /\ overtaken = {}

-----------------------------------------------------------------------------
(* The user of s at SAMS becomes u, who may be nobody. *)
Becomes(s, u) ==
    /\ user' = [user EXCEPT ![s] = u]
    /\ lastAt' = IF user[s] = u THEN lastAt ELSE [lastAt EXCEPT ![s][user[s]] = now]

(* The call of k returns: nothing of it is kept. *)
Done(k) ==
    /\ pc' = [pc EXCEPT ![k] = "idle"]
    /\ signedOut' = [signedOut EXCEPT ![k] = None]
    /\ began' = [began EXCEPT ![k] = Start]
    /\ reply' = [reply EXCEPT ![k] = NoReply]
    /\ afterwards' = afterwards \ {k}
    /\ UNCHANGED session

-----------------------------------------------------------------------------
(* GetSessionByID *)

(* What the LRU returns an entry for, still. *)
Cached(s) == IF cache[s] = None THEN FALSE ELSE now <= cache[s].until

(* The LRU is asked first; a hit is returned as it is. *)
BeginGet(k, s) ==
    /\ pc[k] = "idle"
    /\ session' = [session EXCEPT ![k] = s]
    /\ began' = [began EXCEPT ![k] = now]
    /\ afterwards' = IF s \in acknowledged THEN afterwards \cup {k} ELSE afterwards
    /\ pc' = [pc EXCEPT ![k] = IF Cached(s) THEN "got" ELSE "getting"]
    /\ reply' = [reply EXCEPT ![k] = IF Cached(s) THEN cache[s].reply ELSE @]
    /\ UNCHANGED <<now, sams, cache, signedOut, acknowledged, overtaken>>

(* The request reaches SAMS, which answers with what is true then. *)
ServeGet(k) ==
    /\ pc[k] = "getting"
    /\ reply' = [reply EXCEPT ![k] =
        [user |-> user[session[k]], servedAt |-> now]]
    /\ pc' = [pc EXCEPT ![k] = "receiving"]
    /\ UNCHANGED <<now, sams, cache, session, signedOut, began, history>>

(* Mutant: the entry outlives the TTL by one instant. *)
ReceiveGetLong(k) ==
    /\ pc[k] = "receiving"
    /\ cache' = [cache EXCEPT ![session[k]] = [reply |-> reply[k], until |-> now + TTL + 1]]
    /\ pc' = [pc EXCEPT ![k] = "got"]
    /\ UNCHANGED <<now, sams, session, signedOut, began, reply, history>>

(* The answer arrives, is cached and returned. *)
ReceiveGet(k) ==
    /\ pc[k] = "receiving"
    /\ cache' = [cache EXCEPT ![session[k]] = [reply |-> reply[k], until |-> now + TTL]]
    /\ pc' = [pc EXCEPT ![k] = "got"]
    /\ UNCHANGED <<now, sams, session, signedOut, began, reply, history>>

Return(k) ==
    /\ pc[k] = "got"
    /\ Done(k)
    /\ UNCHANGED <<now, sams, cache, acknowledged, overtaken>>

-----------------------------------------------------------------------------
(* SignOutSession *)

BeginSignOut(k, s, u) ==
    /\ pc[k] = "idle"
    /\ session' = [session EXCEPT ![k] = s]
    /\ signedOut' = [signedOut EXCEPT ![k] = u]
    /\ pc' = [pc EXCEPT ![k] = "signingOut"]
    /\ UNCHANGED <<now, sams, cache, began, reply, history>>

(* SAMS signs the user out of the session, and leaves one that nobody is   *)
(* signed in to.  It refuses if that is another user (ErrRecordMismatch),  *)
(* or for other reasons: Fail.                                             *)
ServeSignOut(k) ==
    /\ pc[k] = "signingOut"
    /\ user[session[k]] \in {signedOut[k], None}
    /\ Becomes(session[k], None)
    /\ pc' = [pc EXCEPT ![k] = "committed"]
    /\ UNCHANGED <<now, cache, session, signedOut, began, reply, history>>

(* The sessions a call has an answer for that it has not yet cached. *)
UnderWay == {session[k] : k \in {j \in Callers : pc[j] = "receiving"}}

(* History: the caller is told that nobody is signed in to s, unless       *)
(* somebody is again by then.                                              *)
Acknowledge(s) ==
    IF user[s] = None
    THEN /\ acknowledged' = acknowledged \cup {s}
         /\ overtaken' = overtaken \cup (UnderWay \cap {s})
    ELSE UNCHANGED <<acknowledged, overtaken>>

(* Mutant: the session is left in the cache. *)
ReceiveSignOutCached(k) ==
    /\ pc[k] = "committed"
    /\ Acknowledge(session[k])
    /\ Done(k)
    /\ UNCHANGED <<now, sams, cache>>

(* The answer of a sign-out arrives: the session leaves the cache. *)
ReceiveSignOut(k) ==
    /\ pc[k] = "committed"
    /\ cache' = [cache EXCEPT ![session[k]] = None]
    /\ Acknowledge(session[k])
    /\ Done(k)
    /\ UNCHANGED <<now, sams>>

-----------------------------------------------------------------------------
(* The RPC of a call is under way, unserved or served. *)
Calling(k) == pc[k] \in {"getting", "receiving"} \cup SignOutPC

(* Mutant: a failed lookup caches its nil session. *)
FailCachesNil(k) ==
    /\ Calling(k)
    /\ Done(k)
    /\ cache' = [cache EXCEPT ![session[k]] = [reply |-> None, until |-> now + TTL]]
    /\ UNCHANGED <<now, sams, acknowledged, overtaken>>

(* Mutant: a failed lookup caches an empty session. *)
FailCachesEmpty(k) ==
    /\ Calling(k)
    /\ Done(k)
    /\ cache' = [cache EXCEPT ![session[k]] = [reply |-> NoReply, until |-> now + TTL]]
    /\ UNCHANGED <<now, sams, acknowledged, overtaken>>

(* A call fails before or after SAMS has served it: the cache is left as   *)
(* it is, also by a sign-out that SAMS has carried out.                    *)
Fail(k) ==
    /\ Calling(k)
    /\ Done(k)
    /\ UNCHANGED <<now, sams, cache, acknowledged, overtaken>>

-----------------------------------------------------------------------------
(* A user signs in, in a browser.  What was acknowledged is history. *)
SignIn(s, u) ==
    /\ user[s] = None
    /\ Becomes(s, u)
    /\ acknowledged' = acknowledged \ {s}
    /\ afterwards' = {k \in afterwards : session[k] # s}
    /\ overtaken' = overtaken \ {s}
    /\ UNCHANGED <<now, cache, call>>

(* The user signs out elsewhere. *)
SignOutElsewhere(s) ==
    /\ user[s] # None
    /\ Becomes(s, None)
    /\ UNCHANGED <<now, cache, call, history>>

(* The LRU drops an entry. *)
Evict(s) ==
    /\ cache[s] # None
    /\ cache' = [cache EXCEPT ![s] = None]
    /\ UNCHANGED <<now, sams, call, history>>

(* Time passes, but no answer is under way for longer than MaxLatency. *)
Tick ==
    /\ now < MaxTime
    /\ \A k \in Callers : pc[k] = "receiving" => now < reply[k].servedAt + MaxLatency
    /\ now' = now + 1
    /\ UNCHANGED <<sams, cache, call, history>>

CallStep(k) ==
    \/ \E s \in Sessions : BeginGet(k, s)
    \/ \E s \in Sessions, u \in Users : BeginSignOut(k, s, u)
    \/ ServeGet(k) \/ ReceiveGet(k) \/ ServeSignOut(k) \/ ReceiveSignOut(k)
    \/ Fail(k) \/ Return(k)

Next ==
    \/ \E k \in Callers : CallStep(k)
    \/ \E s \in Sessions, u \in Users : SignIn(s, u)
    \/ \E s \in Sessions : SignOutElsewhere(s) \/ Evict(s)
    \/ Tick

Spec == Init /\ [][Next]_vars

-----------------------------------------------------------------------------
(* Properties *)

(* A sign-in and a sign-out, wherever it was made and also when this       *)
(* client was told that it failed, reach every lookup that begins more     *)
(* than the TTL and one latency after them: one that finds who is not the  *)
(* user, or finds nobody where there is one, found what was so then.       *)
ChangesAreSeen ==
    \A k \in Callers :
        LET last == lastAt[session[k]][reply[k].user] IN
        pc[k] = "got" /\ reply[k].user # user[session[k]]
            => last # None /\ began[k] <= last + TTL + MaxLatency

(* A lookup that begins after SignOutSession of the same client returned   *)
(* nil finds nobody signed in until somebody is, unless another lookup had *)
(* its answer under way when the sign-out emptied the cache.               *)
ReadYourSignOut ==
    \A k \in Callers :
        pc[k] = "got" /\ reply[k].user # None /\ k \in afterwards
            => session[k] \in overtaken

ReadOf(k) ==
    LET AsRead(answers) == [key |-> session[k], began |-> began[k], answers |-> answers]
    IN CASE pc[k] \in {"getting", "receiving"} -> AsRead({})
         [] pc[k] = "got" -> AsRead({reply[k].user})
         [] OTHER -> None

(* GetSessionByID is a recent read: whoever it finds signed in, somebody   *)
(* or nobody, was so no longer ago than the TTL and one latency before it  *)
(* began.                                                                  *)
Reads ==
    INSTANCE RecentReads WITH
        Readers <- Callers, Keys <- Sessions, Values <- UserOrNobody,
        Bound <- TTL + MaxLatency, value <- user,
        read <- [k \in Callers |-> ReadOf(k)]

ASSUME NoneIsNoRead == None \notin Reads!Reading

ImplementsRecentReads == Reads!Spec
=============================================================================
