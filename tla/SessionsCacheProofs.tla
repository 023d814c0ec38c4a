-------------------------- MODULE SessionsCacheProofs --------------------------
(***************************************************************************)
(* Proofs about SessionsCache for every number of callers, sessions and    *)
(* users, every TTL and latency.  Fresh bounds the age of every response   *)
(* in the client, as in TokenCacheProofs; Settled says that a sign-out     *)
(* this client was told of has left no user behind.                        *)
(***************************************************************************)
EXTENDS SessionsCache, TLAPS

LEMMA TypeInit == Init => TypeOK
  BY SessionsCacheAssumption DEF Init, TypeOK, Start, NoReply, Reply, CallPC, UserOrNobody

(* What changes when the user of a session does. *)
LEMMA BecomesType ==
    ASSUME TypeOK, NEW s \in Sessions, NEW u \in UserOrNobody, Becomes(s, u)
    PROVE  /\ user' \in [Sessions -> UserOrNobody]
           /\ lastAt' \in [Sessions -> [UserOrNobody -> Nat \cup {None}]]
           /\ user'[s] = u
           /\ \A r \in Sessions \ {s} : user'[r] = user[r] /\ lastAt'[r] = lastAt[r]
           /\ user[s] # u => lastAt'[s][user[s]] = now
           /\ user[s] = u => lastAt' = lastAt
           /\ \A v \in UserOrNobody : v # user[s] => lastAt'[s][v] = lastAt[s][v]
<1>1. CASE user[s] = u
  BY <1>1 DEF TypeOK, Becomes
<1>2. CASE user[s] # u
  <2>1. lastAt' = [lastAt EXCEPT ![s][user[s]] = now] /\ user[s] \in UserOrNobody
    BY <1>2 DEF TypeOK, Becomes
  <2> QED
    BY <1>2, <2>1 DEF TypeOK, Becomes
<1> QED
  BY <1>1, <1>2

LEMMA DoneType ==
    ASSUME TypeOK, NEW k \in Callers, Done(k)
    PROVE  /\ pc' \in [Callers -> CallPC]
           /\ signedOut' \in [Callers -> UserOrNobody]
           /\ began' \in [Callers -> Nat]
           /\ reply' \in [Callers -> Reply]
           /\ session' \in [Callers -> Sessions]
           /\ afterwards' \subseteq Callers
<1>1. NoReply \in Reply /\ Start \in Nat
  BY DEF NoReply, Reply, Start, UserOrNobody
<1> QED
  BY <1>1 DEF TypeOK, Done, CallPC, UserOrNobody

LEMMA TypeStep == TypeOK /\ [Next]_vars => TypeOK'
<1> SUFFICES ASSUME TypeOK, [Next]_vars PROVE TypeOK'
  OBVIOUS
<1> USE SessionsCacheAssumption DEF TypeOK, sams, call, history, CallPC, GetPC, SignOutPC
<1>1. ASSUME NEW k \in Callers, NEW s \in Sessions, BeginGet(k, s) PROVE TypeOK'
  BY <1>1 DEF BeginGet, Cached, Entry
<1>2. ASSUME NEW k \in Callers, ServeGet(k) PROVE TypeOK'
  BY <1>2 DEF ServeGet, Reply
<1>3. ASSUME NEW k \in Callers, ReceiveGet(k) PROVE TypeOK'
  BY <1>3 DEF ReceiveGet, Entry
<1>4. ASSUME NEW k \in Callers, NEW s \in Sessions, NEW u \in Users, BeginSignOut(k, s, u)
      PROVE  TypeOK'
  BY <1>4 DEF BeginSignOut, UserOrNobody
<1>5. ASSUME NEW k \in Callers, ServeSignOut(k) PROVE TypeOK'
  <2>1. None \in UserOrNobody /\ session[k] \in Sessions
    BY DEF UserOrNobody
  <2> QED
    BY <1>5, <2>1, BecomesType DEF ServeSignOut
<1>6. ASSUME NEW k \in Callers, ReceiveSignOut(k) PROVE TypeOK'
  BY <1>6, DoneType DEF ReceiveSignOut, Acknowledge, UnderWay
<1>7. ASSUME NEW k \in Callers, Fail(k) \/ Return(k) PROVE TypeOK'
  BY <1>7, DoneType DEF Fail, Return
<1>8. ASSUME NEW s \in Sessions, NEW u \in Users, SignIn(s, u) PROVE TypeOK'
  <2>1. u \in UserOrNobody
    BY DEF UserOrNobody
  <2> QED
    BY <1>8, <2>1, BecomesType DEF SignIn
<1>9. ASSUME NEW s \in Sessions, SignOutElsewhere(s) PROVE TypeOK'
  <2>1. None \in UserOrNobody
    BY DEF UserOrNobody
  <2> QED
    BY <1>9, <2>1, BecomesType DEF SignOutElsewhere
<1>10. ASSUME NEW s \in Sessions, Evict(s) PROVE TypeOK'
  BY <1>10 DEF Evict
<1>11. CASE Tick \/ UNCHANGED vars
  BY <1>11 DEF Tick, vars
<1> QED
  BY <1>1, <1>2, <1>3, <1>4, <1>5, <1>6, <1>7, <1>8, <1>9, <1>10, <1>11 DEF Next, CallStep

(* The variables always have their types. *)
THEOREM TypeCorrect == Spec => []TypeOK
<1>1. Init => TypeOK
  BY TypeInit
<1>2. TypeOK /\ [Next]_vars => TypeOK'
  BY TypeStep
<1> QED
  BY <1>1, <1>2, PTL DEF Spec

-----------------------------------------------------------------------------
(* r is what SAMS said of s at r.servedAt: the user it names is the user,  *)
(* or was until then or later.                                             *)
Truthful(r, s) ==
    /\ r.servedAt <= now
    /\ \/ r.user = user[s]
       \/ lastAt[s][r.user] # None /\ r.servedAt <= lastAt[s][r.user]

(* No instant is later than the clock. *)
ClockOK ==
    /\ now >= Start
    /\ \A k \in Callers : began[k] <= now

EntriesAreFresh ==
    \A s \in Sessions : cache[s] # None =>
        /\ Truthful(cache[s].reply, s)
        /\ cache[s].until <= cache[s].reply.servedAt + MaxLatency + TTL

CallsAreFresh ==
    \A k \in Callers :
        /\ pc[k] \in {"receiving", "got"} =>
            /\ Truthful(reply[k], session[k])
            /\ began[k] <= reply[k].servedAt + MaxLatency + TTL
        /\ pc[k] = "receiving" =>
            /\ began[k] <= reply[k].servedAt
            /\ now <= reply[k].servedAt + MaxLatency

Fresh == ClockOK /\ EntriesAreFresh /\ CallsAreFresh

(* Nobody is signed in to a session that was reported signed out, until a  *)
(* sign-in is.                                                             *)
Reported == \A s \in acknowledged : user[s] = None

(* Unless it was overtaken the report has left no user behind. *)
NothingLeftBehind ==
    \A s \in acknowledged \ overtaken :
        /\ cache[s] # None => cache[s].reply.user = None
        /\ \A k \in Callers : pc[k] = "receiving" /\ session[k] = s => reply[k].user = None

LookupsAfterwards ==
    \A k \in afterwards :
        /\ pc[k] \in {"getting", "receiving", "got"}
        /\ session[k] \in acknowledged
        /\ pc[k] = "got" /\ reply[k].user # None => session[k] \in overtaken

Settled == Reported /\ NothingLeftBehind /\ LookupsAfterwards

IInv == TypeOK /\ Fresh /\ Settled

(* What was true of a session stays so when its user changes. *)
LEMMA TruthStays ==
    ASSUME TypeOK, NEW s \in Sessions, NEW u \in UserOrNobody, Becomes(s, u), UNCHANGED now,
           NEW r \in Reply, NEW t \in Sessions, Truthful(r, t)
    PROVE  Truthful(r, t)'
<1> USE BecomesType, SessionsCacheAssumption DEF TypeOK, Truthful, Reply
<1>1. CASE t # s
  BY <1>1
<1>2. CASE t = s /\ r.user = user[s]
  <2>1. CASE u = user[s]
    BY <1>2, <2>1
  <2>2. CASE u # user[s]
    <3>1. lastAt'[s][r.user] = now /\ now # None /\ r.servedAt <= now
      BY <1>2, <2>2
    <3> QED
      BY <1>2, <3>1
  <2> QED
    BY <2>1, <2>2
<1>3. CASE t = s /\ r.user # user[s]
  <2>1. lastAt'[s][r.user] = lastAt[s][r.user]
    BY <1>3
  <2> QED
    BY <1>3, <2>1
<1> QED
  BY <1>1, <1>2, <1>3

(* So a sign-in or a sign-out leaves every response as fresh as it was. *)
LEMMA FreshStays ==
    ASSUME TypeOK, TypeOK', Fresh, NEW s \in Sessions, NEW u \in UserOrNobody, Becomes(s, u),
           UNCHANGED <<now, cache, session, began, reply>>,
           \A k \in Callers : pc'[k] \in {"receiving", "got"} => pc'[k] = pc[k]
    PROVE  Fresh'
<1>1. ClockOK'
  BY DEF Fresh, ClockOK
<1>2. EntriesAreFresh'
  <2> SUFFICES ASSUME NEW t \in Sessions, cache[t] # None
               PROVE  /\ Truthful(cache[t].reply, t)'
                      /\ cache[t].until <= cache[t].reply.servedAt + MaxLatency + TTL
    BY DEF EntriesAreFresh
  <2>1. cache[t].reply \in Reply
    BY DEF TypeOK, Entry
  <2> QED
    BY <2>1, TruthStays DEF Fresh, EntriesAreFresh
<1>3. CallsAreFresh'
  <2> SUFFICES ASSUME NEW k \in Callers, pc'[k] \in {"receiving", "got"}
               PROVE  /\ Truthful(reply[k], session[k])'
                      /\ began[k] <= reply[k].servedAt + MaxLatency + TTL
                      /\ pc'[k] = "receiving" =>
                            /\ began[k] <= reply[k].servedAt
                            /\ now <= reply[k].servedAt + MaxLatency
    BY DEF CallsAreFresh
  <2>1. reply[k] \in Reply /\ session[k] \in Sessions
    BY DEF TypeOK
  <2> QED
    BY <2>1, TruthStays DEF Fresh, CallsAreFresh
<1> QED
  BY <1>1, <1>2, <1>3 DEF Fresh

LEMMA FreshStep == TypeOK /\ Fresh /\ [Next]_vars => Fresh'
<1> SUFFICES ASSUME TypeOK, Fresh, [Next]_vars PROVE Fresh'
  OBVIOUS
<1>0. TypeOK'
  BY TypeStep
<1>1. ASSUME NEW k \in Callers, NEW s \in Sessions, BeginGet(k, s) PROVE Fresh'
  <2> USE <1>1, SessionsCacheAssumption DEF BeginGet, sams
  <2>1. ClockOK' /\ EntriesAreFresh'
    BY DEF TypeOK, Fresh, ClockOK, EntriesAreFresh, Truthful
  <2>2. CallsAreFresh'
    BY <1>0 DEF TypeOK, Fresh, EntriesAreFresh, CallsAreFresh, Truthful, Cached, Reply, Entry
  <2> QED
    BY <2>1, <2>2 DEF Fresh
<1>2. ASSUME NEW k \in Callers, ServeGet(k) PROVE Fresh'
  <2> USE <1>2, SessionsCacheAssumption DEF ServeGet, sams
  <2>1. /\ reply'[k].servedAt = now /\ reply'[k].user = user[session[k]]
        /\ \A j \in Callers \ {k} : reply'[j] = reply[j]
    BY DEF TypeOK
  <2>2. ClockOK' /\ EntriesAreFresh'
    BY DEF TypeOK, Fresh, ClockOK, EntriesAreFresh, Truthful
  <2>3. CallsAreFresh'
    BY <1>0, <2>1 DEF TypeOK, Fresh, ClockOK, CallsAreFresh, Truthful, Reply
  <2> QED
    BY <2>2, <2>3 DEF Fresh
<1>3. ASSUME NEW k \in Callers, ReceiveGet(k) PROVE Fresh'
  <2> USE <1>3, SessionsCacheAssumption DEF ReceiveGet, sams
  <2>1. ClockOK' /\ CallsAreFresh'
    BY DEF TypeOK, Fresh, ClockOK, CallsAreFresh, Truthful
  <2>2. EntriesAreFresh'
    BY <1>0 DEF TypeOK, Fresh, EntriesAreFresh, CallsAreFresh, Truthful, Reply
  <2> QED
    BY <2>1, <2>2 DEF Fresh
<1>4. ASSUME NEW k \in Callers, NEW s \in Sessions, NEW u \in Users, BeginSignOut(k, s, u)
      PROVE  Fresh'
  BY <1>4 DEF BeginSignOut, sams, TypeOK, Fresh, ClockOK, EntriesAreFresh, CallsAreFresh, Truthful
<1>5. ASSUME NEW k \in Callers, ServeSignOut(k) PROVE Fresh'
  <2>1. /\ None \in UserOrNobody /\ session[k] \in Sessions
        /\ \A j \in Callers : pc'[j] \in {"receiving", "got"} => pc'[j] = pc[j]
    BY <1>5 DEF ServeSignOut, UserOrNobody, TypeOK
  <2> QED
    BY <1>0, <1>5, <2>1, FreshStays DEF ServeSignOut
<1>6. ASSUME NEW k \in Callers, ReceiveSignOut(k) \/ Fail(k) \/ Return(k) PROVE Fresh'
  <2>1. /\ Done(k) /\ UNCHANGED <<now, user, lastAt>>
        /\ \A s \in Sessions : cache'[s] # None => cache'[s] = cache[s]
    BY <1>6 DEF ReceiveSignOut, Fail, Return, sams, TypeOK
  <2>2. ClockOK'
    BY <2>1 DEF TypeOK, Fresh, ClockOK, Done, Start
  <2>3. EntriesAreFresh'
    BY <2>1 DEF Fresh, EntriesAreFresh, Truthful
  <2>4. CallsAreFresh'
    BY <2>1 DEF TypeOK, Fresh, CallsAreFresh, Truthful, Done
  <2> QED
    BY <2>2, <2>3, <2>4 DEF Fresh
<1>7. ASSUME NEW s \in Sessions, NEW u \in Users, SignIn(s, u) PROVE Fresh'
  <2>1. Becomes(s, u) /\ u \in UserOrNobody
    BY <1>7 DEF SignIn, UserOrNobody
  <2> QED
    BY <1>0, <1>7, <2>1, FreshStays DEF SignIn, call
<1>8. ASSUME NEW s \in Sessions, SignOutElsewhere(s) PROVE Fresh'
  <2>1. Becomes(s, None) /\ None \in UserOrNobody
    BY <1>8 DEF SignOutElsewhere, UserOrNobody
  <2> QED
    BY <1>0, <1>8, <2>1, FreshStays DEF SignOutElsewhere, call
<1>9. ASSUME NEW s \in Sessions, Evict(s) PROVE Fresh'
  BY <1>9 DEF Evict, sams, call, TypeOK, Fresh, ClockOK, EntriesAreFresh, CallsAreFresh, Truthful
<1>10. CASE Tick
  <2> USE <1>10, SessionsCacheAssumption DEF Tick, sams, call
  <2>1. ClockOK' /\ EntriesAreFresh'
    BY DEF TypeOK, Fresh, ClockOK, EntriesAreFresh, Truthful, Start, Entry, Reply
  <2>2. CallsAreFresh'
    BY DEF TypeOK, Fresh, ClockOK, CallsAreFresh, Truthful, Reply
  <2> QED
    BY <2>1, <2>2 DEF Fresh
<1>11. CASE UNCHANGED vars
  BY <1>11 DEF vars, sams, call, Fresh, ClockOK, EntriesAreFresh, CallsAreFresh, Truthful
<1> QED
  BY <1>1, <1>2, <1>3, <1>4, <1>5, <1>6, <1>7, <1>8, <1>9, <1>10, <1>11 DEF Next, CallStep

LEMMA SettledStep == TypeOK /\ Settled /\ [Next]_vars => Settled'
<1> SUFFICES ASSUME TypeOK, Settled, [Next]_vars PROVE Settled'
  OBVIOUS
<1>0. TypeOK'
  BY TypeStep
<1> USE <1>0, SessionsCacheAssumption DEF Settled, Reported, NothingLeftBehind, LookupsAfterwards,
        sams, call, history
<1>1. ASSUME NEW k \in Callers, NEW s \in Sessions, BeginGet(k, s) PROVE Settled'
  BY <1>1 DEF TypeOK, BeginGet, Cached
<1>2. ASSUME NEW k \in Callers, ServeGet(k) PROVE Settled'
  <2>1. /\ reply'[k].user = user[session[k]] /\ session[k] \in Sessions
        /\ \A j \in Callers \ {k} : reply'[j] = reply[j]
    BY <1>2 DEF TypeOK, ServeGet
  <2> QED
    BY <1>2, <2>1 DEF TypeOK, ServeGet
<1>3. ASSUME NEW k \in Callers, ReceiveGet(k) PROVE Settled'
  BY <1>3 DEF TypeOK, ReceiveGet
<1>4. ASSUME NEW k \in Callers, NEW s \in Sessions, NEW u \in Users, BeginSignOut(k, s, u)
      PROVE  Settled'
  BY <1>4 DEF TypeOK, BeginSignOut
<1>5. ASSUME NEW k \in Callers, ServeSignOut(k) PROVE Settled'
  <2>1. Reported'
    BY <1>5 DEF TypeOK, ServeSignOut, Becomes
  <2>2. NothingLeftBehind' /\ LookupsAfterwards'
    BY <1>5 DEF TypeOK, ServeSignOut
  <2> QED
    BY <2>1, <2>2
<1>6. ASSUME NEW k \in Callers, ReceiveSignOut(k) PROVE Settled'
  <2>1. Reported'
    BY <1>6 DEF ReceiveSignOut, Acknowledge
  <2>2. NothingLeftBehind'
    BY <1>6 DEF TypeOK, ReceiveSignOut, Acknowledge, UnderWay, Done
  <2>3. LookupsAfterwards'
    BY <1>6 DEF TypeOK, ReceiveSignOut, Acknowledge, Done
  <2> QED
    BY <2>1, <2>2, <2>3
<1>7. ASSUME NEW k \in Callers, Fail(k) \/ Return(k) PROVE Settled'
  BY <1>7 DEF TypeOK, Fail, Return, Done
<1>8. ASSUME NEW s \in Sessions, NEW u \in Users, SignIn(s, u) PROVE Settled'
  <2>1. /\ \A r \in Sessions \ {s} : user'[r] = user[r]
        /\ acknowledged' = acknowledged \ {s}
    BY <1>8 DEF TypeOK, SignIn, Becomes
  <2> QED
    BY <1>8, <2>1 DEF TypeOK, SignIn
<1>9. ASSUME NEW s \in Sessions, SignOutElsewhere(s) PROVE Settled'
  <2>1. Reported'
    BY <1>9 DEF TypeOK, SignOutElsewhere, Becomes
  <2> QED
    BY <1>9, <2>1 DEF SignOutElsewhere
<1>10. ASSUME NEW s \in Sessions, Evict(s) PROVE Settled'
  BY <1>10 DEF TypeOK, Evict
<1>11. CASE Tick \/ UNCHANGED vars
  BY <1>11 DEF Tick, vars
<1> QED
  BY <1>1, <1>2, <1>3, <1>4, <1>5, <1>6, <1>7, <1>8, <1>9, <1>10, <1>11 DEF Next, CallStep

LEMMA Invariant == Spec => []IInv
<1>1. Init => IInv
  <2> SUFFICES ASSUME Init PROVE IInv
    OBVIOUS
  <2>1. Fresh
    BY DEF Init, Fresh, ClockOK, EntriesAreFresh, CallsAreFresh, Start
  <2>2. Settled
    BY DEF Init, Settled, Reported, NothingLeftBehind, LookupsAfterwards
  <2> QED
    BY <2>1, <2>2, TypeInit DEF IInv
<1>2. IInv /\ [Next]_vars => IInv'
  BY TypeStep, FreshStep, SettledStep DEF IInv
<1> QED
  BY <1>1, <1>2, PTL DEF Spec

(* A sign-in or a sign-out reaches every lookup that begins more than TTL  *)
(* + MaxLatency after it, wherever it was made.                            *)
THEOREM ChangesAreSeenHolds == Spec => []ChangesAreSeen
<1>1. ASSUME IInv PROVE ChangesAreSeen
  <2> SUFFICES ASSUME NEW k \in Callers, pc[k] = "got", reply[k].user # user[session[k]]
               PROVE  /\ lastAt[session[k]][reply[k].user] # None
                      /\ began[k] <= lastAt[session[k]][reply[k].user] + TTL + MaxLatency
    BY DEF ChangesAreSeen
  <2>1. /\ lastAt[session[k]][reply[k].user] # None
        /\ reply[k].servedAt <= lastAt[session[k]][reply[k].user]
        /\ began[k] <= reply[k].servedAt + MaxLatency + TTL
    BY <1>1 DEF IInv, Fresh, CallsAreFresh, Truthful
  <2>2. lastAt[session[k]][reply[k].user] \in Nat /\ reply[k].servedAt \in Nat /\ began[k] \in Nat
    BY <1>1, <2>1 DEF IInv, TypeOK, Reply
  <2> QED
    BY <2>1, <2>2, SessionsCacheAssumption
<1> QED
  BY <1>1, Invariant, PTL

(* A client reads its own sign-outs, but for answers already under way.    *)
THEOREM ReadYourSignOutHolds == Spec => []ReadYourSignOut
<1>1. IInv => ReadYourSignOut
  BY DEF IInv, Settled, LookupsAfterwards, ReadYourSignOut
<1> QED
  BY <1>1, Invariant, PTL

-----------------------------------------------------------------------------
(* SessionsCache implements RecentReads. *)

ReadsUnderWay == [k \in Callers |-> ReadOf(k)]

(* What a response in hand, or the cache, may answer. *)
LEMMA Answers ==
    ASSUME TypeOK, NEW r \in Reply, NEW s \in Sessions, NEW b \in Nat,
           Truthful(r, s), b <= r.servedAt + MaxLatency + TTL
    PROVE  Reads!MayAnswer(s, b, r.user)
<1>1. CASE r.user = user[s]
  BY <1>1 DEF Reads!MayAnswer
<1>2. CASE r.user # user[s]
  <2> DEFINE last == lastAt[s][r.user]
  <2>1. last # None /\ r.servedAt <= last /\ last \in Nat /\ r.servedAt \in Nat
    BY <1>2 DEF Truthful, Reply, TypeOK
  <2>2. b <= last + (TTL + MaxLatency)
    BY <2>1, SessionsCacheAssumption
  <2> QED
    BY <2>1, <2>2 DEF Reads!MayAnswer
<1> QED
  BY <1>1, <1>2

(* The calls of others are left alone, and so is the clock. *)
LEMMA OneCall ==
    ASSUME TypeOK, NEW k \in Callers, CallStep(k)
    PROVE  /\ UNCHANGED now
           /\ ReadsUnderWay' = [ReadsUnderWay EXCEPT ![k] = ReadOf(k)']
<1>1. UNCHANGED now
  BY DEF CallStep, BeginGet, BeginSignOut, ServeGet, ReceiveGet, ServeSignOut, ReceiveSignOut,
     Fail, Return
<1>2. ASSUME NEW j \in Callers, j # k PROVE ReadOf(j)' = ReadOf(j)
  <2>1. UNCHANGED <<pc[j], session[j], began[j], reply[j]>>
    BY <1>2 DEF TypeOK, CallStep, BeginGet, BeginSignOut, ServeGet, ReceiveGet, ServeSignOut,
       ReceiveSignOut, Fail, Return, Done
  <2> QED
    BY <2>1 DEF ReadOf
<1> QED
  BY <1>1, <1>2 DEF ReadsUnderWay

LEMMA ChangeStep ==
    ASSUME TypeOK, NEW s \in Sessions, NEW u \in UserOrNobody, Becomes(s, u),
           UNCHANGED <<now, ReadsUnderWay>>
    PROVE  Reads!Next \/ UNCHANGED <<now, user, lastAt, ReadsUnderWay>>
<1>1. CASE user[s] = u
  BY <1>1 DEF Becomes, TypeOK
<1>2. CASE user[s] # u
  <2>1. Reads!Change(s, u)
    BY <1>2 DEF Reads!Change, Becomes, ReadsUnderWay
  <2> QED
    BY <2>1 DEF Reads!Next
<1> QED
  BY <1>1, <1>2

LEMMA ReadsCallStep ==
    ASSUME IInv, IInv', NEW k \in Callers, CallStep(k)
    PROVE  \/ Reads!Next
           \/ UNCHANGED <<now, user, lastAt, ReadsUnderWay>>
<1>0. /\ TypeOK /\ TypeOK' /\ Fresh /\ now' = now
      /\ ReadsUnderWay' = [ReadsUnderWay EXCEPT ![k] = ReadOf(k)']
      /\ ReadsUnderWay[k] = ReadOf(k)
  BY OneCall DEF IInv, ReadsUnderWay
<1> DEFINE AsRead(answers) == [key |-> session[k], began |-> began[k], answers |-> answers]
           Found == reply[k].user
           Answered == {{}} \cup {{v} : v \in UserOrNobody}
<1>1. /\ pc[k] \in {"getting", "receiving"} => ReadOf(k) = AsRead({})
      /\ pc[k] = "got" => ReadOf(k) = AsRead({Found})
      /\ pc[k] \in {"idle", "signingOut", "committed"} => ReadOf(k) = None
      /\ pc'[k] \in {"getting", "receiving"} => ReadOf(k)' = AsRead({})'
      /\ pc'[k] = "got" => ReadOf(k)' = AsRead({Found})'
      /\ pc'[k] \in {"idle", "signingOut", "committed"} => ReadOf(k)' = None
  BY Zenon DEF ReadOf
<1>2. Found \in UserOrNobody /\ Found' \in UserOrNobody
  BY <1>0 DEF TypeOK, Reply
<1>3. \A answers \in Answered : AsRead(answers) # None /\ AsRead(answers)' # None
  <2> SUFFICES ASSUME NEW answers \in Answered
               PROVE  AsRead(answers) # None /\ AsRead(answers)' # None
    OBVIOUS
  <2>1. AsRead(answers) \in Reads!Reading
    BY <1>0 DEF Reads!Reading, TypeOK
  <2>2. AsRead(answers)' \in Reads!Reading
    BY <1>0 DEF Reads!Reading, TypeOK
  <2> HIDE DEF AsRead
  <2> QED
    BY <2>1, <2>2, NoneIsNoRead
<1> HIDE DEF AsRead, Found
<1>4. Reads!ReadStep(k) => Reads!Next
  BY DEF Reads!Next
<1>5. UNCHANGED <<user, lastAt, ReadOf(k)>> => UNCHANGED <<now, user, lastAt, ReadsUnderWay>>
  BY <1>0 DEF ReadsUnderWay
<1>6. ASSUME NEW s \in Sessions, BeginGet(k, s) PROVE Reads!ReadStep(k)
  <2>1. ReadOf(k) = None /\ UNCHANGED <<user, lastAt>>
    BY <1>0, <1>1, <1>6 DEF BeginGet, TypeOK, sams
  <2>2. \E answers \in Answered :
            /\ \A v \in answers : Reads!MayAnswer(s, now, v)
            /\ ReadOf(k)' = [key |-> s, began |-> now, answers |-> answers]
    <3>1. CASE ~Cached(s)
      <4>1. ReadOf(k)' = [key |-> s, began |-> now, answers |-> {}]
        BY <1>0, <1>1, <1>6, <3>1 DEF AsRead, BeginGet, TypeOK
      <4> QED
        BY <4>1
    <3>2. CASE Cached(s)
      <4> DEFINE r == cache[s].reply
      <4>1. /\ cache[s] # None /\ now <= cache[s].until /\ now \in Nat
            /\ cache[s] \in Entry /\ r \in Reply
        BY <1>0, <3>2 DEF Cached, TypeOK, Entry
      <4>2. Found' = r.user
        BY <1>0, <1>6, <3>2 DEF BeginGet, TypeOK, Found
      <4>3. ReadOf(k)' = [key |-> s, began |-> now, answers |-> {Found'}]
        BY <1>0, <1>1, <1>6, <3>2 DEF AsRead, BeginGet, TypeOK
      <4>4. Truthful(r, s) /\ now <= r.servedAt + MaxLatency + TTL
        BY <1>0, <4>1, SessionsCacheAssumption DEF Fresh, EntriesAreFresh, Entry, Reply
      <4>5. Reads!MayAnswer(s, now, r.user)
        BY <1>0, <4>1, <4>4, Answers
      <4>6. {r.user} \in Answered
        BY <1>2, <4>2
      <4> QED
        BY <4>2, <4>3, <4>5, <4>6
    <3> QED
      BY <3>1, <3>2
  <2>3. Reads!Begin(k, s)
    BY <1>0, <2>1, <2>2 DEF Reads!Begin, ReadsUnderWay
  <2>4. ReadOf(k)' # ReadOf(k)
    BY <1>0, <2>1, <2>2, NoneIsNoRead DEF Reads!Reading, TypeOK
  <2> QED
    BY <1>0, <2>3, <2>4 DEF Reads!ReadStep, ReadsUnderWay
<1>7. ASSUME ReceiveGet(k) PROVE Reads!ReadStep(k)
  <2>1. /\ pc[k] = "receiving" /\ pc'[k] = "got"
        /\ UNCHANGED <<session[k], began[k], reply[k], user, lastAt>>
    BY <1>0, <1>7 DEF ReceiveGet, TypeOK, sams
  <2>2. ReadOf(k) = AsRead({}) /\ ReadOf(k)' = AsRead({Found})
    BY <1>1, <2>1 DEF AsRead, Found
  <2>3. Reads!MayAnswer(session[k], began[k], Found)
    BY <1>0, <2>1, Answers DEF Found, Fresh, CallsAreFresh, TypeOK
  <2>4. /\ ReadOf(k).answers = {} /\ ReadOf(k).key = session[k] /\ ReadOf(k).began = began[k]
        /\ ReadOf(k)' = [ReadOf(k) EXCEPT !.answers = {Found}]
    BY <2>2 DEF AsRead
  <2>5. ReadOf(k) # None /\ ReadOf(k)' # ReadOf(k)
    BY <1>3, <2>2 DEF AsRead
  <2>6. Reads!Answer(k)
    BY <1>0, <1>2, <2>1, <2>3, <2>4, <2>5 DEF Reads!Answer, ReadsUnderWay
  <2> QED
    BY <1>0, <2>5, <2>6 DEF Reads!ReadStep, ReadsUnderWay
<1>8. CASE ServeGet(k)
  <2>1. /\ pc[k] = "getting" /\ pc'[k] = "receiving"
        /\ UNCHANGED <<session[k], began[k], user, lastAt>>
    BY <1>0, <1>8 DEF ServeGet, TypeOK, sams
  <2> QED
    BY <1>1, <1>5, <2>1 DEF AsRead
<1>9. CASE ReceiveSignOut(k) \/ Fail(k) \/ Return(k)
  <2>1. pc'[k] = "idle" /\ UNCHANGED <<user, lastAt>>
    BY <1>0, <1>9 DEF ReceiveSignOut, Fail, Return, Done, TypeOK, sams
  <2>2. ReadOf(k)' = None
    BY <1>1, <2>1
  <2>3. ReadOf(k) # None => Reads!ReadStep(k)
    BY <1>0, <2>1, <2>2 DEF Reads!ReadStep, Reads!Finish, ReadsUnderWay
  <2> QED
    BY <1>4, <1>5, <2>1, <2>2, <2>3
<1>10. ASSUME \/ \E s \in Sessions, u \in Users : BeginSignOut(k, s, u)
              \/ ServeSignOut(k)
       PROVE  ReadOf(k)' = ReadOf(k)
  <2>1. {pc[k], pc'[k]} \subseteq {"idle", "signingOut", "committed"}
    BY <1>0, <1>10 DEF BeginSignOut, ServeSignOut, TypeOK
  <2> QED
    BY <1>1, <2>1
<1>11. CASE \E s \in Sessions, u \in Users : BeginSignOut(k, s, u)
  BY <1>5, <1>10, <1>11 DEF BeginSignOut, sams
<1>12. CASE ServeSignOut(k)
  <2>1. /\ session[k] \in Sessions /\ None \in UserOrNobody /\ Becomes(session[k], None)
        /\ UNCHANGED <<now, ReadsUnderWay>>
    BY <1>0, <1>10, <1>12 DEF ReadsUnderWay, TypeOK, ServeSignOut, UserOrNobody
  <2> QED
    BY <1>0, <2>1, ChangeStep
<1> QED
  BY <1>4, <1>6, <1>7, <1>8, <1>9, <1>11, <1>12 DEF CallStep

LEMMA ReadsStep ==
    IInv /\ [Next]_vars => Reads!Next \/ UNCHANGED <<now, user, lastAt, ReadsUnderWay>>
<1> SUFFICES ASSUME IInv, [Next]_vars
             PROVE  Reads!Next \/ UNCHANGED <<now, user, lastAt, ReadsUnderWay>>
  OBVIOUS
<1>0. TypeOK /\ IInv'
  BY TypeStep, FreshStep, SettledStep DEF IInv
<1>1. ASSUME NEW k \in Callers, CallStep(k)
      PROVE  Reads!Next \/ UNCHANGED <<now, user, lastAt, ReadsUnderWay>>
  BY <1>0, <1>1, ReadsCallStep
<1>2. ASSUME UNCHANGED call PROVE UNCHANGED ReadsUnderWay
  BY <1>2 DEF call, ReadsUnderWay, ReadOf
<1>3. ASSUME NEW s \in Sessions, NEW u \in Users, SignIn(s, u)
      PROVE  Reads!Next \/ UNCHANGED <<now, user, lastAt, ReadsUnderWay>>
  BY <1>0, <1>2, <1>3, ChangeStep DEF SignIn, UserOrNobody
<1>4. ASSUME NEW s \in Sessions, SignOutElsewhere(s)
      PROVE  Reads!Next \/ UNCHANGED <<now, user, lastAt, ReadsUnderWay>>
  BY <1>0, <1>2, <1>4, ChangeStep DEF SignOutElsewhere, UserOrNobody
<1>5. CASE Tick
  <2>1. Reads!Tick
    BY <1>2, <1>5 DEF Tick, Reads!Tick, ReadsUnderWay, sams
  <2> QED
    BY <2>1 DEF Reads!Next
<1>6. ASSUME NEW s \in Sessions, Evict(s)
      PROVE  UNCHANGED <<now, user, lastAt, ReadsUnderWay>>
  BY <1>2, <1>6 DEF Evict, sams
<1>7. CASE UNCHANGED vars
  BY <1>2, <1>7 DEF vars, sams
<1> QED
  BY <1>1, <1>3, <1>4, <1>5, <1>6, <1>7 DEF Next

(* GetSessionByID is a recent read: whoever it finds signed in, somebody   *)
(* or nobody, was so no longer ago than the TTL and one latency before the *)
(* call began.                                                             *)
THEOREM SessionsCacheImplementsRecentReads == Spec => ImplementsRecentReads
<1>1. Init => Reads!Init
  <2> SUFFICES ASSUME Init PROVE Reads!Init
    OBVIOUS
  <2>1. \A k \in Callers : ReadOf(k) = None
    BY DEF Init, ReadOf
  <2> QED
    BY <2>1 DEF Init, Start, Reads!Init
<1>2. IInv /\ [Next]_vars => [Reads!Next]_<<now, user, lastAt, ReadsUnderWay>>
  BY ReadsStep
<1> QED
  BY <1>1, <1>2, Invariant, PTL DEF Spec, ImplementsRecentReads, Reads!Spec, ReadsUnderWay
===============================================================================
