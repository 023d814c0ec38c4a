--------------------------- MODULE TokenCacheProofs ---------------------------
(***************************************************************************)
(* Proofs about TokenCache for every number of callers and tokens, every   *)
(* expiry, TTL and latency.                                                *)
(*                                                                         *)
(* Every response in the client, on its way or cached, was true when SAMS  *)
(* made it (Truthful) and is not older than its place allows (CallsAreFresh *)
(* and EntriesAreFresh): the bound of RevocationIsSeen is the sum.         *)
(***************************************************************************)
EXTENDS TokenCache, TLAPS

ClockOK ==
    /\ now >= Start
    /\ \A t \in Tokens : revokedAt[t] # None => revokedAt[t] <= now
    /\ \A k \in Callers : began[k] <= now

(* r is what SAMS said of t at r.servedAt. *)
Truthful(r, t) ==
    /\ r.servedAt <= now
    /\ r.expiresAt = AsTime(Expiry[t])
    /\ r.active /\ revokedAt[t] # None => r.servedAt <= revokedAt[t]
    /\ r.active /\ Expiry[t] # None => r.servedAt < Expiry[t]

EntriesAreFresh ==
    \A t \in Tokens : cache[t] # None =>
        /\ Truthful(cache[t].reply, t)
        /\ Expiry[t] # None
        /\ cache[t].until <= cache[t].reply.servedAt + MaxLatency + TTL

CallsAreFresh ==
    \A k \in Callers :
        /\ pc[k] \in {"cached", "receiving", "returned"} => Truthful(reply[k], token[k])
        /\ pc[k] = "receiving" =>
            /\ began[k] <= reply[k].servedAt
            /\ now <= reply[k].servedAt + MaxLatency
        /\ pc[k] = "cached" => Expiry[token[k]] # None
        /\ pc[k] \in {"cached", "returned"} =>
            began[k] <= reply[k].servedAt + MaxLatency + TTL
        /\ pc[k] = "returned" =>
            /\ Expiry[token[k]] # None /\ reply[k].active => began[k] < Expiry[token[k]]
            /\ Expiry[token[k]] = None => began[k] <= reply[k].servedAt

Fresh == TypeOK /\ ClockOK /\ EntriesAreFresh /\ CallsAreFresh

-----------------------------------------------------------------------------
LEMMA BetweenCalls == AnyToken \in Tokens /\ NoReply \in Reply
  BY TokenCacheAssumption DEF AnyToken, NoReply, Reply, Start, ZeroTime

LEMMA TypeInit == Init => TypeOK
  BY TokenCacheAssumption, BetweenCalls DEF Init, TypeOK, Start, CallPC

LEMMA TypeStep == TypeOK /\ [Next]_vars => TypeOK'
<1> SUFFICES ASSUME TypeOK, [Next]_vars PROVE TypeOK'
  OBVIOUS
<1> USE TokenCacheAssumption DEF TypeOK, call, CallPC
<1>1. ASSUME NEW k \in Callers, NEW t \in Tokens, Begin(k, t) PROVE TypeOK'
  BY <1>1 DEF Begin, Cached, Entry
<1>2. ASSUME NEW k \in Callers, CheckCached(k) PROVE TypeOK'
  BY <1>2, BetweenCalls DEF CheckCached
<1>3. ASSUME NEW k \in Callers, Serve(k) PROVE TypeOK'
  BY <1>3 DEF Serve, IntrospectTokenResponse, Reply, AsTime, Epoch, Active
<1>4. ASSUME NEW k \in Callers, Fail(k) PROVE TypeOK'
  BY <1>4, BetweenCalls DEF Fail
<1>5. ASSUME NEW k \in Callers, Receive(k) PROVE TypeOK'
  BY <1>5 DEF Receive, Entry
<1>6. ASSUME NEW k \in Callers, Return(k) PROVE TypeOK'
  BY <1>6, BetweenCalls DEF Return, Start
<1>7. ASSUME NEW t \in Tokens, Revoke(t) \/ Evict(t) PROVE TypeOK'
  BY <1>7 DEF Revoke, Evict
<1>8. CASE Tick
  BY <1>8 DEF Tick
<1>9. CASE UNCHANGED vars
  BY <1>9 DEF vars
<1> QED
  BY <1>1, <1>2, <1>3, <1>4, <1>5, <1>6, <1>7, <1>8, <1>9 DEF Next, CallStep

(* The variables always have their types. *)
THEOREM TypeCorrect == Spec => []TypeOK
<1>1. Init => TypeOK
  BY TypeInit
<1>2. TypeOK /\ [Next]_vars => TypeOK'
  BY TypeStep
<1> QED
  BY <1>1, <1>2, PTL DEF Spec

-----------------------------------------------------------------------------
LEMMA FreshStep == Fresh /\ [Next]_vars => Fresh'
<1> SUFFICES ASSUME Fresh, [Next]_vars PROVE Fresh'
  OBVIOUS
<1> DEFINE Facts == ClockOK /\ EntriesAreFresh /\ CallsAreFresh
<1>0. TypeOK /\ TypeOK' /\ Facts
  BY TypeStep DEF Fresh
<1> SUFFICES Facts'
  BY <1>0 DEF Fresh
<1> USE TokenCacheAssumption DEF call, Start, Epoch
<1>1. ASSUME NEW k \in Callers, NEW t \in Tokens, Begin(k, t) PROVE Facts'
  <2>1. ClockOK' /\ EntriesAreFresh'
    BY <1>0, <1>1 DEF Begin, TypeOK, ClockOK, EntriesAreFresh, Truthful
  <2>2. CallsAreFresh'
    BY <1>0, <1>1 DEF Begin, Cached, TypeOK, ClockOK, EntriesAreFresh, CallsAreFresh, Truthful,
       Entry, Reply
  <2> QED
    BY <2>1, <2>2
<1>2. ASSUME NEW k \in Callers, CheckCached(k) PROVE Facts'
  BY <1>0, <1>2 DEF CheckCached, TypeOK, ClockOK, EntriesAreFresh, CallsAreFresh, Truthful,
     AsTime, Reply
<1>3. ASSUME NEW k \in Callers, Serve(k) PROVE Facts'
  BY <1>0, <1>3 DEF Serve, IntrospectTokenResponse, Active, TypeOK, ClockOK,
     EntriesAreFresh, CallsAreFresh, Truthful
<1>4. ASSUME NEW k \in Callers, Fail(k) \/ Return(k) PROVE Facts'
  BY <1>0, <1>4 DEF Fail, Return, TypeOK, ClockOK, EntriesAreFresh, CallsAreFresh, Truthful
<1>5. ASSUME NEW k \in Callers, Receive(k) PROVE Facts'
  <2>1. reply[k] \in Reply /\ Truthful(reply[k], token[k]) /\ began[k] <= reply[k].servedAt
    BY <1>0, <1>5 DEF Receive, TypeOK, CallsAreFresh
  <2>2. ClockOK'
    BY <1>0, <1>5 DEF Receive, ClockOK
  <2>3. EntriesAreFresh'
    BY <1>0, <1>5, <2>1 DEF Receive, TypeOK, ClockOK, EntriesAreFresh, CallsAreFresh, Truthful,
       AsTime, Reply
  <2>4. CallsAreFresh'
    BY <1>0, <1>5, <2>1 DEF Receive, TypeOK, CallsAreFresh, Truthful, Reply
  <2> QED
    BY <2>2, <2>3, <2>4
<1>6. ASSUME NEW t \in Tokens, Revoke(t) \/ Evict(t) PROVE Facts'
  <2>1. CASE Revoke(t)
    <3>1. \A r \in Reply, u \in Tokens : Truthful(r, u) => Truthful(r, u)'
      BY <1>0, <2>1 DEF Revoke, Truthful, Reply, TypeOK
    <3> QED
      BY <1>0, <2>1, <3>1 DEF Revoke, TypeOK, Entry, ClockOK, EntriesAreFresh, CallsAreFresh
  <2>2. CASE Evict(t)
    BY <1>0, <2>2 DEF Evict, TypeOK, ClockOK, EntriesAreFresh, CallsAreFresh, Truthful
  <2> QED
    BY <1>6, <2>1, <2>2
<1>7. CASE Tick
  BY <1>0, <1>7 DEF Tick, TypeOK, ClockOK, EntriesAreFresh, CallsAreFresh, Truthful, Entry, Reply
<1>8. CASE UNCHANGED vars
  BY <1>0, <1>8 DEF vars, ClockOK, EntriesAreFresh, CallsAreFresh, Truthful
<1> QED
  BY <1>1, <1>2, <1>3, <1>4, <1>5, <1>6, <1>7, <1>8 DEF Next, CallStep

LEMMA FreshInvariant == Spec => []Fresh
<1>1. Init => Fresh
  <2>1. Init => ClockOK
    BY DEF Init, ClockOK, Start
  <2>2. Init => EntriesAreFresh /\ CallsAreFresh
    BY DEF Init, EntriesAreFresh, CallsAreFresh
  <2> QED
    BY <2>1, <2>2, TypeInit DEF Fresh
<1> QED
  BY <1>1, FreshStep, PTL DEF Spec

(* A revocation reaches every call that begins more than TTL + MaxLatency  *)
(* after it.                                                               *)
THEOREM RevocationIsSeenHolds == Spec => []RevocationIsSeen
<1>1. Fresh => RevocationIsSeen
  BY TokenCacheAssumption DEF Fresh, TypeOK, CallsAreFresh, Truthful, ToldActive,
     RevocationIsSeen, Reply
<1> QED
  BY <1>1, FreshInvariant, PTL

(* No call that begins when its token has run out is told it is active. *)
THEOREM ExpiryIsSeenHolds == Spec => []ExpiryIsSeen
<1>1. Fresh => ExpiryIsSeen
  BY DEF Fresh, CallsAreFresh, ToldActive, ExpiryIsSeen
<1> QED
  BY <1>1, FreshInvariant, PTL

(* The revocation of a token without an expiry reaches every call that     *)
(* begins after it.                                                        *)
THEOREM EverlastingIsAskedHolds == Spec => []EverlastingIsAsked
<1>1. Fresh => EverlastingIsAsked
  BY TokenCacheAssumption DEF Fresh, TypeOK, CallsAreFresh, Truthful, ToldActive,
     EverlastingIsAsked, Reply
<1> QED
  BY <1>1, FreshInvariant, PTL

-----------------------------------------------------------------------------
(* A response that says "inactive" is true for good. *)
InactiveStays ==
    /\ \A t \in Tokens : cache[t] # None /\ ~cache[t].reply.active => ~Active(t)
    /\ \A k \in Callers :
        pc[k] \in {"cached", "receiving", "returned"} /\ ~reply[k].active => ~Active(token[k])

(* A token that is not active never becomes active again. *)
LEMMA InactiveForGood ==
    ASSUME TypeOK, [Next]_vars, NEW t \in Tokens, ~Active(t)
    PROVE  ~Active(t)'
<1> DEFINE Later ==
        /\ now \in Nat /\ now' \in Nat /\ now <= now'
        /\ revokedAt[t] # None => revokedAt'[t] # None
<1>1. Later
  <2> USE TokenCacheAssumption DEF TypeOK
  <2>1. ASSUME NEW s \in Tokens, Revoke(s) \/ Evict(s) PROVE Later
    BY <2>1 DEF Revoke, Evict
  <2>2. ASSUME NEW k \in Callers, CallStep(k) PROVE UNCHANGED <<now, revokedAt>>
    BY <2>2 DEF CallStep, Begin, CheckCached, Serve, Fail, Receive, Return
  <2>3. CASE Tick
    BY <2>3 DEF Tick
  <2>4. CASE UNCHANGED vars
    BY <2>4 DEF vars
  <2> QED
    BY <2>1, <2>2, <2>3, <2>4 DEF Next
<1> QED
  BY <1>1, TokenCacheAssumption DEF Active, TypeOK

LEMMA InactiveStaysStep == TypeOK /\ InactiveStays /\ [Next]_vars => InactiveStays'
<1> SUFFICES ASSUME TypeOK, InactiveStays, [Next]_vars PROVE InactiveStays'
  OBVIOUS
<1>0. \A t \in Tokens : ~Active(t) => ~Active(t)'
  BY InactiveForGood
<1> USE TokenCacheAssumption DEF call, InactiveStays, TypeOK
<1>1. ASSUME NEW k \in Callers, NEW t \in Tokens, Begin(k, t) PROVE InactiveStays'
  BY <1>0, <1>1 DEF Begin, Cached
<1>2. ASSUME NEW k \in Callers, CheckCached(k) PROVE InactiveStays'
  BY <1>0, <1>2 DEF CheckCached
<1>3. ASSUME NEW k \in Callers, Serve(k) PROVE InactiveStays'
  BY <1>0, <1>3 DEF Serve, IntrospectTokenResponse
<1>4. ASSUME NEW k \in Callers, Fail(k) \/ Return(k) PROVE InactiveStays'
  BY <1>0, <1>4 DEF Fail, Return
<1>5. ASSUME NEW k \in Callers, Receive(k) PROVE InactiveStays'
  BY <1>0, <1>5 DEF Receive
<1>6. ASSUME NEW t \in Tokens, Revoke(t) \/ Evict(t) PROVE InactiveStays'
  BY <1>0, <1>6 DEF Revoke, Evict
<1>7. CASE Tick
  BY <1>0, <1>7 DEF Tick
<1>8. CASE UNCHANGED vars
  BY <1>0, <1>8 DEF vars
<1> QED
  BY <1>1, <1>2, <1>3, <1>4, <1>5, <1>6, <1>7, <1>8 DEF Next, CallStep

-----------------------------------------------------------------------------
(* TokenCache implements StaleReads. *)

Ends == [t \in Tokens |-> EndedAt(t)]
ReadsUnderWay == [k \in Callers |-> ReadOf(k)]

LEMMA EndedAtType ==
    ASSUME TypeOK, NEW t \in Tokens
    PROVE  EndedAt(t) \in Nat \cup {None}
  BY TokenCacheAssumption DEF TypeOK, EndedAt

LEMMA EndsInit == Init => Reads!Init
<1> SUFFICES ASSUME Init PROVE Reads!Init
  OBVIOUS
<1>1. now \in Nat
  BY DEF Init, Start
<1>2. \A t \in Tokens : EndedAt(t) \in {None} \cup 0..now
  BY TokenCacheAssumption DEF Init, EndedAt, Start
<1>3. \A k \in Callers : ReadOf(k) = None
  BY DEF Init, ReadOf
<1> QED
  BY <1>1, <1>2, <1>3 DEF Reads!Init

(* A token that is not active has ended, and the other way round. *)
LEMMA EndedIsInactive ==
    ASSUME TypeOK, NEW t \in Tokens
    PROVE  Active(t) <=> EndedAt(t) = None
  BY TokenCacheAssumption DEF TypeOK, Active, EndedAt

(* What a response in hand may answer. *)
LEMMA Answers ==
    ASSUME Fresh, InactiveStays, NEW k \in Callers,
           \/ pc[k] = "cached"
           \/ pc[k] = "receiving"
    PROVE  Reads!MayAnswer(token[k], began[k], IF reply[k].active THEN "yes" ELSE "no")
<1> DEFINE t == token[k]
<1>1. TypeOK /\ t \in Tokens /\ reply[k] \in Reply /\ began[k] \in Nat
  BY DEF Fresh, TypeOK
<1>2. CASE ~reply[k].active
  BY <1>1, <1>2, EndedIsInactive DEF InactiveStays, Reads!MayAnswer
<1>3. CASE reply[k].active
  <2>1. Truthful(reply[k], t) /\ began[k] <= reply[k].servedAt + MaxLatency + TTL
    BY <1>1, TokenCacheAssumption DEF Fresh, CallsAreFresh, Reply
  <2>2. EndedAt(t) # None => reply[k].servedAt <= EndedAt(t)
    BY <1>1, <1>3, <2>1, TokenCacheAssumption DEF Truthful, EndedAt, Reply, TypeOK
  <2>3. EndedAt(t) # None => began[k] <= EndedAt(t) + (TTL + MaxLatency)
    BY <1>1, <2>1, <2>2, EndedAtType, TokenCacheAssumption DEF Reply
  <2> QED
    BY <1>1, <1>3, <2>3 DEF Reads!MayAnswer
<1> QED
  BY <1>2, <1>3

(* The calls of others are left alone. *)
LEMMA OneCall ==
    ASSUME TypeOK, NEW k \in Callers, CallStep(k)
    PROVE  /\ UNCHANGED <<now, Ends>>
           /\ ReadsUnderWay' = [ReadsUnderWay EXCEPT ![k] = ReadOf(k)']
<1>1. UNCHANGED <<now, revokedAt>>
  BY DEF CallStep, Begin, CheckCached, Serve, Fail, Receive, Return
<1>2. \A t \in Tokens : EndedAt(t)' = EndedAt(t)
  BY <1>1 DEF EndedAt
<1>3. ASSUME NEW j \in Callers, j # k PROVE ReadOf(j)' = ReadOf(j)
  <2>1. UNCHANGED <<pc[j], token[j], began[j], reply[j]>>
    BY <1>3 DEF TypeOK, CallStep, Begin, CheckCached, Serve, Fail, Receive, Return
  <2> QED
    BY <2>1 DEF ReadOf
<1> QED
  BY <1>1, <1>2, <1>3 DEF Ends, ReadsUnderWay

LEMMA ReadsCallStep ==
    ASSUME Fresh, Fresh', InactiveStays, NEW k \in Callers, CallStep(k)
    PROVE  \/ Reads!Next
           \/ UNCHANGED <<now, Ends, ReadsUnderWay>>
<1>0. /\ TypeOK /\ TypeOK' /\ UNCHANGED <<now, Ends>>
      /\ ReadsUnderWay' = [ReadsUnderWay EXCEPT ![k] = ReadOf(k)']
      /\ ReadsUnderWay[k] = ReadOf(k)
  BY OneCall DEF Fresh, ReadsUnderWay
<1> DEFINE AsRead(answer) == [key |-> token[k], began |-> began[k], answer |-> answer]
           Told == IF reply[k].active THEN "yes" ELSE "no"
<1>1. /\ pc[k] \in {"cached", "sending", "receiving"} => ReadOf(k) = AsRead("pending")
      /\ pc[k] = "returned" => ReadOf(k) = AsRead(Told)
      /\ pc[k] \in {"idle", "failed"} => ReadOf(k) = None
      /\ pc'[k] \in {"cached", "sending", "receiving"} => ReadOf(k)' = AsRead("pending")'
      /\ pc'[k] = "returned" => ReadOf(k)' = AsRead(Told)'
      /\ pc'[k] \in {"idle", "failed"} => ReadOf(k)' = None
  BY Zenon DEF ReadOf
<1>2. \A answer \in {"pending", "yes", "no"} : AsRead(answer) # None /\ AsRead(answer)' # None
  BY <1>0, NoneIsNoRead DEF Reads!Reading, TypeOK
<1> HIDE DEF AsRead, Told
<1>3. Reads!ReadStep(k) => Reads!Next
  BY DEF Reads!Next
<1>4. ReadOf(k)' = ReadOf(k) => UNCHANGED <<now, Ends, ReadsUnderWay>>
  BY <1>0 DEF ReadsUnderWay
<1>5. ASSUME NEW t \in Tokens, Begin(k, t) PROVE Reads!ReadStep(k)
  <2>1. ReadOf(k) = None /\ ReadOf(k)' = AsRead("pending")'
    BY <1>0, <1>1, <1>5 DEF Begin, TypeOK
  <2>2. AsRead("pending")' = [key |-> t, began |-> now, answer |-> "pending"]
    BY <1>0, <1>5 DEF AsRead, Begin, TypeOK
  <2>3. Reads!Begin(k, t)
    BY <1>0, <2>1, <2>2 DEF Reads!Begin, Ends, ReadsUnderWay
  <2> QED
    BY <1>0, <1>2, <2>1, <2>3 DEF Reads!ReadStep, ReadsUnderWay, TypeOK
<1>6. ASSUME CheckCached(k) \/ Receive(k), pc'[k] = "returned" PROVE Reads!ReadStep(k)
  <2>1. pc[k] \in {"cached", "receiving"} /\ UNCHANGED <<token[k], began[k], reply[k]>>
    BY <1>0, <1>6 DEF CheckCached, Receive, TypeOK
  <2>2. ReadOf(k) = AsRead("pending") /\ ReadOf(k)' = AsRead(Told)
    BY <1>1, <1>6, <2>1 DEF AsRead, Told
  <2>3. Reads!MayAnswer(token[k], began[k], Told)
    BY <2>1, Answers DEF Told
  <2>4. ReadOf(k).answer = "pending" /\ ReadOf(k).key = token[k] /\ ReadOf(k).began = began[k]
    BY <2>2 DEF AsRead
  <2>5. ReadOf(k)' = [ReadOf(k) EXCEPT !.answer = Told]
    BY <2>2 DEF AsRead
  <2>6. Told \in {"yes", "no"}
    BY DEF Told
  <2>7. ReadOf(k) # None
    BY <1>2, <2>2
  <2>8. Reads!Answer(k)
    BY <1>0, <2>3, <2>4, <2>5, <2>6, <2>7 DEF Reads!Answer, Ends, ReadsUnderWay
  <2>9. ReadOf(k)' # ReadOf(k)
    BY <2>2, <2>6 DEF AsRead
  <2> QED
    BY <1>0, <2>8, <2>9 DEF Reads!ReadStep, ReadsUnderWay
<1>7. CASE Serve(k) \/ (CheckCached(k) /\ pc'[k] = "sending")
  <2>1. /\ {pc[k], pc'[k]} \subseteq {"cached", "sending", "receiving"}
        /\ UNCHANGED <<token[k], began[k]>>
    BY <1>0, <1>7 DEF Serve, CheckCached, TypeOK
  <2> QED
    BY <1>1, <1>4, <2>1 DEF AsRead
<1>8. CASE Fail(k) \/ Return(k)
  <2>1. pc'[k] \in {"failed", "idle"} /\ ReadOf(k)' = None
    BY <1>0, <1>1, <1>8 DEF Fail, Return, TypeOK
  <2>2. ReadOf(k) # None => Reads!ReadStep(k)
    BY <1>0, <2>1 DEF Reads!ReadStep, Reads!Finish, Ends, ReadsUnderWay
  <2> QED
    BY <1>3, <1>4, <2>1, <2>2
<1>9. CheckCached(k) => pc'[k] \in {"returned", "sending"}
  BY <1>0 DEF CheckCached, TypeOK
<1>10. Receive(k) => pc'[k] = "returned"
  BY <1>0 DEF Receive, TypeOK
<1>11. CASE CheckCached(k) \/ Receive(k)
  BY <1>3, <1>6, <1>7, <1>9, <1>10, <1>11
<1> QED
  BY <1>3, <1>5, <1>7, <1>8, <1>11 DEF CallStep

LEMMA ReadsStep ==
    Fresh /\ InactiveStays /\ [Next]_vars
        => Reads!Next \/ UNCHANGED <<now, Ends, ReadsUnderWay>>
<1> SUFFICES ASSUME Fresh, InactiveStays, [Next]_vars
             PROVE  Reads!Next \/ UNCHANGED <<now, Ends, ReadsUnderWay>>
  OBVIOUS
<1>0. TypeOK /\ Fresh' /\ \A t \in Tokens : EndedAt(t) \in Nat \cup {None}
  BY FreshStep, EndedAtType DEF Fresh
<1>1. ASSUME NEW k \in Callers, CallStep(k)
      PROVE  Reads!Next \/ UNCHANGED <<now, Ends, ReadsUnderWay>>
  BY <1>0, <1>1, ReadsCallStep
<1>2. ASSUME UNCHANGED call PROVE UNCHANGED ReadsUnderWay
  BY <1>2 DEF call, ReadsUnderWay, ReadOf
<1>3. ASSUME NEW t \in Tokens, Revoke(t)
      PROVE  Reads!Next \/ UNCHANGED <<now, Ends, ReadsUnderWay>>
  <2>1. UNCHANGED <<now, ReadsUnderWay>>
    BY <1>2, <1>3 DEF Revoke
  <2>2. \A u \in Tokens \ {t} : EndedAt(u)' = EndedAt(u)
    BY <1>0, <1>3 DEF Revoke, EndedAt, TypeOK
  <2>3. EndedAt(t) = None => EndedAt(t)' = now
    BY <1>0, <1>3, TokenCacheAssumption DEF Revoke, EndedAt, TypeOK
  <2>4. EndedAt(t) # None => EndedAt(t)' = EndedAt(t)
    BY <1>0, <1>3, TokenCacheAssumption DEF Revoke, EndedAt, TypeOK
  <2>5. CASE EndedAt(t) = None
    <3>1. Ends' = [Ends EXCEPT ![t] = now]
      BY <2>2, <2>3, <2>5 DEF Ends
    <3> QED
      BY <2>1, <2>5, <3>1 DEF Reads!Next, Reads!End, Ends, ReadsUnderWay
  <2>6. CASE EndedAt(t) # None
    BY <2>1, <2>2, <2>4, <2>6 DEF Ends
  <2> QED
    BY <2>5, <2>6
<1>4. CASE Tick
  <2>1. now' = now + 1 /\ UNCHANGED ReadsUnderWay
    BY <1>2, <1>4 DEF Tick
  <2> DEFINE ending == {t \in Tokens : EndedAt(t) = None /\ Expiry[t] = now'}
  <2>2. ending \in SUBSET {t \in Tokens : Ends[t] = None}
    BY DEF Ends
  <2>3. \A t \in Tokens : EndedAt(t)' = IF t \in ending THEN now' ELSE EndedAt(t)
    BY <1>0, <1>4, TokenCacheAssumption DEF Tick, EndedAt, TypeOK, Fresh, ClockOK
  <2>4. Ends' = [t \in Tokens |-> IF t \in ending THEN now' ELSE Ends[t]]
    BY <2>3 DEF Ends
  <2> HIDE DEF ending
  <2> QED
    BY <2>1, <2>2, <2>4 DEF Reads!Next, Reads!Tick, Ends, ReadsUnderWay
<1>5. ASSUME UNCHANGED <<now, revokedAt, call>> PROVE UNCHANGED <<now, Ends, ReadsUnderWay>>
  BY <1>2, <1>5 DEF Ends, EndedAt
<1>6. ASSUME NEW t \in Tokens, Evict(t) PROVE UNCHANGED <<now, Ends, ReadsUnderWay>>
  BY <1>5, <1>6 DEF Evict
<1>7. CASE UNCHANGED vars
  BY <1>5, <1>7 DEF vars
<1> QED
  BY <1>1, <1>3, <1>4, <1>6, <1>7 DEF Next

(* IntrospectToken is a stale read: an active token was active no longer   *)
(* ago than the TTL and one latency before the call, and one that is       *)
(* reported inactive has been revoked or has run out.                      *)
THEOREM TokenCacheImplementsStaleReads == Spec => ImplementsStaleReads
<1>1. Init => Reads!Init
  BY EndsInit
<1>2. Init => InactiveStays
  BY DEF Init, InactiveStays
<1>3. Fresh /\ InactiveStays /\ [Next]_vars => InactiveStays'
  BY InactiveStaysStep DEF Fresh
<1>4. Fresh /\ InactiveStays /\ [Next]_vars
        => [Reads!Next]_<<now, Ends, ReadsUnderWay>>
  BY ReadsStep
<1>5. Spec => [](Fresh /\ InactiveStays)
  BY <1>2, <1>3, FreshInvariant, PTL DEF Spec
<1> QED
  BY <1>1, <1>4, <1>5, PTL DEF Spec, ImplementsStaleReads, Reads!Spec, Ends, ReadsUnderWay
===============================================================================
