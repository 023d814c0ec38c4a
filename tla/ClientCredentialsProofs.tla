------------------------ MODULE ClientCredentialsProofs ------------------------
(***************************************************************************)
(* Proofs about the guards, for every set of requests, tokens and scopes.  *)
(*                                                                         *)
(* A step of the guards is a step of the TokenCache or leaves it alone     *)
(* (GuardsUseTheCache), so all that is proved of the cache holds here.     *)
(* What is left to show is that a verdict is about the token introspected  *)
(* (Judged); that a token found inactive is inactive still is a fact of    *)
(* the cache too (InactiveStays).                                          *)
(***************************************************************************)
EXTENDS ClientCredentials, TokenCacheProofs

Judged ==
    \A k \in Callers :
        /\ guard[k] = "waiting" =>
            token[k] = request[k].token /\ request[k].header = "bearer"
        /\ guard[k] = "admitted" =>
            /\ token[k] = request[k].token /\ request[k].header = "bearer"
            /\ pc[k] = "returned" /\ reply[k].active
            /\ request[k].token \notin UserTokens
            /\ HasScopes(request[k])

GuardInv == GuardTypeOK /\ InactiveStays /\ Judged /\ DenialIsDeserved

-----------------------------------------------------------------------------
LEMMA NoRequestType == NoRequest \in Requests
  BY ClientCredentialsAssumption DEF NoRequest

LEMMA RequestType ==
    ASSUME NEW q \in Requests
    PROVE  q.token \in Tokens /\ q.required \subseteq Scope
  BY ClientCredentialsAssumption DEF Request

LEMMA GuardStepCases == [GuardNext]_guardVars => [Next]_vars
<1> SUFFICES ASSUME [GuardNext]_guardVars PROVE [Next]_vars
  OBVIOUS
<1>1. ASSUME NEW k \in Callers, NEW q \in Requests, Arrive(k, q) PROVE [Next]_vars
  <2>1. q.token \in Tokens
    BY RequestType
  <2> QED
    BY <1>1, <2>1 DEF Arrive, Next, CallStep
<1>2. ASSUME NEW k \in Callers, Introspect(k) PROVE [Next]_vars
  BY <1>2 DEF Introspect, Next, CallStep
<1>3. ASSUME NEW k \in Callers, DecideFailed(k) \/ Decide(k) PROVE [Next]_vars
  BY <1>3 DEF DecideFailed, Decide
<1>4. ASSUME NEW k \in Callers, Finish(k) PROVE [Next]_vars
  BY <1>4 DEF Finish, Next, CallStep
<1>5. CASE Environment
  BY <1>5 DEF Environment, Next
<1>6. CASE UNCHANGED guardVars
  BY <1>6 DEF guardVars
<1> QED
  BY <1>1, <1>2, <1>3, <1>4, <1>5, <1>6 DEF GuardNext, GuardStep

(* The guards use the cache as TokenCache says it is used, so its theorems *)
(* hold of them.                                                           *)
THEOREM GuardsUseTheCache == GuardSpec => Spec
<1>1. GuardInit => Init
  BY DEF GuardInit
<1> QED
  BY <1>1, GuardStepCases, PTL DEF GuardSpec, Spec

-----------------------------------------------------------------------------
LEMMA GuardTypeInit == GuardInit => GuardTypeOK
  BY TypeInit, NoRequestType DEF GuardInit, GuardTypeOK

LEMMA GuardTypeStep == GuardTypeOK /\ [GuardNext]_guardVars => GuardTypeOK'
<1> SUFFICES ASSUME GuardTypeOK, [GuardNext]_guardVars PROVE GuardTypeOK'
  OBVIOUS
<1>0. TypeOK'
  BY TypeStep, GuardStepCases DEF GuardTypeOK
<1> USE DEF GuardTypeOK, Verdict
<1>1. ASSUME NEW k \in Callers, NEW q \in Requests, Arrive(k, q) PROVE GuardTypeOK'
  BY <1>0, <1>1 DEF Arrive, Early, EarlyHTTP, EarlyConnect
<1>2. ASSUME NEW k \in Callers, Introspect(k) PROVE GuardTypeOK'
  BY <1>0, <1>2 DEF Introspect
<1>3. ASSUME NEW k \in Callers, DecideFailed(k) \/ Decide(k) PROVE GuardTypeOK'
  BY <1>0, <1>3 DEF DecideFailed, Decide, VerdictHTTP, VerdictConnect
<1>4. ASSUME NEW k \in Callers, Finish(k) PROVE GuardTypeOK'
  BY <1>0, <1>4, NoRequestType DEF Finish
<1>5. CASE Environment
  BY <1>0, <1>5 DEF Environment
<1>6. CASE UNCHANGED guardVars
  BY <1>0, <1>6 DEF guardVars
<1> QED
  BY <1>1, <1>2, <1>3, <1>4, <1>5, <1>6 DEF GuardNext, GuardStep

(* The variables always have their types. *)
THEOREM GuardTypeCorrect == GuardSpec => []GuardTypeOK
  BY GuardTypeInit, GuardTypeStep, PTL DEF GuardSpec

-----------------------------------------------------------------------------
(* A goroutine's verdict stands until it is done with the request. *)
LEMMA JudgedStep ==
    GuardTypeOK /\ Judged /\ [GuardNext]_guardVars => Judged'
<1> SUFFICES ASSUME GuardTypeOK, Judged, [GuardNext]_guardVars PROVE Judged'
  OBVIOUS
<1> USE DEF Judged, GuardTypeOK, TypeOK, call, vars
<1>1. ASSUME NEW k \in Callers, NEW q \in Requests, Arrive(k, q) PROVE Judged'
  <2>1. Early(q) = {} => q.header = "bearer"
    BY ClientCredentialsAssumption DEF Early, EarlyHTTP, EarlyConnect, Request
  <2>2. \A v \in Early(q) : v \in {"unauthorized", "internal"}
    BY DEF Early, EarlyHTTP, EarlyConnect
  <2> QED
    BY <1>1, <2>1, <2>2 DEF Arrive, Begin, HasScopes
<1>2. ASSUME NEW k \in Callers, Introspect(k) PROVE Judged'
  <2>1. guard[k] = "waiting" /\ UNCHANGED <<guard, request, token>>
    BY <1>2 DEF Introspect, CheckCached, Serve, Fail, Receive
  <2>2. \A j \in Callers \ {k} : pc'[j] = pc[j] /\ reply'[j] = reply[j]
    BY <1>2 DEF Introspect, CheckCached, Serve, Fail, Receive
  <2> QED
    BY <2>1, <2>2 DEF HasScopes
<1>3. ASSUME NEW k \in Callers, DecideFailed(k) PROVE Judged'
  BY <1>3 DEF DecideFailed, HasScopes
<1>4. ASSUME NEW k \in Callers, Decide(k) PROVE Judged'
  <2>1. guard'[k] = "admitted" =>
            reply[k].active /\ request[k].token \notin UserTokens /\ HasScopes(request[k])
    BY <1>4 DEF Decide, VerdictHTTP, VerdictConnect
  <2>2. guard'[k] # "waiting"
    BY <1>4 DEF Decide, VerdictHTTP, VerdictConnect
  <2>3. /\ pc[k] = "returned" /\ guard[k] = "waiting" /\ UNCHANGED <<vars, request>>
        /\ \A j \in Callers \ {k} : guard'[j] = guard[j]
    BY <1>4 DEF Decide
  <2> QED
    BY <2>1, <2>2, <2>3 DEF HasScopes
<1>5. ASSUME NEW k \in Callers, Finish(k) PROVE Judged'
  BY <1>5 DEF Finish, Return, HasScopes
<1>6. CASE Environment
  BY <1>6 DEF Environment, Revoke, Evict, Tick, HasScopes
<1>7. CASE UNCHANGED guardVars
  BY <1>7 DEF guardVars, HasScopes
<1> QED
  BY <1>1, <1>2, <1>3, <1>4, <1>5, <1>6, <1>7 DEF GuardNext, GuardStep

(* What makes a request one that may be turned away. *)
Unfit(q) ==
    \/ q.header = "malformed"
    \/ q.token \in UserTokens
    \/ ~Active(q.token)
    \/ \E r \in q.required : \A s \in Granted[q.token] : <<s, r>> \notin Covers

Denied(k) == guard[k] \in {"unauthorized", "forbidden"}

LEMMA DeniedIsUnfit ==
    DenialIsDeserved <=> \A k \in Callers : Denied(k) => Unfit(request[k])
  BY DEF DenialIsDeserved, Denied, Unfit

LEMMA DenialStep ==
    GuardInv /\ [GuardNext]_guardVars => DenialIsDeserved'
<1> SUFFICES ASSUME GuardInv, [GuardNext]_guardVars,
                    NEW k \in Callers, Denied(k)'
             PROVE  Unfit(request[k])'
  BY DEF DenialIsDeserved, Denied, Unfit
<1>0. /\ GuardTypeOK /\ TypeOK /\ request[k] \in Requests /\ request[k].token \in Tokens
      /\ Denied(k) => Unfit(request[k])
  BY RequestType DEF GuardInv, GuardTypeOK, DenialIsDeserved, Denied, Unfit
<1>1. CASE Denied(k) /\ request'[k] = request[k]
  <2>1. \A t \in Tokens : ~Active(t) => ~Active(t)'
    BY <1>0, InactiveForGood, GuardStepCases
  <2> QED
    BY <1>0, <1>1, <2>1 DEF Unfit
<1>2. ASSUME NEW q \in Requests, Arrive(k, q) PROVE Unfit(request[k])'
  <2>1. request'[k] = q
    BY <1>0, <1>2 DEF Arrive, GuardTypeOK
  <2>2. CASE q.header = "malformed"
    BY <2>1, <2>2 DEF Unfit
  <2>3. CASE q.header # "malformed"
    <3>1. q.kind = "http" /\ q.token = NoToken
      BY <1>0, <1>2, <2>3 DEF Arrive, Early, EarlyHTTP, EarlyConnect, Denied, GuardTypeOK
    <3>2. ~Active(NoToken)'
      <4>1. now' \in Nat
        BY <1>0, TypeStep, GuardStepCases DEF TypeOK
      <4> QED
        BY <4>1, ClientCredentialsAssumption, TokenCacheAssumption DEF Active, Epoch
    <3> QED
      BY <2>1, <3>1, <3>2 DEF Unfit
  <2> QED
    BY <2>2, <2>3
<1>3. CASE Decide(k)
  <2>1. token[k] = request[k].token /\ UNCHANGED <<vars, request>>
    BY <1>3 DEF Decide, GuardInv, Judged
  <2>2. ~reply[k].active \/ request[k].token \in UserTokens \/ ~HasScopes(request[k])
    BY <1>0, <1>3 DEF Decide, VerdictHTTP, VerdictConnect, Denied, GuardTypeOK
  <2>3. ~reply[k].active => ~Active(request[k].token)
    BY <1>3, <2>1 DEF Decide, GuardInv, InactiveStays
  <2>4. Unfit(request[k])
    BY <2>2, <2>3 DEF Unfit, HasScopes, Match
  <2> QED
    BY <2>1, <2>4 DEF Unfit, Active, vars
<1>4. CASE UNCHANGED <<guard, request>>
  BY <1>1, <1>4 DEF Denied
<1>5. ASSUME NEW j \in Callers, GuardStep(j), j # k PROVE Unfit(request[k])'
  BY <1>0, <1>1, <1>5 DEF GuardStep, Arrive, Introspect, DecideFailed, Decide, Finish, Denied,
     GuardTypeOK
<1>6. CASE Introspect(k) \/ DecideFailed(k) \/ Finish(k)
  BY <1>0, <1>4, <1>6 DEF Introspect, DecideFailed, Finish, Denied, GuardTypeOK
<1> QED
  BY <1>2, <1>3, <1>4, <1>5, <1>6 DEF GuardNext, GuardStep, Environment, guardVars

LEMMA GuardInvariant == GuardSpec => []GuardInv
<1>1. GuardInit => GuardInv
  BY GuardTypeInit DEF GuardInit, Init, GuardInv, InactiveStays, Judged, DenialIsDeserved
<1>2. GuardInv /\ [GuardNext]_guardVars => GuardInv'
  BY GuardTypeStep, GuardStepCases, InactiveStaysStep, JudgedStep, DenialStep
     DEF GuardInv, GuardTypeOK
<1> QED
  BY <1>1, <1>2, PTL DEF GuardSpec

(* A request is denied only when its token is no good. *)
THEOREM DenialIsDeservedHolds == GuardSpec => []DenialIsDeserved
<1>1. GuardInv => DenialIsDeserved
  BY DEF GuardInv
<1> QED
  BY <1>1, GuardInvariant, PTL

(* A request is admitted only with a client's token that has the scopes    *)
(* and was active within the bounds of the cache.                          *)
THEOREM AdmittedIsEntitledHolds == GuardSpec => []AdmittedIsEntitled
<1>1. GuardInv /\ RevocationIsSeen /\ ExpiryIsSeen => AdmittedIsEntitled
  <2> SUFFICES ASSUME GuardInv, RevocationIsSeen, ExpiryIsSeen,
                      NEW k \in Callers, guard[k] = "admitted"
               PROVE  LET t == request[k].token IN
                      /\ request[k].header = "bearer"
                      /\ t \notin UserTokens
                      /\ \A r \in request[k].required : \E s \in Granted[t] : <<s, r>> \in Covers
                      /\ revokedAt[t] # None => began[k] <= revokedAt[t] + TTL + MaxLatency
                      /\ Expiry[t] # None => began[k] < Expiry[t]
    BY DEF AdmittedIsEntitled
  <2>1. /\ token[k] = request[k].token /\ request[k].header = "bearer" /\ ToldActive(k)
        /\ request[k].token \notin UserTokens /\ HasScopes(request[k])
    BY DEF GuardInv, Judged, ToldActive
  <2> QED
    BY <2>1 DEF RevocationIsSeen, ExpiryIsSeen, HasScopes, Match
<1> QED
  BY <1>1, GuardInvariant, GuardsUseTheCache, RevocationIsSeenHolds, ExpiryIsSeenHolds, PTL
================================================================================
