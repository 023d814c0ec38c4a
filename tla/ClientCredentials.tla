--------------------------- MODULE ClientCredentials ---------------------------
(***************************************************************************)
(* The guards of a service (auth/clientcredentials): the HTTP middleware   *)
(* and the ConnectRPC interceptor, whose requests are served concurrently  *)
(* and introspect their tokens through the one TokenCache.                 *)
(*                                                                         *)
(* k \in Callers is now the goroutine of a request, and its call of        *)
(* IntrospectToken is the TokenCache's.  An introspector answers with a    *)
(* response or an error.  Requests that the interceptor sees on the client *)
(* side are passed on by it and left out.                                  *)
(***************************************************************************)
EXTENDS TokenCache

CONSTANTS
    NoToken,     \* the empty token, unknown to SAMS like any that has run out
    UserTokens,  \* tokens issued to a user: UserID is not empty
    Scope,
    Granted,     \* Granted[t]: the scopes of t
    Requests,    \* the requests that arrive
    Covers       \* the pairs <<granted, required>> that Scopes.Match accepts

(* schema: whether the options of the method can be read (ConnectRPC only) *)
Request ==
    [kind : {"http", "connect"},
     header : {"malformed", "bearer"},
     token : Tokens,
     schema : BOOLEAN,
     required : SUBSET Scope]

ASSUME ClientCredentialsAssumption ==
    /\ NoToken \in Tokens
    /\ Expiry[NoToken] = Epoch
    /\ UserTokens \subseteq Tokens
    /\ Granted \in [Tokens -> SUBSET Scope]
    /\ Requests \subseteq Request
    /\ Requests # {}
    /\ Covers \subseteq Scope \X Scope

VARIABLES
    guard,   \* guard[k]: where the guard of k is, or how it has decided
    request  \* request[k]: the request

guardVars == <<vars, guard, request>>

Verdict == {"admitted", "unauthorized", "forbidden", "canceled", "internal"}

GuardTypeOK ==
    /\ TypeOK
    /\ guard \in [Callers -> {"idle", "waiting"} \cup Verdict]
    /\ request \in [Callers -> Requests]

(* request[k] when there is none: any. *)
NoRequest == CHOOSE q \in Requests : TRUE

GuardInit ==
    /\ Init
    /\ guard = [k \in Callers |-> "idle"]
    /\ request = [k \in Callers |-> NoRequest]

-----------------------------------------------------------------------------
(* What the guards decide before the introspection, if they do. *)
EarlyHTTP(q) ==
    IF q.header = "malformed" \/ q.token = NoToken THEN {"unauthorized"} ELSE {}

EarlyConnect(q) ==
    IF ~q.schema THEN {"internal"}
    ELSE IF q.header = "malformed" THEN {"unauthorized"}
    ELSE {}

Early(q) == IF q.kind = "http" THEN EarlyHTTP(q) ELSE EarlyConnect(q)

(* A request arrives: it is turned away or its token is introspected. *)
Arrive(k, q) ==
    /\ guard[k] = "idle"
    /\ pc[k] = "idle"
    /\ request' = [request EXCEPT ![k] = q]
    /\ \/ \E v \in Early(q) : guard' = [guard EXCEPT ![k] = v] /\ UNCHANGED vars
       \/ /\ Early(q) = {}
          /\ guard' = [guard EXCEPT ![k] = "waiting"]
          /\ Begin(k, q.token)

Introspect(k) ==
    /\ guard[k] = "waiting"
    /\ CheckCached(k) \/ Serve(k) \/ Fail(k) \/ Receive(k)
    /\ UNCHANGED <<guard, request>>

(* scopes.Scopes.Match *)
Match(scopes, required) == \E s \in scopes : <<s, required>> \in Covers

HasScopes(q) == \A required \in q.required : Match(Granted[q.token], required)

VerdictHTTP(k) ==
    LET q == request[k] IN
    IF ~reply[k].active THEN "unauthorized"
    ELSE IF q.token \in UserTokens THEN "forbidden"
    ELSE IF ~HasScopes(q) THEN "forbidden"
    ELSE "admitted"

(* Mutant: tokens of users are let in. *)
VerdictConnectOfUsers(k) ==
    IF ~reply[k].active \/ ~HasScopes(request[k]) THEN "forbidden" ELSE "admitted"

VerdictConnect(k) ==
    LET q == request[k] IN
    IF q.token \in UserTokens THEN "unauthorized"
    ELSE IF ~reply[k].active THEN "forbidden"
    ELSE IF ~HasScopes(q) THEN "forbidden"
    ELSE "admitted"

(* Mutant: whatever goes wrong with the introspection, the token is bad. *)
DecideFailedDenying(k) ==
    /\ guard[k] = "waiting"
    /\ pc[k] = "failed"
    /\ guard' = [guard EXCEPT ![k] = "unauthorized"]
    /\ UNCHANGED <<vars, request>>

(* Mutant: the error of the introspection is returned as it came. *)
DecideFailedOpaque(k) ==
    /\ guard[k] = "waiting"
    /\ pc[k] = "failed"
    /\ guard' = [guard EXCEPT ![k] = "unavailable"]
    /\ UNCHANGED <<vars, request>>

(* The introspection failed: because the request was canceled, or else. *)
DecideFailed(k) ==
    /\ guard[k] = "waiting"
    /\ pc[k] = "failed"
    /\ \E v \in {"canceled", "internal"} : guard' = [guard EXCEPT ![k] = v]
    /\ UNCHANGED <<vars, request>>

(* The token is judged; the handler is called if it is good. *)
Decide(k) ==
    /\ guard[k] = "waiting"
    /\ pc[k] = "returned"
    /\ guard' = [guard EXCEPT ![k] =
        IF request[k].kind = "http" THEN VerdictHTTP(k) ELSE VerdictConnect(k)]
    /\ UNCHANGED <<vars, request>>

(* The response of the request is sent. *)
Finish(k) ==
    /\ guard[k] \in Verdict
    /\ guard' = [guard EXCEPT ![k] = "idle"]
    /\ IF pc[k] = "idle" THEN UNCHANGED vars ELSE Return(k)
    /\ request' = [request EXCEPT ![k] = NoRequest]

GuardStep(k) ==
    \/ \E q \in Requests : Arrive(k, q)
    \/ Introspect(k) \/ DecideFailed(k) \/ Decide(k) \/ Finish(k)

Environment ==
    /\ \/ \E t \in Tokens \ {NoToken} : Revoke(t)
       \/ \E t \in Tokens : Evict(t)
       \/ Tick
    /\ UNCHANGED <<guard, request>>

GuardNext == (\E k \in Callers : GuardStep(k)) \/ Environment

GuardSpec == GuardInit /\ [][GuardNext]_guardVars

-----------------------------------------------------------------------------
(* Properties *)

(* A request gets to the handler only with a client's token that has every *)
(* required scope, and that had not been revoked for longer than the cache *)
(* may be behind, nor run out, when the request arrived: whichever guard   *)
(* it passed and whichever other requests have filled the cache.           *)
AdmittedIsEntitled ==
    \A k \in Callers : guard[k] = "admitted" =>
        LET t == request[k].token IN
        /\ request[k].header = "bearer"
        /\ t \notin UserTokens
        /\ \A r \in request[k].required : \E s \in Granted[t] : <<s, r>> \in Covers
        /\ revokedAt[t] # None => began[k] <= revokedAt[t] + TTL + MaxLatency
        /\ Expiry[t] # None => began[k] < Expiry[t]

(* A request is told that it may not (401, 403 and their like) only when   *)
(* its token is no good: never because SAMS could not be asked, nor        *)
(* because of what the cache remembers of the token.                       *)
DenialIsDeserved ==
    \A k \in Callers : guard[k] \in {"unauthorized", "forbidden"} =>
        LET t == request[k].token IN
        \/ request[k].header = "malformed"
        \/ t \in UserTokens
        \/ ~Active(t)
        \/ \E r \in request[k].required : \A s \in Granted[t] : <<s, r>> \notin Covers
================================================================================
