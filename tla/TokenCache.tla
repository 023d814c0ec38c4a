----------------------------- MODULE TokenCache -----------------------------
(***************************************************************************)
(* Token introspection through the cache (clientv1_tokens.go): concurrent  *)
(* IntrospectToken calls over one expirable LRU, in front of SAMS, where   *)
(* tokens are revoked and run out while answers are under way.             *)
(*                                                                         *)
(* The LRU is external.  Its size is abstracted: any entry may be evicted  *)
(* at any time, which covers every size, the recency order, the removal of *)
(* expired entries, and (evicting at once) a client without a cache.       *)
(***************************************************************************)
EXTENDS Integers

CONSTANTS
    Callers,     \* goroutines that introspect tokens
    Tokens,
    Expiry,      \* Expiry[t]: when t runs out, None if never
    None,        \* no value
    TTL,         \* introspectTokenCacheExpiry
    MaxLatency,  \* assumed: how long the answer of SAMS is under way at most
    MaxTime      \* bound: the last instant of the clock

ASSUME TokenCacheAssumption ==
    /\ None \notin Int
    /\ Tokens # {}
    /\ Expiry \in [Tokens -> Nat \cup {None}]
    /\ TTL \in Nat
    /\ MaxLatency \in Nat
    /\ MaxTime \in Nat

VARIABLES
    now,        \* the clock, the same for the client and SAMS
    revokedAt,  \* revokedAt[t]: when t was revoked, None if it was not
    cache,      \* cache[t]: the entry of t in the LRU, None if there is none
    pc,         \* pc[k]: where the IntrospectToken call of k is
    token,      \* token[k]: its argument
    began,      \* began[k]: when it began
    reply       \* reply[k]: the response it has in hand

call == <<pc, token, began, reply>>
vars == <<now, revokedAt, cache, call>>

(* The Unix epoch, the zero value of time.Time before it, and the first    *)
(* instant of the clock after it.                                          *)
Epoch == 0
ZeroTime == -1
Start == 1

(* servedAt is history: when SAMS made the response. *)
Reply == [active : BOOLEAN, expiresAt : Int, servedAt : Nat]

(* until: the last instant at which the LRU returns the entry. *)
Entry == [reply : Reply, until : Nat]

CallPC == {"idle", "cached", "sending", "receiving", "returned", "failed"}

TypeOK ==
    /\ now \in Nat
    /\ revokedAt \in [Tokens -> Nat \cup {None}]
    /\ cache \in [Tokens -> Entry \cup {None}]
    /\ pc \in [Callers -> CallPC]
    /\ token \in [Callers -> Tokens]
    /\ began \in [Callers -> Nat]
    /\ reply \in [Callers -> Reply]

(* token[k] and reply[k] between calls. *)
AnyToken == CHOOSE t \in Tokens : TRUE

NoReply == [active |-> FALSE, expiresAt |-> ZeroTime, servedAt |-> Start]

Init ==
    /\ now = Start
    /\ revokedAt = [t \in Tokens |-> None]
    /\ cache = [t \in Tokens |-> None]
    /\ pc = [k \in Callers |-> "idle"]
    /\ token = [k \in Callers |-> AnyToken]
    /\ began = [k \in Callers |-> Start]
    /\ reply = [k \in Callers |-> NoReply]

-----------------------------------------------------------------------------
(* SAMS *)

Active(t) ==
    /\ revokedAt[t] = None
    /\ Expiry[t] # None => now < Expiry[t]

Revoke(t) ==
    /\ revokedAt[t] = None
    /\ revokedAt' = [revokedAt EXCEPT ![t] = now]
    /\ UNCHANGED <<now, cache, call>>

(* timestamppb.Timestamp.AsTime: an absent timestamp is the epoch. *)
AsTime(timestamp) == IF timestamp = None THEN Epoch ELSE timestamp

-----------------------------------------------------------------------------
(* IntrospectToken *)

(* What the LRU returns an entry for, still. *)
Cached(t) == IF cache[t] = None THEN FALSE ELSE now <= cache[t].until

(* The LRU is asked first. *)
Begin(k, t) ==
    /\ pc[k] = "idle"
    /\ token' = [token EXCEPT ![k] = t]
    /\ began' = [began EXCEPT ![k] = now]
    /\ pc' = [pc EXCEPT ![k] = IF Cached(t) THEN "cached" ELSE "sending"]
    /\ reply' = [reply EXCEPT ![k] = IF Cached(t) THEN cache[t].reply ELSE @]
    /\ UNCHANGED <<now, revokedAt, cache>>

(* Mutant: what the LRU returns is returned. *)
CheckCachedUnexpired(k) ==
    /\ pc[k] = "cached"
    /\ pc' = [pc EXCEPT ![k] = "returned"]
    /\ UNCHANGED <<now, revokedAt, cache, token, began, reply>>

(* Mutant: a hit is put back and stays for another TTL. *)
CheckCachedSliding(k) ==
    /\ pc[k] = "cached"
    /\ IF reply[k].expiresAt > now
       THEN /\ pc' = [pc EXCEPT ![k] = "returned"]
            /\ cache' = [cache EXCEPT ![token[k]] = [reply |-> reply[k], until |-> now + TTL]]
       ELSE /\ pc' = [pc EXCEPT ![k] = "sending"]
            /\ UNCHANGED cache
    /\ UNCHANGED <<now, revokedAt, token, began, reply>>

(* A cached response is returned unless the token has expired by now. *)
CheckCached(k) ==
    /\ pc[k] = "cached"
    /\ \/ /\ reply[k].expiresAt > now
          /\ pc' = [pc EXCEPT ![k] = "returned"]
          /\ UNCHANGED reply
       \/ /\ reply[k].expiresAt <= now
          /\ pc' = [pc EXCEPT ![k] = "sending"]
          /\ reply' = [reply EXCEPT ![k] = NoReply]
    /\ UNCHANGED <<now, revokedAt, cache, token, began>>

(* Mutant: a token without an expiry never expires in the client either. *)
IntrospectTokenResponseForever(t) ==
    [active |-> Active(t),
     expiresAt |-> IF Expiry[t] = None THEN MaxTime + 1 ELSE Expiry[t],
     servedAt |-> now]

(* The answer of SAMS, converted. *)
IntrospectTokenResponse(t) ==
    [active |-> Active(t), expiresAt |-> AsTime(Expiry[t]), servedAt |-> now]

(* The request reaches SAMS, which answers with what is true then. *)
Serve(k) ==
    /\ pc[k] = "sending"
    /\ reply' = [reply EXCEPT ![k] = IntrospectTokenResponse(token[k])]
    /\ pc' = [pc EXCEPT ![k] = "receiving"]
    /\ UNCHANGED <<now, revokedAt, cache, token, began>>

(* Mutant: a failed call caches its nil response. *)
FailCachesNil(k) ==
    /\ pc[k] \in {"sending", "receiving"}
    /\ pc' = [pc EXCEPT ![k] = "failed"]
    /\ cache' = [cache EXCEPT ![token[k]] = [reply |-> None, until |-> now + TTL]]
    /\ UNCHANGED <<now, revokedAt, token, began, reply>>

(* Mutant: a call that fails returns its empty response. *)
FailSwallowed(k) ==
    /\ pc[k] \in {"sending", "receiving"}
    /\ pc' = [pc EXCEPT ![k] = "returned"]
    /\ reply' = [reply EXCEPT ![k] = NoReply]
    /\ UNCHANGED <<now, revokedAt, cache, token, began>>

(* The call fails, before or after SAMS has answered: nothing is cached. *)
Fail(k) ==
    /\ pc[k] \in {"sending", "receiving"}
    /\ pc' = [pc EXCEPT ![k] = "failed"]
    /\ reply' = [reply EXCEPT ![k] = NoReply]
    /\ UNCHANGED <<now, revokedAt, cache, token, began>>

(* The answer arrives; unless its token has expired it is cached. *)
Receive(k) ==
    /\ pc[k] = "receiving"
    /\ cache' = IF reply[k].expiresAt > now
                THEN [cache EXCEPT ![token[k]] = [reply |-> reply[k], until |-> now + TTL]]
                ELSE cache
    /\ pc' = [pc EXCEPT ![k] = "returned"]
    /\ UNCHANGED <<now, revokedAt, token, began, reply>>

(* The caller takes the response, or the error, and may call again. *)
Return(k) ==
    /\ pc[k] \in {"returned", "failed"}
    /\ pc' = [pc EXCEPT ![k] = "idle"]
    /\ token' = [token EXCEPT ![k] = AnyToken]
    /\ began' = [began EXCEPT ![k] = Start]
    /\ reply' = [reply EXCEPT ![k] = NoReply]
    /\ UNCHANGED <<now, revokedAt, cache>>

-----------------------------------------------------------------------------
(* The LRU drops an entry. *)
Evict(t) ==
    /\ cache[t] # None
    /\ cache' = [cache EXCEPT ![t] = None]
    /\ UNCHANGED <<now, revokedAt, call>>

(* Time passes, but no answer is under way for longer than MaxLatency. *)
Tick ==
    /\ now < MaxTime
    /\ \A k \in Callers : pc[k] = "receiving" => now < reply[k].servedAt + MaxLatency
    /\ now' = now + 1
    /\ UNCHANGED <<revokedAt, cache, call>>

CallStep(k) ==
    \/ \E t \in Tokens : Begin(k, t)
    \/ CheckCached(k) \/ Serve(k) \/ Fail(k) \/ Receive(k) \/ Return(k)

Next ==
    \/ \E k \in Callers : CallStep(k)
    \/ \E t \in Tokens : Revoke(t) \/ Evict(t)
    \/ Tick

Spec == Init /\ [][Next]_vars

-----------------------------------------------------------------------------
(* Properties *)

(* The call of k has been told that its token is active. *)
ToldActive(k) == pc[k] = "returned" /\ reply[k].active

(* A revocation reaches every call that begins more than the TTL and one   *)
(* latency after it, whichever calls have filled the cache since with      *)
(* answers that were under way when the token was revoked.                 *)
RevocationIsSeen ==
    \A k \in Callers :
        ToldActive(k) /\ revokedAt[token[k]] # None
            => began[k] <= revokedAt[token[k]] + TTL + MaxLatency

(* No call that begins when its token has run out is told it is active,    *)
(* however long the cache may keep the answer.                             *)
ExpiryIsSeen ==
    \A k \in Callers :
        ToldActive(k) /\ Expiry[token[k]] # None => began[k] < Expiry[token[k]]

(* A token without an expiry is never answered from the cache, so its      *)
(* revocation reaches every call that begins after it.                     *)
EverlastingIsAsked ==
    \A k \in Callers :
        ToldActive(k) /\ Expiry[token[k]] = None /\ revokedAt[token[k]] # None
            => began[k] <= revokedAt[token[k]]

(* When t was revoked or ran out, whichever was first. *)
EndedAt(t) ==
    IF /\ Expiry[t] # None /\ Expiry[t] <= now
       /\ revokedAt[t] # None => Expiry[t] <= revokedAt[t]
    THEN Expiry[t] ELSE revokedAt[t]

ReadOf(k) ==
    LET AsRead(answer) == [key |-> token[k], began |-> began[k], answer |-> answer]
    IN CASE pc[k] \in {"cached", "sending", "receiving"} -> AsRead("pending")
         [] pc[k] = "returned" -> AsRead(IF reply[k].active THEN "yes" ELSE "no")
         [] OTHER -> None

(* IntrospectToken is a stale read: an active token was active no longer   *)
(* ago than the TTL and one latency before the call, and a token that is   *)
(* reported inactive is revoked or has run out.                            *)
Reads ==
    INSTANCE StaleReads WITH
        Readers <- Callers, Keys <- Tokens, Bound <- TTL + MaxLatency,
        endedAt <- [t \in Tokens |-> EndedAt(t)],
        read <- [k \in Callers |-> ReadOf(k)]

ASSUME NoneIsNoRead == None \notin Reads!Reading

ImplementsStaleReads == Reads!Spec

(* clientv1_tokens.go:43-44: "If the token has no expiry, this will be the *)
(* zero value."                                                            *)
NoExpiryIsZero ==
    \A k \in Callers :
        pc[k] = "returned" /\ Expiry[token[k]] = None => reply[k].expiresAt = ZeroTime
=============================================================================
