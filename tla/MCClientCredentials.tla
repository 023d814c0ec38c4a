-------------------------- MODULE MCClientCredentials --------------------------
(* Instances of ClientCredentials: two permissions, the second narrower,   *)
(* matched by the strategy of Scopes.                                      *)
EXTENDS ClientCredentials, TLC

CONSTANTS short, user

S == INSTANCE Scopes

(* short can be revoked long before it runs out. *)
MCExpiry ==
    [t \in Tokens |-> CASE t = NoToken -> Epoch [] t = short -> 4 [] t = user -> None]

Broad == S!ToScope(S!SAMS, <<"user">>, S!ActionRead)

MCScope == {Broad, S!Profile}

(* short may read profiles only, a user's token all of a user. *)
MCGranted ==
    [t \in Tokens |->
        CASE t = NoToken -> {} [] t = short -> {S!Profile} [] t = user -> {Broad}]

Req(kind, header, t, schema, required) ==
    [kind |-> kind, header |-> header, token |-> t, schema |-> schema, required |-> required]

(* Each guard with enough scopes and too few, and what it refuses early. *)
MCRequests ==
    {Req("http", "bearer", t, TRUE, {S!Profile}) : t \in {NoToken, short}}
    \cup {Req("connect", "bearer", short, TRUE, required) : required \in {{S!Profile}, MCScope}}
    \cup {Req("connect", "bearer", user, TRUE, {S!Profile})}
    \cup {Req("connect", "malformed", NoToken, schema, {}) : schema \in BOOLEAN}

(* Strategy, on the scopes of this instance, which all parse. *)
MCCovers ==
    {p \in MCScope \X MCScope : S!Matches(S!Canonical(p[1]), S!Canonical(p[2]))}

Symmetry == Permutations(Callers)
================================================================================
