----------------------------- MODULE MCClientCalls -----------------------------
(* Instances of ClientCalls: one call of any method, beside one that       *)
(* changes what the first is about.                                        *)
EXTENDS ClientLibrary

CONSTANTS any, writer

alice == "alice"
bob == "bob"

MCCalls == {any, writer}

MCStrings ==
    {Empty, alice, bob, "alice@", "bob@", "plg", "analytics", "read", "viewer", "session", "t",
     AllNamespaces}
        \cup MCCalls

MCValues == {"old", "9007199254740992"}

(* A number that float64 does not have, and no JSON. *)
MCNewStruct ==
    [document \in {"9007199254740993", "channel"} |->
        IF document = "channel" THEN NoValue ELSE "9007199254740992"]

Alice == [Id |-> alice, Email |-> "alice@"]

AToken(expired) ==
    [Id |-> "t", Service |-> "analytics", Scopes |-> {"read"}, UserId |-> alice,
     Expired |-> expired]

MCRecords ==
    [users |-> {Alice},
     roles |-> {[UserId |-> alice, RoleId |-> "viewer", Service |-> "analytics"]},
     metadata |-> {[UserId |-> alice, Namespace |-> "plg", Metadata |-> "old"]},
     sessions |-> {[Id |-> "session", UserId |-> alice]},
     tokens |-> {AToken(TRUE)}]

Writes ==
    {[op |-> "CreateUser", key |-> "bob@"],
     [op |-> "UpdateUserMetadata", id |-> alice, key |-> "plg",
      value |-> "9007199254740993"],
     [op |-> "SignOutSession", id |-> "session", key |-> alice],
     [op |-> "CreateServiceAccessToken", id |-> alice, key |-> "analytics", set |-> {"read"}],
     [op |-> "RevokeServiceAccessToken", id |-> "t"]}

Others ==
    {[op |-> "GetUserByID", id |-> alice],
     [op |-> "GetUserByID", id |-> writer],
     [op |-> "GetUserByEmail", key |-> "bob@"],
     [op |-> "CreateUser", key |-> Empty],
     [op |-> "GetUsersByIDs", set |-> {alice, writer}],
     [op |-> "GetUserRolesByID", id |-> alice, key |-> "analytics"],
     [op |-> "GetUserMetadata", id |-> alice, set |-> {"plg"}],
     [op |-> "GetUserMetadata", id |-> alice, set |-> {AllNamespaces}],
     [op |-> "UpdateUserMetadata", id |-> bob, key |-> "plg", value |-> "9007199254740993"],
     [op |-> "UpdateUserMetadata", id |-> alice, key |-> "plg", value |-> "channel"],
     [op |-> "UpdateUserMetadata", id |-> alice, key |-> AllNamespaces,
      value |-> "9007199254740993"],
     [op |-> "SignOutSession", id |-> "session", key |-> bob],
     [op |-> "ListServiceAccessTokens", id |-> alice, key |-> "analytics", expired |-> FALSE],
     [op |-> "ListServiceAccessTokens", id |-> Empty, key |-> Empty, expired |-> TRUE],
     [op |-> "AccountsGetUser"]}

MCArguments == [c \in MCCalls |-> IF c = any THEN Writes \cup Others ELSE Writes]

-----------------------------------------------------------------------------
(* The instances of the pure functions *)

Hosts == {<<"accounts">>, <<"ACCOUNTS">>, <<"api">>}

MCURLs == {<<>>} \cup Hosts \cup {host \o <<"/">> : host \in Hosts}

MCLower ==
    [symbol \in {"accounts", "ACCOUNTS", "api", "/", "https://accounts.sourcegraph.com"} |->
        IF symbol = "ACCOUNTS" THEN "accounts" ELSE symbol]

(* Words of which one is the beginning of the other, the parts of the      *)
(* alias, and the ways a text is no scope.                                 *)
MCServices == {SAMS, <<"x">>}

MCWords == {<<"user">>, <<"profile">>, <<"user", "profile">>}

MCActions == {ActionRead, ActionWrite}

MCMalformed ==
    {<<>>, <<"sams", ":", ":", "user">>, <<"sams", ":", ":", ":", ":", "read">>,
     <<"user", ":", ":">>, <<":", ":", "user", ":", ":", "read">>,
     <<"sams", ":", "user", ":", "read">>, UserProfile}
===============================================================================
