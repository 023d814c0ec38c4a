--------------------------------- MODULE SAMS ---------------------------------
(***************************************************************************)
(* The server (external): what a request may do to its records and be      *)
(* answered, after the comments of clients/v1/clients.proto and what the   *)
(* SDK's own comments rely on.                                             *)
(*                                                                         *)
(* An outcome is an answer and the records after it.                       *)
(***************************************************************************)
EXTENDS ClientMethods

CONSTANT AccountsUser  \* the user that asks the Accounts API

SAMSRecords ==
    [users : SUBSET User,
     roles : SUBSET [UserId : Strings, RoleId : Strings, Service : Strings],
     metadata : SUBSET UserServiceMetadata,
     sessions : SUBSET [Id : Strings, UserId : Strings],
     tokens : SUBSET ServiceAccessToken]

Outcome(answer, records) == [answer |-> answer, records |-> records]

OK(message, records) == Outcome(Answer("ok", <<>>, message), records)

Refused(code, details, records) == Outcome(Answer(code, details, NoFields), records)

NotFound(records) == Refused("not_found", <<>>, records)

OnGetUser(m, s) ==
    LET found == {u \in s.users : /\ m.Id \in {Empty, u.Id}
                                  /\ m.Email \in {Empty, u.Email}
                                  /\ m.Id # Empty \/ m.Email # Empty}
    IN IF found = {} THEN {NotFound(s)} ELSE {OK([User |-> u], s) : u \in found}

OnGetUsers(m, s) == {OK([Users |-> {u \in s.users : u.Id \in m.Ids}], s)}

OnGetUserRoles(m, s) ==
    {OK([UserRoles |-> {[RoleId |-> r.RoleId, Service |-> r.Service] :
                            r \in {g \in s.roles : g.UserId = m.Id /\ g.Service = m.Service}}],
        s)}

(* The wildcard is asked for to get all namespaces, and is none itself. *)
AllNamespaces == "*"

IsAsked(namespace, namespaces) == {namespace, AllNamespaces} \cap namespaces # {}

OnGetUserMetadata(m, s) ==
    {OK([Metadata |-> {d \in s.metadata : /\ d.UserId = m.Id
                                          /\ IsAsked(d.Namespace, m.Namespaces)}], s)}

OnUpdateUserMetadata(m, s) ==
    IF m.Metadata.Namespace = AllNamespaces
    THEN {Refused("invalid_argument", <<>>, s)}
    ELSE IF \E u \in s.users : u.Id = m.Metadata.UserId
    THEN {OK(m, [s EXCEPT !.metadata =
              {d \in @ : \/ d.UserId # m.Metadata.UserId
                         \/ d.Namespace # m.Metadata.Namespace} \cup {m.Metadata}])}
    ELSE {NotFound(s)}

(* A user made for call c is named by it. *)
OnCreateUser(m, s, c) ==
    IF \E u \in s.users : u.Email = m.Email
    THEN {Refused("already_exists", <<>>, s)}
    ELSE LET u == [Id |-> c, Email |-> m.Email]
         IN {OK([User |-> u], [s EXCEPT !.users = @ \cup {u}])}

(* A session of another user is a mismatch, which is the first detail that *)
(* the SDK knows; one that does not exist or is signed out is no error.    *)
OnSignOutSession(m, s) ==
    IF \E x \in s.sessions : x.Id = m.Id /\ x.UserId # m.UserId
    THEN {Refused("failed_precondition", details, s) :
            details \in {<<"mismatch">>, <<"other", "mismatch">>, <<"undecodable", "mismatch">>}}
    ELSE {OK(NoFields, [s EXCEPT !.sessions = {x \in @ : x.Id # m.Id}])}

OnCreateServiceAccessToken(m, s, c) ==
    IF \E u \in s.users : u.Id = m.Token.UserId
    THEN LET t == [m.Token EXCEPT !.Id = c]
         IN {OK([Token |-> t, Secret |-> c], [s EXCEPT !.tokens = @ \cup {t}])}
    ELSE {NotFound(s)}

Passes(t, filters) ==
    /\ \A filter \in filters :
        /\ "Service" \in DOMAIN filter => t.Service = filter.Service
        /\ "UserId" \in DOMAIN filter => t.UserId = filter.UserId
    /\ t.Expired => [ShowExpired |-> TRUE] \in filters

(* The first page of the tokens that pass: not all of them perhaps, but    *)
(* some if there are any.                                                  *)
Pages(found) == {page \in SUBSET found : page = {} => found = {}}

OnListServiceAccessTokens(m, s) ==
    {OK([Tokens |-> page], s) : page \in Pages({t \in s.tokens : Passes(t, m.Filters)})}

OnRevokeServiceAccessToken(m, s) ==
    IF \E t \in s.tokens : t.Id = m.Id
    THEN {OK(NoFields, [s EXCEPT !.tokens = {t \in @ : t.Id # m.Id}])}
    ELSE {NotFound(s)}

OnAccountsGetUser(s) ==
    {OK([User |-> AccountsUser], s),
     Outcome(Answer("ok", <<"undecodable">>, [User |-> AccountsUser]), s),
     Refused("not_found", <<>>, s)}

(* The outcomes of a method that is carried out. *)
Outcomes(method, m, s, c) ==
    CASE method = "GetUser" -> OnGetUser(m, s)
      [] method = "GetUsers" -> OnGetUsers(m, s)
      [] method = "GetUserRoles" -> OnGetUserRoles(m, s)
      [] method = "GetUserMetadata" -> OnGetUserMetadata(m, s)
      [] method = "UpdateUserMetadata" -> OnUpdateUserMetadata(m, s)
      [] method = "CreateUser" -> OnCreateUser(m, s, c)
      [] method = "SignOutSession" -> OnSignOutSession(m, s)
      [] method = "CreateServiceAccessToken" -> OnCreateServiceAccessToken(m, s, c)
      [] method = "ListServiceAccessTokens" -> OnListServiceAccessTokens(m, s)
      [] method = "RevokeServiceAccessToken" -> OnRevokeServiceAccessToken(m, s)

(* Whatever it is, a request may be refused: by a server that does not     *)
(* have the method, and for reasons of the server's own, some with details *)
(* that this version of the SDK cannot decode.                             *)
Refusals(s) ==
    {Refused(Unimplemented, <<>>, s), Refused("aborted", <<>>, s),
     Refused("internal", <<"undecodable">>, s)}

Serve(path, m, s, c) ==
    Refusals(s) \cup
        IF path = AccountsUserPath THEN OnAccountsGetUser(s)
        ELSE UNION {Outcomes(method, m, s, c) : method \in Handlers(path)}
===============================================================================
