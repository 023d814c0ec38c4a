----------------------------- MODULE ClientMethods -----------------------------
(***************************************************************************)
(* The methods of the SDK that are one call without a cache between        *)
(* (clientv1_users.go, clientv1_service_access_tokens.go, SignOutSession   *)
(* of clientv1_sessions.go), and the one of the Accounts API: what each    *)
(* checks, sends and makes of the answer.                                  *)
(*                                                                         *)
(* The arguments of a call are a record: op, the name of the method, and   *)
(* as far as it has them id, key (an address, service or namespace), set   *)
(* (identifiers, namespaces or scopes) and value (a metadata document).    *)
(***************************************************************************)
EXTENDS ClientMessages, ClientProcedures, Naturals, Functions

CONSTANTS
    Documents,  \* metadata as callers have it: map[string]any
    NewStruct,  \* external: structpb.NewStruct makes of a document what can be sent
    NoValue     \* what a call, or NewStruct, returns beside an error

(* It fails on what protobuf has no value for (a channel, text that is not *)
(* UTF-8), and need not keep what it takes: all numbers become float64.    *)
ASSUME NewStructAssumption ==
    /\ NoValue \notin Values
    /\ NewStruct \in [Documents -> Values \cup {NoValue}]

(* What the methods can be called with. *)
Argument ==
    [op : {"GetUserByID", "RevokeServiceAccessToken"}, id : Strings]
        \cup [op : {"GetUserByEmail", "CreateUser"}, key : Strings]
        \cup [op : {"GetUsersByIDs"}, set : SUBSET Strings]
        \cup [op : {"GetUserRolesByID", "SignOutSession"}, id : Strings, key : Strings]
        \cup [op : {"GetUserMetadata"}, id : Strings, set : SUBSET Strings]
        \cup [op : {"UpdateUserMetadata"}, id : Strings, key : Strings, value : Documents]
        \cup [op : {"CreateServiceAccessToken"}, id : Strings, key : Strings,
              set : SUBSET Strings]
        \cup [op : {"ListServiceAccessTokens"}, id : Strings, key : Strings,
              expired : BOOLEAN]
        \cup [op : {"AccountsGetUser"}]

Prepared(valid, method, message) ==
    [valid |-> valid, path |-> Path(method), message |-> message]

GetUserByID(a) == Prepared(TRUE, "GetUser", [Id |-> a.id, Email |-> Empty])

GetUserByEmail(a) == Prepared(TRUE, "GetUser", [Id |-> Empty, Email |-> a.key])

CreateUser(a) == Prepared(a.key # Empty, "CreateUser", [Email |-> a.key])

GetUsersByIDs(a) == Prepared(TRUE, "GetUsers", [Ids |-> a.set])

GetUserRolesByID(a) == Prepared(TRUE, "GetUserRoles", [Id |-> a.id, Service |-> a.key])

GetUserMetadata(a) ==
    Prepared(a.id # Empty /\ a.set # {},
             "GetUserMetadata", [Id |-> a.id, Namespaces |-> a.set])

UpdateUserMetadata(a) ==
    LET md == NewStruct[a.value] IN
    Prepared(a.id # Empty /\ a.key # Empty /\ md # NoValue,
             "UpdateUserMetadata",
             [Metadata |-> [UserId |-> a.id, Namespace |-> a.key, Metadata |-> md]])

SignOutSession(a) == Prepared(TRUE, "SignOutSession", [Id |-> a.id, UserId |-> a.key])

CreateServiceAccessToken(a) ==
    Prepared(a.key # Empty /\ a.set # {} /\ a.id # Empty,
             "CreateServiceAccessToken",
             [Token |-> [Id |-> Empty, Service |-> a.key, Scopes |-> a.set, UserId |-> a.id,
                         Expired |-> FALSE]])

(* Mutant: options that are absent are sent as filters, too. *)
FiltersUnguarded(a) ==
    {[Service |-> a.key], [UserId |-> a.id]}
    \cup (IF a.expired THEN {[ShowExpired |-> TRUE]} ELSE {})

Filters(a) ==
    (IF a.key = Empty THEN {} ELSE {[Service |-> a.key]})
    \cup (IF a.id = Empty THEN {} ELSE {[UserId |-> a.id]})
    \cup (IF a.expired THEN {[ShowExpired |-> TRUE]} ELSE {})

ListServiceAccessTokens(a) ==
    Prepared(TRUE, "ListServiceAccessTokens", [Filters |-> Filters(a)])

RevokeServiceAccessToken(a) ==
    Prepared(a.id # Empty, "RevokeServiceAccessToken", [Id |-> a.id])

(* The REST call of the Accounts API (accounts/v1/client.go), about the     *)
(* user that the token belongs to.                                         *)
AccountsUserPath == "/api/v1/user"

AccountsGetUser == [valid |-> TRUE, path |-> AccountsUserPath, message |-> NoFields]

(* What the call of a method sends, if its arguments are valid. *)
Prepare(a) ==
    CASE a.op = "GetUserByID" -> GetUserByID(a)
      [] a.op = "GetUserByEmail" -> GetUserByEmail(a)
      [] a.op = "CreateUser" -> CreateUser(a)
      [] a.op = "GetUsersByIDs" -> GetUsersByIDs(a)
      [] a.op = "GetUserRolesByID" -> GetUserRolesByID(a)
      [] a.op = "GetUserMetadata" -> GetUserMetadata(a)
      [] a.op = "UpdateUserMetadata" -> UpdateUserMetadata(a)
      [] a.op = "SignOutSession" -> SignOutSession(a)
      [] a.op = "CreateServiceAccessToken" -> CreateServiceAccessToken(a)
      [] a.op = "ListServiceAccessTokens" -> ListServiceAccessTokens(a)
      [] a.op = "RevokeServiceAccessToken" -> RevokeServiceAccessToken(a)
      [] a.op = "AccountsGetUser" -> AccountsGetUser

(* The part of the answer that a method returns; the others return all of  *)
(* it, or only whether there was an error.                                 *)
Returned ==
    [GetUserByID |-> "User", GetUserByEmail |-> "User", CreateUser |-> "User",
     GetUsersByIDs |-> "Users", GetUserRolesByID |-> "UserRoles",
     GetUserMetadata |-> "Metadata", UpdateUserMetadata |-> "Metadata",
     ListServiceAccessTokens |-> "Tokens"]

Value(a, message) == IF a.op \in DOMAIN Returned THEN message[Returned[a.op]] ELSE message

-----------------------------------------------------------------------------
(* Answers and errors *)

Answer(code, details, message) == [code |-> code, details |-> details, message |-> message]

Failed(err) == [err |-> err, value |-> NoValue]

(* The details are read in order, up to one that cannot be decoded. *)
ErrorOfDetails(details) ==
    IF \E k \in DOMAIN details :
        /\ details[k] = "mismatch"
        /\ \A j \in DOMAIN details : j < k => details[j] # "undecodable"
    THEN "ErrRecordMismatch" ELSE "error"

(* Mutant: a method the server does not know is like a missing record. *)
ParseResponseAndErrorOf404(a, answer) ==
    CASE answer.code = "ok" -> [err |-> "nil", value |-> Value(a, answer.message)]
      [] answer.code \in {"not_found", Unimplemented} -> Failed("ErrNotFound")
      [] answer.code = "aborted" -> Failed("ErrAborted")
      [] OTHER -> Failed(ErrorOfDetails(answer.details))

ParseResponseAndError(a, answer) ==
    CASE answer.code = "ok" -> [err |-> "nil", value |-> Value(a, answer.message)]
      [] answer.code = "not_found" -> Failed("ErrNotFound")
      [] answer.code = "aborted" -> Failed("ErrAborted")
      [] OTHER -> Failed(ErrorOfDetails(answer.details))

(* Any status but 200 is an error, and so is a body that does not decode.  *)
AccountsResult(answer) ==
    IF answer.code = "ok" /\ "undecodable" \notin Range(answer.details)
    THEN [err |-> "nil", value |-> answer.message.User] ELSE Failed("error")

Result(a, answer) ==
    IF a.op = "AccountsGetUser"
    THEN AccountsResult(answer) ELSE ParseResponseAndError(a, answer)
===============================================================================
