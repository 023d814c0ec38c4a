---------------------------- MODULE ClientMessages ----------------------------
(***************************************************************************)
(* The messages of the Clients API (clients/v1/clients.proto) that the SDK *)
(* sends and receives in single calls.  A field that nothing reads or      *)
(* compares (display names, avatars, the times of changes) is left out.    *)
(* An absent string is the empty one, as in proto3.                        *)
(***************************************************************************)
EXTENDS Sequences

CONSTANTS
    Strings,  \* identifiers, addresses, slugs, namespaces, scopes, secrets
    Values    \* metadata documents

Empty == ""

(* A message without fields. *)
NoFields == [empty |-> TRUE]

ASSUME EmptyAssumption == Empty \in Strings

(* Users *)
User == [Id : Strings, Email : Strings]
Role == [RoleId : Strings, Service : Strings]
UserServiceMetadata == [UserId : Strings, Namespace : Strings, Metadata : Values]

GetUserRequest == [Id : Strings, Email : Strings]
GetUserResponse == [User : User]
GetUsersRequest == [Ids : SUBSET Strings]
GetUsersResponse == [Users : SUBSET User]
GetUserRolesRequest == [Id : Strings, Service : Strings]
GetUserRolesResponse == [UserRoles : SUBSET Role]
GetUserMetadataRequest == [Id : Strings, Namespaces : SUBSET Strings]
GetUserMetadataResponse == [Metadata : SUBSET UserServiceMetadata]
UpdateUserMetadataRequest == [Metadata : UserServiceMetadata]
UpdateUserMetadataResponse == [Metadata : UserServiceMetadata]
CreateUserRequest == [Email : Strings]
CreateUserResponse == [User : User]

(* Sessions *)
SignOutSessionRequest == [Id : Strings, UserId : Strings]
SignOutSessionResponse == {NoFields}

(* Service access tokens; Expired stands for an expiry that has passed. *)
ServiceAccessToken ==
    [Id : Strings, Service : Strings, Scopes : SUBSET Strings, UserId : Strings,
     Expired : BOOLEAN]

CreateServiceAccessTokenRequest == [Token : ServiceAccessToken]
CreateServiceAccessTokenResponse == [Token : ServiceAccessToken, Secret : Strings]

(* One filter; a list of them is their conjunction. *)
ListServiceAccessTokensFilter ==
    [Service : Strings] \cup [UserId : Strings] \cup [ShowExpired : {TRUE}]

ListServiceAccessTokensRequest == [Filters : SUBSET ListServiceAccessTokensFilter]
ListServiceAccessTokensResponse == [Tokens : SUBSET ServiceAccessToken]
RevokeServiceAccessTokenRequest == [Id : Strings]
RevokeServiceAccessTokenResponse == {NoFields}

(* The messages that each method takes and returns, for the type invariant. *)
RequestOf ==
    [GetUser |-> GetUserRequest, GetUsers |-> GetUsersRequest,
     GetUserRoles |-> GetUserRolesRequest, GetUserMetadata |-> GetUserMetadataRequest,
     UpdateUserMetadata |-> UpdateUserMetadataRequest, CreateUser |-> CreateUserRequest,
     SignOutSession |-> SignOutSessionRequest,
     CreateServiceAccessToken |-> CreateServiceAccessTokenRequest,
     ListServiceAccessTokens |-> ListServiceAccessTokensRequest,
     RevokeServiceAccessToken |-> RevokeServiceAccessTokenRequest]

ResponseOf ==
    [GetUser |-> GetUserResponse, GetUsers |-> GetUsersResponse,
     GetUserRoles |-> GetUserRolesResponse, GetUserMetadata |-> GetUserMetadataResponse,
     UpdateUserMetadata |-> UpdateUserMetadataResponse, CreateUser |-> CreateUserResponse,
     SignOutSession |-> SignOutSessionResponse,
     CreateServiceAccessToken |-> CreateServiceAccessTokenResponse,
     ListServiceAccessTokens |-> ListServiceAccessTokensResponse,
     RevokeServiceAccessToken |-> RevokeServiceAccessTokenResponse]
===============================================================================
