--------------------------- MODULE ClientProcedures ---------------------------
(***************************************************************************)
(* The wiring that clients.connect.go generates: the client of a service   *)
(* posts a method to a path, the handler of the service switches on it.    *)
(***************************************************************************)
UsersServiceGetUserProcedure == "/clients.v1.UsersService/GetUser"
UsersServiceGetUsersProcedure == "/clients.v1.UsersService/GetUsers"
UsersServiceCreateUserProcedure == "/clients.v1.UsersService/CreateUser"
UsersServiceGetUserRolesProcedure == "/clients.v1.UsersService/GetUserRoles"
UsersServiceGetUserMetadataProcedure == "/clients.v1.UsersService/GetUserMetadata"
UsersServiceUpdateUserMetadataProcedure == "/clients.v1.UsersService/UpdateUserMetadata"
SessionsServiceGetSessionProcedure == "/clients.v1.SessionsService/GetSession"
SessionsServiceSignOutSessionProcedure == "/clients.v1.SessionsService/SignOutSession"
TokensServiceIntrospectTokenProcedure == "/clients.v1.TokensService/IntrospectToken"
RolesServiceRegisterRoleResourcesProcedure ==
    "/clients.v1.RolesService/RegisterRoleResources"
CreateServiceAccessTokenProcedure ==
    "/clients.v1.ServiceAccessTokensService/CreateServiceAccessToken"
ListServiceAccessTokensProcedure ==
    "/clients.v1.ServiceAccessTokensService/ListServiceAccessTokens"
RevokeServiceAccessTokenProcedure ==
    "/clients.v1.ServiceAccessTokensService/RevokeServiceAccessToken"

-----------------------------------------------------------------------------
(* Clients: the path of each method. *)

UsersServiceClient ==
    [GetUser |-> UsersServiceGetUserProcedure,
     GetUsers |-> UsersServiceGetUsersProcedure,
     CreateUser |-> UsersServiceCreateUserProcedure,
     GetUserRoles |-> UsersServiceGetUserRolesProcedure,
     GetUserMetadata |-> UsersServiceGetUserMetadataProcedure,
     UpdateUserMetadata |-> UsersServiceUpdateUserMetadataProcedure]

SessionsServiceClient ==
    [GetSession |-> SessionsServiceGetSessionProcedure,
     SignOutSession |-> SessionsServiceSignOutSessionProcedure]

TokensServiceClient == [IntrospectToken |-> TokensServiceIntrospectTokenProcedure]

RolesServiceClient == [RegisterRoleResources |-> RolesServiceRegisterRoleResourcesProcedure]

(* Mutant: two methods share a path. *)
ServiceAccessTokensServiceClientCrossed ==
    [CreateServiceAccessToken |-> CreateServiceAccessTokenProcedure,
     ListServiceAccessTokens |-> ListServiceAccessTokensProcedure,
     RevokeServiceAccessToken |-> ListServiceAccessTokensProcedure]

ServiceAccessTokensServiceClient ==
    [CreateServiceAccessToken |-> CreateServiceAccessTokenProcedure,
     ListServiceAccessTokens |-> ListServiceAccessTokensProcedure,
     RevokeServiceAccessToken |-> RevokeServiceAccessTokenProcedure]

Methods ==
    DOMAIN UsersServiceClient \cup DOMAIN SessionsServiceClient
        \cup DOMAIN TokensServiceClient \cup DOMAIN RolesServiceClient
        \cup DOMAIN ServiceAccessTokensServiceClient

Path(method) ==
    CASE method \in DOMAIN UsersServiceClient -> UsersServiceClient[method]
      [] method \in DOMAIN SessionsServiceClient -> SessionsServiceClient[method]
      [] method \in DOMAIN TokensServiceClient -> TokensServiceClient[method]
      [] method \in DOMAIN RolesServiceClient -> RolesServiceClient[method]
      [] method \in DOMAIN ServiceAccessTokensServiceClient ->
            ServiceAccessTokensServiceClient[method]

-----------------------------------------------------------------------------
(* Handlers: the method that each path is switched to. *)

NoMethod == "404"

UsersServiceHandler(path) ==
    CASE path = UsersServiceGetUserProcedure -> "GetUser"
      [] path = UsersServiceGetUsersProcedure -> "GetUsers"
      [] path = UsersServiceCreateUserProcedure -> "CreateUser"
      [] path = UsersServiceGetUserRolesProcedure -> "GetUserRoles"
      [] path = UsersServiceGetUserMetadataProcedure -> "GetUserMetadata"
      [] path = UsersServiceUpdateUserMetadataProcedure -> "UpdateUserMetadata"
      [] OTHER -> NoMethod

SessionsServiceHandler(path) ==
    CASE path = SessionsServiceGetSessionProcedure -> "GetSession"
      [] path = SessionsServiceSignOutSessionProcedure -> "SignOutSession"
      [] OTHER -> NoMethod

TokensServiceHandler(path) ==
    IF path = TokensServiceIntrospectTokenProcedure THEN "IntrospectToken" ELSE NoMethod

RolesServiceHandler(path) ==
    IF path = RolesServiceRegisterRoleResourcesProcedure
    THEN "RegisterRoleResources" ELSE NoMethod

ServiceAccessTokensServiceHandler(path) ==
    CASE path = CreateServiceAccessTokenProcedure -> "CreateServiceAccessToken"
      [] path = ListServiceAccessTokensProcedure -> "ListServiceAccessTokens"
      [] path = RevokeServiceAccessTokenProcedure -> "RevokeServiceAccessToken"
      [] OTHER -> NoMethod

(* The methods of the five handlers, behind one address. *)
Handlers(path) ==
    {UsersServiceHandler(path), SessionsServiceHandler(path), TokensServiceHandler(path),
     RolesServiceHandler(path), ServiceAccessTokensServiceHandler(path)} \ {NoMethod}

(* A server that has a method in its protocol and does not implement it    *)
(* says so itself; to one that is older still the path is unknown, and the *)
(* client reads the HTTP 404 as the same code.                             *)
Unimplemented == "unimplemented"
===============================================================================
