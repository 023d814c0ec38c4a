----------------------------- MODULE AllowedScopes -----------------------------
(***************************************************************************)
(* The scopes a client can register for (scopes/scopes.go, Allowed), what  *)
(* the methods of SAMS require (the options and comments of clients.proto),*)
(* and the names that metadata permissions give to the metadata they cover *)
(* (scopes/metadata.go).  Three tables, kept by hand, that must agree.     *)
(***************************************************************************)
EXTENDS Scopes

Amp == <<"amp">>
CodyGateway == <<"cody_gateway">>
TelemetryGateway == <<"telemetry_gateway">>
EnterprisePortal == <<"enterprise_portal">>
MailGatekeeper == <<"mail_gatekeeper">>
Workspaces == <<"workspaces">>
Analytics == <<"analytics">>
CloudAPI == <<"cloud_api">>

UserMetadata == <<"user", ".", "metadata">>
UserMetadataInternal == <<"user", ".", "metadata", ".", "internal">>
ServiceAccessTokens == <<"service_access_tokens">>

codyGatewayPermissions == << <<"flaggedprompts">>, <<"workspaces">> >>
samsPermissions ==
    << <<"user">>, UserProfile, <<"user", ".", "roles">>,
       UserMetadata, UserMetadataInternal,
       UserMetadata \o <<".", "cody">>, UserMetadata \o <<".", "dotcom">>,
       UserMetadata \o <<".", "cody", "_gatekeeper">>, UserMetadata \o <<".", "plg">>,
       <<"session">>,
       <<"roles">>, <<"roles", ".", "resources">>,
       ServiceAccessTokens, ServiceAccessTokens \o <<".", "analytics">> >>
telemetryGatewayPermissions == << <<"events">> >>
enterprisePortalPermissions ==
    << <<"subscription">>, <<"permission", ".", "subscription">>,
       <<"codyaccess">>, <<"metering">> >>
workspacesPermissions ==
    << <<"workspace">>, <<"instance">>, <<"permission", ".", "workspace">>, <<"metering">> >>
mailGatekeeperPermissions == << <<"emails">> >>
ampPermissions == << <<"user">> >>
analyticsPermissions == << <<"analytics">> >>
cloudAPIPermissions == << <<"instance">> >>

(* Mutant: all metadata is read-only. *)
ActionsOfMetadata(permission) ==
    IF IsPrefix(UserMetadata, permission)
    THEN <<ActionRead>> ELSE <<ActionRead, ActionWrite, ActionDelete>>

(* Metadata that SAMS keeps for itself can only be read. *)
ActionsOf(permission) ==
    IF permission = UserMetadataInternal
    THEN <<ActionRead>> ELSE <<ActionRead, ActionWrite, ActionDelete>>

(* The scopes of one permission. *)
ScopesOf(service, permission) ==
    [k \in DOMAIN ActionsOf(permission) |->
        ToScope(service, permission, ActionsOf(permission)[k])]

appendScopes(allowed, service, permissions) ==
    LET upTo[n \in 0..Len(permissions)] ==
            IF n = 0 THEN allowed ELSE upTo[n - 1] \o ScopesOf(service, permissions[n])
    IN upTo[Len(permissions)]

permissionsByService ==
    << <<Amp, ampPermissions>>, <<CodyGateway, codyGatewayPermissions>>,
       <<SAMS, samsPermissions>>, <<TelemetryGateway, telemetryGatewayPermissions>>,
       <<EnterprisePortal, enterprisePortalPermissions>>,
       <<MailGatekeeper, mailGatekeeperPermissions>>, <<Workspaces, workspacesPermissions>>,
       <<Analytics, analyticsPermissions>>, <<CloudAPI, cloudAPIPermissions>> >>

Allowed ==
    LET upTo[n \in 0..Len(permissionsByService)] ==
            IF n = 0
            THEN <<OpenID, Profile, Email, OfflineAccess, ClientSSC, ClientDotcom>>
            ELSE appendScopes(upTo[n - 1], permissionsByService[n][1], permissionsByService[n][2])
    IN upTo[Len(permissionsByService)]

AllowedContains(scope) == Contains(Allowed, scope)

-----------------------------------------------------------------------------
(* Metadata scopes *)

Everything == <<"*">>

(* Mutant: every metadata permission is taken for the one of all. *)
PermissionToMetadataScopeOfAll(permission) ==
    IF IsPrefix(UserMetadata, permission) THEN {Everything} ELSE {}

(* The name of the metadata a permission covers; none for a permission     *)
(* that is about something else.  Only a prefix that ends in a dot is      *)
(* trimmed: a longer word in place of "metadata" is its own name.          *)
PermissionToMetadataScope(permission) ==
    LET prefix == UserMetadata \o <<".">>
    IN IF ~ IsPrefix(UserMetadata, permission) THEN {}
       ELSE IF permission = UserMetadata THEN {Everything}
       ELSE IF IsPrefix(prefix, permission)
            THEN {SubSeq(permission, Len(prefix) + 1, Len(permission))}
            ELSE {permission}

-----------------------------------------------------------------------------
(* What a method of the API requires *)

MetadataScopes ==
    (UNION {PermissionToMetadataScope(ParseScope(scope).permission) : scope \in Range(Allowed)})
        \ {Everything}

TokenServices == {Analytics}

RequiredScopes ==
    [GetUser |-> {Profile},
     GetUsers |-> {Profile},
     CreateUser |-> {ToScope(SAMS, <<"user">>, ActionWrite)},
     GetUserRoles |-> {ToScope(SAMS, <<"user", ".", "roles">>, ActionRead)},
     GetUserMetadata |->
        {ToScope(SAMS, UserMetadata \o <<".">> \o name, ActionRead) : name \in MetadataScopes},
     UpdateUserMetadata |->
        {ToScope(SAMS, UserMetadata \o <<".">> \o name, ActionWrite) :
            name \in MetadataScopes \ {<<"internal">>}},
     GetSession |-> {ToScope(SAMS, <<"session">>, ActionRead)},
     SignOutSession |-> {ToScope(SAMS, <<"session">>, ActionWrite)},
     IntrospectToken |-> {},
     RegisterRoleResources |-> {ToScope(SAMS, <<"roles", ".", "resources">>, ActionWrite)},
     CreateServiceAccessToken |->
        {ToScope(SAMS, ServiceAccessTokens \o <<".">> \o s, ActionWrite) : s \in TokenServices},
     ListServiceAccessTokens |->
        {ToScope(SAMS, ServiceAccessTokens \o <<".">> \o s, ActionRead) : s \in TokenServices},
     RevokeServiceAccessToken |->
        {ToScope(SAMS, ServiceAccessTokens \o <<".">> \o s, ActionDelete) : s \in TokenServices}]

-----------------------------------------------------------------------------
(* Properties *)

Covered(matcher, needle) == Strategy(<<matcher>>, needle)

(* Least privilege is possible: whatever scope a method requires, a client *)
(* can register for exactly that scope, and every allowed scope but the    *)
(* alias parses, once each, to parts from which ToScope makes it again.    *)
RequiredIsAllowed ==
    /\ \A method \in DOMAIN RequiredScopes :
        \A scope \in RequiredScopes[method] : AllowedContains(scope)
    /\ IsInjective(Allowed)
    /\ \A scope \in Range(Allowed) :
        LET parsed == ParseScope(Canonical(scope))
        IN /\ parsed.valid
           /\ parsed.service # <<>> =>
                ToScope(parsed.service, parsed.permission, parsed.action) = Canonical(scope)

(* A service that names the metadata of a permission with                  *)
(* PermissionToMetadataScope and one that matches scopes with Strategy     *)
(* come to the same verdict: an allowed metadata scope covers another of   *)
(* the same action exactly when its name is "*" or the other's.  "cody" is *)
(* the beginning of "cody_gatekeeper" and does not cover it.               *)
MetadataScopesAgree ==
    LET metadata ==
            {scope \in Range(Allowed) :
                PermissionToMetadataScope(ParseScope(scope).permission) # {}}
        Name(scope) == PermissionToMetadataScope(ParseScope(scope).permission)
    IN \A a, b \in metadata :
        Covered(a, b) <=>
            /\ ParseScope(a).action = ParseScope(b).action
            /\ \/ Name(a) = {Everything}
               \/ Name(a) = Name(b)
===============================================================================
