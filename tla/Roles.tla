--------------------------------- MODULE Roles ---------------------------------
(***************************************************************************)
(* The registry of roles (roles/roles.go).  A role is "service::name"; the *)
(* table says its service a second time, and all the lookups go over the   *)
(* table in the order of registration.                                     *)
(***************************************************************************)
EXTENDS Scopes

ServiceDotcom == <<"dotcom">>
ServiceSSC == <<"ssc">>
ServiceEnterprisePortal == <<"enterprise_portal">>
ServiceWorkspaces == <<"workspaces">>
ServiceReleaseOperations == <<"release_operations">>

(* The resource types. *)
Service == "service"
EnterpriseSubscription == "enterprise_subscription"
Unknown == "unknown"

IsService(type) == type = Service

ToRole(service, name) == service \o Separator \o name

roleInfo(id, service, type) == [id |-> id, service |-> service, resourceType |-> type]

RoleDotcomSiteAdmin == ToRole(ServiceDotcom, <<"site_admin">>)
RoleSSCAdmin == ToRole(ServiceSSC, <<"admin">>)
RoleEnterprisePortalCustomerAdmin == ToRole(ServiceEnterprisePortal, <<"customer_admin">>)
RoleEnterprisePortalServiceAdmin == ToRole(ServiceEnterprisePortal, <<"service_admin">>)
RoleWorkspacesServiceAdmin == ToRole(ServiceWorkspaces, <<"service_admin">>)
RoleReleaseOperationsAdmin == ToRole(ServiceReleaseOperations, <<"release_admin">>)

(* Mutant: the entry before, copied, with the role changed and not the service. *)
sscRolesCopied == << roleInfo(RoleSSCAdmin, ServiceDotcom, Service) >>

(* An entry is written by hand: which role, and once more which service. *)
dotcomRoles == << roleInfo(RoleDotcomSiteAdmin, ServiceDotcom, Service) >>
sscRoles == << roleInfo(RoleSSCAdmin, ServiceSSC, Service) >>
enterprisePortalRoles ==
    << roleInfo(RoleEnterprisePortalCustomerAdmin, ServiceEnterprisePortal,
                EnterpriseSubscription),
       roleInfo(RoleEnterprisePortalServiceAdmin, ServiceEnterprisePortal, Service) >>
workspacesRoles == << roleInfo(RoleWorkspacesServiceAdmin, ServiceWorkspaces, Service) >>
releaseOperationsRoles ==
    << roleInfo(RoleReleaseOperationsAdmin, ServiceReleaseOperations, Service) >>

registeredRoles ==
    dotcomRoles \o sscRoles \o enterprisePortalRoles \o workspacesRoles
        \o releaseOperationsRoles

-----------------------------------------------------------------------------
(* The lookups *)

(* Slicing a role that has no separator panics: no value then. *)
ServiceOf(role) ==
    IF Index(role) = 0 THEN {} ELSE {SubSeq(role, 1, Index(role) - 1)}

(* The type of the first entry of a role. *)
ResourceTypeOf(role) ==
    LET at == {k \in DOMAIN registeredRoles : registeredRoles[k].id = role}
    IN IF at = {} THEN Unknown
       ELSE registeredRoles[CHOOSE k \in at : \A j \in at : k <= j].resourceType

List == [k \in DOMAIN registeredRoles |-> registeredRoles[k].id]

ContainsRole(role) == Contains(List, role)

RoleServices == [k \in DOMAIN registeredRoles |-> registeredRoles[k].service]

ResourceTypes == [k \in DOMAIN registeredRoles |-> registeredRoles[k].resourceType]

(* One more value in a Go map of lists. *)
Put(groups, key, value) ==
    [k \in DOMAIN groups \cup {key} |->
        IF k # key THEN groups[k]
        ELSE IF key \in DOMAIN groups THEN Append(groups[key], value) ELSE <<value>>]

(* A map filled in one pass over values, those kept each under its key. *)
Group(values, keys, kept) ==
    LET upTo[n \in 0..Len(values)] ==
            IF n = 0 THEN [key \in {} |-> <<>>]
            ELSE IF n \in kept THEN Put(upTo[n - 1], keys[n], values[n]) ELSE upTo[n - 1]
    IN upTo[Len(values)]

ByService == Group(List, RoleServices, DOMAIN List)

ByResourceType == Group(List, ResourceTypes, DOMAIN List)

ServiceRolesByService ==
    Group(List, RoleServices, {k \in DOMAIN List : IsService(ResourceTypes[k])})

-----------------------------------------------------------------------------
(* Properties *)

(* What a role says of itself and what the registry says of it agree:      *)
(* grouping by service puts every role, once, under the service its text   *)
(* begins with, the service roles are exactly those that ResourceType says *)
(* are of a service, and every resource type that is listed has roles.     *)
RolesAgree ==
    /\ IsInjective(List)
    /\ \A role \in Range(List) :
        /\ ServiceOf(role) = {s \in DOMAIN ByService : Contains(ByService[s], role)}
        /\ {ResourceTypeOf(role)} =
            {t \in DOMAIN ByResourceType : Contains(ByResourceType[t], role)}
        /\ IsService(ResourceTypeOf(role)) <=>
            \E s \in DOMAIN ServiceRolesByService : Contains(ServiceRolesByService[s], role)
    /\ Range(ResourceTypes) = DOMAIN ByResourceType
===============================================================================
