--------------------------- MODULE MCRoleResources ---------------------------
(* Instances of RoleResources: a rolling deployment, in which the new      *)
(* replicas offer a resource more than the old one.                        *)
EXTENDS RoleResources

CONSTANTS before, after, workspace, instance

MCOffer ==
    [c \in Replicas |-> IF c = before THEN {workspace} ELSE {workspace, instance}]
=============================================================================
