---------------------------- MODULE ClientLibrary ----------------------------
(***************************************************************************)
(* The client library whole: its calls (ClientCalls) and the pure parts of *)
(* it that they are used with.  Nothing of those changes, and one state,   *)
(* the first, is enough to check them.                                     *)
(***************************************************************************)
EXTENDS ClientCalls, ScopeStrategy, Configuration

API == INSTANCE AllowedScopes

Registry == INSTANCE Roles

(* Strings have a length, the words of the scopes too (as in ScopeStrategy). *)
ASSUME ClientLibraryAssumption == API!Range(API!Allowed) \subseteq Seq(Symbols)

Once == \A c \in Calls : pc[c] = "idle"

-----------------------------------------------------------------------------
(* Properties *)

(* Strategy matches exactly what is granted (ScopeStrategy). *)
StrategyIsGrant == Once => StrategyAgrees

(* Whatever a method requires a client can register for (AllowedScopes). *)
MethodsCanBeGranted ==
    Once => Methods \subseteq DOMAIN API!RequiredScopes /\ API!RequiredIsAllowed

(* Names of metadata and scopes give one verdict (AllowedScopes). *)
MetadataIsOneNamespace == Once => API!MetadataScopesAgree

(* A role's text and the registry agree on its service and type (Roles). *)
RegistryIsConsistent == Once => Registry!RolesAgree

(* Both clients of a valid configuration call one instance of SAMS, with   *)
(* no slash doubled (Configuration).                                       *)
OneInstanceIsCalled == Once => OneInstance
===============================================================================
