----------------------------- MODULE Configuration -----------------------------
(***************************************************************************)
(* How the SDK finds SAMS (sams.go, clientv1.go, accountsv1.go and         *)
(* accounts/v1/client.go): from the environment to the roots to which each *)
(* client appends its paths.                                               *)
(*                                                                         *)
(* A URL is a sequence of symbols; of its slashes only those at its end    *)
(* are symbols of their own.  A variable of the environment is NotSet or   *)
(* a URL, and so is the pointer of a configuration.                        *)
(***************************************************************************)
EXTENDS Integers, Sequences

CONSTANTS
    Lower,   \* Lower[symbol]: the symbol in lower case
    NotSet,
    URLs     \* what the variables of the environment may say

DefaultExternalURL == <<"https://accounts.sourcegraph.com">>

(* Slashes are nowhere doubled. *)
Clean(url) == \A k \in 1..(Len(url) - 1) : ~(url[k] = "/" /\ url[k + 1] = "/")

(* No slash of theirs is doubled.  Lower case is lower case for good, and   *)
(* it keeps slashes.                                                       *)
ASSUME ConfigurationAssumption ==
    /\ \A url \in URLs \cup {DefaultExternalURL} : url \in Seq(DOMAIN Lower) /\ Clean(url)
    /\ \A symbol \in DOMAIN Lower :
        /\ Lower[symbol] \in DOMAIN Lower
        /\ Lower[Lower[symbol]] = Lower[symbol]
        /\ Lower[symbol] = "/" <=> symbol = "/"

(* The environment (external, the runtime's contract): Get falls back to   *)
(* its default, GetOptional to nil.                                        *)
Get(value, default) == IF value = NotSet THEN default ELSE value

(* SAMS_URL and SAMS_API_URL. *)
NewConnConfigFromEnv(url, apiURL) ==
    [ExternalURL |-> Get(url, DefaultExternalURL), APIURL |-> apiURL]

getAPIURL(config) == IF config.APIURL = NotSet THEN config.ExternalURL ELSE config.APIURL

Validate(config) == config.ExternalURL # <<>> /\ getAPIURL(config) # <<>>

(* strings.TrimSuffix, with a slash. *)
TrimSlash(url) ==
    IF url # <<>> /\ url[Len(url)] = "/" THEN SubSeq(url, 1, Len(url) - 1) ELSE url

ToLower(url) == [k \in DOMAIN url |-> Lower[url[k]]]

(* Mutant: the root is taken as it is configured. *)
gRPCURLUntrimmed(config) == getAPIURL(config) \o <<"/", "api/grpc">>

(* The root of a client of the Clients API. *)
gRPCURL(config) == TrimSlash(getAPIURL(config)) \o <<"/", "api/grpc">>

(* The URL of a client of the Accounts API. *)
userURL(config) == TrimSlash(ToLower(getAPIURL(config))) \o <<"/", "api/v1/user">>

(* Where the token source of the Clients API gets its tokens. *)
TokenURL(config) == getAPIURL(config) \o <<"/", "oauth/token">>

-----------------------------------------------------------------------------
(* Properties *)

Host(url, path) == ToLower(SubSeq(url, 1, Len(url) - Len(path)))

(* Whatever the environment says, a configuration that is valid leads all  *)
(* clients to one instance of SAMS, and a slash at the end of its URL does *)
(* not get into their requests.  It does into those for tokens, which come *)
(* to the same instance, but perhaps with two slashes before the path.     *)
OneInstance ==
    \A url, apiURL \in URLs \cup {NotSet} :
        LET config == NewConnConfigFromEnv(url, apiURL)
            grpc == gRPCURL(config)
            user == userURL(config)
        IN Validate(config) =>
            /\ Clean(grpc) /\ Clean(user)
            /\ Host(grpc, <<"/", "api/grpc">>) = Host(user, <<"/", "api/v1/user">>)
            /\ TrimSlash(Host(TokenURL(config), <<"/", "oauth/token">>))
                = Host(user, <<"/", "api/v1/user">>)
===============================================================================
