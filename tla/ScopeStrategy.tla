----------------------------- MODULE ScopeStrategy -----------------------------
(***************************************************************************)
(* Strategy (scopes/scopes.go): does a list of granted scopes match the    *)
(* one that is needed?  The code parses text, resolves aliases and         *)
(* compares lengths first to be quick; what it should say is defined here  *)
(* on the structure of the scopes.                                         *)
(***************************************************************************)
EXTENDS Scopes, FiniteSets

CONSTANTS
    Services, Words, Actions,  \* the parts of well-formed scopes
    MaxPath,                   \* bound: words of a permission
    Malformed,                 \* texts that are no scopes
    MaxMatchers                \* bound: length of the list

-----------------------------------------------------------------------------
(* The meaning of a scope, and its text *)

WordPath == UNION {[1..n -> Words] : n \in 1..MaxPath}

Structured == [service : Services, path : WordPath, action : Actions]

Builtin == {OpenID, Email, OfflineAccess, ClientSSC, ClientDotcom}

(* The words of a permission, a dot after each. *)
Dotted(path) ==
    LET upTo[n \in 0..Len(path)] ==
            IF n = 0 THEN <<>> ELSE upTo[n - 1] \o path[n] \o <<".">>
    IN upTo[Len(path)]

Permission(path) == Front(Dotted(path))

Text(s) == ToScope(s.service, Permission(s.path), s.action)

Literals == {Text(s) : s \in Structured} \cup Builtin \cup Malformed \cup {Profile}

(* What a text stands for: at most one structure.  "profile" is the OIDC   *)
(* name for reading the profile of a user.                                 *)
ReadProfile ==
    [service |-> SAMS, path |-> << <<"user">>, <<"profile">> >>, action |-> ActionRead]

Meaning ==
    [text \in Literals |->
        {s \in Structured : Text(s) = text \/ (text = Profile /\ s = ReadProfile)}]

(* Granting a scope grants it and all that are narrower. *)
Grants(matcher, wanted) ==
    \/ matcher = wanted /\ matcher \in Builtin
    \/ \E m \in Meaning[matcher], n \in Meaning[wanted] :
        /\ m.service = n.service
        /\ m.action = n.action
        /\ IsPrefix(m.path, n.path)

(* The parts are told apart by the symbols between them, the parts of the  *)
(* alias are among them, and no scope is made of text that is malformed.   *)
(* Strings have a length, in characters, that says how long a text is.     *)
Symbols == {symbol \in STRING : Len(symbol) \in Nat}

ProperParts ==
    /\ Services \cup Words \cup Actions \cup Malformed \cup Builtin
            \cup {Profile, Separator, <<".">>} \subseteq Seq(Symbols)
    /\ <<>> \notin Services \cup Words \cup Actions
    /\ \A text \in Services \cup Words : ":" \notin Range(text)
    /\ \A word \in Words : "." \notin Range(word)
    /\ ReadProfile \in Structured
    /\ \A text \in Malformed : text # Profile /\ ~ParseScope(text).valid
    /\ MaxPath \in Nat

ASSUME ScopeStrategyAssumption == ProperParts

-----------------------------------------------------------------------------
(* Properties *)

(* The search says yes exactly when some scope of the list grants the      *)
(* needle: comparing lengths and parsing text by its first separators      *)
(* loses no match and invents none, for aliases, dotted permissions and    *)
(* texts that are no scopes alike.                                         *)
StrategyAgrees ==
    \A needle \in Literals, matchers \in BoundedSeq(Literals, MaxMatchers) :
        Strategy(matchers, needle) <=> \E k \in DOMAIN matchers : Grants(matchers[k], needle)
===============================================================================
