-------------------------------- MODULE Scopes --------------------------------
(***************************************************************************)
(* Token scopes (scopes/scopes.go): "service::permission::action", where   *)
(* a permission is dotted and covers every permission it is a prefix of.   *)
(*                                                                         *)
(* A scope is a sequence of symbols: ":", "." and the words between them,  *)
(* or pieces of words where an instance asks what happens inside a word.   *)
(***************************************************************************)
EXTENDS Integers, Sequences, SequencesExt

OpenID == <<"openid">>
Profile == <<"profile">>
Email == <<"email">>
OfflineAccess == <<"offline_access">>
ClientSSC == <<"client", ".", "ssc">>
ClientDotcom == <<"client", ".", "dotcom">>

SAMS == <<"sams">>
UserProfile == <<"user", ".", "profile">>
ActionRead == <<"read">>
ActionWrite == <<"write">>
ActionDelete == <<"delete">>

Separator == <<":", ":">>

ToScope(service, permission, action) ==
    service \o Separator \o permission \o Separator \o action

(* The aliases. *)
Canonical(scope) ==
    IF scope = Profile THEN ToScope(SAMS, UserProfile, ActionRead) ELSE scope

(* strings.Index of the separator: where it first begins in text, 0 if it  *)
(* does not.                                                               *)
Index(text) ==
    LET at == {i \in 1..(Len(text) - 1) : SubSeq(text, i, i + 1) = Separator}
    IN IF at = {} THEN 0 ELSE CHOOSE i \in at : \A j \in at : i <= j

Parsed(service, permission, action) ==
    [valid |-> TRUE, service |-> service, permission |-> permission, action |-> action]

Invalid == [valid |-> FALSE, service |-> <<>>, permission |-> <<>>, action |-> <<>>]

ParseScope(scope) ==
    IF scope \in {OpenID, Email, OfflineAccess, ClientSSC, ClientDotcom}
    THEN Parsed(<<>>, scope, <<>>)
    ELSE LET i == Index(scope)
             rest == SubSeq(scope, i + 2, Len(scope))
             j == Index(rest)
             service == SubSeq(scope, 1, i - 1)
             permission == SubSeq(rest, 1, j - 1)
             action == SubSeq(rest, j + 2, Len(rest))
         IN IF i = 0 \/ j = 0 \/ <<>> \in {service, permission, action}
            THEN Invalid
            ELSE Parsed(service, permission, action)

(* The characters of a text. *)
Length(text) ==
    LET upTo[n \in 0..Len(text)] == IF n = 0 THEN 0 ELSE upTo[n - 1] + Len(text[n])
    IN upTo[Len(text)]

(* Mutant: the prefix need not end where a word of the permission ends. *)
MatchesInWord(matcher, needle) ==
    LET scope == ParseScope(matcher)
        needleScope == ParseScope(needle)
    IN /\ Length(matcher) <= Length(needle)
       /\ scope.valid
       /\ scope.service = needleScope.service
       /\ scope.action = needleScope.action
       /\ IsPrefix(scope.permission, needleScope.permission)

(* The tests of one turn of Strategy's loop, for a valid needle. *)
Matches(matcher, needle) ==
    LET scope == ParseScope(matcher)
        needleScope == ParseScope(needle)
    IN /\ Length(matcher) <= Length(needle)
       /\ scope.valid
       /\ scope.service = needleScope.service
       /\ scope.action = needleScope.action
       /\ \/ scope.permission = needleScope.permission
          \/ IsPrefix(scope.permission \o <<".">>, needleScope.permission)

(* A needle that does not parse matches nothing. *)
Strategy(matchers, needle) ==
    /\ ParseScope(Canonical(needle)).valid
    /\ \E k \in DOMAIN matchers : Matches(Canonical(matchers[k]), Canonical(needle))
===============================================================================
