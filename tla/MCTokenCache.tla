---------------------------- MODULE MCTokenCache ----------------------------
(* Instances of TokenCache: one token that expires and one that does not.  *)
EXTENDS TokenCache, TLC

CONSTANTS short, everlasting

(* short can be revoked long before it runs out, and run out while cached. *)
MCExpiry == [t \in Tokens |-> IF t = short THEN 5 ELSE None]

Symmetry == Permutations(Callers)
=============================================================================
