--------------------------- MODULE MCSessionsCache ---------------------------
(* Instances of SessionsCache with interchangeable callers and users.      *)
EXTENDS SessionsCache, TLC

Symmetry == Permutations(Callers) \cup Permutations(Users)
=============================================================================
