---------------------------- MODULE MCAuthHandler ----------------------------
(* Instances of AuthHandler: the tabs of one browser are interchangeable.  *)
EXTENDS AuthHandler, TLC

Symmetry == Permutations(Logins) \cup Permutations(Callbacks)

Reliable == [reportsMissing |-> TRUE, deletes |-> TRUE]

(* A deletion that may fail may also take effect. *)
MCStores == {Reliable} \cup [reportsMissing : BOOLEAN, deletes : {FALSE}]

ReliableStores == {Reliable}
=============================================================================
