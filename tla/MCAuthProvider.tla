---------------------------- MODULE MCAuthProvider ----------------------------
(* Small instances of AuthProvider for TLC. *)
EXTENDS AuthProvider, TLC

SomeRoles == {{}, {"ACCESS", "VIEW"}}

SomeOptions == {[write |-> TRUE, mapping |-> FALSE], [write |-> FALSE, mapping |-> TRUE]}

Symmetry == Permutations(Calls)

===============================================================================
