-------------------------- MODULE MCActivityCache --------------------------
(* Instances of ActivityCache for TLC. *)
EXTENDS ActivityCache, TLC

Alike == Permutations(Users) \union Permutations(Callers)
=============================================================================
