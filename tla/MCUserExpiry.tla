---------------------------- MODULE MCUserExpiry ----------------------------
(* Instances of UserExpiry for TLC. *)
EXTENDS UserExpiry

\* "disable_user" with a deletion one day later, and "delete_user".
DisableOrDelete == {[delete |-> FALSE, after |-> 1], [delete |-> TRUE, after |-> 0]}
=============================================================================
