----------------------------- MODULE MCInvites -----------------------------
(* Instances of Invites for TLC. *)
EXTENDS Invites, TLC

\* Requests ask for different names and are otherwise alike.
Visitors == Permutations(Requests)
=============================================================================
