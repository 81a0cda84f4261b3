---------------------------- MODULE MCUserCache ----------------------------
(* Instances of UserCache for TLC. *)
EXTENDS UserCache

CONSTANT MaxTroubles \* bound: changes of the user data and failing calls together

Troubles == (data - 1) + failures
\* Bound: a call for an unsorted list, which does less than one that finds its list sorted,
\* begins while there was no trouble and no other call is at work.
AsksForOrder(r) ==
    \/ reader[r] # "idle" \/ reader'[r] = "idle" \/ wants'[r]
    \/ Troubles = 0 /\ \A q \in Readers : reader[q] = "idle"
Few == Troubles' <= MaxTroubles /\ \A r \in Readers : AsksForOrder(r)
MCSpec == Init /\ [][Next /\ Few]_vars /\ Fairness
=============================================================================
