---------------------------- MODULE InviteLedger ----------------------------
(***************************************************************************)
(* What an invite promises, without handlers, copies or a database: a code *)
(* is issued once with a quota (0: none), admits at most that many new     *)
(* members while it is open, and once closed never admits anyone again.    *)
(***************************************************************************)
EXTENDS Integers, FiniteSets

CONSTANTS Codes, Requests, MaxUses

VARIABLES state, quota, members
ledger == <<state, quota, members>>

Init ==
    /\ state = [c \in Codes |-> "new"]
    /\ quota = [c \in Codes |-> -1]
    /\ members = [c \in Codes |-> {}]

Issue(c) ==
    /\ state[c] = "new"
    /\ state' = [state EXCEPT ![c] = "open"]
    /\ \E n \in 0..MaxUses : quota' = [quota EXCEPT ![c] = n]
    /\ UNCHANGED members

Admit(c, r) ==
    /\ state[c] = "open"
    /\ quota[c] = 0 \/ Cardinality(members[c]) < quota[c]
    /\ members' = [members EXCEPT ![c] = @ \union {r}]
    /\ UNCHANGED <<state, quota>>

Close(c) ==
    /\ state[c] = "open"
    /\ state' = [state EXCEPT ![c] = "closed"]
    /\ UNCHANGED <<quota, members>>

Next == \E c \in Codes : Issue(c) \/ Close(c) \/ \E r \in Requests : Admit(c, r)

Spec == Init /\ [][Next]_ledger
=============================================================================
