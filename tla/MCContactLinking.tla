--------------------------- MODULE MCContactLinking ---------------------------
(* Instances of ContactLinking for TLC. *)
EXTENDS ContactLinking

\* Bound: a signup and a link that overlap are the first to happen, with one PIN or two of one
\* member of Discord, and after they did nothing is edited, restarted or given a PIN.
Pending == Cardinality(links) + Cardinality(copies) + Cardinality(forms)
Few == Pending > 1 => /\ restarts = 0 /\ edits = 0 /\ \A a \in Accounts : ~Linked("discord", a)
                       /\ \A p \in Pins : pins[p].bot \in {"discord", None}
                       /\ \A l \in links : l.bot = "discord"
                       /\ \E c \in Chats : \A d \in Chats \ {c} : ~Holds("discord", d)
Calm == excused # {} /\ edits = 0 => UNCHANGED <<edits, restarts>> /\ Fresh' = Fresh
MCSpec == Init /\ [][Next /\ Few' /\ Calm]_vars /\ Fairness
=============================================================================
