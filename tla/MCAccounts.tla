----------------------------- MODULE MCAccounts -----------------------------
(* Instances of Accounts with Jellyseerr for TLC. *)
EXTENDS Jellyseerr, TLC

TwoNames == 1..2
\* What comes together: changes of rows, of referrals (a label stands for any row that is
\* stored back), and of profiles.
OfRows == {"admin", "label", "email", "signup"}
OfReferrals == {"label", "refer", "unrefer", "mine", "expire", "spend"}
OfProfiles == {"store", "content", "share", "unshare", "default", "expire"}
OfAddresses == {"email"}
OfNewAddresses == {"signup"}
EachTable == {OfRows, OfReferrals, OfProfiles, OfAddresses, OfNewAddresses}
PassedOn == mix \in {OfAddresses, OfNewAddresses}
\* Only referrals begin with something of their own, and only addresses are passed on.
MCInit == /\ SeerrInit
          /\ ~PassedOn => ~enabled /\ \A u \in Users : seerr[u] = Absent
          /\ mix # OfReferrals => Owned(CHOOSE u \in exists : TRUE) = {}
          /\ mix # OfReferrals => invites[1].timed
          /\ \A u \in exists : emails[u].tmpl = 1
\* Bound: where each takes many steps, two requests or one and the daemon; two things go
\* wrong where referrals expire and are made again, one elsewhere; and no templates.
AtWork == {h \in Callers : task[h] # Idle} \cup {t \in Threads : work[t] # NoWork}
Few == /\ events <= (IF mix = OfReferrals THEN MaxEvents ELSE 1)
       /\ IF PassedOn
          THEN /\ calls <= (IF mix = OfAddresses THEN 2 ELSE 1)
               /\ Cardinality(AtWork) <= IF importing THEN 2 ELSE 1
               /\ \A h \in Callers :
                     At(h, "row") /\ task[h].op = "signup" => task[h].arg.tmpl = NoKey
          ELSE ~enabled /\ \A u \in Users : seerr[u] = Absent
MCSpec == MCInit /\ [][SeerrNext /\ Few']_allvars
Alike == Permutations(Callers)
=============================================================================
