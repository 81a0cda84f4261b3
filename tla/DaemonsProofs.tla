----------------------------- MODULE DaemonsProofs -----------------------------
(***************************************************************************)
(* Theorems of the daemon of user expiries, and of housekeeping and the    *)
(* lists it trims.                                                         *)
(*                                                                         *)
(* Of UserExpiry for any accounts, settings and bounds: the types          *)
(* hold; the daemon acts on the expiry that is stored, as the copies it    *)
(* has yet to use are those stored, edits apart (Snapshot); without        *)
(* overlaps it drops no expiry unserved, as its lists of users are         *)
(* complete then (ListsAreComplete); and no notice is sent twice, as each  *)
(* was noted in the expiry before it was sent (Noted).                     *)
(*                                                                         *)
(* Of Queries for any accounts, requests, settings and bounds: the pages   *)
(* of a list that stood still are the start of it (PagesAreTheStart);      *)
(* newest first, what is not on a page yet has as many before it as were   *)
(* loaded (NothingIsPassed); and what housekeeping has left to delete one  *)
(* by one is surplus still (LeftIsSurplus).                                *)
(***************************************************************************)
EXTENDS UserExpiry, Queries, FiniteSetTheorems, SequenceTheorems, TLAPS

AtAccount == {"check", "act", "store"} \union Notices

\* The copies that the daemon has not used yet are those stored, edits apart, and
\* it acts only on an expiry that has passed.
Snapshot ==
    /\ tick \in AtAccount => cur \notin queue
    /\ tick \in AtAccount \union {"loop"} => \A u \in queue \ edited : seen[u] = expiry[u]
    /\ tick \in {"check", "act"} => cur \in edited \/ seen[cur] = expiry[cur]
    /\ tick = "act" => Passed(seen[cur])

\* When neither signups nor failing syncs overlap the daemon taking its list, every
\* account that Jellyfin has is on each list the daemon may go by, only accounts it
\* knows have expiries, and the one just acted on is enabled only by an edit.
ListsAreComplete ==
    /\ \A u \in Users : (account[u] = "unknown") => (expiry[u] = None /\ u \notin signup)
    /\ \A u \in Listed :
          /\ fresh \/ (tick = "joining" /\ leader = "none") => u \in cached
          /\ leader # "none" => u \in fetched
          /\ tick = "listed" => u \in users
    /\ tick \in AtAccount \union {"loop"} =>
          \A u \in queue : account[u] # "unknown" /\ (u \in Listed => u \in users)
    /\ tick \in AtAccount => account[cur] # "unknown"
    /\ tick = "store" => cur \in edited \/ account[cur] # "enabled"

\* A notice that was sent about the expiry an account has is noted in that expiry:
\* the day of a reminder in LastNotified, a disabling in DeleteAfterPeriod; after a
\* deletion there is none.
SentIsNoted ==
    \A u \in Users : expiry[u] # None =>
        /\ "reminded" \in told[u] => expiry[u].notified = now
        /\ "disabled" \in told[u] => expiry[u].done
        /\ "deleted" \notin told[u]

\* Where notices were sent the daemon has yet to use the expiry that notes them,
\* and the notice it is about to send is noted already but was not sent.
NotesAreSeen ==
    /\ tick \in AtAccount \union {"loop"} => \A u \in queue : told[u] = {} \/ seen[u] = expiry[u]
    /\ tick \in {"check", "act", "store"} => told[cur] = {} \/ seen[cur] = expiry[cur]
    /\ tick \in Notices => tick \notin told[cur]
    /\ tick = "reminded" => cur \in edited \/ expiry[cur] = seen[cur]
    /\ tick = "disabled" => cur \in edited \/ expiry[cur] = None \/ expiry[cur].done
    /\ tick = "deleted" => cur \in edited \/ expiry[cur] = None

Noted == SentIsNoted /\ NotesAreSeen /\ NoRepeats
-----------------------------------------------------------------------------
(* Types *)

\* Every reachable state is well typed, whatever fails, crashes or is edited.
THEOREM TypeCorrect == Spec => []TypeOK
<1> USE UserExpiryAssumption DEF TypeOK
<1>1. Init => TypeOK
  <2> SUFFICES ASSUME Init PROVE TypeOK
    OBVIOUS
  <2>1. TablesTyped
    BY DEF Init, TablesTyped, States
  <2>2. ClientTyped
    BY DEF Init, ClientTyped
  <2>3. DaemonTyped
    BY DEF Init, DaemonTyped, Places, Notices
  <2>4. NoticesTyped
    BY DEF Init, NoticesTyped
  <2> QED
    BY <2>1, <2>2, <2>3, <2>4
<1>2. ASSUME TypeOK, [Next]_vars PROVE TypeOK'
  <2> USE <1>2 DEF jellyfin, client, daemon, notices, vars
  <2>1. ASSUME NextDay PROVE TypeOK'
    <3>1. TablesTyped'
      BY <2>1 DEF NextDay, TablesTyped
    <3>2. ClientTyped'
      BY <2>1 DEF NextDay, ClientTyped
    <3>3. DaemonTyped'
      BY <2>1 DEF NextDay, DaemonTyped
    <3>4. NoticesTyped'
      BY <2>1 DEF NextDay, NoticesTyped, Notices
    <3> QED
      BY <3>1, <3>2, <3>3, <3>4
  <2>2. ASSUME CacheExpires PROVE TypeOK'
    <3>1. TablesTyped'
      BY <2>2 DEF CacheExpires, TablesTyped
    <3>2. ClientTyped'
      BY <2>2 DEF CacheExpires, ClientTyped
    <3>3. DaemonTyped'
      BY <2>2 DEF CacheExpires, DaemonTyped
    <3>4. NoticesTyped'
      BY <2>2 DEF CacheExpires, NoticesTyped
    <3> QED
      BY <3>1, <3>2, <3>3, <3>4
  <2>3. ASSUME PageSyncs PROVE TypeOK'
    <3>1. TablesTyped'
      BY <2>3 DEF PageSyncs, TablesTyped
    <3>2. ClientTyped'
      BY <2>3 DEF PageSyncs, ClientTyped, Listed
    <3>3. DaemonTyped'
      BY <2>3 DEF PageSyncs, DaemonTyped
    <3>4. NoticesTyped'
      BY <2>3 DEF PageSyncs, NoticesTyped
    <3> QED
      BY <3>1, <3>2, <3>3, <3>4
  <2>4. ASSUME SyncEnds PROVE TypeOK'
    <3>1. TablesTyped'
      BY <2>4 DEF SyncEnds, TablesTyped
    <3>2. ClientTyped'
      BY <2>4 DEF SyncEnds, ClientTyped
    <3>3. DaemonTyped'
      BY <2>4 DEF SyncEnds, Goto, DaemonTyped, ClientTyped, Places, Notices
    <3>4. NoticesTyped'
      BY <2>4 DEF SyncEnds, NoticesTyped
    <3> QED
      BY <3>1, <3>2, <3>3, <3>4
  <2>5. ASSUME SyncFails PROVE TypeOK'
    <3>1. TablesTyped'
      BY <2>5 DEF SyncFails, TablesTyped
    <3>2. ClientTyped'
      BY <2>5 DEF SyncFails, ClientTyped
    <3>3. DaemonTyped'
      BY <2>5 DEF SyncFails, Goto, DaemonTyped, Places, Notices
    <3>4. NoticesTyped'
      BY <2>5 DEF SyncFails, NoticesTyped
    <3> QED
      BY <3>1, <3>2, <3>3, <3>4
  <2>6. ASSUME Configure PROVE TypeOK'
    <3>1. TablesTyped'
      BY <2>6 DEF Configure, TablesTyped
    <3>2. ClientTyped'
      BY <2>6 DEF Configure, ClientTyped
    <3>3. DaemonTyped'
      BY <2>6 DEF Configure, DaemonTyped
    <3>4. NoticesTyped'
      BY <2>6 DEF Configure, NoticesTyped
    <3> QED
      BY <3>1, <3>2, <3>3, <3>4
  <2>7. ASSUME Restart PROVE TypeOK'
    <3>1. TablesTyped'
      BY <2>7 DEF Restart, TablesTyped
    <3>2. ClientTyped'
      BY <2>7 DEF Restart, ClientTyped
    <3>3. DaemonTyped'
      BY <2>7 DEF Restart, Goto, DaemonTyped, Places, Notices, TablesTyped
    <3>4. NoticesTyped'
      BY <2>7 DEF Restart, NoticesTyped
    <3> QED
      BY <3>1, <3>2, <3>3, <3>4
  <2>8. ASSUME NEW u \in Users, CreateUser(u) PROVE TypeOK'
    <3>1. TablesTyped'
      BY <2>8 DEF CreateUser, TablesTyped, States
    <3>2. ClientTyped'
      BY <2>8 DEF CreateUser, ClientTyped
    <3>3. DaemonTyped'
      BY <2>8 DEF CreateUser, DaemonTyped, Places, Notices
    <3>4. NoticesTyped'
      BY <2>8 DEF CreateUser, NoticesTyped
    <3> QED
      BY <3>1, <3>2, <3>3, <3>4
  <2>9. ASSUME NEW u \in Users, StoreExpiry(u) PROVE TypeOK'
    <3>1. TablesTyped'
      BY <2>9 DEF StoreExpiry, Put, Give, TablesTyped, Expiry, MaxAt, Never
    <3>2. ClientTyped'
      BY <2>9 DEF StoreExpiry, ClientTyped
    <3>3. DaemonTyped'
      BY <2>9 DEF StoreExpiry, DaemonTyped
    <3>4. NoticesTyped'
      BY <2>9 DEF StoreExpiry, Mark, Forget, Give, NoticesTyped
    <3> QED
      BY <3>1, <3>2, <3>3, <3>4
  <2>10. ASSUME NEW u \in Users, RemoveExpiry(u) PROVE TypeOK'
    <3>1. TablesTyped'
      BY <2>10 DEF RemoveExpiry, Put, TablesTyped, Expiry, MaxAt, Never
    <3>2. ClientTyped'
      BY <2>10 DEF RemoveExpiry, ClientTyped
    <3>3. DaemonTyped'
      BY <2>10 DEF RemoveExpiry, DaemonTyped
    <3>4. NoticesTyped'
      BY <2>10 DEF RemoveExpiry, Mark, Forget, NoticesTyped
    <3> QED
      BY <3>1, <3>2, <3>3, <3>4
  <2>11. ASSUME NEW u \in Users, DeleteUsers(u) PROVE TypeOK'
    <3>1. TablesTyped'
      BY <2>11 DEF DeleteUsers, TablesTyped, States, Present
    <3>2. ClientTyped'
      BY <2>11 DEF DeleteUsers, ClientTyped
    <3>3. DaemonTyped'
      BY <2>11 DEF DeleteUsers, DaemonTyped
    <3>4. NoticesTyped'
      BY <2>11 DEF DeleteUsers, Mark, NoticesTyped
    <3> QED
      BY <3>1, <3>2, <3>3, <3>4
  <2>12. ASSUME NEW u \in Users, DeletedInJellyfin(u) PROVE TypeOK'
    <3>1. TablesTyped'
      BY <2>12 DEF DeletedInJellyfin, TablesTyped, States, Present
    <3>2. ClientTyped'
      BY <2>12 DEF DeletedInJellyfin, ClientTyped
    <3>3. DaemonTyped'
      BY <2>12 DEF DeletedInJellyfin, DaemonTyped
    <3>4. NoticesTyped'
      BY <2>12 DEF DeletedInJellyfin, Mark, NoticesTyped
    <3> QED
      BY <3>1, <3>2, <3>3, <3>4
  <2>13. ASSUME NEW u \in Users, ExtendExpiry(u) PROVE TypeOK'
    <3>5. PICK day \in 0..MaxTime : Give(u, day)
      BY <2>13 DEF ExtendExpiry, TablesTyped, Expiry
    <3>1. TablesTyped'
      BY <2>13, <3>5 DEF ExtendExpiry, Give, Put, TablesTyped, Expiry, MaxAt, Never
    <3>2. ClientTyped'
      BY <2>13 DEF ExtendExpiry, ClientTyped
    <3>3. DaemonTyped'
      BY <2>13 DEF ExtendExpiry, DaemonTyped
    <3>4. NoticesTyped'
      BY <2>13 DEF ExtendExpiry, Mark, Forget, Give, NoticesTyped
    <3> QED
      BY <3>1, <3>2, <3>3, <3>4
  <2>14. ASSUME NEW u \in Users, NEW s \in Present, EnableDisableUsers(u, s) PROVE TypeOK'
    <3>1. TablesTyped'
      BY <2>14 DEF EnableDisableUsers, TablesTyped, States, Present
    <3>2. ClientTyped'
      BY <2>14 DEF EnableDisableUsers, ClientTyped
    <3>3. DaemonTyped'
      BY <2>14 DEF EnableDisableUsers, DaemonTyped
    <3>4. NoticesTyped'
      BY <2>14 DEF EnableDisableUsers, Mark, NoticesTyped
    <3> QED
      BY <3>1, <3>2, <3>3, <3>4
  <2>15. ASSUME GetUsers PROVE TypeOK'
    <3>1. TablesTyped'
      BY <2>15 DEF GetUsers, TablesTyped
    <3>2. ClientTyped'
      BY <2>15 DEF GetUsers, ClientTyped, Listed
    <3>3. DaemonTyped'
      BY <2>15 DEF GetUsers, Goto, DaemonTyped, ClientTyped, Places, Notices
    <3>4. NoticesTyped'
      BY <2>15 DEF GetUsers, NoticesTyped
    <3> QED
      BY <3>1, <3>2, <3>3, <3>4
  <2>16. ASSUME Joined PROVE TypeOK'
    <3>1. TablesTyped'
      BY <2>16 DEF Joined, TablesTyped
    <3>2. ClientTyped'
      BY <2>16 DEF Joined, ClientTyped
    <3>3. DaemonTyped'
      BY <2>16 DEF Joined, Goto, DaemonTyped, ClientTyped, Places, Notices
    <3>4. NoticesTyped'
      BY <2>16 DEF Joined, NoticesTyped
    <3> QED
      BY <3>1, <3>2, <3>3, <3>4
  <2>17. ASSUME ReadExpiries PROVE TypeOK'
    <3>1. TablesTyped'
      BY <2>17 DEF ReadExpiries, TablesTyped
    <3>2. ClientTyped'
      BY <2>17 DEF ReadExpiries, ClientTyped
    <3>3. DaemonTyped'
      BY <2>17 DEF ReadExpiries, Goto, DaemonTyped, Places, Notices, TablesTyped
    <3>4. NoticesTyped'
      BY <2>17 DEF ReadExpiries, NoticesTyped
    <3> QED
      BY <3>1, <3>2, <3>3, <3>4
  <2>18. ASSUME NEW u \in Users, DropOrphan(u) PROVE TypeOK'
    <3>1. TablesTyped'
      BY <2>18 DEF DropOrphan, Put, TablesTyped, Expiry, MaxAt, Never
    <3>2. ClientTyped'
      BY <2>18 DEF DropOrphan, ClientTyped
    <3>3. DaemonTyped'
      BY <2>18 DEF DropOrphan, DaemonTyped, Places, Notices
    <3>4. NoticesTyped'
      BY <2>18 DEF DropOrphan, NoticesTyped
    <3> QED
      BY <3>1, <3>2, <3>3, <3>4
  <2>19. ASSUME NEW u \in Users, Take(u) PROVE TypeOK'
    <3>5. seen[u] \in Expiry /\ u \in queue /\ tick = "loop"
      BY <2>19 DEF Take, DaemonTyped
    <3>6. /\ seen' \in [Users -> Expiry \union {None}]
          /\ expiry' \in [Users -> Expiry \union {None}]
          /\ \A v \in queue : seen'[v] # None
      <4>1. CASE UNCHANGED <<seen, expiry>>
        BY <4>1 DEF TablesTyped, DaemonTyped
      <4>2. CASE ~UNCHANGED <<seen, expiry>>
        <5>1. /\ seen[u].at < now + Window
              /\ seen' = [seen EXCEPT ![u].at = @ + ExtendBy, ![u].notified = Never]
              /\ expiry' = [expiry EXCEPT ![u] = seen'[u]]
          BY <2>19, <4>2 DEF Take, Put
        <5>2. /\ seen' = [seen EXCEPT ![u] = seen'[u]]
              /\ seen'[u] = [seen[u] EXCEPT !.at = @ + ExtendBy, !.notified = Never]
          BY <5>1 DEF DaemonTyped
        <5>3. seen'[u] \in Expiry
          <6>1. seen[u].at \in 0..MaxAt /\ seen[u].done \in BOOLEAN
            BY <3>5 DEF Expiry
          <6>2. seen[u].at + ExtendBy \in 0..MaxAt
            BY <5>1, <6>1 DEF MaxAt, TablesTyped
          <6>3. seen'[u] = [at |-> seen[u].at + ExtendBy, done |-> seen[u].done, notified |-> Never]
            BY <3>5, <5>2 DEF Expiry
          <6> QED
            BY <6>1, <6>2, <6>3 DEF Expiry
        <5>4. seen'[u] # None
          BY <5>3 DEF Expiry, MaxAt, Never
        <5> QED
          BY <5>1, <5>2, <5>3, <5>4 DEF TablesTyped, DaemonTyped
      <4> QED
        BY <4>1, <4>2
    <3>1. TablesTyped'
      BY <2>19, <3>6 DEF Take, TablesTyped
    <3>2. ClientTyped'
      BY <2>19 DEF Take, ClientTyped
    <3>3. DaemonTyped'
      BY <2>19, <3>5, <3>6 DEF Take, Goto, DaemonTyped, Places, Notices
    <3>4. NoticesTyped'
      BY <2>19 DEF Take, Forget, NoticesTyped
    <3> QED
      BY <3>1, <3>2, <3>3, <3>4
  <2>20. ASSUME NotPassed PROVE TypeOK'
    <3>5. seen[cur] \in Expiry /\ cur \in Users /\ tick = "check"
      BY <2>20 DEF NotPassed, DaemonTyped
    <3>6. /\ seen' \in [Users -> Expiry \union {None}]
          /\ expiry' \in [Users -> Expiry \union {None}]
          /\ \A v \in queue \union {cur} : seen'[v] # None
      <4>1. CASE UNCHANGED <<seen, expiry>>
        BY <4>1, <3>5 DEF TablesTyped, DaemonTyped
      <4>2. CASE ~UNCHANGED <<seen, expiry>>
        <5>1. /\ seen' = [seen EXCEPT ![cur].notified = now]
              /\ expiry' = [expiry EXCEPT ![cur] = seen'[cur]]
          BY <2>20, <4>2 DEF NotPassed, Put
        <5>2. /\ seen' = [seen EXCEPT ![cur] = seen'[cur]]
              /\ seen'[cur] = [seen[cur] EXCEPT !.notified = now]
          BY <3>5, <5>1 DEF DaemonTyped
        <5>3. seen'[cur] \in Expiry
          BY <3>5, <5>2 DEF Expiry, MaxAt, Never, TablesTyped
        <5>4. seen'[cur] # None
          BY <5>3 DEF Expiry, MaxAt, Never
        <5> QED
          BY <3>5, <5>1, <5>2, <5>3, <5>4 DEF TablesTyped, DaemonTyped
      <4> QED
        BY <4>1, <4>2
    <3>1. TablesTyped'
      BY <2>20, <3>6 DEF NotPassed, TablesTyped
    <3>2. ClientTyped'
      BY <2>20 DEF NotPassed, ClientTyped
    <3>3. DaemonTyped'
      BY <2>20, <3>5, <3>6 DEF NotPassed, Goto, DaemonTyped, Places, Notices
    <3>4. NoticesTyped'
      BY <2>20 DEF NotPassed, NoticesTyped
    <3> QED
      BY <3>1, <3>2, <3>3, <3>4
  <2>21. ASSUME AlreadyExpired PROVE TypeOK'
    <3>1. TablesTyped'
      BY <2>21 DEF AlreadyExpired, Put, TablesTyped, Expiry, MaxAt, Never
    <3>2. ClientTyped'
      BY <2>21 DEF AlreadyExpired, ClientTyped
    <3>3. DaemonTyped'
      BY <2>21 DEF AlreadyExpired, Goto, DaemonTyped, Places, Notices
    <3>4. NoticesTyped'
      BY <2>21 DEF AlreadyExpired, NoticesTyped
    <3> QED
      BY <3>1, <3>2, <3>3, <3>4
  <2>22. ASSUME JustExpired PROVE TypeOK'
    <3>1. TablesTyped'
      BY <2>22 DEF JustExpired, TablesTyped
    <3>2. ClientTyped'
      BY <2>22 DEF JustExpired, ClientTyped
    <3>3. DaemonTyped'
      BY <2>22 DEF JustExpired, Goto, DaemonTyped, Places, Notices
    <3>4. NoticesTyped'
      BY <2>22 DEF JustExpired, NoticesTyped
    <3> QED
      BY <3>1, <3>2, <3>3, <3>4
  <2>23. ASSUME Act PROVE TypeOK'
    <3>1. TablesTyped'
      BY <2>23 DEF Act, TablesTyped, States, Present
    <3>2. ClientTyped'
      BY <2>23 DEF Act, ClientTyped
    <3>3. DaemonTyped'
      BY <2>23 DEF Act, Goto, DaemonTyped, Places, Notices
    <3>4. NoticesTyped'
      BY <2>23 DEF Act, NoticesTyped
    <3> QED
      BY <3>1, <3>2, <3>3, <3>4
  <2>24. ASSUME Store PROVE TypeOK'
    <3>5. seen[cur] \in Expiry /\ cur \in Users /\ tick = "store"
      BY <2>24 DEF Store, DaemonTyped
    <3>6. /\ seen' \in [Users -> Expiry \union {None}]
          /\ expiry' \in [Users -> Expiry \union {None}]
          /\ \A v \in queue \union {cur} : seen'[v] # None
      <4>1. CASE expiry' = [expiry EXCEPT ![cur] = None] /\ UNCHANGED seen
        BY <4>1, <3>5 DEF TablesTyped, DaemonTyped
      <4>2. CASE /\ seen' = [seen EXCEPT ![cur].done = TRUE, ![cur].notified = now]
                 /\ expiry' = [expiry EXCEPT ![cur] = seen'[cur]]
        <5>2. /\ seen' = [seen EXCEPT ![cur] = seen'[cur]]
              /\ seen'[cur] = [seen[cur] EXCEPT !.done = TRUE, !.notified = now]
          BY <3>5, <4>2 DEF DaemonTyped
        <5>3. seen'[cur] \in Expiry
          BY <3>5, <5>2 DEF Expiry, MaxAt, Never, TablesTyped
        <5>4. seen'[cur] # None
          BY <5>3 DEF Expiry, MaxAt, Never
        <5> QED
          BY <3>5, <4>2, <5>2, <5>3, <5>4 DEF TablesTyped, DaemonTyped
      <4> QED
        BY <2>24, <4>1, <4>2 DEF Store, Put
    <3>1. TablesTyped'
      <4>1. lastDisabled' \in [Users -> {None} \union 0..MaxTime]
        BY <2>24, <3>5 DEF Store, TablesTyped
      <4> QED
        BY <2>24, <3>6, <4>1 DEF Store, TablesTyped
    <3>2. ClientTyped'
      BY <2>24 DEF Store, ClientTyped
    <3>3. DaemonTyped'
      BY <2>24, <3>5, <3>6 DEF Store, Goto, DaemonTyped, Places, Notices
    <3>4. NoticesTyped'
      BY <2>24 DEF Store, NoticesTyped
    <3> QED
      BY <3>1, <3>2, <3>3, <3>4
  <2>25. ASSUME Notify PROVE TypeOK'
    <3>1. TablesTyped'
      BY <2>25 DEF Notify, TablesTyped
    <3>2. ClientTyped'
      BY <2>25 DEF Notify, ClientTyped
    <3>3. DaemonTyped'
      BY <2>25 DEF Notify, Goto, DaemonTyped, Places, Notices
    <3>4. NoticesTyped'
      <4>1. tick \in Notices /\ cur \in Users
        BY <2>25 DEF Notify, DaemonTyped
      <4>2. again' \in BOOLEAN
        BY <2>25 DEF Notify, NoticesTyped
      <4>3. told' \in [Users -> SUBSET Notices]
        <5>1. told' = told \/ told' = [told EXCEPT ![cur] = told[cur] \union {tick}]
          BY <2>25 DEF Notify
        <5>2. told[cur] \union {tick} \in SUBSET Notices
          BY <4>1 DEF NoticesTyped
        <5> QED
          BY <4>1, <5>1, <5>2 DEF NoticesTyped
      <4> QED
        BY <2>25, <4>2, <4>3 DEF Notify, NoticesTyped
    <3> QED
      BY <3>1, <3>2, <3>3, <3>4
  <2>26. ASSUME EndTick PROVE TypeOK'
    <3>1. TablesTyped'
      BY <2>26 DEF EndTick, TablesTyped
    <3>2. ClientTyped'
      BY <2>26 DEF EndTick, ClientTyped
    <3>3. DaemonTyped'
      BY <2>26 DEF EndTick, Goto, DaemonTyped, Places, Notices, TablesTyped
    <3>4. NoticesTyped'
      BY <2>26 DEF EndTick, NoticesTyped
    <3> QED
      BY <3>1, <3>2, <3>3, <3>4
  <2>27. CASE UNCHANGED vars
    BY <2>27 DEF TablesTyped, ClientTyped, DaemonTyped, NoticesTyped, Listed
  <2> QED
    BY <2>1, <2>2, <2>3, <2>4, <2>5, <2>6, <2>7, <2>8, <2>9, <2>10, <2>11, <2>12, <2>13,
       <2>14, <2>15, <2>16, <2>17, <2>18, <2>19, <2>20, <2>21, <2>22, <2>23, <2>24, <2>25,
       <2>26, <2>27
       DEF Next, checkUsers, Loop
<1> QED
  BY <1>1, <1>2, PTL DEF Spec
-----------------------------------------------------------------------------
(* What the daemon acts on *)

\* The copies the daemon has yet to use are the ones stored, edits apart: its own
\* writes are of accounts it has taken off the queue, or go to both.
LEMMA SnapshotHolds == Spec => []Snapshot
<1> USE UserExpiryAssumption
<1>1. Init => Snapshot
  BY DEF Init, Snapshot, AtAccount, Notices
<1>2. ASSUME TypeOK, Snapshot, [Next]_vars PROVE Snapshot'
  <2> USE <1>2 DEF jellyfin, client, daemon, notices, vars
  <2>0. /\ queue \subseteq Users /\ edited \subseteq Users
        /\ now \in 0..MaxTime
        /\ seen \in [Users -> Expiry \union {None}] /\ expiry \in [Users -> Expiry \union {None}]
        /\ tick \in AtAccount => cur \in Users
        /\ tick = "idle" \/ tick \in Places \ {"idle"}
    BY DEF TypeOK, TablesTyped, ClientTyped, DaemonTyped, NoticesTyped, AtAccount
  <2>1. ASSUME NextDay PROVE Snapshot'
    BY <2>0, <2>1 DEF NextDay, Passed, TypeOK, DaemonTyped, Expiry, MaxAt, Snapshot,
       AtAccount, Notices
  <2>2. ASSUME CacheExpires PROVE Snapshot'
    BY <2>0, <2>2 DEF CacheExpires, Passed, Snapshot, AtAccount, Notices
  <2>3. ASSUME PageSyncs PROVE Snapshot'
    BY <2>0, <2>3 DEF PageSyncs, Passed, Snapshot, AtAccount, Notices
  <2>4. ASSUME SyncEnds PROVE Snapshot'
    BY <2>0, <2>4 DEF SyncEnds, Goto, Passed, Snapshot, AtAccount, Notices
  <2>5. ASSUME SyncFails PROVE Snapshot'
    BY <2>0, <2>5 DEF SyncFails, Goto, Passed, Snapshot, AtAccount, Notices
  <2>6. ASSUME Configure PROVE Snapshot'
    BY <2>0, <2>6 DEF Configure, Passed, Snapshot, AtAccount, Notices
  <2>7. ASSUME Restart PROVE Snapshot'
    BY <2>0, <2>7 DEF Restart, Goto, Passed, Snapshot, AtAccount, Notices
  <2>8. ASSUME NEW u \in Users, CreateUser(u) PROVE Snapshot'
    BY <2>0, <2>8 DEF CreateUser, Passed, Snapshot, AtAccount, Notices
  <2>9. ASSUME NEW u \in Users, StoreExpiry(u) PROVE Snapshot'
    BY <2>0, <2>9 DEF StoreExpiry, Put, Mark, Give, Passed, Snapshot, AtAccount, Notices
  <2>10. ASSUME NEW u \in Users, RemoveExpiry(u) PROVE Snapshot'
    BY <2>0, <2>10 DEF RemoveExpiry, Put, Mark, Passed, Snapshot, AtAccount, Notices
  <2>11. ASSUME NEW u \in Users, DeleteUsers(u) PROVE Snapshot'
    BY <2>0, <2>11 DEF DeleteUsers, Mark, Passed, Snapshot, AtAccount, Notices
  <2>12. ASSUME NEW u \in Users, DeletedInJellyfin(u) PROVE Snapshot'
    BY <2>0, <2>12 DEF DeletedInJellyfin, Mark, Passed, Snapshot, AtAccount, Notices
  <2>13. ASSUME NEW u \in Users, ExtendExpiry(u) PROVE Snapshot'
    BY <2>0, <2>13 DEF ExtendExpiry, Put, Mark, Give, Passed, Snapshot, AtAccount, Notices
  <2>14. ASSUME NEW u \in Users, NEW s \in Present, EnableDisableUsers(u, s) PROVE Snapshot'
    BY <2>0, <2>14 DEF EnableDisableUsers, Mark, Passed, Snapshot, AtAccount, Notices
  <2>15. ASSUME GetUsers PROVE Snapshot'
    BY <2>0, <2>15 DEF GetUsers, Goto, Passed, Snapshot, AtAccount, Notices
  <2>16. ASSUME Joined PROVE Snapshot'
    BY <2>0, <2>16 DEF Joined, Goto, Passed, Snapshot, AtAccount, Notices
  <2>17. ASSUME ReadExpiries PROVE Snapshot'
    BY <2>0, <2>17 DEF ReadExpiries, Goto, Passed, Snapshot, AtAccount, Notices
  <2>18. ASSUME NEW u \in Users, DropOrphan(u) PROVE Snapshot'
    BY <2>0, <2>18 DEF DropOrphan, Put, Passed, Snapshot, AtAccount, Notices
  <2>19. ASSUME NEW u \in Users, Take(u) PROVE Snapshot'
    BY <2>0, <2>19 DEF Take, Goto, Put, Passed, Snapshot, AtAccount, Notices
  <2>20. ASSUME NotPassed PROVE Snapshot'
    BY <2>0, <2>20 DEF NotPassed, Goto, Put, Passed, Snapshot, AtAccount, Notices
  <2>21. ASSUME AlreadyExpired PROVE Snapshot'
    BY <2>0, <2>21 DEF AlreadyExpired, Goto, Put, Passed, Snapshot, AtAccount, Notices
  <2>22. ASSUME JustExpired PROVE Snapshot'
    BY <2>0, <2>22 DEF JustExpired, Goto, Passed, Snapshot, AtAccount, Notices
  <2>23. ASSUME Act PROVE Snapshot'
    BY <2>0, <2>23 DEF Act, Goto, Passed, Snapshot, AtAccount, Notices
  <2>24. ASSUME Store PROVE Snapshot'
    BY <2>0, <2>24 DEF Store, Goto, Put, Passed, Snapshot, AtAccount, Notices
  <2>25. ASSUME Notify PROVE Snapshot'
    BY <2>0, <2>25 DEF Notify, Goto, Passed, Snapshot, AtAccount, Notices
  <2>26. ASSUME EndTick PROVE Snapshot'
    BY <2>0, <2>26 DEF EndTick, Goto, Passed, Snapshot, AtAccount, Notices
  <2>27. CASE UNCHANGED vars
    BY <2>27 DEF Snapshot, Passed
  <2> QED
    BY <2>1, <2>2, <2>3, <2>4, <2>5, <2>6, <2>7, <2>8, <2>9, <2>10, <2>11, <2>12, <2>13,
       <2>14, <2>15, <2>16, <2>17, <2>18, <2>19, <2>20, <2>21, <2>22, <2>23, <2>24, <2>25,
       <2>26, <2>27
       DEF Next, checkUsers, Loop
<1> QED
  BY <1>1, <1>2, TypeCorrect, PTL DEF Spec

\* For any accounts, settings, edits, failures and crashes the daemon disables or
\* deletes an account only if the expiry stored at that moment has passed, or was
\* edited while the tick ran (user-d.go:102, 153-173).
THEOREM ActsOnStored == Spec => ActsOnWhatIsStored
<1>1. ASSUME TypeOK, Snapshot, [Next]_vars
      PROVE  [\A u \in Users :
                 (DaemonMoves /\ account'[u] # account[u] /\ u \notin edited)
                 => expiry[u] # None /\ expiry[u].at < now]_vars
  <2> SUFFICES ASSUME NEW u \in Users, DaemonMoves, account'[u] # account[u], u \notin edited
               PROVE  expiry[u] # None /\ expiry[u].at < now
    OBVIOUS
  <2> USE <1>1 DEF jellyfin, client, daemon, notices, vars
  <2>1. Act
    BY DEF Next, checkUsers, Loop, DaemonMoves, NextDay, CacheExpires, PageSyncs, SyncEnds,
       SyncFails, Configure, Restart, CreateUser, StoreExpiry, RemoveExpiry, DeleteUsers,
       DeletedInJellyfin, ExtendExpiry, EnableDisableUsers, GetUsers, Joined, ReadExpiries,
       DropOrphan, Take, NotPassed, AlreadyExpired, JustExpired, Store, Notify, EndTick
  <2>2. u = cur /\ tick = "act"
    BY <2>1 DEF Act, TypeOK, TablesTyped
  <2>3. expiry[u] = seen[u] /\ Passed(seen[u]) /\ seen[u] # None
    BY <2>2 DEF Snapshot, TypeOK, DaemonTyped
  <2>4. seen[u].at \in 0..MaxAt /\ now \in 0..MaxTime
    BY <2>3 DEF TypeOK, DaemonTyped, TablesTyped, Expiry
  <2> QED
    BY <2>3, <2>4, UserExpiryAssumption DEF Passed, MaxAt
<1> QED
  BY <1>1, TypeCorrect, SnapshotHolds, PTL DEF Spec, ActsOnWhatIsStored
-----------------------------------------------------------------------------
(* What the daemon drops *)

\* Without such overlaps the lists stay complete: a signup makes the cached one out
\* of date, and whoever waits for a sync gets its answer.
LEMMA ListsHold == ASSUME Overlap = FALSE PROVE Spec => []ListsAreComplete
<1> USE UserExpiryAssumption
<1>1. Init => ListsAreComplete
  BY DEF Init, ListsAreComplete, Listed, AtAccount, Notices
<1>2. ASSUME TypeOK, ListsAreComplete, [Next]_vars PROVE ListsAreComplete'
  <2> USE <1>2 DEF jellyfin, client, daemon, notices, vars
  <2>0. /\ queue \subseteq Users /\ edited \subseteq Users /\ signup \subseteq Users
        /\ account \in [Users -> States]
        /\ expiry \in [Users -> Expiry \union {None}]
        /\ tick \in AtAccount => cur \in Users
    BY DEF TypeOK, TablesTyped, ClientTyped, DaemonTyped, NoticesTyped, AtAccount
  <2>1. ASSUME NextDay PROVE ListsAreComplete'
    BY <2>0, <2>1 DEF NextDay, ListsAreComplete, Listed, Present, AtAccount, Notices
  <2>2. ASSUME CacheExpires PROVE ListsAreComplete'
    BY <2>0, <2>2 DEF CacheExpires, ListsAreComplete, Listed, Present, AtAccount, Notices
  <2>3. ASSUME PageSyncs PROVE ListsAreComplete'
    BY <2>0, <2>3 DEF PageSyncs, ListsAreComplete, Listed, Present, AtAccount, Notices
  <2>4. ASSUME SyncEnds PROVE ListsAreComplete'
    BY <2>0, <2>4 DEF SyncEnds, Goto, ListsAreComplete, Listed, Present, AtAccount, Notices
  <2>5. ASSUME SyncFails PROVE ListsAreComplete'
    BY <2>0, <2>5 DEF SyncFails, Goto, ListsAreComplete, Listed, Present, AtAccount, Notices
  <2>6. ASSUME Configure PROVE ListsAreComplete'
    BY <2>0, <2>6 DEF Configure, ListsAreComplete, Listed, Present, AtAccount, Notices
  <2>7. ASSUME Restart PROVE ListsAreComplete'
    BY <2>0, <2>7 DEF Restart, Goto, ListsAreComplete, Listed, Present, AtAccount, Notices
  <2>8. ASSUME NEW u \in Users, CreateUser(u) PROVE ListsAreComplete'
    BY <2>0, <2>8 DEF CreateUser, ListsAreComplete, Listed, Present, AtAccount, Notices
  <2>9. ASSUME NEW u \in Users, StoreExpiry(u) PROVE ListsAreComplete'
    BY <2>0, <2>9 DEF StoreExpiry, Put, Mark, Give, ListsAreComplete, Listed, Present,
       AtAccount, Notices
  <2>10. ASSUME NEW u \in Users, RemoveExpiry(u) PROVE ListsAreComplete'
    BY <2>0, <2>10 DEF RemoveExpiry, Put, Mark, ListsAreComplete, Listed, Present, AtAccount,
       Notices
  <2>11. ASSUME NEW u \in Users, DeleteUsers(u) PROVE ListsAreComplete'
    BY <2>0, <2>11 DEF DeleteUsers, Mark, ListsAreComplete, Listed, Present, AtAccount, Notices
  <2>12. ASSUME NEW u \in Users, DeletedInJellyfin(u) PROVE ListsAreComplete'
    BY <2>0, <2>12 DEF DeletedInJellyfin, Mark, ListsAreComplete, Listed, Present, AtAccount,
       Notices
  <2>13. ASSUME NEW u \in Users, ExtendExpiry(u) PROVE ListsAreComplete'
    BY <2>0, <2>13 DEF ExtendExpiry, Put, Mark, Give, ListsAreComplete, Listed, Present,
       AtAccount, Notices
  <2>14. ASSUME NEW u \in Users, NEW s \in Present, EnableDisableUsers(u, s) PROVE ListsAreComplete'
    BY <2>0, <2>14 DEF EnableDisableUsers, Mark, ListsAreComplete, Listed, Present, AtAccount,
       Notices
  <2>15. ASSUME GetUsers PROVE ListsAreComplete'
    BY <2>0, <2>15 DEF GetUsers, Goto, ListsAreComplete, Listed, Present, AtAccount, Notices
  <2>16. ASSUME Joined PROVE ListsAreComplete'
    BY <2>0, <2>16 DEF Joined, Goto, ListsAreComplete, Listed, Present, AtAccount, Notices
  <2>17. ASSUME ReadExpiries PROVE ListsAreComplete'
    BY <2>0, <2>17 DEF ReadExpiries, Goto, ListsAreComplete, Listed, Present, AtAccount, Notices
  <2>18. ASSUME NEW u \in Users, DropOrphan(u) PROVE ListsAreComplete'
    BY <2>0, <2>18 DEF DropOrphan, Put, ListsAreComplete, Listed, Present, AtAccount, Notices
  <2>19. ASSUME NEW u \in Users, Take(u) PROVE ListsAreComplete'
    BY <2>0, <2>19 DEF Take, Goto, Put, ListsAreComplete, Listed, Present, AtAccount, Notices
  <2>20. ASSUME NotPassed PROVE ListsAreComplete'
    BY <2>0, <2>20 DEF NotPassed, Goto, Put, ListsAreComplete, Listed, Present, AtAccount,
       Notices
  <2>21. ASSUME AlreadyExpired PROVE ListsAreComplete'
    BY <2>0, <2>21 DEF AlreadyExpired, Goto, Put, ListsAreComplete, Listed, Present,
       AtAccount, Notices
  <2>22. ASSUME JustExpired PROVE ListsAreComplete'
    BY <2>0, <2>22 DEF JustExpired, Goto, ListsAreComplete, Listed, Present, AtAccount, Notices
  <2>23. ASSUME Act PROVE ListsAreComplete'
    BY <2>0, <2>23 DEF Act, Goto, ListsAreComplete, Listed, Present, AtAccount, Notices
  <2>24. ASSUME Store PROVE ListsAreComplete'
    BY <2>0, <2>24 DEF Store, Goto, Put, ListsAreComplete, Listed, Present, AtAccount, Notices
  <2>25. ASSUME Notify PROVE ListsAreComplete'
    BY <2>0, <2>25 DEF Notify, Goto, ListsAreComplete, Listed, Present, AtAccount, Notices
  <2>26. ASSUME EndTick PROVE ListsAreComplete'
    BY <2>0, <2>26 DEF EndTick, Goto, ListsAreComplete, Listed, Present, AtAccount, Notices
  <2>27. CASE UNCHANGED vars
    BY <2>27 DEF ListsAreComplete, Listed
  <2> QED
    BY <2>1, <2>2, <2>3, <2>4, <2>5, <2>6, <2>7, <2>8, <2>9, <2>10, <2>11, <2>12, <2>13,
       <2>14, <2>15, <2>16, <2>17, <2>18, <2>19, <2>20, <2>21, <2>22, <2>23, <2>24, <2>25,
       <2>26, <2>27
       DEF Next, checkUsers, Loop
<1> QED
  BY <1>1, <1>2, TypeCorrect, PTL DEF Spec

\* If no signup and no failing sync overlaps the daemon taking its list of users,
\* it never drops the expiry of an enabled account before acting on it, edits
\* during the tick apart (user-d.go:74-76, 133-136, 195-196).
THEOREM ServedFirst == ASSUME Overlap = FALSE PROVE Spec => ServedBeforeDropped
<1>1. ASSUME TypeOK, TypeOK', Snapshot, ListsAreComplete, [Next]_vars
      PROVE  [\A u \in Users :
                 (DaemonMoves /\ expiry[u] # None /\ expiry'[u] = None /\ account[u] = "enabled")
                 => u \in edited \/ expiry[u].done]_vars
  <2> SUFFICES ASSUME NEW u \in Users, DaemonMoves, account[u] = "enabled",
                      expiry[u] # None, expiry'[u] = None
               PROVE  u \in edited \/ expiry[u].done
    OBVIOUS
  <2> USE <1>1 DEF jellyfin, client, daemon, notices, vars
  <2>0. /\ expiry \in [Users -> Expiry \union {None}] /\ seen \in [Users -> Expiry \union {None}]
        /\ tick \in AtAccount => cur \in Users /\ seen[cur] # None
    BY DEF TypeOK, TablesTyped, DaemonTyped, AtAccount
  <2>1. \/ \E v \in Users : DropOrphan(v) \/ Take(v)
        \/ NotPassed \/ AlreadyExpired \/ Store
    BY DEF Next, checkUsers, Loop, DaemonMoves, NextDay, CacheExpires, PageSyncs, SyncEnds,
       SyncFails, Configure, Restart, CreateUser, StoreExpiry, RemoveExpiry, DeleteUsers,
       DeletedInJellyfin, ExtendExpiry, EnableDisableUsers, GetUsers, Joined, ReadExpiries,
       JustExpired, Act, Notify, EndTick
  <2>2. ASSUME NEW v \in Users, DropOrphan(v) PROVE FALSE
    BY <2>0, <2>2 DEF DropOrphan, Put, ListsAreComplete, Listed, Present
  <2>3. ASSUME NEW v \in Users, Take(v) PROVE FALSE
    <3>1. seen'[v] # None
      BY <2>3 DEF Take, Goto, TypeOK, DaemonTyped
    <3> QED
      BY <2>0, <2>3, <3>1 DEF Take, Put
  <2>4. ASSUME NotPassed PROVE FALSE
    <3>1. CASE UNCHANGED expiry
      BY <3>1
    <3>2. CASE Put(cur, seen'[cur]) /\ tick' = "reminded"
      <4>1. seen'[cur] # None
        BY <2>4, <3>2 DEF NotPassed, TypeOK, DaemonTyped, Notices
      <4> QED
        BY <2>0, <3>2, <4>1 DEF Put
    <3> QED
      BY <2>4, <3>1, <3>2 DEF NotPassed, Goto
  <2>5. CASE AlreadyExpired
    <3>1. u = cur /\ seen[cur].done /\ tick = "check"
      BY <2>0, <2>5 DEF AlreadyExpired, Put
    <3> QED
      BY <3>1 DEF Snapshot
  <2>6. CASE Store
    <3>1. u = cur /\ tick = "store"
      BY <2>0, <2>6 DEF Store, Put
    <3> QED
      BY <3>1 DEF ListsAreComplete
  <2> QED
    BY <2>1, <2>2, <2>3, <2>4, <2>5, <2>6
<1> QED
  BY <1>1, TypeCorrect, SnapshotHolds, ListsHold, PTL DEF Spec, ServedBeforeDropped
-----------------------------------------------------------------------------
(* What the daemon mails *)

\* What was sent stays noted where the daemon will look: it notes a notice in the
\* store before it sends it, and an edit, which may drop the note, also makes the
\* expiry a new one.
LEMMA NotesHold == Spec => []Noted
<1> USE UserExpiryAssumption
<1>1. Init => Noted
  BY DEF Init, Noted, SentIsNoted, NotesAreSeen, NoRepeats, AtAccount, Notices
<1>2. ASSUME TypeOK, TypeOK', Snapshot, Noted, [Next]_vars PROVE Noted'
  <2> USE <1>2 DEF jellyfin, client, daemon, notices, vars, Noted, NoRepeats
  <2>0. /\ queue \subseteq Users /\ edited \subseteq Users
        /\ now \in 0..MaxTime
        /\ seen \in [Users -> Expiry \union {None}] /\ expiry \in [Users -> Expiry \union {None}]
        /\ told \in [Users -> SUBSET Notices]
        /\ tick \in AtAccount => cur \in Users /\ cur \notin queue /\ seen[cur] # None
        /\ tick \in Places
    BY DEF TypeOK, TablesTyped, DaemonTyped, NoticesTyped, AtAccount, Snapshot
  <2>1. ASSUME NextDay PROVE Noted'
    BY <2>0, <2>1 DEF NextDay, SentIsNoted, NotesAreSeen, AtAccount, Notices
  <2>2. ASSUME CacheExpires PROVE Noted'
    BY <2>0, <2>2 DEF CacheExpires, SentIsNoted, NotesAreSeen, AtAccount, Notices
  <2>3. ASSUME PageSyncs PROVE Noted'
    BY <2>0, <2>3 DEF PageSyncs, SentIsNoted, NotesAreSeen, AtAccount, Notices
  <2>4. ASSUME SyncEnds PROVE Noted'
    BY <2>0, <2>4 DEF SyncEnds, Goto, SentIsNoted, NotesAreSeen, AtAccount, Notices
  <2>5. ASSUME SyncFails PROVE Noted'
    BY <2>0, <2>5 DEF SyncFails, Goto, SentIsNoted, NotesAreSeen, AtAccount, Notices
  <2>6. ASSUME Configure PROVE Noted'
    BY <2>0, <2>6 DEF Configure, SentIsNoted, NotesAreSeen, AtAccount, Notices
  <2>7. ASSUME Restart PROVE Noted'
    BY <2>0, <2>7 DEF Restart, Goto, SentIsNoted, NotesAreSeen, AtAccount, Notices
  <2>8. ASSUME NEW u \in Users, CreateUser(u) PROVE Noted'
    BY <2>0, <2>8 DEF CreateUser, SentIsNoted, NotesAreSeen, AtAccount, Notices
  <2>9. ASSUME NEW u \in Users, StoreExpiry(u) PROVE Noted'
    BY <2>0, <2>9 DEF StoreExpiry, Put, Mark, Forget, Give, SentIsNoted, NotesAreSeen, AtAccount, Notices
  <2>10. ASSUME NEW u \in Users, RemoveExpiry(u) PROVE Noted'
    BY <2>0, <2>10 DEF RemoveExpiry, Put, Mark, Forget, SentIsNoted, NotesAreSeen, AtAccount, Notices
  <2>11. ASSUME NEW u \in Users, DeleteUsers(u) PROVE Noted'
    BY <2>0, <2>11 DEF DeleteUsers, Mark, SentIsNoted, NotesAreSeen, AtAccount, Notices
  <2>12. ASSUME NEW u \in Users, DeletedInJellyfin(u) PROVE Noted'
    BY <2>0, <2>12 DEF DeletedInJellyfin, Mark, SentIsNoted, NotesAreSeen, AtAccount, Notices
  <2>13. ASSUME NEW u \in Users, ExtendExpiry(u) PROVE Noted'
    BY <2>0, <2>13 DEF ExtendExpiry, Put, Mark, Forget, Give, SentIsNoted, NotesAreSeen, AtAccount, Notices
  <2>14. ASSUME NEW u \in Users, NEW s \in Present, EnableDisableUsers(u, s) PROVE Noted'
    BY <2>0, <2>14 DEF EnableDisableUsers, Mark, SentIsNoted, NotesAreSeen, AtAccount, Notices
  <2>15. ASSUME GetUsers PROVE Noted'
    BY <2>0, <2>15 DEF GetUsers, Goto, SentIsNoted, NotesAreSeen, AtAccount, Notices
  <2>16. ASSUME Joined PROVE Noted'
    BY <2>0, <2>16 DEF Joined, Goto, SentIsNoted, NotesAreSeen, AtAccount, Notices
  <2>17. ASSUME ReadExpiries PROVE Noted'
    BY <2>0, <2>17 DEF ReadExpiries, Goto, SentIsNoted, NotesAreSeen, AtAccount, Notices
  <2>18. ASSUME NEW u \in Users, DropOrphan(u) PROVE Noted'
    BY <2>0, <2>18 DEF DropOrphan, Put, SentIsNoted, NotesAreSeen, AtAccount, Notices
  <2>19. ASSUME NEW u \in Users, Take(u) PROVE Noted'
    BY <2>0, <2>19 DEF Take, Goto, Put, Forget, SentIsNoted, NotesAreSeen, AtAccount, Notices
  <2>20. ASSUME NotPassed PROVE Noted'
    <3>1. CASE ~ReminderDue(seen[cur])
      BY <2>0, <2>20, <3>1 DEF NotPassed, Goto, SentIsNoted, NotesAreSeen, AtAccount, Notices
    <3>2. CASE ReminderDue(seen[cur])
      <4> DEFINE note == [seen[cur] EXCEPT !.notified = now]
      <4>1. /\ tick = "check" /\ tick' = "reminded" /\ seen[cur].notified < now
            /\ seen' = [seen EXCEPT ![cur] = note] /\ seen'[cur] = note
            /\ expiry' = [expiry EXCEPT ![cur] = note] /\ expiry'[cur] = note
            /\ UNCHANGED <<now, cur, queue, edited, told, again>>
            /\ cur \in Users /\ cur \notin queue /\ seen[cur] \in Expiry
        BY <2>0, <2>20, <3>2 DEF NotPassed, Goto, Put, ReminderDue, AtAccount
      <4>2. note.notified = now /\ note.done = seen[cur].done
        BY <4>1 DEF Expiry
      <4>3. told[cur] = {} \/ (seen[cur] = expiry[cur] /\ expiry[cur] # None)
        BY <2>0, <4>1 DEF NotesAreSeen, AtAccount
      <4>4. "reminded" \notin told[cur] /\ "deleted" \notin told[cur]
        BY <2>0, <4>1, <4>3 DEF SentIsNoted
      <4>5. SentIsNoted'
        <5> HIDE DEF note
        <5> QED
          BY <2>0, <4>1, <4>2, <4>3, <4>4 DEF SentIsNoted
      <4>6. NotesAreSeen'
        <5> HIDE DEF note
        <5> QED
          BY <2>0, <4>1, <4>4 DEF NotesAreSeen, AtAccount, Notices
      <4> QED
        BY <4>1, <4>5, <4>6
    <3> QED
      BY <3>1, <3>2
  <2>21. ASSUME AlreadyExpired PROVE Noted'
    BY <2>0, <2>21 DEF AlreadyExpired, Goto, Put, SentIsNoted, NotesAreSeen, AtAccount, Notices
  <2>22. ASSUME JustExpired PROVE Noted'
    BY <2>0, <2>22 DEF JustExpired, Goto, SentIsNoted, NotesAreSeen, AtAccount, Notices
  <2>23. ASSUME Act PROVE Noted'
    BY <2>0, <2>23 DEF Act, Goto, SentIsNoted, NotesAreSeen, AtAccount, Notices
  <2>24. ASSUME Store PROVE Noted'
    <3>1. /\ tick = "store" /\ tick' = IF ToDelete THEN "deleted" ELSE "disabled"
          /\ UNCHANGED <<now, cur, queue, edited, told, again>>
          /\ cur \in Users /\ cur \notin queue /\ seen[cur] \in Expiry
      BY <2>0, <2>24 DEF Store, Goto, AtAccount
    <3>2. told[cur] = {} \/ (seen[cur] = expiry[cur] /\ expiry[cur] # None)
      BY <2>0, <3>1 DEF NotesAreSeen, AtAccount
    <3>3. "deleted" \notin told[cur] /\ ("disabled" \in told[cur] => seen[cur].done)
      BY <2>0, <3>1, <3>2 DEF SentIsNoted
    <3>4. tick' \notin told[cur]
      BY <3>1, <3>3 DEF ToDelete
    <3>5. CASE Put(cur, None) /\ UNCHANGED seen
      <4>1. SentIsNoted'
        BY <2>0, <3>1, <3>5 DEF SentIsNoted, Put
      <4>2. NotesAreSeen'
        BY <2>0, <3>1, <3>4, <3>5 DEF NotesAreSeen, AtAccount, Notices, Put
      <4> QED
        BY <3>1, <4>1, <4>2
    <3>6. CASE /\ ~(Period = 0 \/ seen[cur].done)
               /\ seen' = [seen EXCEPT ![cur].done = TRUE, ![cur].notified = now]
               /\ Put(cur, seen'[cur])
      <4> DEFINE note == [seen[cur] EXCEPT !.done = TRUE, !.notified = now]
      <4>1. /\ tick' = "disabled"
            /\ seen' = [seen EXCEPT ![cur] = note] /\ seen'[cur] = note
            /\ expiry' = [expiry EXCEPT ![cur] = note] /\ expiry'[cur] = note
        BY <2>0, <3>1, <3>6 DEF Put, Period, ToDelete
      <4>2. note.notified = now /\ note.done
        BY <3>1 DEF Expiry
      <4>3. SentIsNoted'
        <5> HIDE DEF note
        <5> QED
          BY <2>0, <3>1, <3>3, <4>1, <4>2 DEF SentIsNoted
      <4>4. NotesAreSeen'
        <5> HIDE DEF note
        <5> QED
          BY <2>0, <3>1, <3>4, <4>1, <4>2 DEF NotesAreSeen, AtAccount, Notices
      <4> QED
        BY <3>1, <4>3, <4>4
    <3> QED
      BY <2>24, <3>5, <3>6 DEF Store
  <2>25. ASSUME Notify PROVE Noted'
    <3>1. /\ tick \in Notices /\ tick' = "loop" /\ cur \in Users /\ cur \notin queue
          /\ UNCHANGED <<now, cur, queue, edited, seen, expiry>>
      BY <2>0, <2>25 DEF Notify, Goto, AtAccount
    <3>2. CASE UNCHANGED notices
      BY <2>0, <3>1, <3>2 DEF SentIsNoted, NotesAreSeen, AtAccount, Notices
    <3>3. CASE /\ cur \notin edited /\ ~(tick = "reminded" /\ seen[cur].notified # now)
               /\ again' = (again \/ tick \in told[cur])
               /\ told' = [told EXCEPT ![cur] = @ \union {tick}]
      <4>1. ~again'
        BY <3>1, <3>3 DEF NotesAreSeen
      <4>2. \A u \in Users : u # cur => told'[u] = told[u]
        BY <2>0, <3>3
      <4>3. told'[cur] = told[cur] \union {tick}
        BY <2>0, <3>1, <3>3
      <4>4. /\ tick = "reminded" => expiry[cur] # None /\ expiry[cur].notified = now
            /\ tick = "disabled" => expiry[cur] = None \/ expiry[cur].done
            /\ tick = "deleted" => expiry[cur] = None
        BY <2>0, <3>1, <3>3 DEF NotesAreSeen, AtAccount
      <4>5. SentIsNoted'
        BY <3>1, <4>2, <4>3, <4>4 DEF SentIsNoted, Notices
      <4>6. NotesAreSeen'
        BY <2>0, <3>1, <4>2 DEF NotesAreSeen, AtAccount, Notices
      <4> QED
        BY <4>1, <4>5, <4>6
    <3> QED
      BY <2>25, <3>2, <3>3 DEF Notify
  <2>26. ASSUME EndTick PROVE Noted'
    BY <2>0, <2>26 DEF EndTick, Goto, SentIsNoted, NotesAreSeen, AtAccount, Notices
  <2>27. CASE UNCHANGED vars
    BY <2>27 DEF SentIsNoted, NotesAreSeen
  <2> QED
    BY <2>1, <2>2, <2>3, <2>4, <2>5, <2>6, <2>7, <2>8, <2>9, <2>10, <2>11, <2>12, <2>13,
       <2>14, <2>15, <2>16, <2>17, <2>18, <2>19, <2>20, <2>21, <2>22, <2>23, <2>24, <2>25,
       <2>26, <2>27
       DEF Next, checkUsers, Loop
<1> QED
  BY <1>1, <1>2, TypeCorrect, SnapshotHolds, PTL DEF Spec

\* For any accounts, settings, edits, failures and crashes no notice about one expiry
\* is sent twice, reminders counted by the day (user-d.go:104-122, 179-223; timer.go:46-92).
THEOREM NoticesAreSentOnce == Spec => []NoRepeats
<1>1. Noted => NoRepeats
  BY DEF Noted
<1> QED
  BY <1>1, NotesHold, PTL

(***************************************************************************)
(*                                                                         *)
(* Queries.                                                                *)
(*                                                                         *)
(***************************************************************************)
\* What a request finds in the log, or among Jellyfin's entries, as a set; the order that has
\* the newest first; and how many come before one of them then.
FoundSet(l, activities, ents, req) ==
    IF l = "log" THEN {a \in activities : generateActivitiesQuery(req, a)} ELSE ents
NewestFirst(l, S) ==
    IF l = "log" THEN ByKey(S, [a \in S |-> a["time"]], [a \in S |-> a.id], FALSE)
    ELSE ByKey(S, [a \in S |-> a["id"]], [a \in S |-> a.id], FALSE)
IsNewestFirst(l, req) ==
    l = "jellyfin" \/ (l = "log" /\ req.field = "time" /\ ~req.ascending)

Before(S, order, x) == {y \in S : <<y, x>> \in order}
Rank(S, order, x) == Cardinality(Before(S, order, x))
Ahead(l, S, x) == Rank(S, NewestFirst(l, S), x)

\* How many entries the pages loaded so far may have.
Upto(w) == w.limit * (w.page + 1)
Showing(w) == w # Idle /\ w.at \in {"more", "done"}
Bound == MaxActivities + Len(AllAccounts)

IsWalk(w) == w = [at |-> w.at, req |-> w.req, limit |-> w.limit, page |-> w.page, got |-> w.got,
                  begun |-> w.begun, moved |-> w.moved, cut |-> w.cut]
WalkTyped(l, given, w) ==
    /\ IsWalk(w) /\ w.at \in {"more", "done", "locked"} /\ w.limit \in Limits /\ w.page \in Nat
    /\ w.got \in Seq(ToSet(w.got)) /\ w.moved \in BOOLEAN /\ w.cut \in BOOLEAN
    /\ l # "users" => w.req \in LogRequests
    /\ IsNewestFirst(l, w.req) => w.begun \subseteq given
    /\ w.page * w.limit <= Bound
    /\ w.at = "more" => Upto(w) <= Bound

\* The lists are of Jellyfin's accounts, and of activities and entries that each have an id
\* of their own that was given; a walk and housekeeping go by such ids, and no walk has
\* loaded more full pages than fit.
ListsOfWhatThereIs ==
    /\ list \in {"users", "log", "jellyfin"} /\ sorted \in BOOLEAN
    /\ accounts \subseteq ToSet(AllAccounts)
    /\ ref \in Seq(ToSet(AllAccounts)) /\ Len(ref) <= Len(AllAccounts)
    /\ made \subseteq Ids /\ hour \in 1..MaxHour /\ changes \in 0..MaxChanges
    /\ \A a \in log : a.id \in made /\ a.time \in 1..MaxHour
    /\ \A a, b \in log : a.id = b.id => a = b
    /\ \A e \in entries : e.id \in made /\ e = [id |-> e.id]
    /\ clear = [at |-> clear.at, left |-> clear.left, cut |-> clear.cut]
    /\ clear.at \in {"idle", "old", "count", "each"} /\ clear.left \subseteq made
    /\ clear.cut \in BOOLEAN
    /\ walk # Idle => WalkTyped(list, made, walk)

\* The end of a page, as Page has it.
Lesser(m, n) == IF m < n THEN m ELSE n

\* While its list stands still, a walk has loaded the start of it, up to the pages' size,
\* and is done once that is more than the list has.
Starts(s, w) == /\ w.got = IdsOf(SubSeq(s, 1, Lesser(Upto(w), Len(s))))
                /\ w.at = "done" <=> Len(s) < Upto(w)
PagesAreTheStart == Showing(walk) /\ ~walk.moved => Starts(Found(walk.req), walk)

\* Newest first, whatever was there at first and still is, is on a page that was loaded, or
\* has as many before it as these pages may have, and there is more to load.
PassesNone(l, S, w) ==
    \A x \in S : x.id \in w.begun =>
        x.id \in ToSet(w.got) \/ (w.at = "more" /\ Ahead(l, S, x) >= Upto(w))
NothingIsPassed ==
    Showing(walk) /\ ~walk.cut /\ IsNewestFirst(list, walk.req)
        => PassesNone(list, FoundSet(list, log, entries, walk.req), walk)

\* What is to be deleted one by one is too old, or, if no admin deleted any since, has as many
\* as are to be kept that are as new and are not to be deleted.
TooOld(a) == MaxAge # 0 /\ a.time < hour - MaxAge
KeptSince(activities, left, a) ==
    {b \in activities : b.id \notin left /\ b.time >= a.time}
LeftIsSurplus ==
    clear.at = "each" => \A a \in log : a.id \in clear.left =>
        \/ TooOld(a)
        \/ /\ KeepCount # 0
           /\ clear.cut \/ Cardinality(KeptSince(log, clear.left, a)) >= KeepCount

(***************************************************************************)
(* Arrangements.                                                           *)
(***************************************************************************)
IsOrder(S, order) ==
    /\ \A x \in S : <<x, x>> \notin order
    /\ \A x, y \in S : x # y => <<x, y>> \in order \/ <<y, x>> \in order
    /\ \A x, y, z \in S : <<x, y>> \in order /\ <<y, z>> \in order => <<x, z>> \in order

\* What is before another has fewer before it.
LEMMA RankGrows ==
    ASSUME NEW S, IsFiniteSet(S), NEW order, IsOrder(S, order),
           NEW x \in S, NEW y \in S, <<x, y>> \in order
    PROVE  Rank(S, order, x) < Rank(S, order, y)
<1>1. Before(S, order, x) \in SUBSET Before(S, order, y)
  BY DEF Before, IsOrder
<1>2. x \in Before(S, order, y) /\ x \notin Before(S, order, x)
  BY DEF Before, IsOrder
<1>3. Before(S, order, y) \in SUBSET S
  BY DEF Before
<1>4. IsFiniteSet(Before(S, order, y))
  BY <1>3, FS_Subset
<1>5. IsFiniteSet(Before(S, order, x))
  BY <1>1, <1>4, FS_Subset
<1>6. Cardinality(Before(S, order, x)) <= Cardinality(Before(S, order, y))
  BY <1>1, <1>4, FS_Subset
<1>7. Cardinality(Before(S, order, x)) # Cardinality(Before(S, order, y))
  BY <1>1, <1>2, <1>4, FS_Subset
<1>8. Cardinality(Before(S, order, x)) \in Nat /\ Cardinality(Before(S, order, y)) \in Nat
  BY <1>4, <1>5, FS_CardinalityType
<1> QED
  BY <1>6, <1>7, <1>8 DEF Rank

LEMMA RankBound ==
    ASSUME NEW S, IsFiniteSet(S), NEW order, IsOrder(S, order), NEW x \in S
    PROVE  /\ Cardinality(S) \in Nat
           /\ Rank(S, order, x) \in Nat
           /\ Rank(S, order, x) < Cardinality(S)
<1>1. Before(S, order, x) \in SUBSET S
  BY DEF Before
<1>2. x \notin Before(S, order, x)
  BY DEF Before, IsOrder
<1>3. /\ IsFiniteSet(Before(S, order, x))
      /\ Cardinality(Before(S, order, x)) <= Cardinality(S)
      /\ Cardinality(Before(S, order, x)) # Cardinality(S)
  BY <1>1, <1>2, FS_Subset
<1>4. Cardinality(Before(S, order, x)) \in Nat /\ Cardinality(S) \in Nat
  BY <1>3, FS_CardinalityType
<1> QED
  BY <1>3, <1>4 DEF Rank

\* Every place up to their number is the rank of one of them.
LEMMA EveryRank ==
    ASSUME NEW S, IsFiniteSet(S), NEW order, IsOrder(S, order),
           NEW k \in 0..(Cardinality(S) - 1)
    PROVE  \E x \in S : Rank(S, order, x) = k
<1> DEFINE n == Cardinality(S)
           f == [x \in S |-> Rank(S, order, x)]
           T == 0..(n - 1)
<1>1. n \in Nat
  BY FS_CardinalityType
<1>2. IsFiniteSet(T) /\ Cardinality(T) = n
  <2>1. n - 1 \in Int /\ (0 > n - 1 <=> n = 0)
    BY <1>1
  <2>2. IsFiniteSet(T) /\ Cardinality(T) = IF 0 > n - 1 THEN 0 ELSE (n - 1) - 0 + 1
    BY <2>1, FS_Interval
  <2> HIDE DEF n, T
  <2> QED
    BY <1>1, <2>1, <2>2
<1>3. \A x \in S : Rank(S, order, x) \in T
  <2> SUFFICES ASSUME NEW x \in S PROVE Rank(S, order, x) \in T
    OBVIOUS
  <2>1. Rank(S, order, x) \in Nat /\ Rank(S, order, x) < n
    BY RankBound
  <2> QED
    BY <1>1, <2>1
<1>4. \A x, y \in S : Rank(S, order, x) = Rank(S, order, y) => x = y
  <2> SUFFICES ASSUME NEW x \in S, NEW y \in S, x # y,
                      Rank(S, order, x) = Rank(S, order, y)
               PROVE  FALSE
    OBVIOUS
  <2>1. <<x, y>> \in order \/ <<y, x>> \in order
    BY DEF IsOrder
  <2>2. Rank(S, order, x) \in Nat
    BY RankBound
  <2> QED
    BY <2>1, <2>2, RankGrows
<1>5. f \in Injection(S, T)
  BY <1>3, <1>4 DEF Injection, IsInjective
<1>6. f \in Surjection(S, T)
  <2> HIDE DEF f, T, n
  <2> QED
    BY <1>2, <1>5, FS_Injection DEF n
<1>7. k \in T
  OBVIOUS
<1>8. PICK x \in S : f[x] = k
  <2> HIDE DEF f, T
  <2> QED
    BY <1>6, <1>7 DEF Surjection
<1> QED
  BY <1>8

\* A set has each of its members once in its arrangement, at the place after those before it.
LEMMA Arrangement ==
    ASSUME NEW S, IsFiniteSet(S), NEW order, IsOrder(S, order)
    PROVE  /\ Cardinality(S) \in Nat
           /\ Arranged(S, order) \in Seq(S)
           /\ Len(Arranged(S, order)) = Cardinality(S)
           /\ \A k \in 1..Cardinality(S) : /\ Arranged(S, order)[k] \in S
                                           /\ Rank(S, order, Arranged(S, order)[k]) = k - 1
           /\ \A x \in S : /\ Rank(S, order, x) \in Nat
                           /\ Rank(S, order, x) < Cardinality(S)
                           /\ Arranged(S, order)[Rank(S, order, x) + 1] = x
<1> DEFINE n == Cardinality(S)
           s == Arranged(S, order)
<1>1. n \in Nat
  BY FS_CardinalityType
<1>2. s = [k \in 1..n |-> CHOOSE x \in S : Rank(S, order, x) = k - 1]
  BY DEF Arranged, Rank, Before
<1>3. ASSUME NEW k \in 1..n PROVE s[k] \in S /\ Rank(S, order, s[k]) = k - 1
  <2>1. k - 1 \in 0..(n - 1)
    BY <1>1
  <2>2. \E x \in S : Rank(S, order, x) = k - 1
    BY <2>1, EveryRank
  <2>3. s[k] = CHOOSE x \in S : Rank(S, order, x) = k - 1
    BY <1>2
  <2> HIDE DEF s
  <2> QED
    BY <2>2, <2>3
<1>4. DOMAIN s = 1..n
  BY <1>2
<1>5. s \in [1..n -> S]
  <2>1. s = [k \in 1..n |-> s[k]]
    BY <1>2
  <2> HIDE DEF s, n
  <2> QED
    BY <1>3, <2>1
<1>6. s \in Seq(S) /\ Len(s) = n
  <2> HIDE DEF s, n
  <2> QED
    BY <1>1, <1>5
<1>7. ASSUME NEW x \in S
      PROVE  Rank(S, order, x) \in Nat /\ Rank(S, order, x) < n
             /\ s[Rank(S, order, x) + 1] = x
  <2> DEFINE r == Rank(S, order, x)
             y == s[r + 1]
  <2>1. r \in Nat /\ r < n
    BY RankBound
  <2>2. r + 1 \in 1..n
    <3> HIDE DEF r, n
    <3> QED
      BY <1>1, <2>1
  <2>3. y \in S /\ Rank(S, order, y) = (r + 1) - 1
    <3> HIDE DEF r, n, s
    <3> QED
      BY <1>3, <2>2
  <2>4. Rank(S, order, y) = r
    <3> HIDE DEF r, y
    <3> QED
      BY <2>1, <2>3
  <2>5. y = x
    <3> SUFFICES ASSUME y # x PROVE FALSE
      OBVIOUS
    <3>1. <<x, y>> \in order \/ <<y, x>> \in order
      BY <2>3 DEF IsOrder
    <3>2. Rank(S, order, x) < Rank(S, order, y) \/ Rank(S, order, y) < Rank(S, order, x)
      <4> HIDE DEF y
      <4> QED
        BY <2>3, <3>1, RankGrows
    <3> HIDE DEF y
    <3> QED
      BY <2>1, <2>4, <3>2
  <2> QED
    BY <2>1, <2>5
<1> HIDE DEF n, s
<1>8. \A k \in 1..n : s[k] \in S /\ Rank(S, order, s[k]) = k - 1
  BY <1>3
<1>9. \A x \in S : /\ Rank(S, order, x) \in Nat
                   /\ Rank(S, order, x) < n
                   /\ s[Rank(S, order, x) + 1] = x
  BY <1>7
<1> QED
  BY <1>1, <1>6, <1>8, <1>9 DEF n, s

\* So it has what the set has.
LEMMA ArrangementOf ==
    ASSUME NEW S, IsFiniteSet(S), NEW order, IsOrder(S, order)
    PROVE  ToSet(Arranged(S, order)) = S
<1> DEFINE s == Arranged(S, order)
           n == Cardinality(S)
<1>1. s \in Seq(S) /\ Len(s) = n /\ n \in Nat
  BY Arrangement
<1>2. DOMAIN s = 1..n
  <2> HIDE DEF s, n
  <2> QED
    BY <1>1
<1>3. ASSUME NEW x \in S PROVE x \in ToSet(s)
  <2> DEFINE r == Rank(S, order, x)
  <2>1. r \in Nat /\ r < n /\ s[r + 1] = x
    BY Arrangement
  <2>2. r + 1 \in DOMAIN s
    <3> HIDE DEF r, s, n
    <3> QED
      BY <1>1, <1>2, <2>1
  <2> HIDE DEF r, s
  <2> QED
    BY <2>1, <2>2 DEF ToSet
<1>4. \A k \in 1..n : s[k] \in S
  BY Arrangement
<1> HIDE DEF s, n
<1>5. ToSet(s) \subseteq S
  BY <1>2, <1>4 DEF ToSet
<1> QED
  BY <1>3, <1>5 DEF s

\* By numbers, and equals by numbers that differ, is an order.
LEMMA KeysOrder ==
    ASSUME NEW S, NEW key, NEW place, NEW up \in BOOLEAN,
           \A x \in S : key[x] \in Int /\ place[x] \in Int,
           \A x, y \in S : place[x] = place[y] => x = y
    PROVE  IsOrder(S, ByKey(S, key, place, up))
<1> DEFINE order == ByKey(S, key, place, up)
<1>1. \A x, y \in S : <<x, y>> \in order <=>
          IF key[x] = key[y] THEN place[x] < place[y] ELSE (key[x] < key[y]) = up
  BY DEF ByKey
<1> HIDE DEF order
<1>2. \A x \in S : <<x, x>> \notin order
  BY <1>1
<1>3. ASSUME NEW x \in S, NEW y \in S, x # y
      PROVE  <<x, y>> \in order \/ <<y, x>> \in order
  <2>1. /\ key[x] \in Int /\ key[y] \in Int /\ place[x] \in Int /\ place[y] \in Int
        /\ place[x] # place[y]
    BY <1>3
  <2> QED
    BY <1>1, <2>1
<1>4. ASSUME NEW x \in S, NEW y \in S, NEW z \in S, <<x, y>> \in order, <<y, z>> \in order
      PROVE  <<x, z>> \in order
  <2>1. /\ key[x] \in Int /\ key[y] \in Int /\ key[z] \in Int
        /\ place[x] \in Int /\ place[y] \in Int /\ place[z] \in Int
    OBVIOUS
  <2>2. IF key[x] = key[y] THEN place[x] < place[y] ELSE (key[x] < key[y]) = up
    BY <1>1, <1>4
  <2>3. IF key[y] = key[z] THEN place[y] < place[z] ELSE (key[y] < key[z]) = up
    BY <1>1, <1>4
  <2>4. IF key[x] = key[z] THEN place[x] < place[z] ELSE (key[x] < key[z]) = up
    BY <2>1, <2>2, <2>3
  <2> QED
    BY <1>1, <2>4
<1> QED
  BY <1>2, <1>3, <1>4 DEF IsOrder, order

(***************************************************************************)
(* What a request finds is a list, and no longer than there is room for.   *)
(***************************************************************************)
IsList(s, n) == n \in Nat /\ s = [k \in 1..n |-> s[k]]

LEMMA ListsAreSequences ==
    ASSUME NEW s, NEW n, IsList(s, n)
    PROVE  n \in Nat /\ DOMAIN s = 1..n /\ Len(s) = n /\ s \in Seq(ToSet(s))
<1>1. n \in Nat /\ s = [k \in 1..n |-> s[k]]
  BY DEF IsList
<1>2. DOMAIN s = 1..n
  BY <1>1
<1>3. \A k \in 1..n : s[k] \in ToSet(s)
  BY <1>2 DEF ToSet
<1>4. s \in [1..n -> ToSet(s)]
  BY <1>1, <1>3
<1> QED
  BY <1>1, <1>2, <1>4

LEMMA SequencesAreLists ==
    ASSUME NEW T, NEW s \in Seq(T)
    PROVE  IsList(s, Len(s)) /\ DOMAIN s = 1..Len(s) /\ Len(s) \in Nat
BY DEF IsList

LEMMA ArrangedIsList ==
    ASSUME NEW S, IsFiniteSet(S), NEW order
    PROVE  IsList(Arranged(S, order), Cardinality(S))
<1> DEFINE s == Arranged(S, order)
           n == Cardinality(S)
<1>1. n \in Nat
  BY FS_CardinalityType
<1>2. s = [k \in 1..n |-> CHOOSE x \in S : Rank(S, order, x) = k - 1]
  BY DEF Arranged, Rank, Before
<1>3. s = [k \in 1..n |-> s[k]]
  BY <1>2
<1> QED
  BY <1>1, <1>3 DEF IsList

LEMMA ThoseAreList ==
    ASSUME NEW s, NEW order, NEW n, IsList(order, n)
    PROVE  IsList(Those(s, order), n)
<1>1. DOMAIN order = 1..n /\ n \in Nat
  BY ListsAreSequences
<1> QED
  BY <1>1 DEF Those, IsList

LEMMA ReverseIsList ==
    ASSUME NEW s, NEW n, IsList(s, n)
    PROVE  IsList(Reverse(s), n)
<1>1. Len(s) = n /\ n \in Nat
  BY ListsAreSequences
<1> QED
  BY <1>1 DEF Reverse, IsList

LEMMA PlacesOf ==
    ASSUME NEW s, NEW n, IsList(s, n), NEW I \in SUBSET DOMAIN s
    PROVE  /\ IsFiniteSet(DOMAIN s) /\ Cardinality(DOMAIN s) = n
           /\ IsFiniteSet(I) /\ Cardinality(I) <= n
<1>1. n \in Nat /\ DOMAIN s = 1..n
  BY ListsAreSequences
<1>2. IsFiniteSet(1..n) /\ Cardinality(1..n) = IF 1 > n THEN 0 ELSE n - 1 + 1
  BY <1>1, FS_Interval
<1>3. Cardinality(1..n) = n
  BY <1>1, <1>2
<1> QED
  BY <1>1, <1>2, <1>3, FS_Subset

LEMMA OnlyThoseAreList ==
    ASSUME NEW s, NEW n, IsList(s, n), NEW I \in SUBSET DOMAIN s
    PROVE  IsList(OnlyThose(s, I), Cardinality(I)) /\ Cardinality(I) <= n
BY PlacesOf, ArrangedIsList, ThoseAreList DEF OnlyThose

LEMMA SortIsList ==
    ASSUME NEW us, NEW n, IsList(us, n), NEW field, NEW ascending
    PROVE  IsList(Sort(us, field, ascending), n)
<1> DEFINE D == DOMAIN us
           order == Arranged(D, ByKey(D, [i \in D |-> Key(field, us[i])],
                                      [i \in D |-> i], TRUE))
           up == Those(us, order)
<1>1. IsFiniteSet(D) /\ Cardinality(D) = n
  BY PlacesOf
<1>2. IsList(order, n)
  BY <1>1, ArrangedIsList
<1>3. IsList(up, n)
  <2> HIDE DEF order
  <2> QED
    BY <1>2, ThoseAreList
<1>4. Sort(us, field, ascending) = IF ascending THEN up ELSE Reverse(up)
  BY DEF Sort
<1> HIDE DEF up
<1>5. IsList(Reverse(up), n)
  BY <1>3, ReverseIsList
<1> QED
  BY <1>3, <1>4, <1>5

LEMMA FilterIsList ==
    ASSUME NEW us, NEW n, IsList(us, n), NEW req
    PROVE  \E m \in 0..n : IsList(Filter(us, req), m)
<1> DEFINE I == {i \in DOMAIN us : Meets(req, us[i])}
<1>1. I \in SUBSET DOMAIN us
  OBVIOUS
<1>2. Filter(us, req) = OnlyThose(us, I)
  BY DEF Filter
<1> HIDE DEF I
<1>3. IsList(OnlyThose(us, I), Cardinality(I)) /\ Cardinality(I) <= n
  BY <1>1, OnlyThoseAreList
<1>4. Cardinality(I) \in Nat /\ n \in Nat
  BY <1>3 DEF IsList
<1>5. Cardinality(I) \in 0..n
  BY <1>3, <1>4
<1> QED
  BY <1>2, <1>3, <1>5

LEMMA FoundUsersAreList ==
    ASSUME NEW us, NEW n, IsList(us, n), NEW req
    PROVE  \E m \in 0..n : IsList(FoundUsers(us, req), m)
<1>1. PICK m \in 0..n : IsList(Filter(us, req), m)
  BY FilterIsList
<1>2. IsList(Sort(Filter(us, req), req.field, req.ascending), m)
  BY <1>1, SortIsList
<1>3. IsList(Reverse(Filter(us, req)), m)
  BY <1>1, ReverseIsList
<1> QED
  BY <1>1, <1>2, <1>3 DEF FoundUsers

\* Keys are as many as things that have them, at most.
LEMMA KeyedAreFew ==
    ASSUME NEW S, NEW m \in Nat, \A x \in S : x.id \in 1..m,
           \A x, y \in S : x.id = y.id => x = y
    PROVE  IsFiniteSet(S) /\ Cardinality(S) \in Nat /\ Cardinality(S) <= m
<1> DEFINE f == [x \in S |-> x.id]
           T == 1..m
<1>1. IsFiniteSet(T) /\ Cardinality(T) = m
  <2>1. IsFiniteSet(1..m) /\ Cardinality(1..m) = IF 1 > m THEN 0 ELSE m - 1 + 1
    BY FS_Interval
  <2> QED
    BY <2>1
<1>2. f \in Injection(S, T)
  BY DEF Injection, IsInjective
<1>3. IsFiniteSet(S) /\ Cardinality(S) <= Cardinality(T)
  <2> HIDE DEF f, T
  <2> QED
    BY <1>1, <1>2, FS_Injection
<1> QED
  BY <1>1, <1>3, FS_CardinalityType

LEMMA LogIsFinite ==
    ASSUME ListsOfWhatThereIs
    PROVE  /\ IsFiniteSet(log) /\ Cardinality(log) \in Nat /\ Cardinality(log) <= MaxActivities
           /\ IsFiniteSet(entries) /\ Cardinality(entries) \in Nat
           /\ Cardinality(entries) <= MaxActivities
<1>1. MaxActivities \in Nat
  BY QueriesAssumption
<1>2. \A a \in log : a.id \in 1..MaxActivities
  BY DEF ListsOfWhatThereIs, Ids
<1>3. \A a, b \in log : a.id = b.id => a = b
  BY DEF ListsOfWhatThereIs
<1>4. \A e \in entries : e.id \in 1..MaxActivities
  BY DEF ListsOfWhatThereIs, Ids
<1>5. \A e, f \in entries : e.id = f.id => e = f
  BY DEF ListsOfWhatThereIs
<1>6. IsFiniteSet(log) /\ Cardinality(log) \in Nat /\ Cardinality(log) <= MaxActivities
  BY <1>1, <1>2, <1>3, KeyedAreFew
<1>7. IsFiniteSet(entries) /\ Cardinality(entries) \in Nat
      /\ Cardinality(entries) <= MaxActivities
  BY <1>1, <1>4, <1>5, KeyedAreFew
<1> QED
  BY <1>6, <1>7

LEMMA BoundType == Len(AllAccounts) \in Nat /\ Bound \in Nat /\ MaxActivities <= Bound
                   /\ Len(AllAccounts) <= Bound
<1>1. Len(AllAccounts) \in Nat /\ MaxActivities \in Nat
  BY QueriesAssumption
<1> QED
  BY <1>1 DEF Bound

LEMMA FoundIsList ==
    ASSUME ListsOfWhatThereIs, NEW req
    PROVE  \E m \in 0..Bound : IsList(Found(req), m)
<1> DEFINE sortedRef == IF Sorts(req) THEN Sort(ref, DefaultField, TRUE) ELSE ref
<1>1. CASE list = "users"
  <2>1. IsList(ref, Len(ref)) /\ Len(ref) \in Nat /\ Len(ref) <= Len(AllAccounts)
    BY SequencesAreLists DEF ListsOfWhatThereIs
  <2>2. IsList(sortedRef, Len(ref))
    <3>1. IsList(Sort(ref, DefaultField, TRUE), Len(ref))
      BY <2>1, SortIsList
    <3> QED
      BY <2>1, <3>1
  <2>3. Found(req) = FoundUsers(sortedRef, req)
    BY <1>1 DEF Found
  <2> HIDE DEF sortedRef
  <2>4. PICK m \in 0..Len(ref) : IsList(FoundUsers(sortedRef, req), m)
    BY <2>2, FoundUsersAreList
  <2>5. m \in 0..Bound
    BY <2>1, BoundType
  <2> QED
    BY <2>3, <2>4, <2>5
<1>2. CASE list = "log"
  <2> DEFINE F == {a \in log : generateActivitiesQuery(req, a)}
  <2>1. Found(req) = FoundActivities(req)
    BY <1>2 DEF Found
  <2>2. CASE req.field \notin LogFields
    <3>1. Found(req) = <<>>
      BY <2>1, <2>2 DEF FoundActivities
    <3>2. IsList(<<>>, 0)
      BY DEF IsList
    <3>3. 0 \in 0..Bound
      BY BoundType
    <3> QED
      BY <3>1, <3>2, <3>3
  <2>3. CASE req.field \in LogFields
    <3>1. Found(req) = Arranged(F, ByKey(F, [a \in F |-> a[req.field]], [a \in F |-> a.id],
                                         req.ascending))
      BY <2>1, <2>3 DEF FoundActivities, InOrder
    <3>2. F \in SUBSET log
      OBVIOUS
    <3> HIDE DEF F
    <3>3. IsFiniteSet(F) /\ Cardinality(F) <= Cardinality(log)
      BY <3>2, LogIsFinite, FS_Subset
    <3>4. IsList(Found(req), Cardinality(F))
      BY <3>1, <3>3, ArrangedIsList
    <3>5. Cardinality(F) \in Nat
      BY <3>3, FS_CardinalityType
    <3>6. Cardinality(F) \in 0..Bound
      BY <3>3, <3>5, LogIsFinite, BoundType, QueriesAssumption
    <3> QED
      BY <3>4, <3>6
  <2> QED
    BY <2>2, <2>3
<1>3. CASE list = "jellyfin"
  <2>1. Found(req) = Arranged(entries, ByKey(entries, [a \in entries |-> a["id"]],
                                             [a \in entries |-> a.id], FALSE))
    BY <1>3 DEF Found, InOrder
  <2>2. IsList(Found(req), Cardinality(entries))
    BY <2>1, LogIsFinite, ArrangedIsList
  <2>3. Cardinality(entries) \in 0..Bound
    BY LogIsFinite, BoundType, QueriesAssumption
  <2> QED
    BY <2>2, <2>3
<1> QED
  BY <1>1, <1>2, <1>3 DEF ListsOfWhatThereIs

(***************************************************************************)
(* Pages.                                                                  *)
(***************************************************************************)
Appended(s, t) == s \o t

LEMMA IdsAreList ==
    ASSUME NEW s, NEW n, IsList(s, n)
    PROVE  IsList(IdsOf(s), n) /\ \A k \in 1..n : IdsOf(s)[k] = s[k].id
<1>1. n \in Nat /\ DOMAIN s = 1..n
  BY ListsAreSequences
<1> QED
  BY <1>1 DEF IdsOf, IsList

\* A part of a list, from after a up to b.
LEMMA PartOfList ==
    ASSUME NEW s, NEW n, IsList(s, n), NEW a \in Nat, NEW b \in Nat, b <= n
    PROVE  LET P == SubSeq(s, a + 1, b)
           IN  /\ a <= b => /\ IsList(P, b - a)
                            /\ \A k \in 1..(b - a) : P[k] = s[a + k]
               /\ b < a => IsList(P, 0)
<1> DEFINE P == SubSeq(s, a + 1, b)
<1>1. n \in Nat /\ DOMAIN s = 1..n /\ s \in Seq(ToSet(s))
  BY ListsAreSequences
<1>2. a + 1 \in Int /\ b \in Int
  OBVIOUS
<1>3. \A i \in (a + 1)..b : s[i] \in ToSet(s)
  <2> SUFFICES ASSUME NEW i \in (a + 1)..b PROVE s[i] \in ToSet(s)
    OBVIOUS
  <2>1. i \in DOMAIN s
    BY <1>1
  <2> QED
    BY <2>1 DEF ToSet
<1>4. /\ P \in Seq(ToSet(s))
      /\ Len(P) = IF a + 1 <= b THEN b - (a + 1) + 1 ELSE 0
      /\ \A i \in 1..(b - (a + 1) + 1) : P[i] = s[(a + 1) + i - 1]
  BY <1>2, <1>3, SubSeqProperties
<1>5. b - (a + 1) + 1 = b - a /\ \A i \in 1..(b - a) : (a + 1) + i - 1 = a + i
  OBVIOUS
<1> HIDE DEF P
<1>6. IsList(P, Len(P))
  BY <1>4, SequencesAreLists
<1>7. a <= b => Len(P) = b - a
  BY <1>4
<1>8. b < a => Len(P) = 0
  BY <1>4
<1>9. \A k \in 1..(b - a) : P[k] = s[a + k]
  BY <1>4, <1>5
<1>10. /\ a <= b => /\ IsList(P, b - a)
                    /\ \A k \in 1..(b - a) : P[k] = s[a + k]
       /\ b < a => IsList(P, 0)
  BY <1>6, <1>7, <1>8, <1>9
<1> QED
  BY <1>10 DEF P

LEMMA StartOfList ==
    ASSUME NEW s, NEW n, IsList(s, n), NEW b \in Nat, b <= n
    PROVE  IsList(SubSeq(s, 1, b), b) /\ \A k \in 1..b : SubSeq(s, 1, b)[k] = s[k]
<1> DEFINE A == SubSeq(s, 1, b)
<1>1. ASSUME NEW a \in Nat, a = 0 PROVE IsList(A, b) /\ \A k \in 1..b : A[k] = s[k]
  <2> DEFINE P == SubSeq(s, a + 1, b)
  <2>1. a <= b /\ b - a = b /\ a + 1 = 1
    BY <1>1
  <2>2. IsList(P, b - a) /\ \A k \in 1..(b - a) : P[k] = s[a + k]
    BY <2>1, PartOfList
  <2>3. P = A
    BY <2>1
  <2> HIDE DEF P, A
  <2>4. \A k \in 1..b : a + k = k
    BY <1>1
  <2> QED
    BY <2>1, <2>2, <2>3, <2>4
<1>2. 0 \in Nat
  OBVIOUS
<1> HIDE DEF A
<1>3. IsList(A, b) /\ \A k \in 1..b : A[k] = s[k]
  BY <1>1, <1>2
<1> QED
  BY <1>3 DEF A

LEMMA PageIsPart ==
    ASSUME NEW s, NEW n, IsList(s, n), NEW limit \in Nat \ {0}, NEW page \in Nat
    PROVE  LET start == page * limit
               end == Lesser(start + limit, n)
           IN  /\ start \in Nat /\ end \in Nat /\ end <= n /\ end <= start + limit
               /\ Page(s, limit, page) = SubSeq(s, start + 1, end)
               /\ LastPage(s, limit, page) <=> n < start + limit
<1> DEFINE start == page * limit
           end == Lesser(start + limit, n)
           P == SubSeq(s, start + 1, end)
<1>1. start \in Nat
  OBVIOUS
<1>2. n \in Nat /\ Len(s) = n
  BY ListsAreSequences
<1>3. Page(s, limit, page) = P
  BY <1>2 DEF Page, Lesser
<1> HIDE DEF start
<1>4. end \in Nat /\ end <= n /\ end <= start + limit
  BY <1>1, <1>2 DEF Lesser
<1>5. end = IF start + limit < n THEN start + limit ELSE n
  BY DEF Lesser
<1> HIDE DEF end
<1>6. /\ start <= end => IsList(P, end - start)
      /\ end < start => IsList(P, 0)
  BY <1>1, <1>4, PartOfList
<1> HIDE DEF P
<1>7. /\ start <= end => Len(P) = end - start
      /\ end < start => Len(P) = 0
  BY <1>6, ListsAreSequences
<1>8. Len(P) # limit <=> n < start + limit
  BY <1>1, <1>2, <1>4, <1>5, <1>7
<1>9. LastPage(s, limit, page) <=> n < start + limit
  BY <1>3, <1>8 DEF LastPage
<1> QED
  BY <1>1, <1>3, <1>4, <1>9 DEF start, end, P

LEMMA JoinedIs ==
    ASSUME NEW s, NEW m \in Nat, IsList(s, m), NEW t, NEW n \in Nat, IsList(t, n)
    PROVE  /\ IsList(Appended(s, t), m + n)
           /\ \A k \in 1..m : Appended(s, t)[k] = s[k]
           /\ \A k \in 1..n : Appended(s, t)[m + k] = t[k]
           /\ ToSet(s) \subseteq ToSet(Appended(s, t))
           /\ ToSet(t) \subseteq ToSet(Appended(s, t))
<1> DEFINE T == ToSet(s) \cup ToSet(t)
           j == Appended(s, t)
<1>1. /\ m \in Nat /\ DOMAIN s = 1..m /\ Len(s) = m /\ s \in Seq(ToSet(s))
      /\ n \in Nat /\ DOMAIN t = 1..n /\ Len(t) = n /\ t \in Seq(ToSet(t))
  BY ListsAreSequences
<1>2. s \in Seq(T) /\ t \in Seq(T)
  BY <1>1
<1> HIDE DEF T
<1>3. /\ s \o t \in Seq(T) /\ Len(s \o t) = m + n
      /\ \A i \in 1..(m + n) : (s \o t)[i] = IF i <= m THEN s[i] ELSE t[i - m]
  BY <1>1, <1>2, ConcatProperties
<1>4. /\ j \in Seq(T) /\ Len(j) = m + n
      /\ \A i \in 1..(m + n) : j[i] = IF i <= m THEN s[i] ELSE t[i - m]
  BY <1>3 DEF Appended
<1> HIDE DEF j
<1>5. IsList(j, m + n) /\ DOMAIN j = 1..(m + n)
  BY <1>4, SequencesAreLists
<1>6. \A k \in 1..m : j[k] = s[k] /\ k \in DOMAIN j
  BY <1>1, <1>4, <1>5
<1>7. \A k \in 1..n : j[m + k] = t[k] /\ m + k \in DOMAIN j
  <2> SUFFICES ASSUME NEW k \in 1..n PROVE j[m + k] = t[k] /\ m + k \in DOMAIN j
    OBVIOUS
  <2>1. m + k \in 1..(m + n) /\ ~(m + k <= m) /\ (m + k) - m = k
    BY <1>1
  <2> QED
    BY <1>4, <1>5, <2>1
<1>8. ToSet(s) \subseteq ToSet(j)
  BY <1>1, <1>6 DEF ToSet
<1>9. ToSet(t) \subseteq ToSet(j)
  BY <1>1, <1>7 DEF ToSet
<1> QED
  BY <1>5, <1>6, <1>7, <1>8, <1>9 DEF j

LEMMA SameLists ==
    ASSUME NEW s, NEW t, NEW n, IsList(s, n), IsList(t, n), \A k \in 1..n : s[k] = t[k]
    PROVE  s = t
BY DEF IsList

\* A page adds what the list has at its places.
LEMMA PageAdds ==
    ASSUME NEW s, NEW n, IsList(s, n), NEW limit \in Nat \ {0}, NEW page \in Nat,
           NEW got, got \in Seq(ToSet(got))
    PROVE  LET all == Appended(got, IdsOf(Page(s, limit, page)))
           IN  /\ all \in Seq(ToSet(all)) /\ ToSet(got) \subseteq ToSet(all)
               /\ \A k \in 1..n : page * limit < k /\ k <= page * limit + limit
                      => s[k].id \in ToSet(all)
<1> DEFINE start == page * limit
           end == Lesser(start + limit, n)
           P == Page(s, limit, page)
           all == Appended(got, IdsOf(P))
<1>1. start \in Nat /\ end \in Nat /\ end <= n /\ P = SubSeq(s, start + 1, end)
  BY PageIsPart
<1>2. end = IF start + limit < n THEN start + limit ELSE n
  BY DEF Lesser
<1> HIDE DEF start, end, P
<1>3. /\ start <= end => /\ IsList(P, end - start)
                         /\ \A k \in 1..(end - start) : P[k] = s[start + k]
      /\ end < start => IsList(P, 0)
  BY <1>1, PartOfList
<1> DEFINE m == IF start <= end THEN end - start ELSE 0
<1>4. IsList(P, m)
  BY <1>1, <1>3
<1>5. m \in Nat
  BY <1>4 DEF IsList
<1> HIDE DEF m
<1>6. IsList(IdsOf(P), m) /\ \A k \in 1..m : IdsOf(P)[k] = P[k].id
  BY <1>4, IdsAreList
<1>7. IsList(got, Len(got)) /\ Len(got) \in Nat
  BY SequencesAreLists
<1>8. /\ IsList(all, Len(got) + m) /\ ToSet(got) \subseteq ToSet(all)
      /\ ToSet(IdsOf(P)) \subseteq ToSet(all)
  BY <1>5, <1>6, <1>7, JoinedIs
<1>9. all \in Seq(ToSet(all))
  BY <1>8, ListsAreSequences
<1> HIDE DEF all
<1>10. ASSUME NEW k \in 1..n, start < k, k <= start + limit
       PROVE  s[k].id \in ToSet(all)
  <2>1. n \in Nat
    BY DEF IsList
  <2>2. k <= end /\ start <= end
    BY <1>1, <1>2, <1>10, <2>1
  <2>3. k - start \in 1..(end - start) /\ start + (k - start) = k
    BY <1>1, <1>10, <2>1, <2>2
  <2>4. P[k - start] = s[k]
    BY <1>3, <2>2, <2>3
  <2>5. k - start \in 1..m
    BY <2>2, <2>3 DEF m
  <2>6. IdsOf(P)[k - start] = s[k].id
    BY <1>6, <2>4, <2>5
  <2>7. DOMAIN IdsOf(P) = 1..m
    BY <1>6, ListsAreSequences
  <2>8. s[k].id \in ToSet(IdsOf(P))
    BY <2>5, <2>6, <2>7 DEF ToSet
  <2> QED
    BY <1>8, <2>8
<1> QED
  BY <1>8, <1>9, <1>10 DEF all, P, start

\* After the start of the list comes more of its start.
LEMMA PageContinues ==
    ASSUME NEW s, NEW n, IsList(s, n), NEW limit \in Nat \ {0}, NEW page \in Nat,
           page * limit <= n
    PROVE  LET start == page * limit
           IN  Appended(IdsOf(SubSeq(s, 1, start)), IdsOf(Page(s, limit, page)))
                   = IdsOf(SubSeq(s, 1, Lesser(start + limit, n)))
<1> DEFINE start == page * limit
           end == Lesser(start + limit, n)
           P == Page(s, limit, page)
           A == SubSeq(s, 1, start)
           B == SubSeq(s, 1, end)
           X == IdsOf(A)
           Y == IdsOf(P)
           J == Appended(X, Y)
<1>1. /\ start \in Nat /\ end \in Nat /\ end <= n /\ P = SubSeq(s, start + 1, end)
      /\ start <= n
  BY PageIsPart
<1>2. end = IF start + limit < n THEN start + limit ELSE n
  BY DEF Lesser
<1>3. n \in Nat
  BY DEF IsList
<1> HIDE DEF start, end, P
<1>4. start <= end /\ end - start \in Nat /\ start + (end - start) = end
  BY <1>1, <1>2, <1>3
<1>5. IsList(P, end - start) /\ \A k \in 1..(end - start) : P[k] = s[start + k]
  BY <1>1, <1>4, PartOfList
<1>6. IsList(A, start) /\ \A k \in 1..start : A[k] = s[k]
  BY <1>1, StartOfList
<1>7. IsList(B, end) /\ \A k \in 1..end : B[k] = s[k]
  BY <1>1, StartOfList
<1> HIDE DEF A, B
<1>8. IsList(IdsOf(A), start) /\ \A k \in 1..start : IdsOf(A)[k] = A[k].id
  BY <1>6, IdsAreList
<1>9. /\ IsList(IdsOf(P), end - start)
      /\ \A k \in 1..(end - start) : IdsOf(P)[k] = P[k].id
  BY <1>5, IdsAreList
<1>10. IsList(IdsOf(B), end) /\ \A k \in 1..end : IdsOf(B)[k] = B[k].id
  BY <1>7, IdsAreList
<1> DEFINE m == end - start
<1>11. /\ IsList(J, start + m)
       /\ \A k \in 1..start : J[k] = X[k]
       /\ \A k \in 1..m : J[start + k] = Y[k]
  <2>1. IsList(X, start) /\ IsList(Y, m) /\ start \in Nat /\ m \in Nat
    BY <1>1, <1>4, <1>8, <1>9
  <2> HIDE DEF m, X, Y
  <2>2. IsList(Appended(X, Y), start + m)
    BY <2>1, JoinedIs
  <2>3. \A k \in 1..start : Appended(X, Y)[k] = X[k]
    BY <2>1, JoinedIs
  <2>4. \A k \in 1..m : Appended(X, Y)[start + k] = Y[k]
    BY <2>1, JoinedIs
  <2> QED
    BY <2>2, <2>3, <2>4
<1> HIDE DEF J
<1>12. ASSUME NEW k \in 1..end PROVE J[k] = IdsOf(B)[k]
  <2>1. IdsOf(B)[k] = s[k].id
    BY <1>7, <1>10
  <2>2. CASE k <= start
    <3>1. k \in 1..start
      BY <1>1, <2>2
    <3> QED
      BY <1>6, <1>8, <1>11, <2>1, <3>1
  <2>3. CASE ~(k <= start)
    <3>1. k - start \in 1..(end - start) /\ start + (k - start) = k
      BY <1>1, <2>3
    <3> QED
      BY <1>5, <1>9, <1>11, <2>1, <3>1
  <2> QED
    BY <2>2, <2>3
<1>13. J = IdsOf(B)
  BY <1>4, <1>10, <1>11, <1>12, SameLists
<1> QED
  BY <1>13 DEF J, A, B, P, start, end

(***************************************************************************)
(* The accounts are those of Jellyfin, and in order.                       *)
(***************************************************************************)
LEMMA ThoseOfAre ==
    ASSUME NEW T, NEW s \in Seq(T), NEW order \in Seq(DOMAIN s)
    PROVE  Those(s, order) \in Seq(T) /\ Len(Those(s, order)) = Len(order)
<1>1. DOMAIN s = 1..Len(s) /\ \A i \in DOMAIN s : s[i] \in T
  OBVIOUS
<1>2. DOMAIN order = 1..Len(order) /\ Len(order) \in Nat
      /\ \A k \in DOMAIN order : order[k] \in DOMAIN s
  <2> DEFINE D == DOMAIN s
  <2>1. order \in Seq(D)
    OBVIOUS
  <2> HIDE DEF D
  <2>2. DOMAIN order = 1..Len(order) /\ Len(order) \in Nat
        /\ \A k \in DOMAIN order : order[k] \in D
    BY <2>1
  <2> QED
    BY <2>2 DEF D
<1>3. \A k \in DOMAIN order : s[order[k]] \in T
  BY <1>1, <1>2
<1>4. Those(s, order) \in [1..Len(order) -> T]
  BY <1>2, <1>3 DEF Those
<1> QED
  BY <1>2, <1>4

LEMMA ListOfAre ==
    ASSUME NEW us
    PROVE  /\ ListOf(us) \in Seq(ToSet(AllAccounts))
           /\ Len(ListOf(us)) <= Len(AllAccounts)
<1> DEFINE I == {i \in DOMAIN AllAccounts : AllAccounts[i] \in us}
           up == {p \in I \X I : p[1] < p[2]}
           order == Arranged(I, up)
<1>0. AllAccounts \in Seq(ToSet(AllAccounts))
  BY QueriesAssumption
<1>1. IsList(AllAccounts, Len(AllAccounts)) /\ Len(AllAccounts) \in Nat
      /\ DOMAIN AllAccounts = 1..Len(AllAccounts)
  BY <1>0, SequencesAreLists
<1>2. I \in SUBSET DOMAIN AllAccounts
  OBVIOUS
<1>3. ListOf(us) = Those(AllAccounts, order)
  BY DEF ListOf, OnlyThose
<1>4. I \in SUBSET Nat
  BY <1>1, <1>2
<1>5. \A x, y \in I : <<x, y>> \in up <=> x < y
  OBVIOUS
<1> HIDE DEF I, up
<1>6. IsOrder(I, up)
  <2>1. \A x \in I : x \in Nat
    BY <1>4
  <2> QED
    BY <1>5, <2>1 DEF IsOrder
<1>7. IsFiniteSet(I) /\ Cardinality(I) <= Len(AllAccounts)
  BY <1>1, <1>2, PlacesOf
<1>8. order \in Seq(I) /\ Len(order) = Cardinality(I)
  BY <1>6, <1>7, Arrangement
<1> HIDE DEF order
<1>9. order \in Seq(DOMAIN AllAccounts)
  BY <1>2, <1>8
<1>10. /\ Those(AllAccounts, order) \in Seq(ToSet(AllAccounts))
       /\ Len(Those(AllAccounts, order)) = Len(order)
  BY <1>0, <1>9, ThoseOfAre
<1> QED
  BY <1>3, <1>7, <1>8, <1>10

LEMMA SortedAre ==
    ASSUME NEW us \in Seq(ToSet(AllAccounts))
    PROVE  /\ Sort(us, DefaultField, TRUE) \in Seq(ToSet(AllAccounts))
           /\ Len(Sort(us, DefaultField, TRUE)) = Len(us)
<1> DEFINE D == DOMAIN us
           key == [i \in D |-> Key(DefaultField, us[i])]
           place == [i \in D |-> i]
           before == ByKey(D, key, place, TRUE)
           order == Arranged(D, before)
<1>1. Sort(us, DefaultField, TRUE) = Those(us, order)
  BY DEF Sort
<1>2. IsList(us, Len(us)) /\ D = 1..Len(us) /\ Len(us) \in Nat
  BY SequencesAreLists
<1>3. \A i \in D : key[i] = us[i].name
  BY DEF Key, DefaultField, BoolFields
<1>4. \A i \in D : us[i] \in ToSet(AllAccounts)
  OBVIOUS
<1>5. \A i \in D : place[i] = i /\ i \in Nat
  BY <1>2
<1>6. D \in SUBSET DOMAIN us
  OBVIOUS
<1> HIDE DEF key, place
<1>7. \A i \in D : key[i] \in Int /\ place[i] \in Int
  <2>1. \A a \in ToSet(AllAccounts) : a.name \in Int
    BY QueriesAssumption
  <2> HIDE DEF D
  <2> QED
    BY <1>3, <1>4, <1>5, <2>1
<1>8. \A i, j \in D : place[i] = place[j] => i = j
  BY <1>5
<1>9. IsOrder(D, before)
  <2> HIDE DEF D
  <2> QED
    BY <1>7, <1>8, KeysOrder
<1>10. IsFiniteSet(D) /\ Cardinality(D) = Len(us)
  BY <1>2, <1>6, PlacesOf
<1>11. order \in Seq(D) /\ Len(order) = Len(us)
  <2> HIDE DEF D, before
  <2> QED
    BY <1>9, <1>10, Arrangement
<1> HIDE DEF order
<1>12. Those(us, order) \in Seq(ToSet(AllAccounts)) /\ Len(Those(us, order)) = Len(order)
  BY <1>11, ThoseOfAre
<1> QED
  BY <1>1, <1>11, <1>12

(***************************************************************************)
(* Newest first.                                                           *)
(***************************************************************************)
\* What it means to be before another: to be newer, or for activities of one time to have
\* the lower key.
LEMMA LogOrder ==
    ASSUME NEW S, NEW x \in S, NEW y \in S
    PROVE  <<x, y>> \in NewestFirst("log", S)
               <=> IF x.time = y.time THEN x.id < y.id ELSE (x.time < y.time) = FALSE
BY DEF NewestFirst, ByKey

LEMMA EntryOrder ==
    ASSUME NEW S, NEW x \in S, NEW y \in S
    PROVE  <<x, y>> \in NewestFirst("jellyfin", S)
               <=> IF x.id = y.id THEN x.id < y.id ELSE (x.id < y.id) = FALSE
BY DEF NewestFirst, ByKey

LEMMA NewestFirstIsOrder ==
    ASSUME ListsOfWhatThereIs, NEW l, NEW S,
           \/ l = "log" /\ S \in SUBSET log
           \/ l = "jellyfin" /\ S \in SUBSET entries
    PROVE  IsFiniteSet(S) /\ IsOrder(S, NewestFirst(l, S))
<1> DEFINE place == [a \in S |-> a.id]
           time == [a \in S |-> a["time"]]
<1>1. IsFiniteSet(S)
  BY LogIsFinite, FS_Subset
<1>2. \A x \in S : x.id \in Int
  BY DEF ListsOfWhatThereIs, Ids
<1>3. \A x, y \in S : x.id = y.id => x = y
  BY DEF ListsOfWhatThereIs
<1>4. \A x \in S : place[x] = x.id
  OBVIOUS
<1>5. \A x \in S : time[x] = x.time
  OBVIOUS
<1>6. l = "log" => \A x \in S : x.time \in Int
  BY DEF ListsOfWhatThereIs
<1>7. NewestFirst(l, S) = IF l = "log" THEN ByKey(S, time, place, FALSE)
                       ELSE ByKey(S, place, place, FALSE)
  BY DEF NewestFirst
<1> HIDE DEF time, place
<1>8. CASE l = "log"
  <2>1. \A x \in S : time[x] \in Int /\ place[x] \in Int
    BY <1>2, <1>4, <1>5, <1>6, <1>8
  <2>2. \A x, y \in S : place[x] = place[y] => x = y
    BY <1>3, <1>4
  <2>3. IsOrder(S, ByKey(S, time, place, FALSE))
    BY <2>1, <2>2, KeysOrder
  <2> QED
    BY <1>1, <1>7, <1>8, <2>3
<1>9. CASE l # "log"
  <2>1. \A x \in S : place[x] \in Int /\ place[x] \in Int
    BY <1>2, <1>4
  <2>2. \A x, y \in S : place[x] = place[y] => x = y
    BY <1>3, <1>4
  <2>3. IsOrder(S, ByKey(S, place, place, FALSE))
    BY <2>1, <2>2, KeysOrder
  <2> QED
    BY <1>1, <1>7, <1>9, <2>3
<1> QED
  BY <1>8, <1>9

LEMMA FoundNewestFirst ==
    ASSUME ListsOfWhatThereIs, NEW req, IsNewestFirst(list, req),
           list # "users" => req.ascending \in BOOLEAN
    PROVE  LET F == FoundSet(list, log, entries, req)
           IN  /\ IsFiniteSet(F) /\ IsOrder(F, NewestFirst(list, F))
               /\ Found(req) = Arranged(F, NewestFirst(list, F))
<1> DEFINE F == FoundSet(list, log, entries, req)
<1>1. CASE list = "log"
  <2>1. F = {a \in log : generateActivitiesQuery(req, a)}
    BY <1>1 DEF FoundSet
  <2>2. IsFiniteSet(F) /\ IsOrder(F, NewestFirst(list, F))
    <3>1. F \in SUBSET log
      BY <2>1
    <3> HIDE DEF F
    <3> QED
      BY <1>1, <3>1, NewestFirstIsOrder
  <2>3. req.field = "time" /\ req.ascending = FALSE
    BY <1>1 DEF IsNewestFirst
  <2>4. Found(req) = InOrder({a \in log : generateActivitiesQuery(req, a)}, "time", FALSE)
    BY <1>1, <2>3 DEF Found, FoundActivities, LogFields
  <2>5. Found(req) = InOrder(F, "time", FALSE)
    BY <2>1, <2>4
  <2> HIDE DEF F
  <2>6. NewestFirst(list, F) = ByKey(F, [a \in F |-> a["time"]], [a \in F |-> a.id], FALSE)
    BY <1>1 DEF NewestFirst
  <2>7. Found(req) = Arranged(F, NewestFirst(list, F))
    BY <2>5, <2>6 DEF InOrder
  <2> QED
    BY <2>2, <2>7 DEF F
<1>2. CASE list = "jellyfin"
  <2>1. F = entries
    BY <1>2 DEF FoundSet
  <2>2. IsFiniteSet(F) /\ IsOrder(F, NewestFirst(list, F))
    BY <1>2, <2>1, NewestFirstIsOrder
  <2>3. Found(req) = InOrder(F, "id", FALSE)
    BY <1>2, <2>1 DEF Found
  <2> HIDE DEF F
  <2>4. NewestFirst(list, F) = ByKey(F, [a \in F |-> a["id"]], [a \in F |-> a.id], FALSE)
    BY <1>2 DEF NewestFirst
  <2>5. Found(req) = Arranged(F, NewestFirst(list, F))
    BY <2>3, <2>4 DEF InOrder
  <2> QED
    BY <2>2, <2>5 DEF F
<1> QED
  BY <1>1, <1>2 DEF IsNewestFirst

(***************************************************************************)
(* The steps of a walk.                                                    *)
(***************************************************************************)
\* What a request finds in given lists.
FoundIn(l, us, inOrder, activities, ents, req) ==
    CASE l = "users" ->
            FoundUsers(IF req.field = DefaultField /\ ~inOrder THEN Sort(us, DefaultField, TRUE)
                       ELSE us, req)
      [] l = "log" ->
            IF req.field \notin LogFields THEN <<>>
            ELSE InOrder({a \in activities : generateActivitiesQuery(req, a)}, req.field,
                         req.ascending)
      [] l = "jellyfin" -> InOrder(ents, "id", FALSE)

LEMMA FoundNow ==
    ASSUME list \in {"users", "log", "jellyfin"}, NEW STATE req
    PROVE  Found(req) = FoundIn(list, ref, sorted, log, entries, req)
<1>1. CASE list = "users"
  BY <1>1 DEF Found, FoundIn, Sorts
<1>2. CASE list = "log"
  BY <1>2 DEF Found, FoundIn, FoundActivities
<1>3. CASE list = "jellyfin"
  BY <1>3 DEF Found, FoundIn
<1> QED
  BY <1>1, <1>2, <1>3

LEMMA FoundThen ==
    ASSUME list' \in {"users", "log", "jellyfin"}
    PROVE  Found(walk.req)' = FoundIn(list', ref', sorted', log', entries', walk'.req)
<1>1. CASE list' = "users"
  BY <1>1 DEF Found, FoundIn, Sorts
<1>2. CASE list' = "log"
  BY <1>2 DEF Found, FoundIn, FoundActivities
<1>3. CASE list' = "jellyfin"
  BY <1>3 DEF Found, FoundIn
<1> QED
  BY <1>1, <1>2, <1>3

\* Loading does not change what is found.
LEMMA LoadFinds ==
    ASSUME ListsOfWhatThereIs, NEW STATE w, NEW STATE limit, NEW STATE page, NEW STATE got,
           Load(w, limit, page, got)
    PROVE  /\ ref' \in Seq(ToSet(AllAccounts)) /\ Len(ref') <= Len(AllAccounts)
           /\ sorted' \in BOOLEAN
           /\ FoundIn(list', ref', sorted', log', entries', w.req) = Found(w.req)
<1>0. /\ list' = list /\ log' = log /\ entries' = entries
      /\ sorted' = (sorted \/ Sorts(w.req))
      /\ ref' = IF Sorts(w.req) THEN Sort(ref, DefaultField, TRUE) ELSE ref
  BY DEF Load
<1>1. list \in {"users", "log", "jellyfin"} /\ sorted \in BOOLEAN
      /\ ref \in Seq(ToSet(AllAccounts)) /\ Len(ref) <= Len(AllAccounts)
  BY DEF ListsOfWhatThereIs
<1>2. Sorts(w.req) \in BOOLEAN /\ sorted' \in BOOLEAN
  BY <1>0, <1>1 DEF Sorts
<1>3. ref' \in Seq(ToSet(AllAccounts)) /\ Len(ref') <= Len(AllAccounts)
  BY <1>0, <1>1, SortedAre
<1>4. Found(w.req) = FoundIn(list, ref, sorted, log, entries, w.req)
  BY <1>1, FoundNow
<1>5. CASE Sorts(w.req)
  <2>1. /\ list = "users" /\ w.req.field = DefaultField /\ ~sorted /\ sorted'
        /\ ref' = Sort(ref, DefaultField, TRUE)
    BY <1>0, <1>5 DEF Sorts
  <2>2. Found(w.req) = FoundUsers(ref', w.req)
    BY <1>4, <2>1 DEF FoundIn
  <2>3. FoundIn(list', ref', sorted', log', entries', w.req) = FoundUsers(ref', w.req)
    BY <1>0, <2>1 DEF FoundIn
  <2> QED
    BY <1>2, <1>3, <2>2, <2>3
<1>6. CASE ~Sorts(w.req)
  <2>1. ref' = ref /\ sorted' = sorted
    BY <1>0, <1>1, <1>6
  <2> QED
    BY <1>0, <1>2, <1>3, <1>4, <2>1
<1> QED
  BY <1>2, <1>5, <1>6

LEMMA LoadWalks ==
    ASSUME NEW STATE w, IsWalk(w), NEW STATE limit, NEW STATE page, NEW STATE got,
           Load(w, limit, page, got)
    PROVE  /\ UNCHANGED <<list, accounts, log, entries, made, hour, clear>>
           /\ walk' # Idle /\ IsWalk(walk') /\ walk'.at \in {"more", "done"}
           /\ walk'.req = w.req /\ walk'.limit = w.limit /\ walk'.page = w.page
           /\ walk'.begun = w.begun /\ walk'.moved = w.moved /\ walk'.cut = w.cut
           /\ walk'.got = Appended(got, IdsOf(Page(Found(w.req), limit, page)))
           /\ walk'.at = "done" <=> LastPage(Found(w.req), limit, page)
<1> DEFINE at == IF LastPage(Found(w.req), limit, page) THEN "done" ELSE "more"
           all == Appended(got, IdsOf(Page(Found(w.req), limit, page)))
<1>1. UNCHANGED <<list, accounts, log, entries, made, hour, clear>>
  BY DEF Load
<1>2. walk' = [w EXCEPT !.at = at, !.got = all]
  BY DEF Load, Appended
<1>3. at \in {"more", "done"} /\ (at = "done" <=> LastPage(Found(w.req), limit, page))
  OBVIOUS
<1> HIDE DEF at, all
<1>4. w = [at |-> w.at, req |-> w.req, limit |-> w.limit, page |-> w.page, got |-> w.got,
           begun |-> w.begun, moved |-> w.moved, cut |-> w.cut]
  BY DEF IsWalk
<1>5. walk' = [at |-> at, req |-> w.req, limit |-> w.limit, page |-> w.page, got |-> all,
               begun |-> w.begun, moved |-> w.moved, cut |-> w.cut]
  BY <1>2, <1>4
<1>6. /\ walk'.at = at /\ walk'.req = w.req /\ walk'.limit = w.limit /\ walk'.page = w.page
      /\ walk'.begun = w.begun /\ walk'.moved = w.moved /\ walk'.cut = w.cut
      /\ walk'.got = all
  BY <1>5
<1>7. IsWalk(walk')
  BY <1>5, <1>6 DEF IsWalk
<1>8. walk' # Idle
  <2>1. Idle.at = "idle"
    BY DEF Idle
  <2> QED
    BY <1>3, <1>6, <2>1
<1> QED
  BY <1>1, <1>3, <1>6, <1>7, <1>8 DEF all

LEMMA Moves ==
    ASSUME ListsOfWhatThereIs, Moved
    PROVE  /\ walk = Idle => walk' = Idle
           /\ walk # Idle =>
                /\ walk' # Idle /\ IsWalk(walk') /\ walk'.at = walk.at /\ walk'.req = walk.req
                /\ walk'.limit = walk.limit /\ walk'.page = walk.page /\ walk'.got = walk.got
                /\ walk'.begun = walk.begun /\ walk'.moved = TRUE /\ walk'.cut = walk.cut
<1>1. CASE walk = Idle
  BY <1>1 DEF Moved
<1>2. CASE walk # Idle
  <2>1. /\ walk' = [walk EXCEPT !.moved = TRUE] /\ IsWalk(walk)
        /\ walk.at \in {"more", "done", "locked"}
    BY <1>2 DEF Moved, ListsOfWhatThereIs, WalkTyped
  <2>2. walk' = [at |-> walk.at, req |-> walk.req, limit |-> walk.limit, page |-> walk.page,
                 got |-> walk.got, begun |-> walk.begun, moved |-> TRUE, cut |-> walk.cut]
    BY <2>1 DEF IsWalk
  <2>3. /\ walk'.at = walk.at /\ walk'.req = walk.req
        /\ walk'.limit = walk.limit /\ walk'.page = walk.page /\ walk'.got = walk.got
        /\ walk'.begun = walk.begun /\ walk'.moved = TRUE /\ walk'.cut = walk.cut
    BY <2>2
  <2>4. IsWalk(walk')
    BY <2>2, <2>3 DEF IsWalk
  <2>5. Idle.at = "idle"
    BY DEF Idle
  <2> QED
    BY <1>2, <2>1, <2>3, <2>4, <2>5
<1> QED
  BY <1>1, <1>2

LEMMA Cuts ==
    ASSUME ListsOfWhatThereIs, Cut
    PROVE  /\ walk = Idle => walk' = Idle
           /\ walk # Idle =>
                /\ walk' # Idle /\ IsWalk(walk') /\ walk'.at = walk.at /\ walk'.req = walk.req
                /\ walk'.limit = walk.limit /\ walk'.page = walk.page /\ walk'.got = walk.got
                /\ walk'.begun = {} /\ walk'.moved = TRUE /\ walk'.cut = TRUE
<1>1. CASE walk = Idle
  BY <1>1 DEF Cut
<1>2. CASE walk # Idle
  <2>1. /\ walk' = [walk EXCEPT !.moved = TRUE, !.cut = TRUE, !.begun = {}] /\ IsWalk(walk)
        /\ walk.at \in {"more", "done", "locked"}
    BY <1>2 DEF Cut, ListsOfWhatThereIs, WalkTyped
  <2>2. walk' = [at |-> walk.at, req |-> walk.req, limit |-> walk.limit, page |-> walk.page,
                 got |-> walk.got, begun |-> {}, moved |-> TRUE, cut |-> TRUE]
    BY <2>1 DEF IsWalk
  <2>3. /\ walk'.at = walk.at /\ walk'.req = walk.req
        /\ walk'.limit = walk.limit /\ walk'.page = walk.page /\ walk'.got = walk.got
        /\ walk'.begun = {} /\ walk'.moved = TRUE /\ walk'.cut = TRUE
    BY <2>2
  <2>4. IsWalk(walk')
    BY <2>2, <2>3 DEF IsWalk
  <2>5. Idle.at = "idle"
    BY DEF Idle
  <2> QED
    BY <1>2, <2>1, <2>3, <2>4, <2>5
<1> QED
  BY <1>1, <1>2

(***************************************************************************)
(* Types.                                                                  *)
(***************************************************************************)
LEMMA LoadTyped ==
    ASSUME ListsOfWhatThereIs, NEW STATE w, NEW STATE limit, NEW STATE page, NEW STATE got,
           IsWalk(w), w.limit \in Limits, w.page \in Nat, w.moved \in BOOLEAN, w.cut \in BOOLEAN,
           w.page * w.limit <= Bound, list # "users" => w.req \in LogRequests,
           IsNewestFirst(list, w.req) => w.begun \subseteq made,
           limit \in Nat \ {0}, page \in Nat, got \in Seq(ToSet(got)),
           page * limit + limit = w.limit * (w.page + 1),
           Load(w, limit, page, got), changes' \in 0..MaxChanges
    PROVE  ListsOfWhatThereIs'
<1> DEFINE s == Found(w.req)
<1>1. /\ UNCHANGED <<list, accounts, log, entries, made, hour, clear>>
      /\ walk' # Idle /\ IsWalk(walk') /\ walk'.at \in {"more", "done"}
      /\ walk'.req = w.req /\ walk'.limit = w.limit /\ walk'.page = w.page
      /\ walk'.begun = w.begun /\ walk'.moved = w.moved /\ walk'.cut = w.cut
      /\ walk'.got = Appended(got, IdsOf(Page(s, limit, page)))
      /\ walk'.at = "done" <=> LastPage(s, limit, page)
  BY LoadWalks
<1>2. /\ ref' \in Seq(ToSet(AllAccounts)) /\ Len(ref') <= Len(AllAccounts)
      /\ sorted' \in BOOLEAN
  BY LoadFinds
<1>3. PICK n \in 0..Bound : IsList(s, n)
  BY FoundIsList
<1> HIDE DEF s
<1>4. walk'.got \in Seq(ToSet(walk'.got))
  BY <1>1, <1>3, PageAdds
<1>5. walk'.at = "done" <=> n < page * limit + limit
  BY <1>1, <1>3, PageIsPart
<1>6. walk'.at = "more" => Upto(walk') <= Bound
  <2>1. Upto(walk') = page * limit + limit
    BY <1>1 DEF Upto
  <2>2. page * limit + limit \in Nat /\ Bound \in Nat
    BY BoundType
  <2> HIDE DEF Bound
  <2>3. n <= Bound /\ n \in Nat
    BY <1>3, <2>2
  <2>4. walk'.at = "more" => ~(n < page * limit + limit)
    BY <1>5
  <2> QED
    BY <2>1, <2>2, <2>3, <2>4
<1>7. WalkTyped(list', made', walk')
  BY <1>1, <1>4, <1>6 DEF WalkTyped
<1>8. /\ list \in {"users", "log", "jellyfin"} /\ accounts \subseteq ToSet(AllAccounts)
      /\ made \subseteq Ids /\ hour \in 1..MaxHour
      /\ \A a \in log : a.id \in made /\ a.time \in 1..MaxHour
      /\ \A a, b \in log : a.id = b.id => a = b
      /\ \A e \in entries : e.id \in made /\ e = [id |-> e.id]
      /\ clear = [at |-> clear.at, left |-> clear.left, cut |-> clear.cut]
      /\ clear.at \in {"idle", "old", "count", "each"} /\ clear.left \subseteq made
      /\ clear.cut \in BOOLEAN
  BY DEF ListsOfWhatThereIs
<1> QED
  BY <1>1, <1>2, <1>7, <1>8 DEF ListsOfWhatThereIs

LEMMA BeginWalks ==
    ASSUME NEW STATE req, NEW STATE limit, NEW STATE page, Begin(req, limit, page)
    PROVE  \E w : /\ w = [at |-> "idle", req |-> req, limit |-> limit, page |-> page,
                          got |-> <<>>, begun |-> {x.id : x \in ToSet(Found(req))},
                          moved |-> FALSE, cut |-> FALSE]
                  /\ IsWalk(w) /\ Load(w, limit * (page + 1), 0, <<>>)
BY DEF Begin, IsWalk

\* What is found at first was given its id.
LEMMA BegunIsMade ==
    ASSUME ListsOfWhatThereIs, NEW STATE req, list # "users" => req \in LogRequests,
           IsNewestFirst(list, req)
    PROVE  {x.id : x \in ToSet(Found(req))} \subseteq made
<1> DEFINE F == FoundSet(list, log, entries, req)
<1>1. list # "users"
  BY DEF IsNewestFirst
<1>2. req.ascending \in BOOLEAN
  BY <1>1, QueriesAssumption
<1>3. /\ IsFiniteSet(F) /\ IsOrder(F, NewestFirst(list, F))
      /\ Found(req) = Arranged(F, NewestFirst(list, F))
  BY <1>2, FoundNewestFirst
<1>4. \A x \in F : x.id \in made
  BY DEF FoundSet, ListsOfWhatThereIs
<1> HIDE DEF F
<1>5. ToSet(Found(req)) = F
  BY <1>3, ArrangementOf
<1> QED
  BY <1>4, <1>5

LEMMA BeginTyped ==
    ASSUME ListsOfWhatThereIs, NEW STATE req, NEW STATE limit, NEW STATE page,
           limit \in Limits, page \in Nat, page * limit <= Bound,
           list # "users" => req \in LogRequests,
           Begin(req, limit, page), changes' \in 0..MaxChanges
    PROVE  ListsOfWhatThereIs'
<1>1. PICK w : /\ w = [at |-> "idle", req |-> req, limit |-> limit, page |-> page,
                       got |-> <<>>, begun |-> {x.id : x \in ToSet(Found(req))},
                       moved |-> FALSE, cut |-> FALSE]
               /\ IsWalk(w) /\ Load(w, limit * (page + 1), 0, <<>>)
  BY BeginWalks
<1> DEFINE B == {x.id : x \in ToSet(Found(req))}
<1>2. IsNewestFirst(list, req) => B \subseteq made
  BY BegunIsMade
<1> HIDE DEF B
<1>3. w = [at |-> "idle", req |-> req, limit |-> limit, page |-> page, got |-> <<>>,
           begun |-> B, moved |-> FALSE, cut |-> FALSE]
  BY <1>1 DEF B
<1>4. /\ w.req = req /\ w.limit = limit /\ w.page = page /\ w.begun = B
      /\ w.moved = FALSE /\ w.cut = FALSE
  BY <1>3
<1>5. limit \in Nat \ {0}
  BY QueriesAssumption
<1>6. limit * (page + 1) \in Nat \ {0}
  BY <1>5
<1>7. 0 * (limit * (page + 1)) + limit * (page + 1) = w.limit * (w.page + 1)
  BY <1>4, <1>6
<1>8. <<>> \in Seq(ToSet(<<>>)) /\ 0 \in Nat
  OBVIOUS
<1> DEFINE n == limit * (page + 1)
<1>9. n \in Nat \ {0} /\ 0 * n + n = w.limit * (w.page + 1) /\ Load(w, n, 0, <<>>)
  BY <1>1, <1>6, <1>7
<1> HIDE DEF n
<1> QED
  BY <1>1, <1>2, <1>4, <1>8, <1>9, LoadTyped

LEMMA LoadMoreWalks ==
    ASSUME ListsOfWhatThereIs, LoadMore
    PROVE  \E w : /\ w = [walk EXCEPT !.page = walk.page + 1]
                  /\ WalkTyped(list, made, walk) /\ IsWalk(w)
                  /\ w.at = walk.at /\ w.req = walk.req /\ w.limit = walk.limit
                  /\ w.page = walk.page + 1 /\ w.got = walk.got /\ w.begun = walk.begun
                  /\ w.moved = walk.moved /\ w.cut = walk.cut
                  /\ Load(w, walk.limit, walk.page + 1, walk.got)
<1>1. walk # Idle /\ walk.at = "more" /\ WalkTyped(list, made, walk)
  BY DEF LoadMore, ListsOfWhatThereIs
<1> DEFINE w == [walk EXCEPT !.page = walk.page + 1]
<1>2. Load(w, walk.limit, walk.page + 1, walk.got)
  BY DEF LoadMore
<1>3. walk = [at |-> walk.at, req |-> walk.req, limit |-> walk.limit, page |-> walk.page,
              got |-> walk.got, begun |-> walk.begun, moved |-> walk.moved, cut |-> walk.cut]
  BY <1>1 DEF WalkTyped, IsWalk
<1>4. w = [at |-> walk.at, req |-> walk.req, limit |-> walk.limit, page |-> walk.page + 1,
           got |-> walk.got, begun |-> walk.begun, moved |-> walk.moved, cut |-> walk.cut]
  BY <1>3
<1>5. /\ w.at = walk.at /\ w.req = walk.req /\ w.limit = walk.limit
      /\ w.page = walk.page + 1 /\ w.got = walk.got /\ w.begun = walk.begun
      /\ w.moved = walk.moved /\ w.cut = walk.cut
  BY <1>4
<1>6. IsWalk(w)
  BY <1>4, <1>5 DEF IsWalk
<1> QED
  BY <1>1, <1>2, <1>5, <1>6

LEMMA NextPage ==
    ASSUME NEW l \in Nat, NEW p \in Nat
    PROVE  /\ l * (p + 1) = (p + 1) * l /\ (p + 1) * l + l = l * ((p + 1) + 1)
           /\ p * l \in Nat /\ (p + 1) * l \in Nat /\ p * l + l = (p + 1) * l
           /\ p * l + l = l * (p + 1)
OBVIOUS

LEMMA LoadMoreTyped ==
    ASSUME ListsOfWhatThereIs, LoadMore
    PROVE  ListsOfWhatThereIs'
<1>1. PICK w : /\ w = [walk EXCEPT !.page = walk.page + 1]
               /\ WalkTyped(list, made, walk) /\ IsWalk(w)
               /\ w.at = walk.at /\ w.req = walk.req /\ w.limit = walk.limit
               /\ w.page = walk.page + 1 /\ w.got = walk.got /\ w.begun = walk.begun
               /\ w.moved = walk.moved /\ w.cut = walk.cut
               /\ Load(w, walk.limit, walk.page + 1, walk.got)
  BY LoadMoreWalks
<1>2. walk.limit \in Limits /\ walk.limit \in Nat \ {0} /\ walk.page \in Nat
      /\ walk.got \in Seq(ToSet(walk.got)) /\ Upto(walk) <= Bound
  BY <1>1, QueriesAssumption DEF WalkTyped, LoadMore
<1> DEFINE p == walk.page + 1
<1>3. p \in Nat /\ w.page = p /\ Load(w, walk.limit, p, walk.got)
  BY <1>1, <1>2
<1>4. p * walk.limit + walk.limit = walk.limit * (p + 1) /\ p * walk.limit = Upto(walk)
  BY <1>2, NextPage DEF Upto
<1>5. w.page * w.limit <= Bound /\ p * walk.limit + walk.limit = w.limit * (w.page + 1)
  BY <1>1, <1>2, <1>3, <1>4
<1> HIDE DEF p
<1>6. /\ w.moved \in BOOLEAN /\ w.cut \in BOOLEAN
      /\ list # "users" => w.req \in LogRequests
      /\ IsNewestFirst(list, w.req) => w.begun \subseteq made
  BY <1>1 DEF WalkTyped
<1>7. changes' \in 0..MaxChanges
  BY DEF LoadMore, ListsOfWhatThereIs
<1>8. w.limit \in Limits /\ w.page \in Nat /\ IsWalk(w)
  BY <1>1, <1>2, <1>3
<1> QED
  BY <1>2, <1>3, <1>5, <1>6, <1>7, <1>8, LoadTyped

\* Whatever changes the lists leaves the walk a walk.
LEMMA WalkStays ==
    ASSUME ListsOfWhatThereIs, Moved \/ Cut \/ UNCHANGED walk, list' = list,
           made \subseteq made'
    PROVE  walk' # Idle => WalkTyped(list', made', walk')
<1>1. CASE Moved
  <2>1. CASE walk = Idle
    BY <1>1, <2>1, Moves
  <2>2. CASE walk # Idle
    <3>1. /\ IsWalk(walk') /\ walk'.at = walk.at /\ walk'.req = walk.req
          /\ walk'.limit = walk.limit /\ walk'.page = walk.page /\ walk'.got = walk.got
          /\ walk'.begun = walk.begun /\ walk'.moved = TRUE /\ walk'.cut = walk.cut
      BY <1>1, <2>2, Moves
    <3>2. WalkTyped(list, made, walk)
      BY <2>2 DEF ListsOfWhatThereIs
    <3> QED
      BY <3>1, <3>2 DEF WalkTyped, Upto
  <2> QED
    BY <2>1, <2>2
<1>2. CASE Cut
  <2>1. CASE walk = Idle
    BY <1>2, <2>1, Cuts
  <2>2. CASE walk # Idle
    <3>1. /\ IsWalk(walk') /\ walk'.at = walk.at /\ walk'.req = walk.req
          /\ walk'.limit = walk.limit /\ walk'.page = walk.page /\ walk'.got = walk.got
          /\ walk'.begun = {} /\ walk'.moved = TRUE /\ walk'.cut = TRUE
      BY <1>2, <2>2, Cuts
    <3>2. WalkTyped(list, made, walk)
      BY <2>2 DEF ListsOfWhatThereIs
    <3> QED
      BY <3>1, <3>2 DEF WalkTyped, Upto
  <2> QED
    BY <2>1, <2>2
<1>3. CASE UNCHANGED walk
  <2>1. walk # Idle => WalkTyped(list, made, walk)
    BY DEF ListsOfWhatThereIs
  <2> QED
    BY <1>3, <2>1 DEF WalkTyped
<1> QED
  BY <1>1, <1>2, <1>3

LEMMA ExcessIsInLog ==
    ASSUME ListsOfWhatThereIs
    PROVE  Excess \subseteq log
<1> DEFINE order == NewestFirst("log", log)
           s == Arranged(log, order)
<1>1. InOrder(log, "time", FALSE) = s
  BY DEF InOrder, NewestFirst
<1>2. IsFiniteSet(log) /\ IsOrder(log, order)
  BY NewestFirstIsOrder
<1> HIDE DEF order
<1>3. Len(s) = Cardinality(log) /\ \A k \in 1..Cardinality(log) : s[k] \in log
  BY <1>2, Arrangement
<1> HIDE DEF s
<1>4. KeepCount \in Nat /\ Cardinality(log) \in Nat
  BY QueriesAssumption, LogIsFinite
<1>5. Skipping(s) \subseteq log
  <2> SUFFICES ASSUME NEW k \in (KeepCount + 1)..Len(s) PROVE s[k] \in log
    BY DEF Skipping
  <2>1. k \in 1..Cardinality(log)
    BY <1>3, <1>4
  <2> QED
    BY <1>3, <2>1
<1> QED
  BY <1>1, <1>5 DEF Excess

LEMMA SurplusIsInLog ==
    ASSUME ListsOfWhatThereIs
    PROVE  Surplus \subseteq log
BY ExcessIsInLog DEF Surplus, Old

LEMMA TypesInit ==
    ASSUME QueriesInit
    PROVE  ListsOfWhatThereIs
<1>1. /\ list \in {"users", "log", "jellyfin"} /\ sorted = FALSE /\ ref = ListOf(accounts)
      /\ accounts = (IF list = "users" THEN ToSet(AllAccounts) ELSE {})
      /\ log = {} /\ entries = {} /\ made = {} /\ hour = 1 /\ changes = 0
      /\ clear = [at |-> "idle", left |-> {}, cut |-> FALSE] /\ walk = Idle
  BY DEF QueriesInit, At
<1>2. ref \in Seq(ToSet(AllAccounts)) /\ Len(ref) <= Len(AllAccounts)
  BY <1>1, ListOfAre
<1>3. accounts \subseteq ToSet(AllAccounts)
  BY <1>1
<1>4. hour \in 1..MaxHour /\ changes \in 0..MaxChanges
  BY <1>1, QueriesAssumption
<1>5. /\ clear.at = "idle" /\ clear.left = {} /\ clear.cut = FALSE
      /\ clear = [at |-> clear.at, left |-> clear.left, cut |-> clear.cut]
  BY <1>1
<1> QED
  BY <1>1, <1>2, <1>3, <1>4, <1>5 DEF ListsOfWhatThereIs

\* Housekeeping and an admin take activities away.
LEMMA LessTyped ==
    ASSUME ListsOfWhatThereIs, UNCHANGED <<list, accounts, ref, sorted, entries, made, hour>>,
           log' \subseteq log, Moved \/ Cut \/ UNCHANGED walk, changes' \in 0..MaxChanges,
           clear' = [at |-> clear'.at, left |-> clear'.left, cut |-> clear'.cut],
           clear'.at \in {"idle", "old", "count", "each"}, clear'.left \subseteq made,
           clear'.cut \in BOOLEAN
    PROVE  ListsOfWhatThereIs'
<1>1. walk' # Idle => WalkTyped(list', made', walk')
  BY WalkStays
<1>2. /\ \A a \in log' : a.id \in made /\ a.time \in 1..MaxHour
      /\ \A a, b \in log' : a.id = b.id => a = b
  BY DEF ListsOfWhatThereIs
<1> QED
  BY <1>1, <1>2 DEF ListsOfWhatThereIs

LEMMA HousekeepingTyped ==
    ASSUME ListsOfWhatThereIs, Daemon
    PROVE  ListsOfWhatThereIs'
<1>1. changes \in 0..MaxChanges /\ clear.left \subseteq made
      /\ clear = [at |-> clear.at, left |-> clear.left, cut |-> clear.cut]
      /\ clear.cut \in BOOLEAN
  BY DEF ListsOfWhatThereIs
<1>2. ASSUME NEW STATE next, Housekeeping(next), log' \subseteq log,
             next = [at |-> next.at, left |-> next.left, cut |-> next.cut],
             next.at \in {"idle", "old", "count", "each"}, next.left \subseteq made,
             next.cut \in BOOLEAN
      PROVE  ListsOfWhatThereIs'
  <2>1. /\ clear' = next
        /\ Moved \/ Cut \/ UNCHANGED walk
        /\ UNCHANGED <<list, accounts, ref, sorted, entries, made, hour, changes>>
    BY <1>2 DEF Housekeeping
  <2> QED
    BY <1>1, <1>2, <2>1, LessTyped
<1>3. ASSUME NEW STATE at, at \in {"idle", "old", "count", "each"}
      PROVE  /\ At(at) = [at |-> At(at).at, left |-> At(at).left, cut |-> At(at).cut]
             /\ At(at).at = at /\ At(at).left \subseteq made /\ At(at).cut \in BOOLEAN
  BY DEF At
<1>4. CASE StartClear
  BY <1>2, <1>3, <1>4 DEF StartClear
<1>5. CASE DeleteMatching
  <2> DEFINE next == IF clear.at = "old" THEN "count" ELSE "idle"
  <2>1. Housekeeping(At(next)) /\ log' \subseteq log /\ next \in {"count", "idle"}
    BY <1>5 DEF DeleteMatching, Without
  <2> HIDE DEF next
  <2> QED
    BY <1>2, <1>3, <2>1
<1>6. CASE TooBig
  <2> DEFINE next == [at |-> "each", left |-> {a.id : a \in Surplus}, cut |-> FALSE]
  <2>1. Housekeeping(next) /\ log' = log
    BY <1>6 DEF TooBig
  <2>2. {a.id : a \in Surplus} \subseteq made
    <3>1. \A a \in log : a.id \in made
      BY DEF ListsOfWhatThereIs
    <3> QED
      BY <3>1, SurplusIsInLog
  <2>3. /\ next = [at |-> next.at, left |-> next.left, cut |-> next.cut]
        /\ next.at = "each" /\ next.left \subseteq made /\ next.cut \in BOOLEAN
    BY <2>2
  <2> HIDE DEF next
  <2> QED
    BY <1>2, <2>1, <2>3
<1>7. CASE DeleteActivityKey
  <2>1. CASE clear.left = {}
    <3>1. log' = log /\ Housekeeping(At("idle"))
      BY <1>7, <2>1 DEF DeleteActivityKey
    <3> QED
      BY <1>2, <1>3, <3>1
  <2>2. CASE clear.left # {}
    <3>1. PICK id \in clear.left :
             /\ log' = log \ {a \in log : a.id = id}
             /\ Housekeeping([clear EXCEPT !.left = @ \ {id}])
      BY <1>7, <2>2 DEF DeleteActivityKey, Without
    <3> DEFINE next == [clear EXCEPT !.left = @ \ {id}]
    <3>2. /\ next = [at |-> next.at, left |-> next.left, cut |-> next.cut]
          /\ next.at = clear.at /\ next.left \subseteq made /\ next.cut \in BOOLEAN
      BY <1>1
    <3>3. next.at = "each"
      BY <1>7, <3>2 DEF DeleteActivityKey
    <3> HIDE DEF next
    <3>4. Housekeeping(next)
      BY <3>1 DEF next
    <3> QED
      BY <1>2, <3>1, <3>2, <3>3, <3>4
  <2> QED
    BY <2>1, <2>2
<1> QED
  BY <1>4, <1>5, <1>6, <1>7 DEF Daemon

LEMMA TypesStep ==
    ASSUME ListsOfWhatThereIs, [QueriesNext]_queryVars
    PROVE  ListsOfWhatThereIs'
<1>0. changes \in 0..MaxChanges
  BY DEF ListsOfWhatThereIs
<1>1. CASE Open
  <2>1. PICK req \in Requests, limit \in Limits : Begin(req, limit, 0)
    BY <1>1 DEF Open
  <2>2. 0 * limit <= Bound /\ changes' \in 0..MaxChanges /\ 0 \in Nat
    <3>1. limit \in Nat /\ changes' = changes
      BY <1>1, QueriesAssumption DEF Open
    <3> QED
      BY <1>0, <3>1, BoundType
  <2>3. list # "users" => req \in LogRequests
    BY DEF Requests
  <2> QED
    BY <2>1, <2>2, <2>3, BeginTyped
<1>2. CASE Reload
  <2>1. /\ walk # Idle /\ Begin(walk.req, walk.limit, walk.page) /\ changes < MaxChanges
        /\ changes' = changes + 1
    BY <1>2 DEF Reload, Changes
  <2>2. /\ walk.limit \in Limits /\ walk.page \in Nat /\ walk.page * walk.limit <= Bound
        /\ list # "users" => walk.req \in LogRequests
    BY <2>1 DEF ListsOfWhatThereIs, WalkTyped
  <2>3. changes' \in 0..MaxChanges
    BY <1>0, <2>1, QueriesAssumption
  <2> QED
    BY <2>1, <2>2, <2>3, BeginTyped
<1>3. CASE LoadMore
  BY <1>3, LoadMoreTyped
<1>4. CASE LoadFails
  <2>1. /\ walk # Idle /\ walk.at = "more" /\ changes < MaxChanges /\ changes' = changes + 1
        /\ walk' = [walk EXCEPT !.page = @ + 1, !.at = "locked"]
        /\ UNCHANGED <<list, accounts, ref, sorted, log, entries, made, hour, clear>>
    BY <1>4 DEF LoadFails, Changes, lists
  <2>2. changes' \in 0..MaxChanges
    BY <1>0, <2>1, QueriesAssumption
  <2>3. WalkTyped(list, made, walk)
    BY <2>1 DEF ListsOfWhatThereIs
  <2>4. walk' = [at |-> "locked", req |-> walk.req, limit |-> walk.limit,
                 page |-> walk.page + 1, got |-> walk.got, begun |-> walk.begun,
                 moved |-> walk.moved, cut |-> walk.cut]
    BY <2>1, <2>3 DEF WalkTyped, IsWalk
  <2>5. /\ walk'.at = "locked" /\ walk'.req = walk.req /\ walk'.limit = walk.limit
        /\ walk'.page = walk.page + 1 /\ walk'.got = walk.got /\ walk'.begun = walk.begun
        /\ walk'.moved = walk.moved /\ walk'.cut = walk.cut
    BY <2>4
  <2>6. IsWalk(walk')
    BY <2>4, <2>5 DEF IsWalk
  <2>7. walk.limit \in Nat /\ walk.page \in Nat
    BY <2>3, QueriesAssumption DEF WalkTyped
  <2>8. walk'.page \in Nat /\ walk'.page * walk'.limit = Upto(walk)
    <3>1. walk.limit * (walk.page + 1) = (walk.page + 1) * walk.limit
      BY <2>7, NextPage
    <3> QED
      BY <2>5, <2>7, <3>1 DEF Upto
  <2>9. Upto(walk) <= Bound
    BY <2>1, <2>3 DEF WalkTyped
  <2>10. WalkTyped(list', made', walk')
    <3>1. walk'.page * walk'.limit <= Bound
      BY <2>8, <2>9
    <3>2. /\ walk'.at = "locked" /\ walk'.limit \in Limits /\ walk'.page \in Nat
          /\ walk'.got \in Seq(ToSet(walk'.got)) /\ walk'.moved \in BOOLEAN
          /\ walk'.cut \in BOOLEAN
          /\ list' # "users" => walk'.req \in LogRequests
          /\ IsNewestFirst(list', walk'.req) => walk'.begun \subseteq made'
      BY <2>1, <2>3, <2>5, <2>8 DEF WalkTyped
    <3> QED
      BY <2>6, <3>1, <3>2 DEF WalkTyped
  <2> QED
    BY <2>1, <2>2, <2>10 DEF ListsOfWhatThereIs
<1>5. CASE OtherSorts
  <2>1. /\ sorted' = TRUE /\ ref' = Sort(ref, DefaultField, TRUE)
        /\ Moved \/ UNCHANGED walk
        /\ changes < MaxChanges /\ changes' = changes + 1
        /\ UNCHANGED <<list, accounts, log, entries, made, hour, clear>>
    BY <1>5 DEF OtherSorts, Changes
  <2>2. walk' # Idle => WalkTyped(list', made', walk')
    BY <2>1, WalkStays
  <2>3. changes' \in 0..MaxChanges
    BY <1>0, <2>1, QueriesAssumption
  <2>4. ref' \in Seq(ToSet(AllAccounts)) /\ Len(ref') <= Len(AllAccounts)
    BY <2>1, SortedAre DEF ListsOfWhatThereIs
  <2> QED
    BY <2>1, <2>2, <2>3, <2>4 DEF ListsOfWhatThereIs
<1>6. CASE Sync
  <2>1. /\ ref' = ListOf(accounts') /\ sorted' = FALSE /\ Moved
        /\ changes < MaxChanges /\ changes' = changes + 1
        /\ UNCHANGED <<list, log, entries, made, hour, clear>>
    BY <1>6 DEF Sync, Changes
  <2>2. accounts' \subseteq ToSet(AllAccounts)
    BY <1>6 DEF Sync, ListsOfWhatThereIs
  <2>3. walk' # Idle => WalkTyped(list', made', walk')
    BY <2>1, WalkStays
  <2>4. changes' \in 0..MaxChanges
    BY <1>0, <2>1, QueriesAssumption
  <2>5. ref' \in Seq(ToSet(AllAccounts)) /\ Len(ref') <= Len(AllAccounts)
    BY <2>1, ListOfAre
  <2> QED
    BY <2>1, <2>2, <2>3, <2>4, <2>5 DEF ListsOfWhatThereIs
<1>7. CASE SetActivityKey
  <2>1. PICK id \in Ids \ made, kind \in Kinds :
           /\ made' = made \cup {id}
           /\ log' = log \cup {[id |-> id, time |-> hour, type |-> kind.type, by |-> kind.by,
                                user |-> kind.user, source |-> kind.source]}
    BY <1>7 DEF SetActivityKey
  <2>2. Moved /\ UNCHANGED <<list, accounts, ref, sorted, entries, hour, changes, clear>>
    BY <1>7 DEF SetActivityKey
  <2> DEFINE new == [id |-> id, time |-> hour, type |-> kind.type, by |-> kind.by,
                     user |-> kind.user, source |-> kind.source]
  <2>3. new.id = id /\ new.time = hour
    OBVIOUS
  <2>4. log' = log \cup {new}
    BY <2>1
  <2> HIDE DEF new
  <2>5. hour \in 1..MaxHour /\ made \subseteq Ids
        /\ (\A a \in log : a.id \in made /\ a.time \in 1..MaxHour)
        /\ \A a, b \in log : a.id = b.id => a = b
    BY DEF ListsOfWhatThereIs
  <2>6. /\ \A a \in log' : a.id \in made' /\ a.time \in 1..MaxHour
        /\ \A a, b \in log' : a.id = b.id => a = b
    BY <2>1, <2>3, <2>4, <2>5
  <2>7. made' \subseteq Ids /\ made \subseteq made'
    BY <2>1, <2>5
  <2>8. walk' # Idle => WalkTyped(list', made', walk')
    BY <2>2, <2>7, WalkStays
  <2> QED
    BY <2>2, <2>6, <2>7, <2>8 DEF ListsOfWhatThereIs
<1>8. CASE DeleteActivity
  <2>1. /\ log' \subseteq log /\ Cut /\ changes < MaxChanges /\ changes' = changes + 1
        /\ clear' = [clear EXCEPT !.cut = (clear.at = "each")]
        /\ UNCHANGED <<list, accounts, ref, sorted, entries, made, hour>>
    BY <1>8 DEF DeleteActivity, Changes
  <2>2. changes' \in 0..MaxChanges
    BY <1>0, <2>1, QueriesAssumption
  <2>3. clear = [at |-> clear.at, left |-> clear.left, cut |-> clear.cut]
        /\ clear.at \in {"idle", "old", "count", "each"} /\ clear.left \subseteq made
    BY DEF ListsOfWhatThereIs
  <2> DEFINE c == clear.at = "each"
  <2>4. c \in BOOLEAN /\ clear' = [clear EXCEPT !.cut = c]
    BY <2>1
  <2> HIDE DEF c
  <2>5. clear' = [at |-> clear.at, left |-> clear.left, cut |-> c]
    BY <2>3, <2>4
  <2>6. /\ clear'.at = clear.at /\ clear'.left = clear.left /\ clear'.cut = c
        /\ clear' = [at |-> clear'.at, left |-> clear'.left, cut |-> clear'.cut]
    BY <2>5
  <2> QED
    BY <2>1, <2>2, <2>3, <2>4, <2>6, LessTyped
<1>9. CASE NewEntry
  <2>1. PICK id \in Ids, dropped \in SUBSET {e \in entries : \A f \in entries : e.id <= f.id} :
           /\ made' = made \cup {id}
           /\ entries' = (entries \ dropped) \cup {[id |-> id]}
    BY <1>9 DEF NewEntry
  <2>2. Moved /\ UNCHANGED <<list, accounts, ref, sorted, log, hour, changes, clear>>
    BY <1>9 DEF NewEntry
  <2>3. \A e \in entries : e.id \in made /\ e = [id |-> e.id]
    BY DEF ListsOfWhatThereIs
  <2>4. \A e \in entries' : e.id \in made' /\ e = [id |-> e.id]
    BY <2>1, <2>3
  <2>5. made' \subseteq Ids /\ made \subseteq made'
    BY <2>1 DEF ListsOfWhatThereIs
  <2>6. walk' # Idle => WalkTyped(list', made', walk')
    BY <2>2, <2>5, WalkStays
  <2> QED
    BY <2>2, <2>4, <2>5, <2>6 DEF ListsOfWhatThereIs
<1>10. CASE Tick
  <2>1. /\ hour < MaxHour /\ hour' = hour + 1
        /\ UNCHANGED <<list, accounts, ref, sorted, log, entries, made, changes, clear, walk>>
    BY <1>10 DEF Tick, lists
  <2>2. hour' \in 1..MaxHour
    BY <2>1, QueriesAssumption DEF ListsOfWhatThereIs
  <2>3. walk' # Idle => WalkTyped(list', made', walk')
    BY <2>1, WalkStays
  <2> QED
    BY <2>1, <2>2, <2>3 DEF ListsOfWhatThereIs
<1>11. CASE Daemon
  BY <1>11, HousekeepingTyped
<1>12. CASE UNCHANGED queryVars
  <2>1. UNCHANGED <<list, accounts, ref, sorted, log, entries, made, hour, changes, clear, walk>>
    BY <1>12 DEF queryVars, lists
  <2>2. walk' # Idle => WalkTyped(list', made', walk')
    BY <2>1, WalkStays
  <2> QED
    BY <2>1, <2>2 DEF ListsOfWhatThereIs
<1> QED
  BY <1>1, <1>2, <1>3, <1>4, <1>5, <1>6, <1>7, <1>8, <1>9, <1>10, <1>11, <1>12
     DEF QueriesNext, Client

LEMMA ListsStayTyped == QueriesSpec => []ListsOfWhatThereIs
BY TypesInit, TypesStep, PTL DEF QueriesSpec

(***************************************************************************)
(* The pages of a list that stands still are its start.                    *)
(***************************************************************************)
LEMMA NothingIsStart ==
    ASSUME NEW s, NEW n, IsList(s, n)
    PROVE  <<>> = IdsOf(SubSeq(s, 1, 0))
<1>1. n \in Nat
  BY DEF IsList
<1>2. IsList(SubSeq(s, 1, 0), 0)
  BY <1>1, StartOfList
<1>3. IsList(IdsOf(SubSeq(s, 1, 0)), 0)
  BY <1>2, IdsAreList
<1> DEFINE t == IdsOf(SubSeq(s, 1, 0))
<1>4. IsList(t, 0)
  BY <1>3
<1> HIDE DEF t
<1>5. IsList(<<>>, 0)
  BY DEF IsList
<1>6. <<>> = t
  BY <1>4, <1>5, SameLists
<1> QED
  BY <1>6 DEF t

\* A page that is loaded after the start of a list makes for more of its start.
LEMMA LoadStarts ==
    ASSUME ListsOfWhatThereIs, NEW STATE w, NEW STATE limit, NEW STATE page, NEW STATE got,
           IsWalk(w), limit \in Nat \ {0}, page \in Nat,
           page * limit + limit = w.limit * (w.page + 1),
           ~w.moved => /\ page * limit <= Len(Found(w.req))
                       /\ got = IdsOf(SubSeq(Found(w.req), 1, page * limit)),
           Load(w, limit, page, got)
    PROVE  PagesAreTheStart'
<1> DEFINE s == Found(w.req)
<1>1. /\ UNCHANGED <<list, accounts, log, entries, made, hour, clear>>
      /\ walk'.req = w.req /\ walk'.limit = w.limit /\ walk'.page = w.page
      /\ walk'.moved = w.moved
      /\ walk'.got = Appended(got, IdsOf(Page(s, limit, page)))
      /\ walk'.at = "done" <=> LastPage(s, limit, page)
  BY LoadWalks
<1>2. FoundIn(list', ref', sorted', log', entries', w.req) = s
  BY LoadFinds
<1>3. Found(walk.req)' = s
  <2>1. list' \in {"users", "log", "jellyfin"}
    BY <1>1 DEF ListsOfWhatThereIs
  <2> HIDE DEF s
  <2> QED
    BY <1>1, <1>2, <2>1, FoundThen
<1>4. PICK n \in 0..Bound : IsList(s, n)
  BY FoundIsList
<1>5. ~w.moved => /\ page * limit <= Len(s)
                  /\ got = IdsOf(SubSeq(s, 1, page * limit))
  OBVIOUS
<1> HIDE DEF s
<1>6. Len(s) = n
  BY <1>4, ListsAreSequences
<1>7. Upto(walk') = page * limit + limit
  BY <1>1 DEF Upto
<1>8. walk'.at = "done" <=> n < page * limit + limit
  BY <1>1, <1>4, PageIsPart
<1>9. ASSUME ~w.moved
      PROVE  walk'.got = IdsOf(SubSeq(s, 1, Lesser(page * limit + limit, n)))
  <2>1. page * limit <= n /\ got = IdsOf(SubSeq(s, 1, page * limit))
    BY <1>5, <1>6, <1>9
  <2>2. Appended(IdsOf(SubSeq(s, 1, page * limit)), IdsOf(Page(s, limit, page)))
            = IdsOf(SubSeq(s, 1, Lesser(page * limit + limit, n)))
    BY <1>4, <2>1, PageContinues
  <2> QED
    BY <1>1, <2>1, <2>2
<1>10. ~w.moved => Starts(s, walk')
  BY <1>6, <1>7, <1>8, <1>9 DEF Starts
<1> QED
  BY <1>1, <1>3, <1>10 DEF PagesAreTheStart

LEMMA BeginStarts ==
    ASSUME ListsOfWhatThereIs, NEW STATE req, NEW STATE limit, NEW STATE page,
           limit \in Limits, page \in Nat, Begin(req, limit, page)
    PROVE  PagesAreTheStart'
<1>1. PICK w : /\ w = [at |-> "idle", req |-> req, limit |-> limit, page |-> page,
                       got |-> <<>>, begun |-> {x.id : x \in ToSet(Found(req))},
                       moved |-> FALSE, cut |-> FALSE]
               /\ IsWalk(w) /\ Load(w, limit * (page + 1), 0, <<>>)
  BY BeginWalks
<1>2. w.limit = limit /\ w.page = page
  BY <1>1
<1> DEFINE n == limit * (page + 1)
           s == Found(w.req)
<1>3. n \in Nat \ {0} /\ w.limit * (w.page + 1) = n
  BY <1>2, QueriesAssumption
<1>4. Load(w, n, 0, <<>>)
  BY <1>1
<1> HIDE DEF n
<1>5. 0 * n = 0 /\ 0 * n + n = n
  BY <1>3
<1>6. PICK m \in 0..Bound : IsList(s, m)
  BY FoundIsList
<1>7. 0 * n <= Len(s) /\ <<>> = IdsOf(SubSeq(s, 1, 0 * n))
  <2> HIDE DEF s
  <2>1. Len(s) = m /\ m \in Nat
    BY <1>6, ListsAreSequences
  <2>2. <<>> = IdsOf(SubSeq(s, 1, 0))
    BY <1>6, NothingIsStart
  <2> QED
    BY <1>5, <2>1, <2>2
<1>8. 0 * n + n = w.limit * (w.page + 1) /\ 0 \in Nat
  BY <1>3, <1>5
<1> QED
  BY <1>1, <1>3, <1>4, <1>7, <1>8, LoadStarts

LEMMA LoadMoreStarts ==
    ASSUME ListsOfWhatThereIs, PagesAreTheStart, LoadMore
    PROVE  PagesAreTheStart'
<1>1. PICK w : /\ w = [walk EXCEPT !.page = walk.page + 1]
               /\ WalkTyped(list, made, walk) /\ IsWalk(w)
               /\ w.at = walk.at /\ w.req = walk.req /\ w.limit = walk.limit
               /\ w.page = walk.page + 1 /\ w.got = walk.got /\ w.begun = walk.begun
               /\ w.moved = walk.moved /\ w.cut = walk.cut
               /\ Load(w, walk.limit, walk.page + 1, walk.got)
  BY LoadMoreWalks
<1>2. walk.limit \in Nat \ {0} /\ walk.page \in Nat
  BY <1>1, QueriesAssumption DEF WalkTyped
<1> DEFINE p == walk.page + 1
<1>3. p \in Nat /\ w.page = p /\ Load(w, walk.limit, p, walk.got)
  BY <1>1, <1>2
<1>4. p * walk.limit + walk.limit = walk.limit * (p + 1) /\ p * walk.limit = Upto(walk)
      /\ Upto(walk) \in Nat
  BY <1>2, NextPage DEF Upto
<1>5. p * walk.limit + walk.limit = w.limit * (w.page + 1)
  BY <1>1, <1>3, <1>4
<1> HIDE DEF p
<1>6. walk # Idle /\ walk.at = "more"
  BY DEF LoadMore
<1> DEFINE s == Found(w.req)
<1>7. ~w.moved => Starts(s, walk)
  BY <1>1, <1>6 DEF PagesAreTheStart, Showing
<1>8. PICK n \in 0..Bound : IsList(s, n)
  BY FoundIsList
<1>9. ~w.moved => p * walk.limit <= Len(s) /\ walk.got = IdsOf(SubSeq(s, 1, p * walk.limit))
  <2> HIDE DEF s
  <2> SUFFICES ASSUME ~w.moved
               PROVE  p * walk.limit <= Len(s) /\ walk.got = IdsOf(SubSeq(s, 1, p * walk.limit))
    OBVIOUS
  <2>1. Len(s) = n /\ n \in Nat
    BY <1>8, ListsAreSequences
  <2>2. ~(n < Upto(walk)) /\ walk.got = IdsOf(SubSeq(s, 1, Lesser(Upto(walk), n)))
    BY <1>6, <1>7, <2>1 DEF Starts
  <2>3. Upto(walk) <= n /\ Lesser(Upto(walk), n) = Upto(walk)
    BY <1>4, <2>1, <2>2 DEF Lesser
  <2> QED
    BY <1>4, <2>1, <2>2, <2>3
<1> QED
  BY <1>1, <1>2, <1>3, <1>5, <1>9, LoadStarts

LEMMA StartsStay ==
    ASSUME ListsOfWhatThereIs, PagesAreTheStart, list' = list, walk' = walk,
           FoundIn(list', ref', sorted', log', entries', walk.req) = Found(walk.req)
    PROVE  PagesAreTheStart'
<1>1. list' \in {"users", "log", "jellyfin"}
  BY DEF ListsOfWhatThereIs
<1>2. Found(walk.req)' = Found(walk.req)
  BY <1>1, FoundThen
<1> QED
  BY <1>2 DEF PagesAreTheStart, Showing

LEMMA SameListsSameStarts ==
    ASSUME ListsOfWhatThereIs, PagesAreTheStart, UNCHANGED <<list, ref, sorted, log, entries, walk>>
    PROVE  PagesAreTheStart'
<1>1. list \in {"users", "log", "jellyfin"}
  BY DEF ListsOfWhatThereIs
<1>2. Found(walk.req) = FoundIn(list, ref, sorted, log, entries, walk.req)
  BY <1>1, FoundNow
<1>3. FoundIn(list', ref', sorted', log', entries', walk.req) = Found(walk.req)
  BY <1>2
<1> QED
  BY <1>3, StartsStay

LEMMA MovedStarts ==
    ASSUME ListsOfWhatThereIs, Moved \/ Cut
    PROVE  PagesAreTheStart'
<1>1. walk' = Idle \/ walk'.moved = TRUE
  BY Moves, Cuts
<1> QED
  BY <1>1 DEF PagesAreTheStart, Showing

LEMMA StartsStep ==
    ASSUME ListsOfWhatThereIs, PagesAreTheStart, [QueriesNext]_queryVars
    PROVE  PagesAreTheStart'
<1>1. CASE Open
  <2>1. PICK req \in Requests, limit \in Limits : Begin(req, limit, 0)
    BY <1>1 DEF Open
  <2>2. 0 \in Nat
    OBVIOUS
  <2> QED
    BY <2>1, <2>2, BeginStarts
<1>2. CASE Reload
  <2>1. walk # Idle /\ Begin(walk.req, walk.limit, walk.page)
    BY <1>2 DEF Reload
  <2>2. walk.limit \in Limits /\ walk.page \in Nat
    BY <2>1 DEF ListsOfWhatThereIs, WalkTyped
  <2> QED
    BY <2>1, <2>2, BeginStarts
<1>3. CASE LoadMore
  BY <1>3, LoadMoreStarts
<1>4. CASE LoadFails
  <2>1. walk # Idle /\ walk' = [walk EXCEPT !.page = @ + 1, !.at = "locked"]
    BY <1>4 DEF LoadFails
  <2>2. IsWalk(walk)
    BY <2>1 DEF ListsOfWhatThereIs, WalkTyped
  <2>3. walk'.at = "locked"
    BY <2>1, <2>2 DEF IsWalk
  <2> QED
    BY <2>3 DEF PagesAreTheStart, Showing
<1>5. CASE OtherSorts
  <2>1. /\ list = "users" /\ ~sorted /\ sorted' = TRUE /\ ref' = Sort(ref, DefaultField, TRUE)
        /\ IF walk # Idle /\ walk.req.field # DefaultField THEN Moved ELSE UNCHANGED walk
        /\ UNCHANGED <<list, log, entries>>
    BY <1>5 DEF OtherSorts
  <2>2. CASE walk # Idle /\ walk.req.field # DefaultField
    BY <2>1, <2>2, MovedStarts
  <2>3. CASE walk = Idle
    BY <2>1, <2>3 DEF PagesAreTheStart, Showing
  <2>4. CASE walk # Idle /\ walk.req.field = DefaultField
    <3>1. UNCHANGED walk
      BY <2>1, <2>4
    <3>2. Found(walk.req) = FoundIn(list, ref, sorted, log, entries, walk.req)
      BY <2>1, FoundNow
    <3>3. FoundIn(list, ref, sorted, log, entries, walk.req) = FoundUsers(ref', walk.req)
      BY <2>1, <2>4 DEF FoundIn
    <3>4. FoundIn(list', ref', sorted', log', entries', walk.req) = FoundUsers(ref', walk.req)
      BY <2>1, <2>4 DEF FoundIn
    <3> QED
      BY <2>1, <3>1, <3>2, <3>3, <3>4, StartsStay
  <2> QED
    BY <2>2, <2>3, <2>4
<1>6. CASE Sync
  BY <1>6, MovedStarts DEF Sync
<1>7. CASE SetActivityKey
  BY <1>7, MovedStarts DEF SetActivityKey
<1>8. CASE DeleteActivity
  BY <1>8, MovedStarts DEF DeleteActivity
<1>9. CASE NewEntry
  BY <1>9, MovedStarts DEF NewEntry
<1>10. CASE Tick
  BY <1>10, SameListsSameStarts DEF Tick, lists
<1>11. CASE Daemon
  <2>1. /\ \/ log' = log /\ UNCHANGED walk
           \/ Moved \/ Cut
        /\ UNCHANGED <<list, accounts, ref, sorted, entries>>
    BY <1>11 DEF Daemon, StartClear, DeleteMatching, TooBig, DeleteActivityKey, Housekeeping
  <2> QED
    BY <2>1, MovedStarts, SameListsSameStarts
<1>12. CASE UNCHANGED queryVars
  BY <1>12, SameListsSameStarts DEF queryVars, lists
<1> QED
  BY <1>1, <1>2, <1>3, <1>4, <1>5, <1>6, <1>7, <1>8, <1>9, <1>10, <1>11, <1>12
     DEF QueriesNext, Client

LEMMA StartsHold == QueriesSpec => []PagesAreTheStart
<1>1. QueriesInit => PagesAreTheStart
  BY DEF QueriesInit, PagesAreTheStart, Showing
<1> QED
  BY <1>1, StartsStep, ListsStayTyped, PTL DEF QueriesSpec

(***************************************************************************)
(* Newest first, nothing is passed over.                                   *)
(***************************************************************************)
\* What is still to come when a page is loaded is on it, or still to come.
LEMMA PagePassesNone ==
    ASSUME NEW S, IsFiniteSet(S), NEW order, IsOrder(S, order), NEW x \in S,
           NEW limit \in Nat \ {0}, NEW page \in Nat, NEW got, got \in Seq(ToSet(got)),
           Rank(S, order, x) >= page * limit
    PROVE  LET s == Arranged(S, order)
               all == Appended(got, IdsOf(Page(s, limit, page)))
           IN  \/ x.id \in ToSet(all)
               \/ /\ ~LastPage(s, limit, page)
                  /\ Rank(S, order, x) >= page * limit + limit
<1> DEFINE s == Arranged(S, order)
           n == Cardinality(S)
           r == Rank(S, order, x)
           start == page * limit
           all == Appended(got, IdsOf(Page(s, limit, page)))
<1>1. n \in Nat /\ r \in Nat /\ r < n /\ s[r + 1] = x
  BY Arrangement
<1>2. IsList(s, n)
  BY ArrangedIsList
<1>3. start \in Nat /\ r >= start
  OBVIOUS
<1> HIDE DEF s, n, r
<1>4. LastPage(s, limit, page) <=> n < start + limit
  BY <1>2, PageIsPart
<1>5. \A k \in 1..n : start < k /\ k <= start + limit => s[k].id \in ToSet(all)
  BY <1>2, PageAdds
<1> HIDE DEF all, start
<1>6. CASE r < start + limit
  <2>1. r + 1 \in 1..n /\ start < r + 1 /\ r + 1 <= start + limit
    BY <1>1, <1>3, <1>6
  <2>2. x.id \in ToSet(all)
    BY <1>1, <1>5, <2>1
  <2> QED
    BY <2>2 DEF all, s
<1>7. CASE ~(r < start + limit)
  <2>1. r >= start + limit /\ ~(n < start + limit)
    BY <1>1, <1>3, <1>7
  <2>2. ~LastPage(s, limit, page) /\ r >= start + limit
    BY <1>4, <2>1
  <2> QED
    BY <2>2 DEF s, r, start
<1> QED
  BY <1>6, <1>7

LEMMA LoadPassesNone ==
    ASSUME ListsOfWhatThereIs, NEW STATE w, NEW STATE limit, NEW STATE page, NEW STATE got,
           IsWalk(w), limit \in Nat \ {0}, page \in Nat, got \in Seq(ToSet(got)),
           page * limit + limit = w.limit * (w.page + 1),
           list # "users" => w.req \in LogRequests,
           ~w.cut /\ IsNewestFirst(list, w.req) =>
               LET S == FoundSet(list, log, entries, w.req)
               IN  \A x \in S : x.id \in w.begun =>
                       x.id \in ToSet(got) \/ Ahead(list, S, x) >= page * limit,
           Load(w, limit, page, got)
    PROVE  NothingIsPassed'
<1> DEFINE s == Found(w.req)
           S == FoundSet(list, log, entries, w.req)
           order == NewestFirst(list, S)
           all == Appended(got, IdsOf(Page(s, limit, page)))
<1>1. /\ UNCHANGED <<list, accounts, log, entries, made, hour, clear>>
      /\ walk'.req = w.req /\ walk'.limit = w.limit /\ walk'.page = w.page
      /\ walk'.begun = w.begun /\ walk'.cut = w.cut /\ walk'.got = all
      /\ walk'.at \in {"more", "done"}
      /\ walk'.at = "done" <=> LastPage(s, limit, page)
  BY LoadWalks
<1>2. SUFFICES ASSUME ~w.cut, IsNewestFirst(list, w.req)
               PROVE  PassesNone(list, S, walk')
  <2>1. PassesNone(list', FoundSet(list', log', entries', walk'.req), walk')
            <=> PassesNone(list, S, walk')
    BY <1>1
  <2> HIDE DEF S
  <2> QED
    BY <1>1, <2>1 DEF NothingIsPassed
<1>3. \A x \in S : x.id \in w.begun =>
          x.id \in ToSet(got) \/ Rank(S, order, x) >= page * limit
  BY <1>2 DEF Ahead
<1>4. IsFiniteSet(S) /\ IsOrder(S, order) /\ s = Arranged(S, order)
  <2>1. list # "users" => w.req.ascending \in BOOLEAN
    BY QueriesAssumption
  <2> QED
    BY <1>2, <2>1, FoundNewestFirst
<1>5. PICK n \in 0..Bound : IsList(s, n)
  BY FoundIsList
<1> HIDE DEF s
<1>6. ToSet(got) \subseteq ToSet(all)
  BY <1>5, PageAdds
<1>7. Upto(walk') = page * limit + limit
  BY <1>1 DEF Upto
<1> HIDE DEF S
<1>8. ASSUME NEW x \in S, x.id \in walk'.begun
      PROVE  x.id \in ToSet(walk'.got)
             \/ (walk'.at = "more" /\ Ahead(list, S, x) >= Upto(walk'))
  <2>1. CASE x.id \in ToSet(got)
    BY <1>1, <1>6, <2>1
  <2>2. CASE Rank(S, order, x) >= page * limit
    <3> HIDE DEF order, all
    <3>1. \/ x.id \in ToSet(Appended(got, IdsOf(Page(s, limit, page))))
          \/ /\ ~LastPage(s, limit, page)
             /\ Rank(S, order, x) >= page * limit + limit
      BY <1>4, <2>2, PagePassesNone
    <3> QED
      BY <1>1, <1>7, <3>1 DEF Ahead, order, all
  <2> QED
    BY <1>1, <1>3, <1>8, <2>1, <2>2
<1> QED
  BY <1>8 DEF PassesNone

LEMMA AheadIsNat ==
    ASSUME ListsOfWhatThereIs, NEW STATE req, IsNewestFirst(list, req),
           list # "users" => req.ascending \in BOOLEAN,
           NEW x, x \in FoundSet(list, log, entries, req)
    PROVE  Ahead(list, FoundSet(list, log, entries, req), x) \in Nat
<1> DEFINE S == FoundSet(list, log, entries, req)
           order == NewestFirst(list, S)
<1>1. IsFiniteSet(S) /\ IsOrder(S, order)
  BY FoundNewestFirst
<1> HIDE DEF S, order
<1>2. Rank(S, order, x) \in Nat
  BY <1>1, RankBound DEF S
<1> QED
  BY <1>2 DEF Ahead, S, order

LEMMA BeginPassesNone ==
    ASSUME ListsOfWhatThereIs, NEW STATE req, NEW STATE limit, NEW STATE page,
           limit \in Limits, page \in Nat, list # "users" => req \in LogRequests,
           Begin(req, limit, page)
    PROVE  NothingIsPassed'
<1>1. PICK w : /\ w = [at |-> "idle", req |-> req, limit |-> limit, page |-> page,
                       got |-> <<>>, begun |-> {x.id : x \in ToSet(Found(req))},
                       moved |-> FALSE, cut |-> FALSE]
               /\ IsWalk(w) /\ Load(w, limit * (page + 1), 0, <<>>)
  BY BeginWalks
<1>2. w.limit = limit /\ w.page = page /\ w.req = req
  BY <1>1
<1> DEFINE n == limit * (page + 1)
<1>3. n \in Nat \ {0} /\ w.limit * (w.page + 1) = n
  BY <1>2, QueriesAssumption
<1>4. Load(w, n, 0, <<>>)
  BY <1>1
<1> HIDE DEF n
<1>5. 0 * n = 0 /\ 0 * n + n = w.limit * (w.page + 1) /\ 0 \in Nat
      /\ <<>> \in Seq(ToSet(<<>>))
  BY <1>3
<1>6. ASSUME IsNewestFirst(list, w.req), NEW x \in FoundSet(list, log, entries, w.req)
      PROVE  Ahead(list, FoundSet(list, log, entries, w.req), x) >= 0 * n
  <2>1. list # "users" => w.req.ascending \in BOOLEAN
    BY <1>2, QueriesAssumption
  <2>2. Ahead(list, FoundSet(list, log, entries, w.req), x) \in Nat
    BY <1>6, <2>1, AheadIsNat
  <2> QED
    BY <1>5, <2>2
<1>7. ~w.cut /\ IsNewestFirst(list, w.req) =>
          LET S == FoundSet(list, log, entries, w.req)
          IN  \A x \in S : x.id \in w.begun =>
                  x.id \in ToSet(<<>>) \/ Ahead(list, S, x) >= 0 * n
  BY <1>6
<1> QED
  BY <1>1, <1>2, <1>3, <1>4, <1>5, <1>7, LoadPassesNone

LEMMA LoadMorePassesNone ==
    ASSUME ListsOfWhatThereIs, NothingIsPassed, LoadMore
    PROVE  NothingIsPassed'
<1>1. PICK w : /\ w = [walk EXCEPT !.page = walk.page + 1]
               /\ WalkTyped(list, made, walk) /\ IsWalk(w)
               /\ w.at = walk.at /\ w.req = walk.req /\ w.limit = walk.limit
               /\ w.page = walk.page + 1 /\ w.got = walk.got /\ w.begun = walk.begun
               /\ w.moved = walk.moved /\ w.cut = walk.cut
               /\ Load(w, walk.limit, walk.page + 1, walk.got)
  BY LoadMoreWalks
<1>2. walk.limit \in Nat \ {0} /\ walk.page \in Nat /\ walk.got \in Seq(ToSet(walk.got))
  BY <1>1, QueriesAssumption DEF WalkTyped
<1>3. list # "users" => w.req \in LogRequests
  BY <1>1 DEF WalkTyped
<1> DEFINE p == walk.page + 1
<1>4. p \in Nat /\ w.page = p /\ Load(w, walk.limit, p, walk.got)
  BY <1>1, <1>2
<1>5. p * walk.limit + walk.limit = walk.limit * (p + 1) /\ p * walk.limit = Upto(walk)
  BY <1>2, NextPage DEF Upto
<1>6. p * walk.limit + walk.limit = w.limit * (w.page + 1)
  BY <1>1, <1>4, <1>5
<1> HIDE DEF p
<1>7. walk # Idle /\ walk.at = "more"
  BY DEF LoadMore
<1>8. ~w.cut /\ IsNewestFirst(list, w.req) =>
          LET S == FoundSet(list, log, entries, w.req)
          IN  \A x \in S : x.id \in w.begun =>
                  x.id \in ToSet(walk.got) \/ Ahead(list, S, x) >= p * walk.limit
  BY <1>1, <1>5, <1>7 DEF NothingIsPassed, PassesNone, Showing
<1> QED
  BY <1>1, <1>2, <1>3, <1>4, <1>6, <1>8, LoadPassesNone

\* Whatever is ahead of one that stays stays ahead of it.
LEMMA NothingComesNearer ==
    ASSUME NEW l, NEW S, NEW T, IsFiniteSet(S), IsFiniteSet(T), NEW x,
           Before(S, NewestFirst(l, S), x) \subseteq Before(T, NewestFirst(l, T), x)
    PROVE  /\ Ahead(l, S, x) \in Nat /\ Ahead(l, T, x) \in Nat
           /\ Ahead(l, S, x) <= Ahead(l, T, x)
<1> DEFINE A == Before(S, NewestFirst(l, S), x)
           B == Before(T, NewestFirst(l, T), x)
<1>1. A \subseteq S /\ B \subseteq T
  BY DEF Before
<1> HIDE DEF A, B
<1>2. IsFiniteSet(A) /\ IsFiniteSet(B)
  BY <1>1, FS_Subset
<1>3. A \subseteq B
  BY DEF A, B
<1>4. Cardinality(A) \in Nat /\ Cardinality(B) \in Nat /\ Cardinality(A) <= Cardinality(B)
  BY <1>2, <1>3, FS_Subset, FS_CardinalityType
<1> QED
  BY <1>4 DEF Ahead, Rank, A, B

LEMMA PassesOn ==
    ASSUME ListsOfWhatThereIs, NothingIsPassed, list' = list, Moved \/ UNCHANGED walk,
           IsNewestFirst(list, walk.req) /\ walk # Idle =>
             LET S == FoundSet(list, log, entries, walk.req)
                 T == FoundSet(list', log', entries', walk.req)
             IN  \A x \in T : x.id \in walk.begun =>
                    /\ x \in S /\ Ahead(list, S, x) \in Nat /\ Ahead(list, T, x) \in Nat
                    /\ Ahead(list, S, x) <= Ahead(list, T, x)
    PROVE  NothingIsPassed'
<1>1. SUFFICES ASSUME Showing(walk)', ~walk'.cut, IsNewestFirst(list', walk'.req)
               PROVE  PassesNone(list', FoundSet(list', log', entries', walk'.req), walk')
  BY DEF NothingIsPassed
<1>2. walk' # Idle /\ walk # Idle /\ walk'.at = walk.at /\ walk'.req = walk.req
      /\ walk'.limit = walk.limit /\ walk'.page = walk.page /\ walk'.got = walk.got
      /\ walk'.begun = walk.begun /\ walk'.cut = walk.cut
  <2>1. walk' # Idle
    BY <1>1 DEF Showing
  <2> QED
    BY <2>1, Moves
<1> DEFINE S == FoundSet(list, log, entries, walk.req)
           T == FoundSet(list', log', entries', walk.req)
<1>3. PassesNone(list, S, walk)
  BY <1>1, <1>2 DEF NothingIsPassed, Showing
<1>4. \A x \in T : x.id \in walk.begun =>
          /\ x \in S /\ Ahead(list, S, x) \in Nat /\ Ahead(list, T, x) \in Nat
          /\ Ahead(list, S, x) <= Ahead(list, T, x)
  BY <1>1, <1>2
<1>5. Upto(walk') = Upto(walk) /\ Upto(walk) \in Nat
  <2>1. WalkTyped(list, made, walk)
    BY <1>2 DEF ListsOfWhatThereIs
  <2>2. walk.limit \in Nat /\ walk.page \in Nat
    BY <2>1, QueriesAssumption DEF WalkTyped
  <2> QED
    BY <1>2, <2>2 DEF Upto
<1>6. PassesNone(list, T, walk')
  <2> SUFFICES ASSUME NEW x \in T, x.id \in walk'.begun
               PROVE  x.id \in ToSet(walk'.got)
                      \/ (walk'.at = "more" /\ Ahead(list, T, x) >= Upto(walk'))
    BY DEF PassesNone
  <2> HIDE DEF S, T
  <2>1. /\ x \in S /\ Ahead(list, S, x) \in Nat /\ Ahead(list, T, x) \in Nat
        /\ Ahead(list, S, x) <= Ahead(list, T, x)
    BY <1>2, <1>4
  <2>2. x.id \in ToSet(walk.got) \/ (walk.at = "more" /\ Ahead(list, S, x) >= Upto(walk))
    BY <1>2, <1>3, <2>1 DEF PassesNone
  <2> QED
    BY <1>2, <1>5, <2>1, <2>2
<1> QED
  BY <1>2, <1>6

\* The surplus is what has too many before it, newest first, or is too old; so nothing of it
\* is before what stays.
LEMMA ExcessMeans ==
    ASSUME ListsOfWhatThereIs, NEW a \in log
    PROVE  a \in Excess <=> Rank(log, NewestFirst("log", log), a) >= KeepCount
<1> DEFINE order == NewestFirst("log", log)
           s == Arranged(log, order)
           n == Cardinality(log)
           r == Rank(log, order, a)
<1>1. InOrder(log, "time", FALSE) = s
  BY DEF InOrder, NewestFirst
<1>2. IsFiniteSet(log) /\ IsOrder(log, order)
  BY NewestFirstIsOrder
<1> HIDE DEF order
<1>3. /\ n \in Nat /\ Len(s) = n
      /\ \A k \in 1..n : s[k] \in log /\ Rank(log, order, s[k]) = k - 1
      /\ r \in Nat /\ r < n /\ s[r + 1] = a
  BY <1>2, Arrangement
<1> HIDE DEF s, n
<1>4. KeepCount \in Nat
  BY QueriesAssumption
<1>5. Excess = {s[k] : k \in (KeepCount + 1)..n}
  BY <1>1, <1>3 DEF Excess, Skipping
<1>6. ASSUME a \in Excess PROVE r >= KeepCount
  <2>1. PICK k \in (KeepCount + 1)..n : a = s[k]
    BY <1>5, <1>6
  <2>2. k \in 1..n /\ k - 1 >= KeepCount
    BY <1>3, <1>4, <2>1
  <2>3. r = k - 1
    BY <1>3, <2>1, <2>2
  <2> QED
    BY <2>2, <2>3
<1>7. ASSUME r >= KeepCount PROVE a \in Excess
  <2> HIDE DEF r
  <2>1. r + 1 \in (KeepCount + 1)..n
    BY <1>3, <1>4, <1>7
  <2> QED
    BY <1>3, <1>5, <2>1
<1> QED
  BY <1>6, <1>7 DEF order

LEMMA SurplusIsLast ==
    ASSUME ListsOfWhatThereIs, NEW x \in log \ Surplus, NEW y \in log,
           <<y, x>> \in NewestFirst("log", log)
    PROVE  y \notin Surplus
<1> DEFINE order == NewestFirst("log", log)
<1>1. IsFiniteSet(log) /\ IsOrder(log, order)
  BY NewestFirstIsOrder
<1>2. y.time >= x.time
  <2>1. IF y.time = x.time THEN y.id < x.id ELSE (y.time < x.time) = FALSE
    BY LogOrder
  <2>2. x.time \in Int /\ y.time \in Int
    BY DEF ListsOfWhatThereIs
  <2> QED
    BY <2>1, <2>2
<1>3. y \in Old => x \in Old
  <2>1. x.time \in Int /\ y.time \in Int /\ hour \in Int
    BY DEF ListsOfWhatThereIs
  <2>2. MaxAge \in Nat
    BY QueriesAssumption
  <2> QED
    BY <1>2, <2>1, <2>2 DEF Old
<1>4. y \in Excess => x \in Excess
  <2>1. Rank(log, order, y) < Rank(log, order, x)
    BY <1>1, RankGrows
  <2>2. Rank(log, order, y) \in Nat /\ Rank(log, order, x) \in Nat /\ KeepCount \in Nat
    BY <1>1, RankBound, QueriesAssumption
  <2>3. (x \in Excess <=> Rank(log, order, x) >= KeepCount)
        /\ (y \in Excess <=> Rank(log, order, y) >= KeepCount)
    BY ExcessMeans
  <2> HIDE DEF order
  <2> QED
    BY <2>1, <2>2, <2>3
<1> QED
  BY <1>3, <1>4 DEF Surplus

\* What the log has of a request, and entries, are as finite as the lists.
LEMMA FoundSetFinite ==
    ASSUME ListsOfWhatThereIs, NEW STATE req
    PROVE  IsFiniteSet(FoundSet(list, log, entries, req))
<1>1. {a \in log : generateActivitiesQuery(req, a)} \in SUBSET log
  OBVIOUS
<1>2. IsFiniteSet(log) /\ IsFiniteSet(entries)
  BY LogIsFinite
<1>3. IsFiniteSet({a \in log : generateActivitiesQuery(req, a)})
  BY <1>1, <1>2, FS_Subset
<1> QED
  BY <1>2, <1>3 DEF FoundSet

LEMMA ActivityPassesOn ==
    ASSUME ListsOfWhatThereIs, NothingIsPassed, SetActivityKey
    PROVE  NothingIsPassed'
<1>1. PICK id \in Ids \ made : \E kind \in Kinds :
         log' = log \cup {[id |-> id, time |-> hour, type |-> kind.type, by |-> kind.by,
                           user |-> kind.user, source |-> kind.source]}
  BY DEF SetActivityKey
<1>2. list = "log" /\ Moved /\ list' = list /\ entries' = entries /\ log \subseteq log'
  BY <1>1 DEF SetActivityKey
<1>3. \A a \in log' : a \in log \/ a.id = id
  BY <1>1
<1> DEFINE S == FoundSet(list, log, entries, walk.req)
           T == FoundSet(list', log', entries', walk.req)
<1>4. S \subseteq T /\ (\A x \in T : x \in log => x \in S) /\ T \subseteq log'
  BY <1>2 DEF FoundSet
<1>5. IsFiniteSet(S)
  BY FoundSetFinite
<1>6. IsFiniteSet(T)
  <2>1. PICK a : log' = log \cup {a}
    BY <1>1
  <2>2. IsFiniteSet(log')
    BY <2>1, LogIsFinite, FS_AddElement
  <2> HIDE DEF T
  <2> QED
    BY <1>4, <2>2, FS_Subset
<1>7. SUFFICES ASSUME IsNewestFirst(list, walk.req), walk # Idle,
                      NEW x \in T, x.id \in walk.begun
               PROVE  /\ x \in S /\ Ahead(list, S, x) \in Nat /\ Ahead(list, T, x) \in Nat
                      /\ Ahead(list, S, x) <= Ahead(list, T, x)
  <2> HIDE DEF S, T
  <2>1. IsNewestFirst(list, walk.req) /\ walk # Idle =>
            \A x \in T : x.id \in walk.begun =>
               /\ x \in S /\ Ahead(list, S, x) \in Nat /\ Ahead(list, T, x) \in Nat
               /\ Ahead(list, S, x) <= Ahead(list, T, x)
    BY <1>7
  <2> QED
    BY <1>2, <2>1, PassesOn DEF S, T
<1> HIDE DEF S, T
<1>8. x \in S
  <2>1. walk.begun \subseteq made
    BY <1>7 DEF ListsOfWhatThereIs, WalkTyped
  <2>2. x.id # id
    BY <1>1, <1>7, <2>1
  <2> QED
    BY <1>3, <1>4, <1>7, <2>2
<1>9. Before(S, NewestFirst("log", S), x) \subseteq Before(T, NewestFirst("log", T), x)
  <2> SUFFICES ASSUME NEW y \in S, <<y, x>> \in NewestFirst("log", S)
               PROVE  y \in T /\ <<y, x>> \in NewestFirst("log", T)
    BY DEF Before
  <2>1. y \in T
    BY <1>4
  <2>2. <<y, x>> \in NewestFirst("log", S) <=>
            IF y.time = x.time THEN y.id < x.id ELSE (y.time < x.time) = FALSE
    BY <1>8, LogOrder
  <2>3. <<y, x>> \in NewestFirst("log", T) <=>
            IF y.time = x.time THEN y.id < x.id ELSE (y.time < x.time) = FALSE
    BY <2>1, LogOrder
  <2> QED
    BY <2>1, <2>2, <2>3
<1> QED
  BY <1>2, <1>5, <1>6, <1>8, <1>9, NothingComesNearer

LEMMA EntryPassesOn ==
    ASSUME ListsOfWhatThereIs, NothingIsPassed, NewEntry
    PROVE  NothingIsPassed'
<1>1. PICK id \in Ids, dropped \in SUBSET {e \in entries : \A f \in entries : e.id <= f.id} :
         /\ \A m \in made : m < id
         /\ entries' = (entries \ dropped) \cup {[id |-> id]}
  BY DEF NewEntry
<1>2. list = "jellyfin" /\ Moved /\ list' = list
  BY DEF NewEntry
<1>3. \A e \in entries' : e \in entries \/ e.id = id
  BY <1>1
<1> DEFINE S == FoundSet(list, log, entries, walk.req)
           T == FoundSet(list', log', entries', walk.req)
<1>4. S = entries /\ T = entries'
  BY <1>2 DEF FoundSet
<1>5. IsFiniteSet(S)
  BY FoundSetFinite
<1>6. IsFiniteSet(T)
  <2>1. IsFiniteSet(entries \ dropped)
    BY LogIsFinite, FS_Subset
  <2>2. IsFiniteSet(entries')
    BY <1>1, <2>1, FS_AddElement
  <2> QED
    BY <1>4, <2>2
<1>7. SUFFICES ASSUME IsNewestFirst(list, walk.req), walk # Idle,
                      NEW x \in T, x.id \in walk.begun
               PROVE  /\ x \in S /\ Ahead(list, S, x) \in Nat /\ Ahead(list, T, x) \in Nat
                      /\ Ahead(list, S, x) <= Ahead(list, T, x)
  <2> HIDE DEF S, T
  <2>1. IsNewestFirst(list, walk.req) /\ walk # Idle =>
            \A x \in T : x.id \in walk.begun =>
               /\ x \in S /\ Ahead(list, S, x) \in Nat /\ Ahead(list, T, x) \in Nat
               /\ Ahead(list, S, x) <= Ahead(list, T, x)
    BY <1>7
  <2> QED
    BY <1>2, <2>1, PassesOn DEF S, T
<1> HIDE DEF S, T
<1>8. \A m \in made : m # id
  <2>1. made \subseteq Int
    BY DEF ListsOfWhatThereIs, Ids
  <2> QED
    BY <1>1, <2>1 DEF Ids
<1>9. x \in S /\ x.id # id
  <2>1. walk.begun \subseteq made
    BY <1>7 DEF ListsOfWhatThereIs, WalkTyped
  <2>2. x.id # id
    BY <1>7, <1>8, <2>1
  <2> QED
    BY <1>3, <1>4, <1>7, <2>2
<1>10. Before(S, NewestFirst("jellyfin", S), x) \subseteq Before(T, NewestFirst("jellyfin", T), x)
  <2> SUFFICES ASSUME NEW y \in S, <<y, x>> \in NewestFirst("jellyfin", S)
               PROVE  y \in T /\ <<y, x>> \in NewestFirst("jellyfin", T)
    BY DEF Before
  <2>1. <<y, x>> \in NewestFirst("jellyfin", S) <=>
            IF y.id = x.id THEN y.id < x.id ELSE (y.id < x.id) = FALSE
    BY <1>9, EntryOrder
  <2>2. x.id \in Int /\ y.id \in Int
    BY <1>4, <1>9 DEF ListsOfWhatThereIs, Ids
  <2>3. y.id > x.id
    BY <2>1, <2>2
  <2>4. y \notin dropped
    <3>1. y \in dropped => y.id <= x.id
      BY <1>1, <1>4, <1>9
    <3> QED
      BY <2>2, <2>3, <3>1
  <2>5. y \in T
    BY <1>1, <1>4, <2>4
  <2>6. <<y, x>> \in NewestFirst("jellyfin", T) <=>
            IF y.id = x.id THEN y.id < x.id ELSE (y.id < x.id) = FALSE
    BY <2>5, EntryOrder
  <2> QED
    BY <2>1, <2>5, <2>6
<1> QED
  BY <1>2, <1>5, <1>6, <1>9, <1>10, NothingComesNearer

LEMMA TrimmingPassesOn ==
    ASSUME ListsOfWhatThereIs, NothingIsPassed, Moved \/ UNCHANGED walk,
           UNCHANGED <<list, entries>>, log' = log \/ log' = log \ Surplus
    PROVE  NothingIsPassed'
<1> DEFINE S == FoundSet(list, log, entries, walk.req)
           T == FoundSet(list', log', entries', walk.req)
<1>1. T \subseteq S
  BY DEF FoundSet
<1>2. IsFiniteSet(S)
  BY FoundSetFinite
<1>3. IsFiniteSet(T)
  <2> HIDE DEF S, T
  <2> QED
    BY <1>1, <1>2, FS_Subset
<1>4. SUFFICES ASSUME IsNewestFirst(list, walk.req), NEW x \in T
               PROVE  /\ x \in S /\ Ahead(list, S, x) \in Nat /\ Ahead(list, T, x) \in Nat
                      /\ Ahead(list, S, x) <= Ahead(list, T, x)
  <2> HIDE DEF S, T
  <2>1. IsNewestFirst(list, walk.req) /\ walk # Idle =>
            \A x \in T : x.id \in walk.begun =>
               /\ x \in S /\ Ahead(list, S, x) \in Nat /\ Ahead(list, T, x) \in Nat
               /\ Ahead(list, S, x) <= Ahead(list, T, x)
    BY <1>4
  <2> QED
    BY <2>1, PassesOn DEF S, T
<1>5. CASE T = S
  <2> HIDE DEF S, T
  <2>1. Before(S, NewestFirst(list, S), x) \subseteq Before(T, NewestFirst(list, T), x)
    BY <1>5
  <2> QED
    BY <1>2, <1>3, <1>4, <1>5, <2>1, NothingComesNearer
<1>6. CASE list = "log" /\ log' = log \ Surplus
  <2>1. S \subseteq log /\ (\A y \in S : y \notin Surplus => y \in T)
        /\ \A y \in T : y \in S /\ y \notin Surplus
    BY <1>6 DEF FoundSet
  <2> HIDE DEF S, T
  <2>2. x \in S /\ x \in log \ Surplus
    BY <1>4, <2>1
  <2>3. Before(S, NewestFirst("log", S), x) \subseteq Before(T, NewestFirst("log", T), x)
    <3> SUFFICES ASSUME NEW y \in S, <<y, x>> \in NewestFirst("log", S)
                 PROVE  y \in T /\ <<y, x>> \in NewestFirst("log", T)
      BY DEF Before
    <3>1. <<y, x>> \in NewestFirst("log", S) <=>
              IF y.time = x.time THEN y.id < x.id ELSE (y.time < x.time) = FALSE
      BY <2>2, LogOrder
    <3>2. y \in log
      BY <2>1
    <3>3. <<y, x>> \in NewestFirst("log", log) <=>
              IF y.time = x.time THEN y.id < x.id ELSE (y.time < x.time) = FALSE
      BY <2>2, <3>2, LogOrder
    <3>4. y \notin Surplus
      BY <2>2, <3>1, <3>2, <3>3, SurplusIsLast
    <3>5. y \in T
      BY <2>1, <3>4
    <3>6. <<y, x>> \in NewestFirst("log", T) <=>
              IF y.time = x.time THEN y.id < x.id ELSE (y.time < x.time) = FALSE
      BY <1>4, <3>5, LogOrder
    <3> QED
      BY <3>1, <3>5, <3>6
  <2> QED
    BY <1>2, <1>3, <1>6, <2>2, <2>3, NothingComesNearer
<1> QED
  BY <1>5, <1>6 DEF FoundSet

LEMMA NothingPassedStep ==
    ASSUME ListsOfWhatThereIs, NothingIsPassed, [QueriesNext]_queryVars
    PROVE  NothingIsPassed'
<1>1. CASE Open
  <2>1. PICK req \in Requests, limit \in Limits : Begin(req, limit, 0)
    BY <1>1 DEF Open
  <2>2. 0 \in Nat /\ (list # "users" => req \in LogRequests)
    BY DEF Requests
  <2> QED
    BY <2>1, <2>2, BeginPassesNone
<1>2. CASE Reload
  <2>1. walk # Idle /\ Begin(walk.req, walk.limit, walk.page)
    BY <1>2 DEF Reload
  <2>2. /\ walk.limit \in Limits /\ walk.page \in Nat
        /\ list # "users" => walk.req \in LogRequests
    BY <2>1 DEF ListsOfWhatThereIs, WalkTyped
  <2> QED
    BY <2>1, <2>2, BeginPassesNone
<1>3. CASE LoadMore
  BY <1>3, LoadMorePassesNone
<1>4. CASE LoadFails
  <2>1. walk # Idle /\ walk' = [walk EXCEPT !.page = @ + 1, !.at = "locked"]
    BY <1>4 DEF LoadFails
  <2>2. IsWalk(walk)
    BY <2>1 DEF ListsOfWhatThereIs, WalkTyped
  <2>3. walk'.at = "locked"
    BY <2>1, <2>2 DEF IsWalk
  <2> QED
    BY <2>3 DEF NothingIsPassed, Showing
<1>5. CASE OtherSorts \/ Sync
  <2>1. list' = "users"
    BY <1>5 DEF OtherSorts, Sync
  <2> QED
    BY <2>1 DEF NothingIsPassed, IsNewestFirst
<1>6. CASE SetActivityKey
  BY <1>6, ActivityPassesOn
<1>7. CASE DeleteActivity
  <2>1. walk' = Idle \/ walk'.cut = TRUE
    BY <1>7, Cuts DEF DeleteActivity
  <2> QED
    BY <2>1 DEF NothingIsPassed, Showing
<1>8. CASE NewEntry
  BY <1>8, EntryPassesOn
<1>9. CASE Tick
  BY <1>9, TrimmingPassesOn DEF Tick, lists
<1>10. CASE Daemon
  <2>1. UNCHANGED <<list, entries>>
    BY <1>10 DEF Daemon, StartClear, DeleteMatching, TooBig, DeleteActivityKey, Housekeeping
  <2>2. CASE Cut
    <3>1. walk' = Idle \/ walk'.cut = TRUE
      BY <2>2, Cuts
    <3> QED
      BY <3>1 DEF NothingIsPassed, Showing
  <2>3. CASE ~Cut
    <3>1. /\ Moved \/ UNCHANGED walk
          /\ log' = log \/ log' = log \ Surplus
      <4>1. CASE StartClear \/ TooBig
        BY <4>1 DEF StartClear, TooBig, Housekeeping
      <4>2. CASE DeleteMatching
        BY <2>3, <4>2 DEF DeleteMatching, Housekeeping, Without
      <4>3. CASE DeleteActivityKey
        BY <2>3, <4>3 DEF DeleteActivityKey, Housekeeping
      <4> QED
        BY <1>10, <4>1, <4>2, <4>3 DEF Daemon
    <3> QED
      BY <2>1, <3>1, TrimmingPassesOn
  <2> QED
    BY <2>2, <2>3
<1>11. CASE UNCHANGED queryVars
  BY <1>11, TrimmingPassesOn DEF queryVars, lists
<1> QED
  BY <1>1, <1>2, <1>3, <1>4, <1>5, <1>6, <1>7, <1>8, <1>9, <1>10, <1>11
     DEF QueriesNext, Client

LEMMA NothingPassedHolds == QueriesSpec => []NothingIsPassed
<1>1. QueriesInit => NothingIsPassed
  BY DEF QueriesInit, NothingIsPassed, Showing
<1> QED
  BY <1>1, NothingPassedStep, ListsStayTyped, PTL DEF QueriesSpec

(***************************************************************************)
(* What housekeeping deletes.                                              *)
(***************************************************************************)
LEMMA AheadIsNewer ==
    ASSUME ListsOfWhatThereIs, NEW a \in log, NEW b \in log,
           <<b, a>> \in NewestFirst("log", log)
    PROVE  b.time >= a.time
<1>1. IF b.time = a.time THEN b.id < a.id ELSE (b.time < a.time) = FALSE
  BY LogOrder
<1>2. a.time \in Int /\ b.time \in Int
  BY DEF ListsOfWhatThereIs
<1> QED
  BY <1>1, <1>2

\* What is in excess has more activities as new than are to be kept.
LEMMA ExcessHasNewer ==
    ASSUME ListsOfWhatThereIs, NEW a \in Excess, a \in log
    PROVE  Cardinality({b \in log : b.time >= a.time}) > KeepCount
<1> DEFINE order == NewestFirst("log", log)
           A == Before(log, order, a)
           N == {b \in log : b.time >= a.time}
<1>1. IsFiniteSet(log) /\ IsOrder(log, order)
  BY NewestFirstIsOrder
<1>2. Rank(log, order, a) >= KeepCount
  BY ExcessMeans
<1>3. A \subseteq log /\ a \notin A
  BY <1>1 DEF Before, IsOrder
<1>4. a.time \in Int
  BY DEF ListsOfWhatThereIs
<1>5. A \cup {a} \subseteq N
  <2> SUFFICES ASSUME NEW b \in A PROVE b \in N
    BY <1>4
  <2>1. b \in log /\ <<b, a>> \in order
    BY DEF Before
  <2> QED
    BY <2>1, AheadIsNewer
<1>6. N \subseteq log
  OBVIOUS
<1>7. Rank(log, order, a) = Cardinality(A)
  BY DEF Rank
<1> HIDE DEF A, N, order
<1>8. IsFiniteSet(A) /\ IsFiniteSet(N)
  BY <1>1, <1>3, <1>6, FS_Subset
<1>9. Cardinality(A \cup {a}) = Cardinality(A) + 1
  BY <1>3, <1>8, FS_AddElement
<1>10. Cardinality(A \cup {a}) <= Cardinality(N)
  BY <1>5, <1>8, FS_Subset
<1>11. Cardinality(A) \in Nat /\ Cardinality(N) \in Nat /\ KeepCount \in Nat
  BY <1>8, FS_CardinalityType, QueriesAssumption
<1>12. Cardinality(N) > KeepCount
  BY <1>2, <1>7, <1>9, <1>10, <1>11
<1> QED
  BY <1>12 DEF N

\* And of these as many as are to be kept are not in excess.
LEMMA ExcessHasKept ==
    ASSUME ListsOfWhatThereIs, NEW a \in Excess, a \in log,
           NEW left, left = {x.id : x \in Excess}
    PROVE  Cardinality(KeptSince(log, left, a)) >= KeepCount
<1> DEFINE order == NewestFirst("log", log)
           s == Arranged(log, order)
           n == Cardinality(log)
           b == s[KeepCount + 1]
           A == Before(log, order, b)
           K == KeptSince(log, left, a)
<1>1. IsFiniteSet(log) /\ IsOrder(log, order)
  BY NewestFirstIsOrder
<1>2. Rank(log, order, a) >= KeepCount
  BY ExcessMeans
<1>3. KeepCount \in Nat
  BY QueriesAssumption
<1>4. Rank(log, order, a) \in Nat /\ Rank(log, order, a) < n /\ n \in Nat
  BY <1>1, RankBound
<1>5. \A k \in 1..n : s[k] \in log /\ Rank(log, order, s[k]) = k - 1
  BY <1>1, Arrangement
<1>6. b \in log /\ Rank(log, order, b) = KeepCount
  <2> HIDE DEF s, n, order
  <2>1. KeepCount + 1 \in 1..n /\ (KeepCount + 1) - 1 = KeepCount
    BY <1>2, <1>3, <1>4
  <2> QED
    BY <1>5, <2>1
<1>7. Cardinality(A) = KeepCount
  BY <1>6 DEF Rank
<1> HIDE DEF b
<1>8. b.time >= a.time
  <2>1. CASE b = a
    <3>1. a.time \in Int
      BY DEF ListsOfWhatThereIs
    <3> QED
      BY <2>1, <3>1
  <2>2. CASE <<b, a>> \in order
    BY <1>6, <2>2, AheadIsNewer
  <2>3. CASE <<a, b>> \in order
    <3>1. Rank(log, order, a) < Rank(log, order, b)
      BY <1>1, <1>6, <2>3, RankGrows
    <3> HIDE DEF order
    <3> QED
      BY <1>2, <1>3, <1>4, <1>6, <3>1
  <2> QED
    BY <1>1, <1>6, <2>1, <2>2, <2>3 DEF IsOrder
<1>9. A \subseteq K
  <2> SUFFICES ASSUME NEW y \in A PROVE y \in K
    OBVIOUS
  <2>1. y \in log /\ <<y, b>> \in order
    BY DEF Before
  <2>2. Rank(log, order, y) < Rank(log, order, b) /\ Rank(log, order, y) \in Nat
    BY <1>1, <1>6, <2>1, RankGrows, RankBound
  <2>3. y \notin Excess
    <3>1. y \in Excess <=> Rank(log, order, y) >= KeepCount
      BY <2>1, ExcessMeans
    <3> HIDE DEF order
    <3> QED
      BY <1>3, <1>6, <2>2, <3>1
  <2>4. y.id \notin left
    <3>1. \A x \in Excess : x \in log
      BY ExcessIsInLog
    <3>2. \A x \in log : x.id = y.id => x = y
      BY <2>1 DEF ListsOfWhatThereIs
    <3> QED
      BY <2>3, <3>1, <3>2
  <2>5. y.time >= b.time
    BY <1>6, <2>1, AheadIsNewer
  <2>6. y.time \in Int /\ b.time \in Int /\ a.time \in Int
    BY <1>6, <2>1 DEF ListsOfWhatThereIs
  <2>7. y.time >= a.time
    BY <1>8, <2>5, <2>6
  <2> QED
    BY <2>1, <2>4, <2>7 DEF KeptSince
<1>10. K \subseteq log
  BY DEF KeptSince
<1> HIDE DEF A, K
<1>11. IsFiniteSet(K)
  BY <1>1, <1>10, FS_Subset
<1>12. Cardinality(A) <= Cardinality(K) /\ Cardinality(K) \in Nat
  BY <1>9, <1>11, FS_Subset, FS_CardinalityType
<1> QED
  BY <1>3, <1>7, <1>12 DEF K

LEMMA MoreAreKept ==
    ASSUME NEW activities, NEW others, IsFiniteSet(others), NEW left, NEW fewer, NEW a,
           KeptSince(activities, left, a) \subseteq KeptSince(others, fewer, a)
    PROVE  /\ Cardinality(KeptSince(activities, left, a)) \in Nat
           /\ Cardinality(KeptSince(others, fewer, a)) \in Nat
           /\ Cardinality(KeptSince(activities, left, a))
                  <= Cardinality(KeptSince(others, fewer, a))
<1> DEFINE A == KeptSince(activities, left, a)
           B == KeptSince(others, fewer, a)
<1>1. B \subseteq others
  BY DEF KeptSince
<1>2. A \subseteq B
  OBVIOUS
<1> HIDE DEF A, B
<1>3. IsFiniteSet(B) /\ IsFiniteSet(A)
  BY <1>1, <1>2, FS_Subset
<1>4. Cardinality(A) <= Cardinality(B) /\ Cardinality(A) \in Nat /\ Cardinality(B) \in Nat
  BY <1>2, <1>3, FS_Subset, FS_CardinalityType
<1> QED
  BY <1>4 DEF A, B

\* As long as what is left to delete stays or shrinks, and what is kept too, or grows.
LEMMA SurplusStays ==
    ASSUME ListsOfWhatThereIs, LeftIsSurplus, clear.at = "each", hour <= hour', hour' \in Int,
           clear'.left \subseteq clear.left, clear'.cut = clear.cut, IsFiniteSet(log'),
           \A a \in log' : a.id \in clear'.left =>
               a \in log /\ KeptSince(log, clear.left, a) \subseteq KeptSince(log', clear'.left, a)
    PROVE  LeftIsSurplus'
<1> SUFFICES ASSUME NEW a \in log', a.id \in clear'.left
             PROVE  \/ TooOld(a)'
                    \/ /\ KeepCount # 0
                       /\ \/ clear'.cut
                          \/ Cardinality(KeptSince(log', clear'.left, a)) >= KeepCount
  BY DEF LeftIsSurplus, TooOld
<1>1. a \in log /\ a.id \in clear.left
  OBVIOUS
<1>2. CASE TooOld(a)
  <2>1. a.time \in Int /\ hour \in Int
    BY <1>1 DEF ListsOfWhatThereIs
  <2>2. MaxAge \in Nat
    BY QueriesAssumption
  <2>3. MaxAge # 0 /\ a.time < hour' - MaxAge
    BY <1>2, <2>1, <2>2 DEF TooOld
  <2> QED
    BY <2>3 DEF TooOld
<1>3. CASE KeepCount # 0 /\ clear.cut
  BY <1>3
<1>4. CASE KeepCount # 0 /\ Cardinality(KeptSince(log, clear.left, a)) >= KeepCount
  <2>1. /\ Cardinality(KeptSince(log, clear.left, a)) \in Nat
        /\ Cardinality(KeptSince(log', clear'.left, a)) \in Nat
        /\ Cardinality(KeptSince(log, clear.left, a))
               <= Cardinality(KeptSince(log', clear'.left, a))
    BY <1>1, MoreAreKept
  <2>2. KeepCount \in Nat
    BY QueriesAssumption
  <2> QED
    BY <1>4, <2>1, <2>2
<1> QED
  BY <1>1, <1>2, <1>3, <1>4 DEF LeftIsSurplus

LEMMA SurplusStep ==
    ASSUME ListsOfWhatThereIs, LeftIsSurplus, [QueriesNext]_queryVars
    PROVE  LeftIsSurplus'
<1>0. /\ \A a, b \in log : a.id = b.id => a = b
      /\ clear = [at |-> clear.at, left |-> clear.left, cut |-> clear.cut]
      /\ clear.left \subseteq made /\ hour \in Int /\ IsFiniteSet(log)
  BY LogIsFinite DEF ListsOfWhatThereIs
<1>1. ASSUME UNCHANGED <<log, clear>>, hour <= hour', hour' \in Int
      PROVE  LeftIsSurplus'
  <2>1. CASE clear.at = "each"
    BY <1>0, <1>1, <2>1, SurplusStays
  <2>2. CASE clear.at # "each"
    BY <1>1, <2>2 DEF LeftIsSurplus
  <2> QED
    BY <2>1, <2>2
<1>2. CASE Open \/ Reload \/ LoadMore \/ LoadFails
  <2>1. UNCHANGED <<log, clear, hour>>
    BY <1>2 DEF Open, Reload, LoadMore, LoadFails, Begin, Load, lists
  <2> QED
    BY <1>0, <1>1, <2>1
<1>3. CASE OtherSorts \/ Sync \/ NewEntry
  <2>1. UNCHANGED <<log, clear, hour>>
    BY <1>3 DEF OtherSorts, Sync, NewEntry
  <2> QED
    BY <1>0, <1>1, <2>1
<1>4. CASE SetActivityKey
  <2>1. PICK id \in Ids \ made, kind \in Kinds :
           log' = log \cup {[id |-> id, time |-> hour, type |-> kind.type, by |-> kind.by,
                             user |-> kind.user, source |-> kind.source]}
    BY <1>4 DEF SetActivityKey
  <2> DEFINE new == [id |-> id, time |-> hour, type |-> kind.type, by |-> kind.by,
                     user |-> kind.user, source |-> kind.source]
  <2>2. log' = log \cup {new} /\ new.id = id
    BY <2>1
  <2> HIDE DEF new
  <2>3. clear' = clear /\ hour' = hour
    BY <1>4 DEF SetActivityKey
  <2>4. IsFiniteSet(log')
    BY <1>0, <2>2, FS_AddElement
  <2>5. CASE clear.at = "each"
    <3>1. ASSUME NEW a \in log', a.id \in clear'.left
          PROVE  /\ a \in log
                 /\ KeptSince(log, clear.left, a) \subseteq KeptSince(log', clear'.left, a)
      <4>1. a \in log
        BY <1>0, <2>2, <2>3, <3>1
      <4> QED
        BY <2>2, <2>3, <4>1 DEF KeptSince
    <3> QED
      BY <1>0, <2>3, <2>4, <2>5, <3>1, SurplusStays
  <2>6. CASE clear.at # "each"
    BY <2>3, <2>6 DEF LeftIsSurplus
  <2> QED
    BY <2>5, <2>6
<1>5. CASE DeleteActivity
  <2>1. log' \subseteq log /\ hour' = hour /\ clear' = [clear EXCEPT !.cut = (clear.at = "each")]
    BY <1>5 DEF DeleteActivity
  <2>2. clear'.at = clear.at /\ clear'.left = clear.left /\ clear'.cut = (clear.at = "each")
    BY <1>0, <2>1
  <2> SUFFICES ASSUME clear.at = "each", NEW a \in log', a.id \in clear'.left
               PROVE  TooOld(a)' \/ (KeepCount # 0 /\ clear'.cut)
    BY <2>2 DEF LeftIsSurplus, TooOld
  <2>3. TooOld(a) \/ KeepCount # 0
    BY <2>1, <2>2 DEF LeftIsSurplus
  <2> QED
    BY <2>1, <2>2, <2>3 DEF TooOld
<1>6. CASE Tick
  <2>1. UNCHANGED <<log, clear>> /\ hour' = hour + 1
    BY <1>6 DEF Tick, lists
  <2> QED
    BY <1>0, <1>1, <2>1
<1>7. CASE StartClear \/ DeleteMatching
  <2>1. clear'.at # "each"
    BY <1>7 DEF StartClear, DeleteMatching, Housekeeping, At
  <2> QED
    BY <2>1 DEF LeftIsSurplus
<1>8. CASE TooBig
  <2>1. /\ clear.at \in {"old", "count"} /\ log' = log /\ hour' = hour
        /\ clear' = [at |-> "each", left |-> {a.id : a \in Surplus}, cut |-> FALSE]
    BY <1>8 DEF TooBig, Housekeeping
  <2>2. clear'.left = {a.id : a \in Surplus}
    BY <2>1
  <2> SUFFICES ASSUME NEW a \in log', a.id \in clear'.left
               PROVE  \/ TooOld(a)'
                      \/ /\ KeepCount # 0
                         /\ Cardinality(KeptSince(log', clear'.left, a)) >= KeepCount
    BY DEF LeftIsSurplus, TooOld
  <2>3. a \in log /\ a \in Surplus
    <3>1. Surplus \subseteq log
      BY SurplusIsInLog
    <3> QED
      BY <1>0, <2>1, <2>2, <3>1
  <2>4. CASE clear.at = "old"
    BY <2>1, <2>3, <2>4 DEF Surplus, Old, TooOld
  <2>5. CASE clear.at # "old"
    <3>1. KeepCount # 0 /\ Surplus = Excess
      BY <2>3, <2>5 DEF Surplus
    <3>2. Cardinality(KeptSince(log, clear'.left, a)) >= KeepCount
      BY <2>2, <2>3, <3>1, ExcessHasKept
    <3> QED
      BY <2>1, <3>1, <3>2
  <2> QED
    BY <2>4, <2>5
<1>9. CASE DeleteActivityKey
  <2>1. CASE clear.left = {}
    <3>1. clear'.at # "each"
      BY <1>9, <2>1 DEF DeleteActivityKey, Housekeeping, At
    <3> QED
      BY <3>1 DEF LeftIsSurplus
  <2>2. CASE clear.left # {}
    <3>1. PICK id \in clear.left : /\ log' = log \ {a \in log : a.id = id}
                                   /\ clear' = [clear EXCEPT !.left = @ \ {id}]
      BY <1>9, <2>2 DEF DeleteActivityKey, Without, Housekeeping
    <3>2. clear.at = "each" /\ hour' = hour
      BY <1>9 DEF DeleteActivityKey, Housekeeping
    <3>3. clear'.left = clear.left \ {id} /\ clear'.cut = clear.cut
      BY <1>0, <3>1
    <3>4. IsFiniteSet(log')
      BY <1>0, <3>1, FS_Subset
    <3>5. ASSUME NEW a \in log', a.id \in clear'.left
          PROVE  /\ a \in log
                 /\ KeptSince(log, clear.left, a) \subseteq KeptSince(log', clear'.left, a)
      BY <3>1, <3>3 DEF KeptSince
    <3>6. hour <= hour' /\ hour' \in Int /\ clear'.left \subseteq clear.left
      BY <1>0, <3>2, <3>3
    <3> QED
      BY <3>2, <3>3, <3>4, <3>5, <3>6, SurplusStays
  <2> QED
    BY <2>1, <2>2
<1>10. CASE UNCHANGED queryVars
  BY <1>0, <1>1, <1>10 DEF queryVars, lists
<1> QED
  BY <1>2, <1>3, <1>4, <1>5, <1>6, <1>7, <1>8, <1>9, <1>10 DEF QueriesNext, Client, Daemon

LEMMA SurplusHolds == QueriesSpec => []LeftIsSurplus
<1>1. QueriesInit => LeftIsSurplus
  BY DEF QueriesInit, LeftIsSurplus, At
<1> QED
  BY <1>1, SurplusStep, ListsStayTyped, PTL DEF QueriesSpec

\* What one deletion of housekeeping takes is surplus.
LEMMA KeptByStep ==
    ASSUME ListsOfWhatThereIs, LeftIsSurplus, [QueriesNext]_queryVars,
           clear'.at # clear.at \/ clear'.left # clear.left, NEW a \in log \ log'
    PROVE  \/ MaxAge # 0 /\ a.time < hour - MaxAge
           \/ KeepCount # 0 /\ clear.cut
           \/ KeepCount # 0 /\ Cardinality({b \in log : b.time >= a.time}) > KeepCount
<1>0. /\ \A x, y \in log : x.id = y.id => x = y
      /\ clear = [at |-> clear.at, left |-> clear.left, cut |-> clear.cut]
      /\ IsFiniteSet(log) /\ a \in log
  BY LogIsFinite DEF ListsOfWhatThereIs
<1>1. ~(Open \/ Reload \/ LoadMore \/ LoadFails)
  BY DEF Open, Reload, LoadMore, LoadFails, Begin, Load, lists
<1>2. ~(OtherSorts \/ Sync \/ SetActivityKey \/ NewEntry \/ Tick \/ UNCHANGED queryVars)
  BY DEF OtherSorts, Sync, SetActivityKey, NewEntry, Tick, lists, queryVars
<1>3. ~DeleteActivity
  <2>1. DeleteActivity => clear' = [clear EXCEPT !.cut = (clear.at = "each")]
    BY DEF DeleteActivity
  <2>2. DeleteActivity => clear'.at = clear.at /\ clear'.left = clear.left
    BY <1>0, <2>1
  <2> QED
    BY <2>2
<1>4. ~(StartClear \/ TooBig)
  BY DEF StartClear, TooBig
<1>5. CASE DeleteMatching
  <2>1. a \in Surplus
    BY <1>0, <1>5 DEF DeleteMatching, Without
  <2>2. CASE clear.at = "old"
    BY <2>1, <2>2 DEF Surplus, Old
  <2>3. CASE clear.at # "old"
    <3>1. KeepCount # 0 /\ a \in Excess
      BY <2>1, <2>3 DEF Surplus
    <3> QED
      BY <1>0, <3>1, ExcessHasNewer
  <2> QED
    BY <2>2, <2>3
<1>6. CASE DeleteActivityKey
  <2>1. PICK id \in clear.left : log' = log \ {x \in log : x.id = id}
    BY <1>0, <1>6 DEF DeleteActivityKey, Without
  <2>2. a.id \in clear.left /\ clear.at = "each"
    BY <1>0, <1>6, <2>1 DEF DeleteActivityKey
  <2>3. \/ TooOld(a)
        \/ KeepCount # 0 /\ clear.cut
        \/ KeepCount # 0 /\ Cardinality(KeptSince(log, clear.left, a)) >= KeepCount
    BY <1>0, <2>2 DEF LeftIsSurplus
  <2>4. ASSUME Cardinality(KeptSince(log, clear.left, a)) >= KeepCount
        PROVE  Cardinality({b \in log : b.time >= a.time}) > KeepCount
    <3> DEFINE K == KeptSince(log, clear.left, a)
               N == {b \in log : b.time >= a.time}
    <3>1. a.time \in Int
      BY <1>0 DEF ListsOfWhatThereIs
    <3>2. K \subseteq log /\ a \notin K /\ K \cup {a} \subseteq N /\ N \subseteq log
      BY <1>0, <2>2, <3>1 DEF KeptSince
    <3> HIDE DEF K, N
    <3>3. IsFiniteSet(K) /\ IsFiniteSet(N)
      BY <1>0, <3>2, FS_Subset
    <3>4. Cardinality(K \cup {a}) = Cardinality(K) + 1
      BY <3>2, <3>3, FS_AddElement
    <3>5. Cardinality(K \cup {a}) <= Cardinality(N)
      BY <3>2, <3>3, FS_Subset
    <3>6. Cardinality(K) \in Nat /\ Cardinality(N) \in Nat /\ KeepCount \in Nat
      BY <3>3, FS_CardinalityType, QueriesAssumption
    <3>7. Cardinality(K) >= KeepCount
      BY <2>4 DEF K
    <3>8. Cardinality(N) > KeepCount
      BY <3>4, <3>5, <3>6, <3>7
    <3> QED
      BY <3>8 DEF N
  <2> QED
    BY <2>3, <2>4 DEF TooOld
<1> QED
  BY <1>1, <1>2, <1>3, <1>4, <1>5, <1>6 DEF QueriesNext, Client, Daemon

\* For any settings, and whatever is added, searched and deleted meanwhile, housekeeping
\* deletes only activities that are too old, or have as many newer ones as are to be kept,
\* also if it deletes them one by one (housekeeping-d.go:86-118).
THEOREM NewestStayKept == QueriesSpec => NewestAreKept
<1>1. ListsOfWhatThereIs /\ LeftIsSurplus /\ [QueriesNext]_queryVars =>
          [clear'.at # clear.at \/ clear'.left # clear.left =>
              \A a \in log \ log' :
                  \/ MaxAge # 0 /\ a.time < hour - MaxAge
                  \/ KeepCount # 0 /\ clear.cut
                  \/ KeepCount # 0 /\ Cardinality({b \in log : b.time >= a.time}) > KeepCount
              ]_queryVars
  BY KeptByStep
<1> QED
  BY <1>1, ListsStayTyped, SurplusHolds, PTL DEF QueriesSpec, NewestAreKept

\* For any accounts, requests, sizes of pages and changes meanwhile: the pages of a list that
\* stood still are the list, and newest first no new entry and no trimming makes them miss
\* what was there at first (api-users.go:1320-1355; api-activities.go:120-169;
\* ts/modules/list.ts:353-483).
THEOREM WalksAreSound == QueriesSpec => []SoundWalks
<1>1. ListsOfWhatThereIs => QueriesTypeOK
  <2> SUFFICES ASSUME ListsOfWhatThereIs PROVE QueriesTypeOK
    OBVIOUS
  <2>1. ToSet(ref) \subseteq ToSet(AllAccounts)
    <3>1. ref \in Seq(ToSet(AllAccounts))
      BY DEF ListsOfWhatThereIs
    <3>2. \A i \in DOMAIN ref : ref[i] \in ToSet(AllAccounts)
      BY <3>1
    <3> QED
      BY <3>2 DEF ToSet
  <2>2. {x.id : x \in log \cup entries} \subseteq made
    BY DEF ListsOfWhatThereIs
  <2>3. walk # Idle => /\ walk.at \in {"more", "done", "locked"}
                       /\ walk.page * walk.limit <= Bound
    BY DEF ListsOfWhatThereIs, WalkTyped
  <2> QED
    BY <2>1, <2>2, <2>3 DEF ListsOfWhatThereIs, QueriesTypeOK, Bound
<1>2. ListsOfWhatThereIs /\ PagesAreTheStart => PagesAreTheList
  <2> SUFFICES ASSUME ListsOfWhatThereIs, PagesAreTheStart,
                      walk # Idle, walk.at = "done", ~walk.moved
               PROVE  walk.got = IdsOf(Found(walk.req))
    BY DEF PagesAreTheList
  <2> DEFINE s == Found(walk.req)
  <2>1. Starts(s, walk)
    BY DEF PagesAreTheStart, Showing
  <2>2. PICK n \in 0..Bound : IsList(s, n)
    BY FoundIsList
  <2> HIDE DEF s
  <2>3. Len(s) = n /\ s \in Seq(ToSet(s)) /\ n \in Nat
    BY <2>2, ListsAreSequences
  <2>4. n < Upto(walk) /\ walk.got = IdsOf(SubSeq(s, 1, Lesser(Upto(walk), n)))
    BY <2>1, <2>3 DEF Starts
  <2>5. Lesser(Upto(walk), n) = n
    <3>1. WalkTyped(list, made, walk)
      BY DEF ListsOfWhatThereIs
    <3>2. walk.limit \in Nat /\ walk.page \in Nat
      BY <3>1, QueriesAssumption DEF WalkTyped
    <3>3. Upto(walk) \in Nat
      BY <3>2 DEF Upto
    <3> QED
      BY <2>3, <2>4, <3>3 DEF Lesser
  <2>6. SubSeq(s, 1, n) = s
    <3>1. SubSeq(s, 1, Len(s)) = s
      BY <2>3, SubSeqFull
    <3> QED
      BY <2>3, <3>1
  <2> QED
    BY <2>4, <2>5, <2>6 DEF s
<1>3. ListsOfWhatThereIs /\ NothingIsPassed => NewestFirstMissesNothing
  <2> SUFFICES ASSUME ListsOfWhatThereIs, NothingIsPassed,
                      walk # Idle, walk.at = "done", ~walk.cut,
                      list = "jellyfin" \/ (list = "log" /\ walk.req.field = "time"
                                            /\ ~walk.req.ascending)
               PROVE  walk.begun \cap {x.id : x \in ToSet(Found(walk.req))}
                          \subseteq ToSet(walk.got)
    BY DEF NewestFirstMissesNothing
  <2> DEFINE S == FoundSet(list, log, entries, walk.req)
  <2>1. IsNewestFirst(list, walk.req)
    BY DEF IsNewestFirst
  <2>2. PassesNone(list, S, walk)
    BY <2>1 DEF NothingIsPassed, Showing
  <2>3. \A x \in S : x.id \in walk.begun => x.id \in ToSet(walk.got)
    BY <2>2 DEF PassesNone
  <2>4. ToSet(Found(walk.req)) = S
    <3>1. list # "users" => walk.req.ascending \in BOOLEAN
      BY QueriesAssumption DEF ListsOfWhatThereIs, WalkTyped
    <3>2. /\ IsFiniteSet(S) /\ IsOrder(S, NewestFirst(list, S))
          /\ Found(walk.req) = Arranged(S, NewestFirst(list, S))
      BY <2>1, <3>1, FoundNewestFirst
    <3> HIDE DEF S
    <3> QED
      BY <3>2, ArrangementOf
  <2> HIDE DEF S
  <2> QED
    BY <2>3, <2>4
<1> QED
  BY <1>1, <1>2, <1>3, ListsStayTyped, StartsHold, NothingPassedHolds, PTL DEF SoundWalks
=============================================================================
