------------------------------ MODULE UserExpiry ------------------------------
(***************************************************************************)
(* Expiring accounts: the user daemon (checkUsers of user-d.go), the       *)
(* signup that stores an expiry, the admin's handlers that edit expiries   *)
(* and accounts, and the list of users that the Jellyfin client caches.    *)
(* The daemon works on two snapshots, of the users and of the expiries,    *)
(* for as long as its calls and mails take, and writes its copies back;    *)
(* the process may die between any two of its steps.  Time is in days.     *)
(***************************************************************************)
EXTENDS Integers, FiniteSets

CONSTANTS Users,          \* accounts, in Jellyfin or yet to sign up
          Behaviours,     \* settings of user_expiry the admin may choose between
          RemindBefore,   \* days before an expiry on which a reminder is sent
          ExtendBy,       \* auto_extend_by_days, 0 when auto-extension is off
          Window,         \* auto_extend_window_days
          Spans,          \* days an invite or an admin may give an account
          Overlap,        \* whether a signup, or a failing sync that is shared,
                          \* may overlap the daemon taking its list of users
          MaxTime,        \* bound: days
          MaxFailures,    \* bound: failing calls to Jellyfin
          MaxCrashes,     \* bound: process restarts
          None

ASSUME UserExpiryAssumption ==
    /\ Behaviours \subseteq [delete : BOOLEAN, after : Nat] /\ Behaviours # {}
    /\ RemindBefore \subseteq Nat /\ ExtendBy \in Nat /\ Window \in Nat
    /\ Spans \subseteq Nat \ {0} /\ Overlap \in BOOLEAN
    /\ MaxTime \in Nat /\ MaxFailures \in Nat /\ MaxCrashes \in Nat
    /\ None \notin Users /\ None \notin [at : Nat, done : BOOLEAN, notified : Int]

VARIABLES now,
          account,     \* Jellyfin: the state of each account
          lastDisabled,\* activity log: when the daemon disabled an account, if it was
                       \* the last to do so
          expiry,      \* the expiry table
          behaviour,   \* the settings
          cached, fresh, fetched, leader,  \* the Jellyfin client's list of users, whether
                       \* it is within CacheExpiry, and a sync's answer and caller
          signup,      \* accounts created by signups that have yet to store an expiry
          tick,        \* where the daemon is
          users, seen, queue, cur,  \* its snapshots, the expiries left and the one it is at
          conf, dirty, \* its copy of the settings, and shouldInvalidateCache
          edited,      \* properties only: accounts edited since the tick began,
          told, again, \* the notices sent about the expiry each account has, the
                       \* reminders of today only, and whether one was sent twice
          failures, crashes

jellyfin == <<account, lastDisabled>>
client == <<cached, fresh, fetched, leader>>
daemon == <<tick, users, seen, queue, cur, conf, dirty>>
notices == <<told, again>>
vars == <<now, jellyfin, expiry, behaviour, client, signup, daemon, edited, notices,
          failures, crashes>>

\* The latest day an expiry can be put off to.
MaxAt == MaxTime + Window + ExtendBy
Never == -1
Present == {"enabled", "disabled"}
Notices == {"reminded", "disabled", "deleted"}
Listed == {u \in Users : account[u] \in Present}  \* what Jellyfin answers

\* UserExpiry: done is DeleteAfterPeriod, notified LastNotified.
Expiry == [at : 0..MaxAt, done : BOOLEAN, notified : {Never} \union 0..MaxTime]

Put(u, e) == expiry' = [expiry EXCEPT ![u] = e]
Goto(place) == tick' = place

\* Edits while a tick runs are marked: the daemon may not have seen them.
Mark(u) == edited' = IF tick = "idle" THEN edited ELSE edited \union {u}

Forget(u) == told' = [told EXCEPT ![u] = {}] /\ UNCHANGED again

\* A new expiry is stored.
Give(u, day) ==
    /\ Put(u, [at |-> day, done |-> FALSE, notified |-> Never])
    /\ Forget(u)
    /\ Mark(u)

Init ==
    /\ now = 0
    /\ account \in [Users -> {"unknown", "enabled"}]
    /\ lastDisabled = [u \in Users |-> None]
    /\ expiry = [u \in Users |-> None]
    /\ behaviour \in Behaviours
    /\ cached = {} /\ fresh = FALSE /\ fetched = {} /\ leader = "none"
    /\ signup = {}
    /\ tick = "idle" /\ users = {} /\ seen = [u \in Users |-> None]
    /\ queue = {} /\ cur = None /\ conf = None /\ dirty = FALSE
    /\ edited = {} /\ told = [u \in Users |-> {}] /\ again = FALSE
    /\ failures = 0 /\ crashes = 0
-----------------------------------------------------------------------------
(* Time, and the list of users of the Jellyfin client *)

NextDay ==
    /\ now < MaxTime
    /\ now' = now + 1
    /\ told' = [u \in Users |-> told[u] \ {"reminded"}]
    /\ UNCHANGED <<jellyfin, expiry, behaviour, client, signup, daemon, edited, again, failures,
                   crashes>>

CacheExpires ==
    /\ fresh
    /\ fresh' = FALSE
    /\ UNCHANGED <<now, jellyfin, expiry, behaviour, cached, fetched, leader, signup, daemon,
                   edited, notices, failures, crashes>>

\* A page finds the list out of date and asks Jellyfin.
PageSyncs ==
    /\ ~fresh /\ leader = "none"
    /\ leader' = "page" /\ fetched' = Listed
    /\ UNCHANGED <<now, jellyfin, expiry, behaviour, cached, fresh, signup, daemon, edited,
                   notices, failures, crashes>>

\* The answer is stored, and CacheExpiry set, whatever happened since it was given.
SyncEnds ==
    /\ leader # "none"
    /\ leader' = "none" /\ fetched' = {}
    /\ cached' = fetched /\ fresh' = TRUE
    /\ IF leader = "daemon" THEN users' = fetched /\ Goto("listed") ELSE UNCHANGED <<users,
                                                                                     tick>>
    /\ UNCHANGED <<now, jellyfin, expiry, behaviour, signup, seen, queue, cur, conf, dirty,
                   edited, notices, failures, crashes>>

SyncFails ==
    /\ leader # "none"
    /\ failures < MaxFailures
    /\ Overlap \/ tick # "joining"
    /\ failures' = failures + 1
    /\ leader' = "none" /\ fetched' = {}
    /\ IF leader = "daemon" THEN Goto("idle") /\ edited' = {} ELSE UNCHANGED <<tick, edited>>
    /\ UNCHANGED <<now, jellyfin, expiry, behaviour, cached, fresh, signup, users, seen, queue,
                   cur, conf, dirty, notices, crashes>>
-----------------------------------------------------------------------------
(* Signups and the admin's handlers *)

\* Mutant: the list of users is not invalidated.
CreateUserCached(u) ==
    /\ account[u] = "unknown"
    /\ Overlap \/ (leader = "none" /\ tick \notin {"joining", "listed"})
    /\ account' = [account EXCEPT ![u] = "enabled"]
    /\ signup' = signup \union {u}
    /\ UNCHANGED <<now, lastDisabled, expiry, behaviour, client, daemon, edited, notices,
                   failures, crashes>>

\* A signup creates the account, and once done with profiles stores its expiry.
CreateUser(u) ==
    /\ account[u] = "unknown"
    /\ Overlap \/ (leader = "none" /\ tick \notin {"joining", "listed"})
    /\ account' = [account EXCEPT ![u] = "enabled"]
    /\ fresh' = FALSE
    /\ signup' = signup \union {u}
    /\ UNCHANGED <<now, lastDisabled, expiry, behaviour, cached, fetched, leader,
                   daemon, edited, notices, failures, crashes>>

StoreExpiry(u) ==
    /\ u \in signup
    /\ \E d \in Spans : now + d <= MaxTime /\ Give(u, now + d)
    /\ signup' = signup \ {u}
    /\ UNCHANGED <<now, jellyfin, behaviour, client, daemon, failures, crashes>>

\* ExtendExpiry counts from the expiry there is, or else from now, or from when
\* the daemon disabled the account if that leaves some of the extension; or the
\* day is given.
ExtendExpiry(u) ==
    /\ account[u] # "unknown"
    /\ \E d \in Spans :
          LET previous == IF lastDisabled[u] # None /\ lastDisabled[u] + d > now
                          THEN {lastDisabled[u]} ELSE {}
              bases == IF expiry[u] # None THEN {expiry[u].at} ELSE {now} \union previous
          IN  \E day \in {base + d : base \in bases} \union 0..MaxTime :
                 day <= MaxTime /\ Give(u, day)
    /\ UNCHANGED <<now, jellyfin, behaviour, client, signup, daemon, failures, crashes>>

RemoveExpiry(u) ==
    /\ expiry[u] # None
    /\ Put(u, None)
    /\ Forget(u)
    /\ Mark(u)
    /\ UNCHANGED <<now, jellyfin, behaviour, client, signup, daemon, failures, crashes>>

EnableDisableUsers(u, state) ==
    /\ account[u] \in Present
    /\ account' = [account EXCEPT ![u] = state]
    /\ lastDisabled' = IF state = "enabled" THEN lastDisabled
                       ELSE [lastDisabled EXCEPT ![u] = None]
    /\ fresh' = FALSE
    /\ Mark(u)
    /\ UNCHANGED <<now, expiry, behaviour, cached, fetched, leader, signup, daemon,
                   notices, failures, crashes>>

\* Expiries are left to the daemon.
DeleteUsers(u) ==
    /\ account[u] \in Present
    /\ account' = [account EXCEPT ![u] = "deleted"]
    /\ fresh' = FALSE
    /\ Mark(u)
    /\ UNCHANGED <<now, lastDisabled, expiry, behaviour, cached, fetched, leader, signup,
                   daemon,
                   notices, failures, crashes>>

\* Jellyfin's own dashboard, of which nobody is told.
DeletedInJellyfin(u) ==
    /\ account[u] \in Present
    /\ account' = [account EXCEPT ![u] = "deleted"]
    /\ Mark(u)
    /\ UNCHANGED <<now, lastDisabled, expiry, behaviour, client, signup, daemon, notices,
                   failures, crashes>>

Configure ==
    /\ behaviour' \in Behaviours \ {behaviour}
    /\ UNCHANGED <<now, jellyfin, expiry, client, signup, daemon, edited, notices,
                   failures, crashes>>
-----------------------------------------------------------------------------
(* checkUsers *)

\* The list of users is the cached one, one asked for, or one being asked for.
GetUsers ==
    /\ tick = "idle"
    /\ \E u \in Users : expiry[u] # None
    /\ IF fresh THEN users' = cached /\ Goto("listed") /\ UNCHANGED <<fetched, leader>>
       ELSE /\ UNCHANGED users
            /\ IF leader = "none" THEN leader' = "daemon" /\ fetched' = Listed /\ Goto("syncing")
                                  ELSE Goto("joining") /\ UNCHANGED <<fetched, leader>>
    /\ UNCHANGED <<now, jellyfin, expiry, behaviour, cached, fresh, signup, seen, queue, cur,
                   conf, dirty, edited, notices, failures, crashes>>

\* Whoever joins a sync takes the list as it then is, even if the sync failed.
Joined ==
    /\ tick = "joining" /\ leader = "none"
    /\ users' = cached
    /\ Goto("listed")
    /\ UNCHANGED <<now, jellyfin, expiry, behaviour, client, signup, seen, queue, cur, conf,
                   dirty, edited, notices, failures, crashes>>

ReadExpiries ==
    /\ tick = "listed"
    /\ conf' = behaviour
    /\ seen' = expiry
    /\ queue' = {u \in Users : expiry[u] # None}
    /\ Goto("loop")
    /\ UNCHANGED <<now, jellyfin, expiry, behaviour, client, signup, users, cur, dirty, edited,
                   notices, failures, crashes>>

\* Mutant: the expiry of an account that is gone is kept.
DropOrphanNever(u) ==
    /\ tick = "loop" /\ u \in queue
    /\ u \notin users
    /\ queue' = queue \ {u}
    /\ UNCHANGED <<now, jellyfin, expiry, behaviour, client, signup, tick, users, seen, cur,
                   conf,
                   dirty, edited, notices, failures, crashes>>

DropOrphan(u) ==
    /\ tick = "loop" /\ u \in queue
    /\ u \notin users
    /\ queue' = queue \ {u}
    /\ Put(u, None)
    /\ UNCHANGED <<now, jellyfin, behaviour, client, signup, tick, users, seen, cur, conf,
                   dirty,
                   edited, notices, failures, crashes>>

\* An account that was active lately, which no clock of the model tells, has an
\* expiry that is near put off, in the daemon's copy and then in the store.
Take(u) ==
    /\ tick = "loop" /\ u \in queue
    /\ u \in users
    /\ queue' = queue \ {u}
    /\ cur' = u
    /\ Goto("check")
    /\ \/ /\ ExtendBy > 0 /\ ~seen[u].done
          /\ seen[u].at < now + Window /\ seen[u].at > now
          /\ seen' = [seen EXCEPT ![u].at = @ + ExtendBy, ![u].notified = Never]
          /\ Put(u, seen'[u])
          /\ Forget(u)
          /\ dirty' = TRUE
       \/ UNCHANGED <<seen, expiry, notices, dirty>>
    /\ UNCHANGED <<now, jellyfin, behaviour, client, signup, users, conf, edited, failures,
                   crashes>>

\* Mutant: an account expires at the beginning of its last day.
PassedEarly(e) == now >= e.at

Passed(e) == now > e.at

\* deleteAfterPeriod
Period == IF conf.delete THEN 0 ELSE conf.after

\* DayTimerSet.Check, with one check a day.
ReminderDue(e) == e.at - now \in RemindBefore \ {0} /\ e.notified < now

\* Mutant: the reminder is noted in the daemon's copy only.
NotPassedUnnoted ==
    /\ tick = "check"
    /\ ~Passed(seen[cur])
    /\ IF ReminderDue(seen[cur])
       THEN /\ seen' = [seen EXCEPT ![cur].notified = now]
            /\ Goto("reminded")
       ELSE Goto("loop") /\ UNCHANGED seen
    /\ UNCHANGED <<now, jellyfin, expiry, behaviour, client, signup, users, queue, cur, conf,
                   dirty, edited, notices, failures, crashes>>

\* Nothing to do, or a reminder, noted in the store before it is sent.
NotPassed ==
    /\ tick = "check"
    /\ ~Passed(seen[cur])
    /\ IF ReminderDue(seen[cur])
       THEN /\ seen' = [seen EXCEPT ![cur].notified = now]
            /\ Put(cur, seen'[cur])
            /\ Goto("reminded")
       ELSE Goto("loop") /\ UNCHANGED <<seen, expiry>>
    /\ UNCHANGED <<now, jellyfin, behaviour, client, signup, users, queue, cur, conf, dirty,
                   edited, notices, failures, crashes>>

\* A disabled account waits for its deletion, or for nothing if that was turned off.
AlreadyExpired ==
    /\ tick = "check"
    /\ Passed(seen[cur]) /\ seen[cur].done
    /\ \/ /\ Period = 0
          /\ Put(cur, None)
          /\ Goto("loop")
       \/ /\ Period > 0
          /\ Goto(IF now > seen[cur].at + Period THEN "act" ELSE "loop")
          /\ UNCHANGED expiry
    /\ UNCHANGED <<now, jellyfin, behaviour, client, signup, users, seen, queue, cur, conf,
                   dirty,
                   edited, notices, failures, crashes>>

JustExpired ==
    /\ tick = "check"
    /\ Passed(seen[cur]) /\ ~seen[cur].done
    /\ Goto("act")
    /\ UNCHANGED <<now, jellyfin, expiry, behaviour, client, signup, users, seen, queue, cur,
                   conf, dirty, edited, notices, failures, crashes>>

ToDelete == conf.delete \/ seen[cur].done

\* The account is deleted or disabled.  If Jellyfin does not do so the expiry is
\* left for the next tick; either way the list of users is out of date.
Act ==
    /\ tick = "act"
    /\ fresh' = FALSE
    /\ \/ /\ account[cur] \in Present
          /\ account' = [account EXCEPT ![cur] = IF ToDelete THEN "deleted" ELSE "disabled"]
          /\ Goto("store")
          /\ UNCHANGED failures
       \/ /\ account[cur] \notin Present
          /\ Goto("loop")
          /\ UNCHANGED <<account, failures>>
       \/ /\ failures < MaxFailures
          /\ failures' = failures + 1
          /\ Goto("loop")
          /\ UNCHANGED account
    /\ UNCHANGED <<now, lastDisabled, expiry, behaviour, cached, fetched, leader, signup, users,
                   seen, queue, cur, conf, dirty, edited, notices, crashes>>

\* The activity is logged, and the expiry dropped, or kept for the deletion.
Store ==
    /\ tick = "store"
    /\ lastDisabled' = IF ToDelete THEN lastDisabled
                       ELSE [lastDisabled EXCEPT ![cur] = now]
    /\ IF Period = 0 \/ seen[cur].done
       THEN Put(cur, None) /\ UNCHANGED seen
       ELSE /\ seen' = [seen EXCEPT ![cur].done = TRUE, ![cur].notified = now]
            /\ Put(cur, seen'[cur])
    /\ dirty' = TRUE
    /\ Goto(IF ToDelete THEN "deleted" ELSE "disabled")
    /\ UNCHANGED <<now, account, behaviour, client, signup, users, queue, cur, conf, edited,
                   notices, failures, crashes>>

\* The mail goes out, in a call that may take long.
Notify ==
    /\ tick \in Notices
    /\ IF cur \in edited \/ (tick = "reminded" /\ seen[cur].notified # now) THEN UNCHANGED notices
       ELSE again' = (again \/ tick \in told[cur]) /\ told' = [told EXCEPT ![cur] = @ \union {tick}]
    /\ Goto("loop")
    /\ UNCHANGED <<now, jellyfin, expiry, behaviour, client, signup, users, seen, queue, cur,
                   conf, dirty, edited, failures, crashes>>

EndTick ==
    /\ tick = "loop" /\ queue = {}
    /\ Goto("idle")
    /\ edited' = {}
    /\ fresh' = (fresh /\ ~dirty)
    /\ users' = {} /\ seen' = [u \in Users |-> None] /\ cur' = None /\ conf' = None
    /\ dirty' = FALSE
    /\ UNCHANGED <<now, jellyfin, expiry, behaviour, cached, fetched, leader, signup, queue,
                   notices,
                   failures, crashes>>

\* The process dies and starts again: the tables and Jellyfin are what is left.
Restart ==
    /\ crashes < MaxCrashes
    /\ crashes' = crashes + 1
    /\ cached' = {} /\ fresh' = FALSE /\ fetched' = {} /\ leader' = "none"
    /\ signup' = {}
    /\ Goto("idle")
    /\ users' = {} /\ seen' = [u \in Users |-> None]
    /\ queue' = {} /\ cur' = None /\ conf' = None /\ dirty' = FALSE
    /\ edited' = {}
    /\ UNCHANGED <<now, jellyfin, expiry, behaviour, notices, failures>>

Loop == \E u \in Users : DropOrphan(u) \/ Take(u)

checkUsers ==
    \/ GetUsers \/ Joined \/ ReadExpiries \/ Loop \/ NotPassed \/ AlreadyExpired \/ JustExpired
    \/ Act \/ Store \/ Notify \/ EndTick

Next ==
    \/ NextDay \/ CacheExpires \/ PageSyncs \/ SyncEnds \/ SyncFails
    \/ Configure \/ Restart
    \/ \E u \in Users :
          \/ CreateUser(u) \/ StoreExpiry(u) \/ RemoveExpiry(u) \/ DeleteUsers(u)
          \/ DeletedInJellyfin(u) \/ ExtendExpiry(u)
          \/ \E state \in Present : EnableDisableUsers(u, state)
    \/ checkUsers

\* The daemon ticks every minute and goes on when it can, a call to Jellyfin
\* returns, and the list of users is in date for a limited time.  While it joins a
\* sync it spins until it sees it over, hence strong fairness.
Fairness == SF_vars(checkUsers) /\ WF_vars(SyncEnds) /\ WF_vars(CacheExpires)

Spec == Init /\ [][Next]_vars
FairSpec == Spec /\ Fairness
-----------------------------------------------------------------------------
(* Properties *)

States == {"unknown", "enabled", "disabled", "deleted"}
Places == {"idle", "syncing", "joining", "listed", "loop", "check", "act", "store"} \union Notices

TablesTyped ==
    /\ now \in 0..MaxTime
    /\ account \in [Users -> States]
    /\ lastDisabled \in [Users -> {None} \union 0..MaxTime]
    /\ expiry \in [Users -> Expiry \union {None}]
    /\ behaviour \in Behaviours
    /\ failures \in 0..MaxFailures /\ crashes \in 0..MaxCrashes

ClientTyped ==
    /\ cached \subseteq Users /\ fetched \subseteq Users
    /\ fresh \in BOOLEAN /\ leader \in {"none", "page", "daemon"}
    /\ signup \subseteq Users

DaemonTyped ==
    /\ tick \in Places /\ (leader = "daemon" <=> tick = "syncing")
    /\ seen \in [Users -> Expiry \union {None}]
    /\ users \subseteq Users /\ queue \subseteq Users /\ \A u \in queue : seen[u] # None
    /\ cur \in Users \union {None} /\ conf \in Behaviours \union {None} /\ dirty \in BOOLEAN
    /\ tick \in {"check", "act", "store"} \union Notices => cur # None /\ seen[cur] # None

NoticesTyped ==
    /\ edited \subseteq Users
    /\ told \in [Users -> SUBSET Notices] /\ again \in BOOLEAN

\* Every variable stays in its type, only the daemon's own sync keeps it waiting
\* for an answer, and it is at an account, with a copy of the account's expiry,
\* exactly as long as it has work to do there.
TypeOK == TablesTyped /\ ClientTyped /\ DaemonTyped /\ NoticesTyped

\* What a step of the daemon is: no other step but a restart moves it on, and a
\* restart touches neither accounts nor expiries.
DaemonMoves == <<tick, queue>>' # <<tick, queue>>

\* The daemon disables or deletes an account only if the expiry that is stored at
\* that moment has passed, unless it was edited after the tick began: whatever an
\* admin gave an account between two ticks counts.
ActsOnWhatIsStored ==
    [][\A u \in Users :
          (DaemonMoves /\ account'[u] # account[u] /\ u \notin edited)
          => expiry[u] # None /\ expiry[u].at < now]_vars

\* "Deleting expiry for old user", and otherwise only after the account was
\* disabled or deleted: the daemon does not drop the expiry of an account that is
\* enabled, unless it has been acted on or was edited meanwhile.
ServedBeforeDropped ==
    [][\A u \in Users :
          (DaemonMoves /\ expiry[u] # None /\ expiry'[u] = None /\ account[u] = "enabled")
          => u \in edited \/ expiry[u].done]_vars

\* No notice about one expiry is sent twice, reminders counted by the day,
\* whatever crashes, failures and edits come between.
NoRepeats == ~again

\* No expiry is left behind: an enabled account whose expiry has passed is
\* disabled or deleted, and the expiry of an account that is gone dropped, in the
\* end, unless it is edited.
Overdue(u) ==
    /\ expiry[u] # None
    /\ \/ account[u] = "enabled" /\ ~expiry[u].done /\ expiry[u].at < now
       \/ account[u] = "deleted"
ExpiriesAreServed == \A u \in Users : Overdue(u) ~> ~Overdue(u)
=============================================================================
