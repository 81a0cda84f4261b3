------------------------------ MODULE Jellyseerr ------------------------------
(***************************************************************************)
(* The client of Jellyseerr, with its cache of users, and what omnifin     *)
(* does with it: every change of an address is passed on, and a daemon     *)
(* passes on all addresses once, when the feature is new.  It is composed  *)
(* with the rows of Accounts: a handler that has stored an address goes on *)
(* here ("push").                                                          *)
(***************************************************************************)
EXTENDS Accounts

CONSTANT Importer  \* the daemon

\* Jellyseerr does not have the user.
Absent == "absent"

ASSUME SeerrAssumption == Importer \notin Callers /\ Absent \notin Addresses \cup {NoAddr}

VARIABLES enabled,     \* the settings have a Jellyseerr
          seerr,       \* Jellyseerr's own: the address of each user it has
          userCache, invalidatedUsers,
          valid,       \* cacheExpiry has not passed
          work,        \* calls of the client at work, of requests and of the daemon
          left,        \* users the daemon has yet to synchronise
          importing, done, \* the daemon is at work; jellyseerr_inital_sync_status
          told,        \* properties only: users whose address was passed on
          troubled     \* properties only: users for whom a call failed or crossed another

svars == <<enabled, seerr, userCache, invalidatedUsers, valid, work, left, importing, done,
           told, troubled>>
allvars == <<avars, svars>>

NoUsers == [u \in Users |-> Absent]
Threads == Callers \cup {Importer}
NoWork == [at |-> "none"]
\* A call for a user; with what it is to post, what it is for ("main": the address,
\* "prefs": the notifications, "compare": the daemon's look), and what it holds.
Call(user, then, addr, import) ==
    [at |-> "look", user |-> user, then |-> then, addr |-> addr,
     import |-> import, next |-> "find",
     held |-> NoUsers, todo |-> {}, stale |-> {}]
Holding == {"fill", "refreshed"}
Set(t, w) == work' = [work EXCEPT ![t] = w]
\* The address of u has changed: what others hold of it is old.
Posted(t, u, w) ==
    work' = [x \in Threads |-> IF x = t THEN w
                               ELSE IF work[x] # NoWork /\ work[x].at \in Holding
                               THEN [work[x] EXCEPT !.stale = @ \cup {u}] ELSE work[x]]

\* The call of t is over; the request it was made for ends, the daemon goes to its next user.
Finish(t, outcome) ==
    /\ Set(t, NoWork)
    /\ IF t \in Callers THEN End(t) ELSE UNCHANGED task
    /\ told' = IF outcome = "told" THEN told \cup {work[t].user} ELSE told
    /\ troubled' = IF outcome = "failed" THEN troubled \cup {work[t].user} ELSE troubled
    /\ UNCHANGED <<exists, emails, invites, nextCode, profiles, calls, mix, ghosts>>
    /\ UNCHANGED <<enabled, left, importing, done>>
Rest == /\ UNCHANGED <<exists, emails, invites, nextCode, profiles, task, calls, mix, ghosts>>
        /\ UNCHANGED <<enabled, left, importing, done, told>>

(***************************************************************************)
(* The cache.  getUsers fetches all users page by page if the cache has    *)
(* expired, which it no longer has for others from then on.                *)
(***************************************************************************)
Has(w) == userCache[w.user] # Absent
Have(w) == [w EXCEPT !.at = w.then, !.todo = {}, !.next = "find",
                   !.held = IF w.then = "compare" THEN userCache ELSE NoUsers]
Fixed(w) == w.then = "compare"

\* GetExistingUser
Found(w) ==
    IF w.user \in invalidatedUsers /\ Has(w)
    THEN [w EXCEPT !.at = "refresh", !.todo = invalidatedUsers]
    ELSE IF Has(w) THEN Have(w)
    ELSE IF Fixed(w) THEN [w EXCEPT !.at = "again"]
    ELSE [w EXCEPT !.at = "pages", !.next = "again"]

Look(t) ==
    /\ work[t].at = "look"
    /\ valid' = TRUE
    /\ Set(t, IF valid THEN Found(work[t]) ELSE [work[t] EXCEPT !.at = "pages"])
    /\ UNCHANGED <<seerr, userCache, invalidatedUsers, events, troubled>> /\ Rest

Find(t) ==
    /\ work[t].at = "find"
    /\ Set(t, Found(work[t]))
    /\ valid' = (valid \/ Found(work[t]).at = "pages")
    /\ UNCHANGED <<seerr, userCache, invalidatedUsers, events, troubled>> /\ Rest

GetUserPages(t) ==
    /\ work[t].at = "pages"
    /\ \/ Set(t, [work[t] EXCEPT !.at = "fill", !.held = seerr]) /\ UNCHANGED events
       \/ Set(t, [work[t] EXCEPT !.at = work[t].next]) /\ Happens
    /\ UNCHANGED <<seerr, userCache, invalidatedUsers, valid, troubled>> /\ Rest

Fill(t) ==
    /\ work[t].at = "fill"
    /\ userCache' = work[t].held
    /\ invalidatedUsers' = {}
    /\ troubled' = troubled \cup work[t].stale
    /\ Set(t, [work[t] EXCEPT !.at = work[t].next, !.held = NoUsers, !.stale = {}])
    /\ UNCHANGED <<seerr, valid, events>> /\ Rest

\* getInvalidatedUsers asks for one after the other; one that fails is left as it is.
UserByID(t) ==
    /\ work[t].at = "refresh"
    /\ LET w == work[t]
       IN  IF w.todo = {} THEN Set(t, [w EXCEPT !.at = "again"]) /\ UNCHANGED events
           ELSE \E u \in w.todo :
                  \/ /\ Set(t, [w EXCEPT !.at = "refreshed", !.next = u, !.held = seerr])
                     /\ UNCHANGED events
                  \/ /\ Set(t, [w EXCEPT !.todo = @ \ {u}])
                     /\ Happens
    /\ UNCHANGED <<seerr, userCache, invalidatedUsers, valid, troubled>> /\ Rest

Refresh(t) ==
    /\ work[t].at = "refreshed"
    /\ LET w == work[t]
           u == w.next
       IN  /\ userCache' = [userCache EXCEPT ![u] = w.held[u]]
           /\ invalidatedUsers' = invalidatedUsers \ {u}
           /\ troubled' = troubled \cup (w.stale \cap {u})
           /\ Set(t, [w EXCEPT !.at = "refresh", !.next = "find", !.todo = @ \ {u},
                             !.held = NoUsers, !.stale = {}])
    /\ UNCHANGED <<seerr, valid, events>> /\ Rest

\* The second look into the cache, and ImportFromJellyfin: it returns those who were not
\* there, so that one who was is an error.
Imports(w) == w.then # "prefs" /\ w.import
LookAgain(t) ==
    /\ work[t].at = "again"
    /\ LET w == work[t]
       IN  IF Has(w) THEN /\ Set(t, Have(w))
                         /\ UNCHANGED <<seerr, userCache, events, troubled>> /\ Rest
           ELSE \/ /\ Imports(w) /\ seerr[w.user] = Absent
                   /\ seerr' = [seerr EXCEPT ![w.user] = NoAddr]
                   /\ userCache' = [userCache EXCEPT ![w.user] = NoAddr]
                   /\ Posted(t, w.user, [Have(w) EXCEPT !.held = IF w.then = "compare"
                                                                THEN userCache' ELSE NoUsers])
                   /\ UNCHANGED <<events, troubled>> /\ Rest
                \/ /\ Finish(t, "failed")
                   /\ IF Imports(w) /\ seerr[w.user] = Absent THEN Happens ELSE UNCHANGED events
                   /\ UNCHANGED <<seerr, userCache>>
    /\ UNCHANGED <<invalidatedUsers, valid>>

(***************************************************************************)
(* Passing on an address: ModifyMainUserSettings, which marks the user as  *)
(* changed, and ModifyNotifications.                                       *)
(***************************************************************************)
\* Mutant: the address is left alone, only whether it is to be used is passed on.
SetContactMethodsOnly(h) ==
    /\ At(h, "push") /\ work[h] = NoWork
    /\ \/ /\ enabled
          /\ Set(h, Call(task[h].who, "prefs", NoAddr, TRUE))
          /\ UNCHANGED task
       \/ /\ ~enabled \/ task[h].op = "signup"
          /\ End(h) /\ UNCHANGED work
    /\ UNCHANGED <<exists, emails, invites, nextCode, profiles, bounds, ghosts>>
    /\ UNCHANGED <<enabled, seerr, userCache, invalidatedUsers, valid, left, importing, done,
                   told, troubled>>

\* A new account is passed on if its profile says so.
SetContactMethods(h) ==
    /\ At(h, "push") /\ work[h] = NoWork
    /\ \/ /\ enabled
          /\ Set(h, Call(task[h].who, "main", task[h].arg.addr, TRUE))
          /\ UNCHANGED task
       \/ /\ ~enabled \/ task[h].op = "signup"
          /\ End(h) /\ UNCHANGED work
    /\ UNCHANGED <<exists, emails, invites, nextCode, profiles, bounds, ghosts>>
    /\ UNCHANGED <<enabled, seerr, userCache, invalidatedUsers, valid, left, importing, done,
                   told, troubled>>

PostSettings(t) ==
    /\ work[t].at = "main"
    /\ LET w == work[t]
       IN  \/ /\ seerr' = [seerr EXCEPT ![w.user] = w.addr]
              /\ Posted(t, w.user, [w EXCEPT !.at = "mark"])
              /\ UNCHANGED <<events, troubled>> /\ Rest
           \/ /\ Finish(t, "failed")
              /\ Happens /\ UNCHANGED seerr
    /\ UNCHANGED <<userCache, invalidatedUsers, valid>>

Mark(t) ==
    /\ work[t].at = "mark"
    /\ invalidatedUsers' = invalidatedUsers \cup {work[t].user}
    /\ Set(t, [work[t] EXCEPT !.at = "look", !.then = "prefs", !.addr = NoAddr])
    /\ UNCHANGED <<seerr, userCache, valid, events, troubled>> /\ Rest

PostNotifications(t) ==
    /\ work[t].at = "prefs"
    /\ Finish(t, "told")
    /\ UNCHANGED <<seerr, userCache, invalidatedUsers, valid, events>>

(***************************************************************************)
(* The daemon.                                                             *)
(***************************************************************************)
SynchronizeJellyseerrUsers ==
    /\ enabled /\ ~done /\ ~importing
    /\ importing' = TRUE
    /\ left' = exists
    /\ valid' = TRUE
    /\ Set(Importer, [Call(CHOOSE u \in exists : TRUE, "compare", NoAddr, TRUE)
                        EXCEPT !.at = "pages", !.next = "loaded"])
    /\ UNCHANGED <<avars, enabled, seerr, userCache, invalidatedUsers, done, told, troubled>>

Synchronizing == importing /\ (work[Importer] = NoWork \/ work[Importer].at = "loaded")

SynchronizeJellyseerrUser ==
    /\ Synchronizing
    /\ \E u \in left : /\ left' = left \ {u}
                       /\ Set(Importer, Call(u, "compare", NoAddr, TRUE))
    /\ UNCHANGED <<avars, enabled, seerr, userCache, invalidatedUsers, valid, importing, done,
                   told, troubled>>

Address(u) == IF emails[u] = NoRow THEN NoAddr ELSE emails[u].addr

\* The address is passed on if Jellyseerr has another.  The notifications may not be read.
Compare(t) ==
    /\ work[t].at = "compare"
    /\ LET w == work[t]
           addr == Address(w.user)
       IN  \/ /\ addr \notin {NoAddr, w.held[w.user]}
              /\ Set(t, [w EXCEPT !.at = "look", !.then = "main", !.addr = addr,
                                  !.held = NoUsers, !.import = FALSE])
              /\ UNCHANGED <<events, troubled>> /\ Rest
           \/ /\ addr \in {NoAddr, w.held[w.user]}
              /\ Finish(t, IF addr = NoAddr THEN "nothing" ELSE "told")
              /\ UNCHANGED events
           \/ Finish(t, "failed") /\ Happens
    /\ UNCHANGED <<seerr, userCache, invalidatedUsers, valid>>

\* Whatever failed: it is not done again.
Synchronized ==
    /\ Synchronizing /\ left = {}
    /\ done' = TRUE /\ importing' = FALSE
    /\ Set(Importer, NoWork)
    /\ UNCHANGED <<avars, enabled, seerr, userCache, invalidatedUsers, valid, left, told,
                   troubled>>

(***************************************************************************)
(* The whole.                                                              *)
(***************************************************************************)
\* An address of u is being passed on, or will be when a signup that has stored it comes to it.
Busy(u) == \/ \E h \in Callers : /\ task[h] # Idle /\ task[h].who = u
                                 /\ task[h].at = "push" \/ task[h].op = "signup"
                                 /\ task[h].at # "row"
           \/ \E t \in Threads : work[t] # NoWork /\ work[t].user = u

Tables ==
    /\ TableStep
    /\ troubled' = troubled \cup {u \in Users : Address(u) # Address(u)' /\ Busy(u)}
    /\ UNCHANGED <<enabled, seerr, userCache, invalidatedUsers, valid, work, left, importing, done,
                   told>>

\* Someone changes an address in Jellyseerr, which already has accounts.
SeerrChanges ==
    /\ Happens
    /\ \E u \in exists, addr \in Addresses \cup {NoAddr} :
          /\ seerr[u] # addr
          /\ seerr' = [seerr EXCEPT ![u] = addr]
          /\ troubled' = troubled \cup {u}
    /\ UNCHANGED <<exists, emails, invites, nextCode, profiles, task, calls, mix, ghosts>>
    /\ UNCHANGED <<enabled, userCache, invalidatedUsers, valid, work, left, importing, done, told>>

\* cacheLength has passed.
CacheExpires ==
    /\ enabled /\ valid /\ valid' = FALSE /\ Happens
    /\ UNCHANGED <<exists, emails, invites, nextCode, profiles, task, calls, mix, ghosts>>
    /\ UNCHANGED <<enabled, seerr, userCache, invalidatedUsers, work, left, importing, done, told,
                   troubled>>

\* A start with these or other settings.  One without Jellyseerr unsets the daemon's flag:
\* migrateJellyseerrImportDaemon.
Restart ==
    /\ Crash
    /\ enabled' \in BOOLEAN
    /\ done' = (done /\ enabled')
    /\ userCache' = NoUsers /\ invalidatedUsers' = {} /\ valid' = FALSE
    /\ work' = [t \in Threads |-> NoWork] /\ left' = {} /\ importing' = FALSE
    /\ told' = IF enabled' THEN told ELSE {}
    /\ troubled' = troubled \cup {u \in Users : Busy(u)}
    /\ UNCHANGED seerr

SeerrInit ==
    /\ AccountsInit
    /\ enabled \in BOOLEAN /\ done = FALSE
    /\ seerr \in [Users -> {Absent, NoAddr}]
    /\ \A u \in Users \ exists : seerr[u] = Absent
    /\ userCache = NoUsers /\ invalidatedUsers = {} /\ valid = FALSE
    /\ work = [t \in Threads |-> NoWork] /\ left = {} /\ importing = FALSE
    /\ told = {} /\ troubled = {}

Client(t) == \/ Look(t) \/ Find(t) \/ GetUserPages(t) \/ Fill(t) \/ UserByID(t) \/ Refresh(t)
             \/ LookAgain(t) \/ PostSettings(t) \/ Mark(t) \/ PostNotifications(t)
SeerrNext ==
    \/ Tables \/ SeerrChanges \/ CacheExpires \/ Restart
    \/ \E h \in Callers : SetContactMethods(h)
    \/ \E t \in Threads : Client(t)
    \/ SynchronizeJellyseerrUsers \/ SynchronizeJellyseerrUser \/ Compare(Importer)
    \/ Synchronized
SeerrSpec == SeerrInit /\ [][SeerrNext]_allvars

(***************************************************************************)
(* Properties.                                                             *)
(***************************************************************************)
\* The client's records.
SeerrTypeOK ==
    /\ enabled \in BOOLEAN /\ valid \in BOOLEAN /\ importing \in BOOLEAN /\ done \in BOOLEAN
    /\ seerr \in [Users -> Addresses \cup {NoAddr, Absent}]
    /\ userCache \in [Users -> Addresses \cup {NoAddr, Absent}]
    /\ invalidatedUsers \subseteq Users
    /\ \A t \in Threads : work[t] = NoWork \/ work[t].user \in exists
    /\ left \subseteq exists /\ told \subseteq exists /\ troubled \subseteq exists

\* What the cache has of a user and does not hold for changed is what Jellyseerr has, until a
\* call for the user fails, someone else changes it, or it was fetched while being changed.
CacheIsHonest ==
    \A u \in Users \ (invalidatedUsers \cup troubled) :
        \/ userCache[u] \in {Absent, seerr[u]}
        \/ \E t \in Threads : work[t].at = "mark" /\ work[t].user = u

\* Jellyseerr has the stored address of every user whose address was passed on, by a request
\* or by the daemon, and of whom nothing failed or crossed.
AddressArrives ==
    \A u \in told \ (troubled \cup lost) : Busy(u) \/ seerr[u] = Address(u)

\* Addresses reach Jellyseerr, by a cache that is not older than it says.
SoundClient == SeerrTypeOK /\ CacheIsHonest /\ AddressArrives
=============================================================================
