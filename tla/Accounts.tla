------------------------------- MODULE Accounts -------------------------------
(***************************************************************************)
(* What omnifin stores about the accounts themselves, in three tables that *)
(* handlers read, change in memory and write back: the rows of             *)
(* EmailAddress (address, access to the admin page, key of a referral      *)
(* template), the profiles, and the invites that are referrals or          *)
(* templates of referrals.                                                 *)
(***************************************************************************)
EXTENDS Integers, FiniteSets, FiniteSetsExt

CONSTANTS Users, Names,  \* accounts, and names of profiles (in the order ForEach gives)
          Addresses,
          Callers,       \* requests at work
          Daemon,        \* housekeeping
          MaxCalls,      \* bound: requests
          Mixes,         \* bound: the kinds of requests that come in one behaviour
          MaxEvents,     \* bound: invites that expire, and restarts
          Nobody, NoAddr

ASSUME AccountsAssumption ==
    /\ Names \subseteq Nat /\ IsFiniteSet(Names) /\ IsFiniteSet(Users)
    /\ Users # {} /\ Daemon \notin Callers /\ Nobody \notin Users /\ NoAddr \notin Addresses
    /\ MaxCalls \in Nat /\ MaxEvents \in Nat

\* Two codes are there at first, and a request makes one at most.
Codes == 1..(MaxCalls + 2)
NoKey == 0
Nothing == [nothing |-> TRUE]

NoRow == [none |-> TRUE]
Row == [addr : Addresses \cup {NoAddr}, admin : BOOLEAN, tmpl : Codes \cup {NoKey}]
EmptyRow == [addr |-> NoAddr, admin |-> FALSE, tmpl |-> NoKey]

\* A template has no owner.  "timed" is UseReferralExpiry, "over" that ValidTill has passed.
NoInvite == [none |-> TRUE]
Invite == [owner : Users \cup {Nobody}, timed : BOOLEAN, over : BOOLEAN]
Fresh(owner, timed) == [owner |-> owner, timed |-> timed, over |-> FALSE]

NoProfile == [none |-> TRUE]
Profile == [default : BOOLEAN, tmpl : Codes \cup {NoKey}]

\* A request at work: what it does, about whom (Nobody: about the profiles), what it has
\* read and what comes next.  "stale" is for the properties only: another request has
\* changed something of the same subject since.
Idle == [op |-> "idle"]
Task(op, who, at, copy, arg) ==
    [op |-> op, who |-> who, at |-> at, copy |-> copy, arg |-> arg, stale |-> FALSE]
\* All is stored; the address is passed on.
Push(op, who, addr) == Task(op, who, "push", NoRow, [addr |-> addr])

VARIABLES exists,    \* accounts of Jellyfin
          emails,    \* rows of EmailAddress
          invites,   \* referrals and their templates
          nextCode,  \* codes are random: one that was used does not come again
          profiles,
          task,      \* requests at work, and the daemon
          calls, events, mix,
          decided,   \* properties only: the address and the access each user was given last
          off,       \* properties only: users whose referrals were disabled, or have ended
          kept,      \* properties only: users whose referral is to be renewed forever
          gone,      \* properties only: templates that a visitor has ended
          lost       \* properties only: subjects of which a change was overwritten

bounds == <<calls, events, mix>>
ghosts == <<decided, off, kept, gone, lost>>
avars == <<exists, emails, invites, nextCode, profiles, task, calls, events, mix,
           decided, off, kept, gone, lost>>

Workers == Callers \cup {Daemon}
Owned(u) == {c \in Codes : invites[c] # NoInvite /\ invites[c].owner = u}

At(h, at) == task[h] # Idle /\ task[h].at = at
\* Nothing is said of what follows once a change was overwritten: no request is then begun.
Comes(op) == op \in mix /\ lost = {} /\ calls < MaxCalls /\ calls' = calls + 1
Begin(h, first) ==
    /\ task[h] = Idle /\ Comes(first.op)
    /\ task' = [task EXCEPT ![h] = first]
End(h) == task' = [task EXCEPT ![h] = Idle]
\* h has changed something of s, and goes on as "next".
Announce(h, s, next) ==
    task' = [w \in Workers |->
               IF w = h THEN next
               ELSE IF task[w] # Idle /\ task[w].who = s /\ task[w].at # "push"
               THEN [task[w] EXCEPT !.stale = TRUE] ELSE task[w]]
\* What h writes was read before another changed it.
Overwrite(h) == lost' = IF task[h].stale THEN lost \cup {task[h].who} ELSE lost

(***************************************************************************)
(* Rows of EmailAddress: each handler reads one, sets a field of its copy  *)
(* and stores all of it.                                                   *)
(***************************************************************************)
ReadRow(h, op, u, arg) ==
    /\ u \in exists
    /\ Begin(h, Task(op, u, "row", emails[u], arg))
    /\ UNCHANGED <<exists, emails, invites, nextCode, profiles, events, mix, ghosts>>

SetAccountsAdmin(h) ==
    \E u \in Users, admin \in BOOLEAN : ReadRow(h, "admin", u, [admin |-> admin])
\* The label itself is nothing the properties look at.
ModifyLabels(h) == \E u \in Users : ReadRow(h, "label", u, Nothing)
\* An admin's request, or a confirmation link: one may be opened again for an hour.
ModifyEmail(h) ==
    \E u \in Users, addr \in Addresses \cup {NoAddr} : ReadRow(h, "email", u, [addr |-> addr])

\* Mutant: a label is stored without the row there was.
StoredFresh(c) ==
    LET copy == IF c.copy = NoRow \/ c.op = "label" THEN EmptyRow ELSE c.copy
    IN  CASE c.op = "admin" -> [copy EXCEPT !.admin = c.arg.admin]
          [] c.op = "label" -> copy
          [] c.op = "email" /\ copy.addr = NoAddr -> [EmptyRow EXCEPT !.addr = c.arg.addr]
          [] c.op = "email" /\ copy.addr # NoAddr -> [copy EXCEPT !.addr = c.arg.addr]
          [] OTHER -> [copy EXCEPT !.tmpl = NoKey]

Stored(c) ==
    LET copy == IF c.copy = NoRow THEN EmptyRow ELSE c.copy
    IN  CASE c.op = "admin" -> [copy EXCEPT !.admin = c.arg.admin]
          [] c.op = "label" -> copy
          [] c.op = "email" /\ copy.addr = NoAddr -> [EmptyRow EXCEPT !.addr = c.arg.addr]
          [] c.op = "email" /\ copy.addr # NoAddr -> [copy EXCEPT !.addr = c.arg.addr]
          [] OTHER -> [copy EXCEPT !.tmpl = NoKey]

WriteRow(h) ==
    /\ At(h, "row") /\ task[h].op # "signup"
    /\ LET c == task[h]
           u == c.who
       IN  /\ emails' = [emails EXCEPT ![u] = Stored(c)]
           /\ decided' = CASE c.op = "admin" -> [decided EXCEPT ![u].admin = c.arg.admin]
                           [] c.op = "email" ->
                                 IF c.copy # NoRow /\ c.copy.addr # NoAddr
                                 THEN [decided EXCEPT ![u].addr = c.arg.addr]
                                 ELSE [decided EXCEPT ![u] =
                                         [addr |-> c.arg.addr, admin |-> FALSE]]
                           [] OTHER -> decided
           /\ off' = IF c.op \in {"unrefer", "mine"} /\ ~c.stale THEN off \cup {u} ELSE off
           /\ Announce(h, u, CASE c.op = "email" -> Push("email", u, c.arg.addr)
                               [] c.op = "expire" -> [c EXCEPT !.at = "delete"]
                               [] OTHER -> Idle)
    /\ Overwrite(h)
    /\ UNCHANGED <<exists, invites, nextCode, profiles, bounds, kept, gone>>

\* A signup through an invite whose profile may have a template.  The row is stored if it
\* has an address or referrals are enabled; the key of the template is not put into it.
Signup(h) ==
    \E u \in Users \ exists, addr \in Addresses \cup {NoAddr},
       tmpl \in {NoKey} \cup {profiles[p].tmpl : p \in {n \in Names : profiles[n] # NoProfile}} :
        /\ exists' = exists \cup {u}
        /\ Begin(h, Task("signup", u, "row", [EmptyRow EXCEPT !.addr = addr], [tmpl |-> tmpl]))
        /\ UNCHANGED <<emails, invites, nextCode, profiles, events, mix, ghosts>>

StoreNewRow(h) ==
    /\ At(h, "row") /\ task[h].op = "signup"
    /\ LET c == task[h]
           stored == c.copy.addr # NoAddr \/ c.arg.tmpl # NoKey
       IN  /\ emails' = IF stored THEN [emails EXCEPT ![c.who] = c.copy] ELSE emails
           /\ decided' = IF stored THEN [decided EXCEPT ![c.who].addr = c.copy.addr] ELSE decided
           /\ Announce(h, c.who, [c EXCEPT !.at = "share"])
    /\ Overwrite(h)
    /\ UNCHANGED <<exists, invites, nextCode, profiles, bounds, off, kept, gone>>

\* "If UseReferralExpiry is enabled, create the ref now so the clock starts ticking."
ShareTemplate(h) ==
    /\ At(h, "share")
    /\ LET c == task[h]
           key == c.arg.tmpl
           timed == key # NoKey /\ invites[key] # NoInvite /\ invites[key].timed
       IN  task' = [task EXCEPT ![h] = IF timed
                                       THEN [c EXCEPT !.at = "put", !.arg = [timed |-> TRUE]]
                                       ELSE Push("signup", c.who, c.copy.addr)]
    /\ UNCHANGED <<exists, emails, invites, nextCode, profiles, bounds, ghosts>>

(***************************************************************************)
(* Referrals.                                                              *)
(***************************************************************************)
Without(S) == [c \in Codes |-> IF c \in S THEN NoInvite ELSE invites[c]]

\* The template (of a profile, or any invite) is read; the user's own are deleted, and a
\* new one is stored.
EnableReferralForUsers(h) ==
    /\ \E u \in exists, timed \in BOOLEAN :
          Begin(h, Task("refer", u, "wipe", NoRow, [timed |-> timed]))
    /\ UNCHANGED <<exists, emails, invites, nextCode, profiles, events, mix, ghosts>>

\* Mutant: what the user has is not deleted first.
WipeOutNot(h) ==
    /\ At(h, "wipe")
    /\ invites' = invites
    /\ kept' = kept \ {task[h].who}
    /\ Announce(h, task[h].who, [task[h] EXCEPT !.at = "put"])
    /\ UNCHANGED <<exists, emails, nextCode, profiles, bounds, decided, off, gone, lost>>

WipeOut(h) ==
    /\ At(h, "wipe")
    /\ invites' = Without(Owned(task[h].who))
    /\ kept' = kept \ {task[h].who}
    /\ Announce(h, task[h].who, [task[h] EXCEPT !.at = "put"])
    /\ UNCHANGED <<exists, emails, nextCode, profiles, bounds, decided, off, gone, lost>>

DisableReferralForUsers(h) ==
    /\ \E u \in exists :
        /\ task[h] = Idle /\ Comes("unrefer")
        /\ invites' = Without(Owned(u))
        /\ kept' = kept \ {u}
        /\ Announce(h, u, Task("unrefer", u, "find", NoRow, Nothing))
    /\ UNCHANGED <<exists, emails, nextCode, profiles, events, mix, decided, off, gone, lost>>

\* The row whose key of a template is to be cleared.
FindRow(h) ==
    /\ At(h, "find")
    /\ LET c == task[h]
           row == emails[c.who]
       IN  /\ task' = [task EXCEPT ![h] =
                         IF row # NoRow THEN [c EXCEPT !.at = "row", !.copy = row]
                         ELSE IF c.op = "expire" THEN [c EXCEPT !.at = "delete"] ELSE Idle]
           /\ off' = IF row = NoRow /\ c.op # "expire" /\ ~c.stale
                     THEN off \cup {c.who} ELSE off
    /\ UNCHANGED <<exists, emails, invites, nextCode, profiles, bounds, decided, kept, gone, lost>>

Expired(c) == [code |-> c, timed |-> invites[c].timed]

\* None is there: one is made from the template.  One has expired: it is deleted, and made
\* again unless its expiry ends it.
GetMyReferral(h) ==
    /\ \E u \in exists :
          \/ Owned(u) = {} /\ Begin(h, Task("mine", u, "template", NoRow, Nothing))
          \/ \E c \in Owned(u) :
                invites[c].over /\ Begin(h, Task("mine", u, "drop", NoRow, Expired(c)))
    /\ UNCHANGED <<exists, emails, invites, nextCode, profiles, events, mix, ghosts>>

FindTemplate(h) ==
    /\ At(h, "template")
    /\ LET row == emails[task[h].who]
       IN  task' = [task EXCEPT ![h] =
                      IF row # NoRow /\ row.tmpl # NoKey /\ invites[row.tmpl] # NoInvite
                      THEN [@ EXCEPT !.at = "put", !.arg = [timed |-> invites[row.tmpl].timed]]
                      ELSE Idle]
    /\ UNCHANGED <<exists, emails, invites, nextCode, profiles, bounds, ghosts>>

DropReferral(h) ==
    /\ At(h, "drop") /\ task[h].op = "mine"
    /\ LET c == task[h]
       IN  /\ invites' = Without({c.arg.code})
           /\ Announce(h, c.who, IF c.arg.timed THEN [c EXCEPT !.at = "find"]
                                 ELSE [c EXCEPT !.at = "put", !.arg = [timed |-> FALSE]])
    /\ UNCHANGED <<exists, emails, nextCode, profiles, bounds, ghosts>>

PutReferral(h) ==
    /\ At(h, "put") /\ task[h].who # Nobody
    /\ LET c == task[h]
       IN  /\ invites' = [invites EXCEPT ![nextCode] = Fresh(c.who, c.arg.timed)]
           /\ kept' = IF c.arg.timed THEN kept \ {c.who} ELSE kept \cup {c.who}
           /\ off' = off \ {c.who}
           /\ Announce(h, c.who, IF c.op # "signup" THEN Idle
                                 ELSE Push(c.op, c.who, c.copy.addr))
    /\ nextCode' = nextCode + 1
    /\ Overwrite(h)
    /\ UNCHANGED <<exists, emails, profiles, bounds, decided, gone>>

\* Mutant: templates are swept.
ToBeSweptTemplates(c) == invites[c] # NoInvite /\ invites[c].over /\ invites[c].timed

\* checkInvites: templates, and the referrals that are renewed, are let be.
ToBeSwept(c) ==
    /\ invites[c] # NoInvite /\ invites[c].over
    /\ invites[c].timed /\ invites[c].owner # Nobody

\* deleteExpiredInvite, of the copy that was read.
DeleteExpiredInvite(c) ==
    LET inv == invites[c]
    IN  Task("expire", inv.owner,
             IF inv.timed /\ inv.owner # Nobody THEN "find" ELSE "delete", NoRow, Expired(c))

Sweep ==
    /\ task[Daemon] = Idle
    /\ \E c \in Codes : /\ ToBeSwept(c)
                        /\ task' = [task EXCEPT ![Daemon] = DeleteExpiredInvite(c)]
    /\ UNCHANGED <<exists, emails, invites, nextCode, profiles, bounds, ghosts>>

\* A visitor opens the page of an expired referral or template.
CheckInvite(h) ==
    /\ \E c \in Codes : /\ invites[c] # NoInvite /\ invites[c].over
                        /\ Begin(h, DeleteExpiredInvite(c))
    /\ UNCHANGED <<exists, emails, invites, nextCode, profiles, events, mix, ghosts>>

Delete(h) ==
    /\ At(h, "delete")
    /\ LET c == task[h]
       IN  /\ invites' = Without({c.arg.code})
           /\ off' = IF c.arg.timed /\ c.who # Nobody /\ ~c.stale THEN off \cup {c.who} ELSE off
           /\ kept' = IF c.arg.timed \/ h = Daemon \/ invites[c.arg.code] = NoInvite THEN kept
                      ELSE kept \ {c.who}
           /\ gone' = IF c.who = Nobody /\ h # Daemon THEN gone \cup {c.arg.code} ELSE gone
           /\ Announce(h, IF c.who = Nobody THEN h ELSE c.who, Idle)
    /\ UNCHANGED <<exists, emails, nextCode, profiles, bounds, decided, lost>>

Happens == events < MaxEvents /\ events' = events + 1

\* The last use of a referral.
SpendLast(h) ==
    /\ task[h] = Idle /\ Comes("spend")
    /\ \E u \in Users : \E c \in Owned(u) :
        /\ ~invites[c].over
        /\ invites' = Without({c})
        /\ kept' = kept \ {u}
        /\ Announce(h, u, Idle)
    /\ UNCHANGED <<exists, emails, nextCode, profiles, events, mix, decided, off, gone, lost>>

TimePasses ==
    /\ Happens
    /\ \E c \in Codes : /\ invites[c] # NoInvite /\ ~invites[c].over
                        /\ invites' = [invites EXCEPT ![c].over = TRUE]
    /\ UNCHANGED <<exists, emails, nextCode, profiles, task, calls, mix, ghosts>>

(***************************************************************************)
(* Profiles.  A change reads one (ForEach: all) and stores it back.        *)
(***************************************************************************)
Present == {p \in Names : profiles[p] # NoProfile}
EmptyProfile == [default |-> FALSE, tmpl |-> NoKey]

\* CreateProfile does not look whether there is one of that name; DeleteProfile leaves the
\* template.
StoreProfile(p, profile) ==
    /\ Comes("store")
    /\ profiles' = [profiles EXCEPT ![p] = profile]
    /\ Announce(Daemon, Nobody, task[Daemon])
    /\ UNCHANGED <<exists, emails, invites, nextCode, events, mix, ghosts>>

CreateProfile == \E p \in Names : StoreProfile(p, EmptyProfile)
DeleteProfile == \E p \in Present : StoreProfile(p, NoProfile)

ReadProfile(h, op, at, from, to, timed) ==
    /\ from \in Present
    /\ Begin(h, Task(op, Nobody, at, profiles[from], [from |-> from, to |-> to, timed |-> timed]))
    /\ UNCHANGED <<exists, emails, invites, nextCode, profiles, events, mix, ghosts>>

\* The raw profile is replaced, under the same or another name.
ReplaceRawProfile(h) ==
    \E from \in Names, to \in Names : ReadProfile(h, "content", "write", from, to, FALSE)
\* What a new user gets in Jellyseerr or in Ombi is read there, then set or cleared.
SetJellyseerrProfile(h) == \E p \in Names : ReadProfile(h, "content", "write", p, p, FALSE)
SetOmbiProfile(h) == \E p \in Names : ReadProfile(h, "content", "write", p, p, FALSE)
EnableReferralForProfile(h) ==
    \E p \in Names, timed \in BOOLEAN : ReadProfile(h, "share", "template of profile", p, p, timed)
DisableReferralForProfile(h) ==
    \E p \in Names : ReadProfile(h, "unshare", "template of profile", p, p, FALSE)

ChangeTemplate(h) ==
    /\ At(h, "template of profile")
    /\ LET c == task[h]
           share == c.op = "share"
       IN  /\ invites' = IF share THEN [invites EXCEPT ![nextCode] = Fresh(Nobody, c.arg.timed)]
                         ELSE Without({c.copy.tmpl})
           /\ nextCode' = IF share THEN nextCode + 1 ELSE nextCode
           /\ task' = [task EXCEPT ![h].at = "write",
                                   ![h].copy.tmpl = IF share THEN nextCode ELSE NoKey]
    /\ UNCHANGED <<exists, emails, profiles, bounds, ghosts>>

WriteProfile(h) ==
    /\ At(h, "write")
    /\ LET c == task[h]
       IN  /\ profiles' = [profiles EXCEPT ![c.arg.to] = c.copy]
           /\ Announce(h, Nobody, IF c.arg.from # c.arg.to THEN [c EXCEPT !.at = "drop"] ELSE Idle)
    /\ Overwrite(h)
    /\ UNCHANGED <<exists, emails, invites, nextCode, bounds, decided, off, kept, gone>>

DropProfile(h) ==
    /\ At(h, "drop") /\ task[h].op = "content"
    /\ profiles' = [profiles EXCEPT ![task[h].arg.from] = NoProfile]
    /\ Announce(h, Nobody, Idle)
    /\ Overwrite(h)
    /\ UNCHANGED <<exists, emails, invites, nextCode, bounds, decided, off, kept, gone>>

\* ForEach goes through the profiles as they are when it begins.
SetDefaultProfile(h) ==
    /\ \E p \in Present :
          Begin(h, Task("default", Nobody, "each", [all |-> profiles],
                        [to |-> p, left |-> Present]))
    /\ UNCHANGED <<exists, emails, invites, nextCode, profiles, events, mix, ghosts>>

SetOneDefault(h) ==
    /\ At(h, "each")
    /\ LET c == task[h]
           p == Min(c.arg.left)
       IN  /\ profiles' = [profiles EXCEPT ![p] = [c.copy.all[p] EXCEPT !.default = (p = c.arg.to)]]
           /\ Announce(h, Nobody, IF c.arg.left = {p} THEN Idle
                                  ELSE [c EXCEPT !.arg.left = @ \ {p}])
    /\ Overwrite(h)
    /\ UNCHANGED <<exists, emails, invites, nextCode, bounds, decided, off, kept, gone>>

\* Every request is forgotten; some leave things half done.
Crash ==
    /\ Happens
    /\ task' = [w \in Workers |-> Idle]
    /\ lost' = lost \cup {task[w].who : w \in {v \in Workers :
                  /\ task[v] # Idle
                  /\ \/ task[v].at \in {"write", "drop", "each"} /\ task[v].who = Nobody
                     \/ task[v].at = "put" /\ task[v].op = "mine"}}
    /\ UNCHANGED <<exists, emails, invites, nextCode, profiles, calls, mix, decided, off, kept,
                   gone>>

AccountsInit ==
    \E u \in {CHOOSE v \in Users : TRUE}, addr \in Addresses, key \in {NoKey, 1},
       timed \in BOOLEAN :
    \E own \in {NoInvite, Fresh(u, TRUE), Fresh(u, FALSE)} :
        /\ exists = {u}
        /\ emails = [v \in Users |->
                       IF v = u THEN [EmptyRow EXCEPT !.addr = addr, !.tmpl = key] ELSE NoRow]
        /\ invites = [c \in Codes |-> IF c = 1 THEN Fresh(Nobody, timed)
                                      ELSE IF c = 2 THEN own ELSE NoInvite]
        /\ nextCode = 3
        /\ profiles = [p \in Names |-> [default |-> (p = Min(Names)),
                                        tmpl |-> IF p = Min(Names) THEN 1 ELSE NoKey]]
        /\ task = [w \in Workers |-> Idle]
        /\ calls = 0 /\ events = 0 /\ mix \in Mixes
        /\ decided = [v \in Users |-> [addr |-> IF v = u THEN addr ELSE NoAddr, admin |-> FALSE]]
        /\ off = {} /\ gone = {} /\ lost = {}
        /\ kept = IF own # NoInvite /\ ~own.timed THEN {u} ELSE {}

DaemonStep == \/ Sweep \/ FindRow(Daemon) \/ WriteRow(Daemon) \/ Delete(Daemon)
Request(h) ==
    \/ SetAccountsAdmin(h) \/ ModifyLabels(h) \/ ModifyEmail(h) \/ WriteRow(h)
    \/ Signup(h) \/ StoreNewRow(h) \/ ShareTemplate(h)
    \/ EnableReferralForUsers(h) \/ WipeOut(h) \/ PutReferral(h)
    \/ DisableReferralForUsers(h) \/ FindRow(h)
    \/ GetMyReferral(h) \/ FindTemplate(h) \/ DropReferral(h)
    \/ CheckInvite(h) \/ Delete(h) \/ SpendLast(h)
    \/ ReplaceRawProfile(h) \/ SetJellyseerrProfile(h) \/ SetOmbiProfile(h)
    \/ EnableReferralForProfile(h) \/ DisableReferralForProfile(h)
    \/ ChangeTemplate(h) \/ WriteProfile(h) \/ DropProfile(h)
    \/ SetDefaultProfile(h) \/ SetOneDefault(h)
\* All that touches the tables.
TableStep == \/ DaemonStep \/ \E h \in Callers : Request(h)
             \/ CreateProfile \/ DeleteProfile \/ TimePasses

\* Nothing else is told of an address.
Pushed(h) ==
    /\ At(h, "push")
    /\ End(h)
    /\ UNCHANGED <<exists, emails, invites, nextCode, profiles, bounds, ghosts>>

AccountsNext == TableStep \/ Crash \/ \E h \in Callers : Pushed(h)
AccountsSpec == AccountsInit /\ [][AccountsNext]_avars

(***************************************************************************)
(* Properties.                                                             *)
(***************************************************************************)
RowTask(c) ==
    /\ c.op \in {"admin", "label", "email", "unrefer", "mine", "expire", "refer", "signup"}
    /\ c.who \in Users \cup {Nobody}
    /\ c.at \in {"row", "find", "delete", "wipe", "put", "template", "drop", "share", "push"}
    /\ c.copy \in Row \cup {NoRow}
ProfileTask(c) ==
    /\ c.op \in {"content", "share", "unshare", "default"} /\ c.who = Nobody
    /\ c.at \in {"template of profile", "write", "drop", "each"}
    /\ c.copy \in Profile \cup [all : [Names -> Profile \cup {NoProfile}]]

\* The tables hold records, and codes come from the counter.
AccountsTypeOK ==
    /\ exists \subseteq Users
    /\ emails \in [Users -> Row \cup {NoRow}]
    /\ invites \in [Codes -> Invite \cup {NoInvite}]
    /\ \A c \in Codes : c >= nextCode => invites[c] = NoInvite
    /\ profiles \in [Names -> Profile \cup {NoProfile}]
    /\ \A w \in Workers : task[w] # Idle => (RowTask(task[w]) \/ ProfileTask(task[w]))
    /\ calls \in 0..MaxCalls /\ events \in 0..MaxEvents
    /\ decided \in [Users -> [addr : Addresses \cup {NoAddr}, admin : BOOLEAN]]
    /\ off \subseteq Users /\ kept \subseteq Users /\ gone \subseteq Codes
    /\ lost \subseteq Users \cup {Nobody}

\* A row has the address and the access its user was given last (a first address starts a
\* row anew, without access), unless a handler has stored a copy another had changed since.
RowsAsDecided ==
    \A u \in exists \ lost :
        LET row == IF emails[u] = NoRow THEN EmptyRow ELSE emails[u]
        IN  row.addr = decided[u].addr /\ row.admin = decided[u].admin

\* A user has one referral at most, unless two requests made one from what both had read.
OneReferralEach == \A u \in Users \ lost : Cardinality(Owned(u)) <= 1

\* MyDetails: what the user page goes by.
HasReferrals(u) ==
    \/ Owned(u) # {}
    \/ emails[u] # NoRow /\ emails[u].tmpl # NoKey /\ invites[emails[u].tmpl] # NoInvite

\* Once an admin has disabled a user's referrals, or their time has ended them, the user has
\* none until they are enabled again.
DisabledStays == \A u \in off \ lost : ~HasReferrals(u)

\* A referral without an end is still the user's after any time: it is being replaced, or
\* there.  Only an admin, its last use or a visitor after its time ends it.
ReferralsAreKept ==
    \A u \in kept \ lost : Owned(u) # {} \/ \E w \in Workers : task[w] # Idle /\ task[w].who = u

\* What a profile has as its template is in the store: housekeeping leaves it there, and
\* changes of profiles take it along.
TemplatesAreKept ==
    \A p \in Present :
        \/ profiles[p].tmpl \in {NoKey} \cup gone
        \/ invites[profiles[p].tmpl] # NoInvite
        \/ Nobody \in lost
        \/ \E w \in Workers : task[w] # Idle /\ task[w].who = Nobody

\* No two profiles are the default one when no change of profiles is under way.
OneDefault ==
    \/ Cardinality({p \in Present : profiles[p].default}) <= 1
    \/ Nobody \in lost
    \/ \E w \in Workers : task[w] # Idle /\ task[w].who = Nobody

\* Rows are what was decided, through handlers that overlap and housekeeping.
SoundRows == AccountsTypeOK /\ RowsAsDecided

\* Whoever made, ended, swept or renewed them: no user has two referrals, none has one that
\* was disabled, and those without an end last.
SoundReferrals == OneReferralEach /\ DisabledStays /\ ReferralsAreKept

\* Profiles that are stored, renamed, shared and deleted at once keep their templates and
\* one default.
SoundProfiles == TemplatesAreKept /\ OneDefault
=============================================================================
