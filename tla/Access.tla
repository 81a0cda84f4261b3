-------------------------------- MODULE Access --------------------------------
(***************************************************************************)
(* Who may act, and as whom: the sessions of the admin page and of the     *)
(* user page (bearer and refresh tokens, which the process signs and does  *)
(* not keep), the logins that make them, which share one client of         *)
(* Jellyfin, and the ways a password is changed: by its owner, by a PIN of *)
(* omnifin, by a PIN of Jellyfin, whose files a daemon watches for.        *)
(***************************************************************************)
EXTENDS Integers, FiniteSets

CONSTANTS Users, Requests, Pins,
          Admins,       \* users who may use the admin page at first
          MaxRequests,  \* bound: requests that log in or change a password
          MaxRefreshes, \* bound: sessions extended
          MaxTroubles,  \* bound: admin rights given or taken, calls that fail, restarts
          NoUser

ASSUME AccessAssumption ==
    /\ IsFiniteSet(Users) /\ Admins \subseteq Users /\ NoUser \notin Users
    /\ MaxRequests \in Nat /\ MaxRefreshes \in Nat /\ MaxTroubles \in Nat

\* Times are counted in ticks that are left.  A token is what it claims: two that claim
\* the same are the same token.
BearerLife == 1
RefreshLife == 2
PinLife == 1
AdminIds == Nat \ {0}
Token == [type : {"bearer", "refresh"}, id : Users \cup {NoUser} \cup AdminIds,
          jfid : Users \cup {NoUser}, admin : BOOLEAN, left : 1..RefreshLife]
CreateToken(id, jfid, admin) ==
    {[type |-> "bearer", id |-> id, jfid |-> jfid, admin |-> admin, left |-> BearerLife],
     [type |-> "refresh", id |-> id, jfid |-> jfid, admin |-> admin, left |-> RefreshLife]}

Given == {"own", "new"}
Passwords == Given \cup {"pin", "blank"}
Credentials == [user : Users, password : Given]
NoPin == [of |-> NoUser]
InternalPWR == [of : Users, left : 0..PinLife, internal : BOOLEAN]

\* A request at work.  "crossed" is for the properties only: another login was at work
\* with the same client.
Free == [kind |-> "free"]
Login == [kind : {"login", "user login", "change"}, given : Credentials,
          stage : {"send", "judge", "set"}, got : Users \cup {NoUser}, crossed : BOOLEAN]
Reset == [kind : {"form", "page"}, pin : Pins, of : Users, internal : BOOLEAN,
          stage : {"found", "set"}]

VARIABLES jellyfinLogin, \* users of Jellyfin log in; if not, the admin of the settings only
          passwords,     \* Jellyfin's
          access,        \* users canAccessAdminPage holds for
          client,        \* authJf
          req,           \* requests at work
          tokens,        \* those that were given out and have not expired
          adminUsers, nextId,
          invalidTokens,
          pins,          \* internalPWRs, and the PINs Jellyfin has made
          spare,         \* PINs that were not made yet
          file, events, watcher, \* Jellyfin's reset file, and the daemon that watches for it
          granted,       \* properties only: ids of admins who were let in since the start
          confirmed,     \* properties only: users Jellyfin has confirmed a password of
          grants,        \* properties only: logins that succeeded
          loggedOut,     \* properties only: refresh tokens logged out since the start
          spent,         \* properties only: PINs the form has reset a password with
          broken,        \* properties only: users whose reset stopped half way
          requests, refreshes, troubles

sessions == <<tokens, adminUsers, nextId, invalidTokens, granted, confirmed, grants, loggedOut>>
resets == <<passwords, pins, spare, spent, broken>>
watch == <<file, events, watcher>>
bounds == <<requests, refreshes, troubles>>
vars == <<jellyfinLogin, access, client, req, sessions, resets, watch, bounds>>

\* The admin of the settings gets a new id at every start.
ConfiguredAdmin(id) == IF jellyfinLogin THEN {} ELSE {id}
NoParams == [user |-> NoUser, password |-> "own"]
NewServer == [authenticated |-> FALSE, params |-> NoParams]
Idle == [stage |-> "idle"]

Init == /\ jellyfinLogin \in BOOLEAN
        /\ passwords = [u \in Users |-> "own"] /\ access = Admins
        /\ client = NewServer /\ req = [r \in Requests |-> Free]
        /\ tokens = {} /\ adminUsers = ConfiguredAdmin(1) /\ nextId = 2 /\ invalidTokens = {}
        /\ pins = [p \in Pins |-> NoPin] /\ spare = Pins
        /\ file = "none" /\ events = 0 /\ watcher = Idle
        /\ granted = ConfiguredAdmin(1) /\ confirmed = {} /\ grants = {} /\ loggedOut = {}
        /\ spent = {} /\ broken = {}
        /\ requests = 0 /\ refreshes = 0 /\ troubles = 0

Begin(r, record) == /\ req[r] = Free /\ requests < MaxRequests /\ file = "none"
                    /\ req' = [req EXCEPT ![r] = record] /\ requests' = requests + 1
End(r) == req' = [req EXCEPT ![r] = Free]
\* A call of Jellyfin that fails, or another thing that goes wrong.
Fault == troubles < MaxTroubles /\ troubles' = troubles + 1

-----------------------------------------------------------------------------
(* Tokens *)

decodeValidateAuthHeader(t) == t \in tokens /\ t.type = "bearer"
decodeValidateRefreshCookie(t) == t \in tokens /\ t.type = "refresh" /\ t \notin invalidTokens

authenticate(t) == decodeValidateAuthHeader(t) /\ t.admin /\ t.id \in adminUsers

userAuthenticate(t) == jellyfinLogin /\ decodeValidateAuthHeader(t)

\* Either is extended by the refresh token of either.
UserToken(t) == CreateToken(t.jfid, t.jfid, FALSE)

getTokenRefresh(t) ==
    /\ decodeValidateRefreshCookie(t) /\ refreshes < MaxRefreshes /\ refreshes' = refreshes + 1
    /\ tokens' = tokens \cup CreateToken(t.id, t.jfid, TRUE)
    /\ UNCHANGED <<jellyfinLogin, access, client, req, adminUsers, nextId, invalidTokens, granted,
                   confirmed, grants, loggedOut, resets, watch, requests, troubles>>
getUserTokenRefresh(t) ==
    /\ jellyfinLogin
    /\ decodeValidateRefreshCookie(t) /\ refreshes < MaxRefreshes /\ refreshes' = refreshes + 1
    /\ tokens' = tokens \cup UserToken(t)
    /\ UNCHANGED <<jellyfinLogin, access, client, req, adminUsers, nextId, invalidTokens, granted,
                   confirmed, grants, loggedOut, resets, watch, requests, troubles>>

\* The refresh token is that of the browser the bearer token comes from.
\* Mutant: the bearer token is noted.
InvalidateBearer(t) == {[t EXCEPT !.type = "bearer"]}

Invalidate(t) == {t}

Logout(bearer, t) ==
    /\ authenticate(bearer) \/ userAuthenticate(bearer)
    /\ t \in tokens /\ t.type = "refresh" /\ t.jfid = bearer.jfid /\ t \notin loggedOut
    /\ invalidTokens' = invalidTokens \cup Invalidate(t) /\ loggedOut' = loggedOut \cup {t}
    /\ UNCHANGED <<jellyfinLogin, access, client, req, tokens, adminUsers, nextId, granted,
                   confirmed, grants, resets, watch, bounds>>

-----------------------------------------------------------------------------
(* Logins, which authenticate with the one client *)

\* What is asked is written into the client, which any other may do in turn.
AtClient == {r \in Requests : req[r] # Free /\ req[r].kind \in {"login", "user login", "change"}
                              /\ req[r].stage \in {"send", "judge"}}
Authenticate(r, kind, given) ==
    /\ req[r] = Free /\ requests < MaxRequests /\ requests' = requests + 1 /\ file = "none"
    /\ client' = [authenticated |-> FALSE, params |-> given]
    /\ req' = [q \in Requests |->
                 IF q = r THEN [kind |-> kind, given |-> given, stage |-> "send",
                                got |-> NoUser, crossed |-> AtClient # {}]
                 ELSE IF q \in AtClient THEN [req[q] EXCEPT !.crossed = TRUE] ELSE req[q]]
    /\ UNCHANGED <<jellyfinLogin, access, sessions, resets, watch, refreshes, troubles>>

\* What the client has been given is sent.  An answer that cannot be read makes a panic,
\* which is recovered from: no error, and an empty user.
Send(r) ==
    LET asked == client.params
    IN /\ req[r] # Free /\ r \in AtClient /\ req[r].stage = "send"
       /\ \/ /\ passwords[asked.user] = asked.password
             /\ client' = [client EXCEPT !.authenticated = TRUE]
             /\ req' = [req EXCEPT ![r].stage = "judge", ![r].got = asked.user]
             /\ confirmed' = confirmed \cup {asked.user}
             /\ UNCHANGED troubles
          \/ /\ passwords[asked.user] # asked.password
             /\ End(r) /\ UNCHANGED <<client, confirmed, troubles>>
          \/ /\ Fault /\ req' = [req EXCEPT ![r].stage = "judge"]
             /\ UNCHANGED <<client, confirmed>>
       /\ UNCHANGED <<jellyfinLogin, access, tokens, adminUsers, nextId, invalidTokens, granted,
                      grants, loggedOut, resets, watch, requests, refreshes>>

\* Mutant: that there is no error is enough.
Validated == TRUE

validateJellyfinCredentials == client.authenticated

Grant(r) == grants' = grants \cup {[asked |-> req[r].given.user, got |-> req[r].got,
                                    crossed |-> req[r].crossed]}

\* The admin page: one who may use it becomes one of the adminUsers.
getTokenLogin(r) ==
    /\ req[r] # Free /\ req[r].kind = "login" /\ req[r].stage = "judge" /\ End(r)
    /\ IF validateJellyfinCredentials /\ req[r].got \in access
       THEN /\ tokens' = tokens \cup CreateToken(nextId, req[r].got, TRUE)
            /\ adminUsers' = adminUsers \cup {nextId} /\ nextId' = nextId + 1
            /\ granted' = granted \cup {nextId} /\ Grant(r)
       ELSE UNCHANGED <<tokens, adminUsers, nextId, granted, grants>>
    /\ UNCHANGED <<jellyfinLogin, access, client, invalidTokens, confirmed, loggedOut, resets,
                   watch, bounds>>
getUserTokenLogin(r) ==
    /\ req[r] # Free /\ req[r].kind = "user login" /\ req[r].stage = "judge" /\ End(r)
    /\ IF validateJellyfinCredentials
       THEN /\ tokens' = tokens \cup CreateToken(req[r].got, req[r].got, FALSE)
            /\ Grant(r)
       ELSE UNCHANGED <<tokens, grants>>
    /\ UNCHANGED <<jellyfinLogin, access, client, adminUsers, nextId, invalidTokens, granted,
                   confirmed, loggedOut, resets, watch, bounds>>

\* Without jellyfinLogin the user name and the password are compared with the settings.
LocalLogin ==
    /\ ~jellyfinLogin /\ file = "none" /\ requests < MaxRequests /\ requests' = requests + 1
    /\ \E id \in adminUsers : tokens' = tokens \cup CreateToken(id, NoUser, TRUE)
    /\ UNCHANGED <<jellyfinLogin, access, client, req, adminUsers, nextId, invalidTokens, granted,
                   confirmed, grants, loggedOut, resets, watch, refreshes, troubles>>

-----------------------------------------------------------------------------
(* Passwords *)

\* The old password is confirmed by a login; then the new one is set, and the session of
\* this browser ends.
ConfirmOld(r) ==
    /\ req[r] # Free /\ req[r].kind = "change" /\ req[r].stage = "judge"
    /\ req' = [req EXCEPT ![r].stage = "set"]
    /\ UNCHANGED <<jellyfinLogin, access, client, sessions, resets, watch, bounds>>
ChangeMyPassword(r) ==
    /\ req[r] # Free /\ req[r].kind = "change" /\ req[r].stage = "set" /\ End(r)
    /\ \/ /\ passwords' = [passwords EXCEPT ![req[r].given.user] = "new"]
          /\ \E t \in {s \in tokens : s.type = "refresh" /\ s.jfid = req[r].given.user} :
                /\ invalidTokens' = invalidTokens \cup {t}
                /\ loggedOut' = loggedOut \cup {t}
          /\ UNCHANGED troubles
       \/ Fault /\ UNCHANGED <<passwords, invalidTokens, loggedOut>>
    /\ UNCHANGED <<jellyfinLogin, access, client, tokens, adminUsers, nextId, granted, confirmed,
                   grants, pins, spare, spent, broken, watch, requests, refreshes>>

\* A PIN is made for one user, who may ask for it on the login page, or an admin for them.
\* It is kept whether or not it can be sent.
SetInternalPWR(u, p) ==
    /\ p \in spare /\ spare' = spare \ {p} /\ file = "none"
    /\ pins' = [pins EXCEPT ![p] = [of |-> u, left |-> PinLife, internal |-> TRUE]]
    /\ UNCHANGED <<jellyfinLogin, access, client, req, sessions, passwords, spent, broken, watch,
                   bounds>>
ResetMyPassword(u, p) == jellyfinLogin /\ SetInternalPWR(u, p)
AdminPasswordReset(bearer, u, p) == authenticate(bearer) /\ SetInternalPWR(u, p)
\* Jellyfin makes one of its own.
JellyfinPIN(u, p) ==
    /\ p \in spare /\ spare' = spare \ {p} /\ file = "none"
    /\ pins' = [pins EXCEPT ![p] = [of |-> u, left |-> PinLife, internal |-> FALSE]]
    /\ UNCHANGED <<jellyfinLogin, access, client, req, sessions, passwords, spent, broken, watch,
                   bounds>>

Without(p) == [pins EXCEPT ![p] = NoPin]

\* The form, or the page where the form is not used, finds the PIN.  One of Jellyfin's is
\* spent at once, and becomes the password.
FindPIN(r, kind, p) ==
    /\ pins[p] # NoPin /\ pins[p].left > 0
    /\ Begin(r, [kind |-> kind, pin |-> p, of |-> pins[p].of, internal |-> pins[p].internal,
                 stage |-> IF pins[p].internal THEN "found" ELSE "set"])
    /\ IF pins[p].internal THEN UNCHANGED <<pins, passwords>>
       ELSE pins' = Without(p) /\ passwords' = [passwords EXCEPT ![pins[p].of] = "pin"]
    /\ UNCHANGED <<jellyfinLogin, access, client, sessions, spare, spent, broken, watch,
                   refreshes, troubles>>
ExpiredPIN(p) ==
    /\ pins[p] # NoPin /\ pins[p].left = 0 /\ pins' = Without(p)
    /\ UNCHANGED <<jellyfinLogin, access, client, req, sessions, passwords, spare, spent, broken,
                   watch, bounds>>

\* Of omnifin's, the password is made blank first.  The form then drops the PIN, the page
\* does not.
ResetSetPassword(p) == Without(p)

ResetPasswordAdmin(r) ==
    /\ req[r] # Free /\ req[r].kind \in {"form", "page"} /\ req[r].stage = "found"
    /\ \/ /\ passwords' = [passwords EXCEPT ![req[r].of] = "blank"]
          /\ req' = [req EXCEPT ![r].stage = "set"]
          /\ IF req[r].kind = "form"
             THEN pins' = ResetSetPassword(req[r].pin) /\ spent' = spent \cup {req[r].pin}
             ELSE UNCHANGED <<pins, spent>>
          /\ UNCHANGED troubles
       \/ Fault /\ End(r) /\ UNCHANGED <<passwords, pins, spent>>
    /\ UNCHANGED <<jellyfinLogin, access, client, sessions, spare, broken, watch, requests,
                   refreshes>>

\* Then the new one is set: that of the form, or the PIN.
\* Mutant: the form is not asked for a password when the PIN is one of omnifin's.
SetPasswordNot(r) == passwords

NewPassword(r) ==
    [passwords EXCEPT ![req[r].of] = IF req[r].kind = "form" THEN "new" ELSE "pin"]

SetPassword(r) ==
    /\ req[r] # Free /\ req[r].kind \in {"form", "page"} /\ req[r].stage = "set" /\ End(r)
    /\ \/ passwords' = NewPassword(r) /\ UNCHANGED <<broken, troubles>>
       \/ Fault /\ broken' = broken \cup {req[r].of} /\ UNCHANGED passwords
    /\ UNCHANGED <<jellyfinLogin, access, client, sessions, pins, spare, spent, watch, requests,
                   refreshes>>

-----------------------------------------------------------------------------
(* The daemon that watches for Jellyfin's reset files *)

\* Bound: behaviours with a file have no requests: the daemon writes nothing they read.
RetryCount == 2
Apart == requests = 0 /\ spare = Pins
WriteFile == /\ Apart /\ file \in {"none", "partial"} /\ events' = events + 1
             /\ file' = IF file = "none" THEN "partial" ELSE "whole"
             /\ UNCHANGED <<jellyfinLogin, access, client, req, sessions, resets, watcher, bounds>>

TakeEvent == /\ watcher = Idle /\ events > 0 /\ events' = events - 1
             /\ watcher' = [stage |-> "reading", attempt |-> 0]
             /\ UNCHANGED <<jellyfinLogin, access, client, req, sessions, resets, file, bounds>>

\* What is done with a file that can still not be read.
\* Mutant: the daemon ends.
GiveUpWatching == [stage |-> "ended"]

GiveUp == Idle

\* It is read again a few times; once whole, its PIN is mailed, unless its time is up or
\* there is nobody to send it to.
validatePWR ==
    /\ watcher.stage = "reading"
    /\ \/ /\ file = "partial"
          /\ watcher' = IF watcher.attempt < RetryCount
                        THEN [watcher EXCEPT !.attempt = @ + 1] ELSE GiveUp
          /\ UNCHANGED <<file, troubles>>
       \/ file = "whole" /\ file' = "mailed" /\ watcher' = Idle /\ UNCHANGED troubles
       \/ file = "whole" /\ Fault /\ file' = "refused" /\ watcher' = Idle
       \/ file \in {"mailed", "refused"} /\ watcher' = Idle /\ UNCHANGED <<file, troubles>>
    /\ UNCHANGED <<jellyfinLogin, access, client, req, sessions, resets, events, requests,
                   refreshes>>

\* The polling watcher is given up at its first error.
monitorPolling ==
    /\ watcher = Idle /\ file # "none" /\ Fault /\ watcher' = [stage |-> "ended"]
    /\ UNCHANGED <<jellyfinLogin, access, client, req, sessions, resets, file, events, requests,
                   refreshes>>

-----------------------------------------------------------------------------

\* An admin gives a user the right to use the admin page, or takes it.
SetAccess(u) ==
    /\ Fault /\ file = "none"
    /\ access' = IF u \in access THEN access \ {u} ELSE access \cup {u}
    /\ UNCHANGED <<jellyfinLogin, client, req, sessions, resets, watch, requests, refreshes>>

\* Expired tokens are left out: nothing takes them.
Older(S) == {[t EXCEPT !.left = @ - 1] : t \in {s \in S : s.left > 1}}

Tick == /\ tokens # {} \/ \E p \in Pins : pins[p] # NoPin /\ pins[p].left > 0
        /\ tokens' = Older(tokens) /\ invalidTokens' = Older(invalidTokens)
        /\ loggedOut' = Older(loggedOut)
        /\ pins' = [p \in Pins |-> IF pins[p] # NoPin /\ pins[p].left > 0
                                   THEN [pins[p] EXCEPT !.left = @ - 1] ELSE pins[p]]
        /\ UNCHANGED <<jellyfinLogin, access, client, req, adminUsers, nextId, granted, confirmed,
                       grants, passwords, spare, spent, broken, watch, bounds>>

\* What is kept in memory only is lost; tokens are with the browsers.
Restart ==
    /\ Fault
    /\ client' = NewServer /\ req' = [r \in Requests |-> Free]
    /\ adminUsers' = ConfiguredAdmin(nextId) /\ granted' = ConfiguredAdmin(nextId)
    /\ nextId' = nextId + 1 /\ invalidTokens' = {} /\ loggedOut' = {}
    /\ pins' = [p \in Pins |-> IF pins[p] # NoPin /\ pins[p].internal THEN NoPin ELSE pins[p]]
    /\ broken' = broken \cup {req[r].of : r \in {q \in Requests :
                    req[q] # Free /\ req[q].kind \in {"form", "page"} /\ req[q].stage = "set"}}
    /\ events' = 0 /\ watcher' = Idle
    /\ UNCHANGED <<jellyfinLogin, access, tokens, confirmed, grants, passwords, spare, spent, file,
                   requests, refreshes>>

Watch == TakeEvent \/ validatePWR
Sessions ==
    \/ \E t \in tokens : getTokenRefresh(t) \/ getUserTokenRefresh(t)
    \/ \E t, bearer \in tokens : Logout(bearer, t)
    \/ \E r \in Requests, given \in Credentials :
          /\ jellyfinLogin
          /\ \/ \E kind \in {"login", "user login"} : Authenticate(r, kind, given)
             \/ \E t \in tokens : /\ userAuthenticate(t) /\ t.jfid = given.user
                                  /\ Authenticate(r, "change", given)
    \/ \E r \in Requests : Send(r) \/ getTokenLogin(r) \/ getUserTokenLogin(r)
    \/ LocalLogin
Resets ==
    \/ \E r \in Requests : ConfirmOld(r) \/ ChangeMyPassword(r)
    \/ \E r \in Requests : ResetPasswordAdmin(r) \/ SetPassword(r)
    \/ \E u \in Users, p \in Pins :
          \/ ResetMyPassword(u, p) \/ JellyfinPIN(u, p)
          \/ \E t \in tokens : AdminPasswordReset(t, u, p)
    \/ \E p \in Pins : \/ ExpiredPIN(p)
                       \/ \E r \in Requests, kind \in {"form", "page"} : FindPIN(r, kind, p)
Next == \/ Sessions \/ Resets
        \/ WriteFile \/ Watch \/ monitorPolling
        \/ \E u \in Users : SetAccess(u)
        \/ Tick \/ Restart

Spec == Init /\ [][Next]_vars
FairSpec == Spec /\ WF_vars(Watch)

-----------------------------------------------------------------------------
(* Properties *)

\* Everything holds what it is declared to hold; a PIN that can be found was made, and no
\* request is at work for one that was not.
TypeOK ==
    /\ passwords \in [Users -> Passwords] /\ access \subseteq Users
    /\ client \in [authenticated : BOOLEAN, params : Credentials \cup {NoParams}]
    /\ req \in [Requests -> Login \cup Reset \cup {Free}]
    /\ tokens \subseteq Token /\ invalidTokens \subseteq Token /\ loggedOut \subseteq Token
    /\ adminUsers \subseteq AdminIds /\ nextId \in AdminIds
    /\ pins \in [Pins -> InternalPWR \cup {NoPin}]
    /\ \A p \in Pins : p \in spare => pins[p] = NoPin
    /\ \A r \in Requests : req[r] # Free /\ req[r].kind = "form" => req[r].pin \notin spare

\* Whoever passes for an admin was let in as one since the process started, by a login of
\* theirs: no token of the user page becomes one of the admin page by being extended.
AdminsLoggedIn == \A t \in tokens : authenticate(t) => t.id \in granted

\* A token acts for a user whose password Jellyfin has confirmed, whichever page extended
\* it and however often, or for nobody.
TokensAreConfirmed == \A t \in tokens : t.jfid \in confirmed \cup {NoUser}

\* A login acts for the user who asked for it, unless another was using the client at the
\* same time; that Jellyfin's answer could not be read lets nobody in.
OwnUnlessCrossed == \A g \in grants : g.got = g.asked \/ g.crossed

\* Whatever is extended, crossed, revoked or restarted, tokens are of their owners.
SoundSessions == TypeOK /\ AdminsLoggedIn /\ TokensAreConfirmed /\ OwnUnlessCrossed

\* A password is blank only while a reset is about to set it, or because one was stopped
\* by a failing call or a restart.
BlankOnlyInTransit ==
    \A u \in Users : passwords[u] = "blank" =>
        \/ u \in broken
        \/ \E r \in Requests : /\ req[r] # Free /\ req[r].kind \in {"form", "page"}
                               /\ req[r].stage = "set" /\ req[r].of = u

\* A PIN the form has reset a password with is not found again, also if setting the new
\* one failed or another request had found it too.
SpentPinsAreGone ==
    \A r \in Requests : req[r] = Free /\ req'[r] # Free /\ req'[r].kind \in {"form", "page"}
                          => req'[r].pin \notin spent

\* One whose refresh tokens have all been logged out, on either page or with the password
\* they were made by, is given no token until they log in again or omnifin is restarted.
LoggedOutStays ==
    \A u \in Users :
        (\A t \in tokens : t.type = "refresh" /\ t.jfid = u => t \in loggedOut) /\ req' = req
        => \A t \in tokens' : t.jfid = u => \E s \in tokens : s.type = t.type /\ s.jfid = u

\* What was used up gives nobody access again: a PIN that was spent, a token logged out.
UsedUpStays == [][SpentPinsAreGone /\ LoggedOutStays]_vars

\* A reset file that Jellyfin has written is mailed in the end, however early and however
\* often its writes were seen, unless a call fails, the polling watcher does, or omnifin
\* was restarted.
EveryResetIsMailed ==
    file = "whole" ~> file \in {"mailed", "refused"} \/ troubles > 0
=============================================================================
