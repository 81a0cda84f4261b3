------------------------------- MODULE Invites -------------------------------
(***************************************************************************)
(* The life of signup invites (api-invites.go, the signup handlers of      *)
(* api-users.go and views.go): admins generate, rewrite and delete them,   *)
(* visitors sign up through them, directly or by a mailed confirmation     *)
(* link, and housekeeping sweeps the expired ones.  The invite store has   *)
(* no transactions: a handler reads a record, works (often over HTTP) and  *)
(* writes its copy back, so every read and every write is a step here and  *)
(* any two handlers may overlap, up to MaxActive at once.                  *)
(***************************************************************************)
EXTENDS Integers, Sequences, FiniteSets

CONSTANTS Codes,              \* invite codes GenerateInviteCode may return
          Requests,           \* signup requests; each asks for its own username
          Editors,            \* admin or page requests that rewrite an invite
          NoInvite,           \* what a lookup of an absent code returns
          MaxUses,            \* bound: largest use limit given to an invite
          MaxActive,          \* bound: handlers that may overlap
          MaxCrashes          \* bound: process restarts

Unissued == -1

\* The stored invite, reduced to the fields whose value the handlers depend on:
\* RemainingUses (0 = unlimited), UsedBy (by request) and UserExpiry.
Invite == [uses : 0..MaxUses, usedBy : Seq(Requests), expires : BOOLEAN]

ASSUME InvitesAssumption ==
    /\ NoInvite \notin Invite
    /\ MaxUses \in Nat /\ MaxActive \in Nat /\ MaxCrashes \in Nat
    /\ IsFiniteSet(Requests) /\ IsFiniteSet(Editors)

VARIABLES store,     \* the invite table
          issued,    \* the limit each code was generated with, or Unissued
          late,      \* codes whose ValidTill has passed
          members,   \* Jellyfin accounts created through each code
          expiries,  \* accounts that were given an expiry on creation
          keys,      \* ConfirmationKeys: the inner map of each code, or {}
          mapped,    \* codes with an entry in the outer ConfirmationKeys map
          pc, code,  \* where each signup request is, and the code it uses
          copy,      \* the invite a signup takes the new account's details from
          seen,      \* the invite checkInvite(used) read and will write back
          edit,      \* each editor: idle, done, or the code and copy it holds
          sweep,     \* checkInvites: the snapshot records not yet processed
          due,       \* the codes that had expired when that run began
          crashes
signup == <<pc, code, copy, seen>>
jellyfin == <<members, expiries>>
confirm == <<keys, mapped>>
vars == <<store, issued, late, jellyfin, confirm, signup, edit, sweep, due, crashes>>

Stages == {"idle", "checked", "keying", "awaiting", "loaded", "created",
           "counting", "posting", "done"}
Idle == [at |-> "idle", code |-> NoInvite, copy |-> NoInvite]
Held == [at : {"open"}, code : Codes, copy : Invite]

\* Handlers in progress; a request waiting for its mailed link holds none.
Active == {r \in Requests : pc[r] \notin {"idle", "awaiting", "done"}}
OpenEditors == {e \in Editors : edit[e].at = "open"}
Sweeping == \E c \in Codes : sweep[c] # NoInvite
Free == Cardinality(Active) + Cardinality(OpenEditors)
            + (IF Sweeping THEN 1 ELSE 0) < MaxActive

Init ==
    /\ store = [c \in Codes |-> NoInvite]
    /\ issued = [c \in Codes |-> Unissued]
    /\ late = {}
    /\ members = [c \in Codes |-> {}]
    /\ expiries = {}
    /\ keys = [c \in Codes |-> {}]
    /\ mapped = {}
    /\ pc = [r \in Requests |-> "idle"]
    /\ code \in [Requests -> Codes]
    /\ copy = [r \in Requests |-> NoInvite]
    /\ seen = [r \in Requests |-> NoInvite]
    /\ edit = [e \in Editors |-> Idle]
    /\ sweep = [c \in Codes |-> NoInvite]
    /\ due = {}
    /\ crashes = 0

Set(c, inv) == store' = [store EXCEPT ![c] = inv]
Goto(r, stage) == pc' = [pc EXCEPT ![r] = stage]
-----------------------------------------------------------------------------
(* Admin routes *)

\* A new code, with a limit (0: NoLimit) and possibly an expiry for its users.
GenerateInvite(c) ==
    /\ issued[c] = Unissued
    /\ \E n \in 0..MaxUses, x \in BOOLEAN :
          /\ issued' = [issued EXCEPT ![c] = n]
          /\ Set(c, [uses |-> n, usedBy |-> <<>>, expires |-> x])
    /\ UNCHANGED <<late, jellyfin, confirm, signup, edit, sweep, due, crashes>>

DeleteInvite(c) ==
    /\ Free
    /\ store[c] # NoInvite
    /\ Set(c, NoInvite)
    /\ UNCHANGED <<issued, late, jellyfin, confirm, signup, edit, sweep, due, crashes>>

\* SendInvite, EditInvite and GenCaptcha read the whole record ...
RewriteRead(e, c) ==
    /\ Free
    /\ edit[e] = Idle
    /\ store[c] # NoInvite
    /\ edit' = [edit EXCEPT ![e] = [at |-> "open", code |-> c, copy |-> store[c]]]
    /\ UNCHANGED <<store, issued, late, jellyfin, confirm, signup, sweep, due, crashes>>

\* ... and upsert it with one field changed: SentTo and Captchas are not
\* modelled, UserExpiry is.  EditInvite writes nothing when nothing changed.
RewriteWrite(e) ==
    /\ edit[e].at = "open"
    /\ \/ \E x \in BOOLEAN : Set(edit[e].code, [edit[e].copy EXCEPT !.expires = x])
       \/ UNCHANGED store
    /\ edit' = [edit EXCEPT ![e] = [Idle EXCEPT !.at = "done"]]
    /\ UNCHANGED <<issued, late, jellyfin, confirm, signup, sweep, due, crashes>>
-----------------------------------------------------------------------------
(* Signing up: NewUserFromInvite and NewUserFromConfirmationKey *)

\* checkInvite(code, used = FALSE): an absent invite refuses, an expired one is
\* deleted first.
CheckInvite(r) ==
    LET c == code[r] IN
    /\ Free
    /\ pc[r] = "idle"
    /\ \/ /\ store[c] = NoInvite
          /\ Goto(r, "done")
          /\ UNCHANGED store
       \/ /\ store[c] # NoInvite /\ c \in late
          /\ Goto(r, "done")
          /\ Set(c, NoInvite)
       \/ /\ store[c] # NoInvite /\ c \notin late
          /\ Goto(r, "checked")
          /\ UNCHANGED store
    /\ UNCHANGED <<issued, late, jellyfin, confirm, code, copy, seen, edit, sweep, due,
                   crashes>>

\* Whether e-mail confirmation is on is read from the configuration by each
\* request, so a request may go either way from here.

\* A request that fails the captcha, password, contact or e-mail checks ends.
RefuseForm(r) ==
    /\ pc[r] = "checked"
    /\ Goto(r, "done")
    /\ UNCHANGED <<store, issued, late, jellyfin, confirm, code, copy, seen, edit, sweep, due,
                   crashes>>

\* Mutant: a map that is already there is not looked for.
LookupKeyMapAlwaysNew(r) ==
    /\ pc[r] = "checked"
    /\ Goto(r, "keying")
    /\ UNCHANGED <<store, issued, late, jellyfin, confirm, code, copy, seen, edit, sweep, due,
                   crashes>>

\* The code's key map is looked up outside the lock.  A map already there is
\* shared, and the key goes straight in; otherwise the request makes its own.
LookupKeyMap(r) ==
    LET c == code[r] IN
    /\ pc[r] = "checked"
    /\ IF c \in mapped
       THEN /\ keys' = [keys EXCEPT ![c] = @ \union {r}]
            /\ Goto(r, "awaiting")
       ELSE /\ Goto(r, "keying")
            /\ UNCHANGED keys
    /\ UNCHANGED <<store, issued, late, jellyfin, mapped, code, copy, seen, edit, sweep, due,
                   crashes>>

\* Under confirmationKeysLock, the request's own map becomes the code's map.
StoreKeyMap(r) ==
    LET c == code[r] IN
    /\ pc[r] = "keying"
    /\ keys' = [keys EXCEPT ![c] = {r}]
    /\ mapped' = mapped \union {c}
    /\ Goto(r, "awaiting")
    /\ UNCHANGED <<store, issued, late, jellyfin, code, copy, seen, edit, sweep, due, crashes>>

\* Without confirmation the handler goes on; a lookup that fails by now is
\* ignored and leaves the zero Invite.
LoadInvite(r) ==
    /\ pc[r] = "checked"
    /\ copy' = [copy EXCEPT ![r] = store[code[r]]]
    /\ Goto(r, "loaded")
    /\ UNCHANGED <<store, issued, late, jellyfin, confirm, code, seen, edit, sweep, due,
                   crashes>>

\* InviteProxy with ?key=: the invite has to exist and the key to be known.
OpenConfirmationLink(r) ==
    LET c == code[r] IN
    /\ Free
    /\ pc[r] = "awaiting"
    /\ store[c] # NoInvite
    /\ r \in keys[c]
    /\ copy' = [copy EXCEPT ![r] = store[c]]
    /\ Goto(r, "loaded")
    /\ UNCHANGED <<store, issued, late, jellyfin, confirm, code, seen, edit, sweep, due,
                   crashes>>

\* NewUserPostVerification: Jellyfin creates the account ...
CreateUser(r) ==
    /\ pc[r] = "loaded"
    /\ members' = [members EXCEPT ![code[r]] = @ \union {r}]
    /\ Goto(r, "created")
    /\ UNCHANGED <<store, issued, late, expiries, confirm, code, copy, seen, edit, sweep, due,
                   crashes>>

\* ... or refuses, or cannot be reached.  A confirmation key survives that.
CreateFails(r) ==
    /\ pc[r] = "loaded"
    /\ Goto(r, IF r \in keys[code[r]] THEN "awaiting" ELSE "done")
    /\ copy' = [copy EXCEPT ![r] = NoInvite]
    /\ UNCHANGED <<store, issued, late, jellyfin, confirm, code, seen, edit, sweep, due,
                   crashes>>

\* checkInvite(code, used = TRUE), whose result nobody reads: the lookup ...
CountRead(r) ==
    LET c == code[r] IN
    /\ pc[r] = "created"
    /\ \/ /\ store[c] = NoInvite
          /\ Goto(r, "posting")
          /\ UNCHANGED <<store, seen>>
       \/ /\ store[c] # NoInvite /\ c \in late
          /\ Set(c, NoInvite)
          /\ Goto(r, "posting")
          /\ UNCHANGED seen
       \/ /\ store[c] # NoInvite /\ c \notin late
          /\ seen' = [seen EXCEPT ![r] = store[c]]
          /\ Goto(r, "counting")
          /\ UNCHANGED store
    /\ UNCHANGED <<issued, late, jellyfin, confirm, code, copy, edit, sweep, due, crashes>>

\* Mutant: the last use does not delete.
UsedOnceNeverDeletes(inv, r) ==
    [inv EXCEPT !.uses = IF @ = 0 THEN 0 ELSE @ - 1, !.usedBy = Append(@, r)]

\* Mutant: nothing is spent.
UsedOnceUnspent(inv, r) == [inv EXCEPT !.usedBy = Append(@, r)]

\* The record after one more use, or NoInvite when that was the last one.
UsedOnce(inv, r) ==
    IF inv.uses = 1
    THEN NoInvite
    ELSE [inv EXCEPT !.uses = IF @ = 0 THEN 0 ELSE @ - 1,
                     !.usedBy = Append(@, r)]

\* ... and the write of the copy it was computed from.
CountWrite(r) ==
    /\ pc[r] = "counting"
    /\ Set(code[r], UsedOnce(seen[r], r))
    /\ seen' = [seen EXCEPT ![r] = NoInvite]
    /\ Goto(r, "posting")
    /\ UNCHANGED <<issued, late, jellyfin, confirm, code, copy, edit, sweep, due, crashes>>

\* PostNewUserFromInvite sets the account's expiry from the copy (the zero
\* Invite has none); the confirmation handler then drops its key.
AttachDetails(r) ==
    LET c == code[r] IN
    /\ pc[r] = "posting"
    /\ expiries' = IF copy[r] # NoInvite /\ copy[r].expires
                   THEN expiries \union {r} ELSE expiries
    /\ keys' = [keys EXCEPT ![c] = @ \ {r}]
    /\ copy' = [copy EXCEPT ![r] = NoInvite]
    /\ Goto(r, "done")
    /\ UNCHANGED <<store, issued, late, members, mapped, code, seen, edit, sweep, due, crashes>>
-----------------------------------------------------------------------------
(* Housekeeping, time and restarts *)

\* checkInvites reads every invite at once ...
SweepRead ==
    /\ Free
    /\ ~Sweeping
    /\ sweep' = store
    /\ due' = late
    /\ UNCHANGED <<store, issued, late, jellyfin, confirm, signup, edit, crashes>>

\* Mutant: the snapshot is written back after the deletion.
SweepInviteWritesLast(c) ==
    /\ sweep[c] # NoInvite
    /\ \/ Set(c, sweep[c])
       \/ c \in due /\ Set(c, NoInvite)
       \/ c \notin due /\ UNCHANGED store
    /\ sweep' = [sweep EXCEPT ![c] = NoInvite]
    /\ UNCHANGED <<issued, late, jellyfin, confirm, signup, edit, due, crashes>>

\* ... then, one by one, writes the snapshot's record back if it dropped
\* expired captchas from it, and deletes the invite if it has expired.
SweepInvite(c) ==
    /\ sweep[c] # NoInvite
    /\ \/ c \in due /\ Set(c, NoInvite)
       \/ c \notin due /\ Set(c, sweep[c])
       \/ c \notin due /\ UNCHANGED store
    /\ sweep' = [sweep EXCEPT ![c] = NoInvite]
    /\ UNCHANGED <<issued, late, jellyfin, confirm, signup, edit, due, crashes>>

\* ValidTill passes; no handler moves it.
Expire(c) ==
    /\ issued[c] # Unissued
    /\ c \notin late
    /\ late' = late \union {c}
    /\ UNCHANGED <<store, issued, jellyfin, confirm, signup, edit, sweep, due, crashes>>

\* A restart keeps the database and Jellyfin and forgets the handlers and the
\* confirmation keys.  A visitor without an account may ask again.
Restart ==
    /\ crashes < MaxCrashes
    /\ crashes' = crashes + 1
    /\ pc' = [r \in Requests |->
                IF pc[r] = "done" \/ r \in members[code[r]] THEN "done" ELSE "idle"]
    /\ copy' = [r \in Requests |-> NoInvite]
    /\ seen' = [r \in Requests |-> NoInvite]
    /\ edit' = [e \in Editors |-> IF edit[e].at = "open" THEN Idle ELSE edit[e]]
    /\ sweep' = [c \in Codes |-> NoInvite]
    /\ keys' = [c \in Codes |-> {}]
    /\ mapped' = {}
    /\ due' = {}
    /\ UNCHANGED <<store, issued, late, jellyfin, code>>

SignupStep(r) ==
    \/ RefuseForm(r) \/ LookupKeyMap(r) \/ StoreKeyMap(r) \/ LoadInvite(r)
    \/ CreateUser(r) \/ CreateFails(r) \/ CountRead(r) \/ CountWrite(r)
    \/ AttachDetails(r)

Next ==
    \/ \E c \in Codes : GenerateInvite(c) \/ DeleteInvite(c) \/ SweepInvite(c) \/ Expire(c)
    \/ \E e \in Editors : RewriteWrite(e) \/ \E c \in Codes : RewriteRead(e, c)
    \/ \E r \in Requests : CheckInvite(r) \/ OpenConfirmationLink(r) \/ SignupStep(r)
    \/ SweepRead
    \/ Restart

\* A handler that has begun ends, and housekeeping runs periodically; nobody
\* has to send a request or open a link.
Fairness ==
    /\ \A r \in Requests : WF_vars(SignupStep(r))
    /\ \A e \in Editors : WF_vars(RewriteWrite(e))
    /\ WF_vars(SweepRead)
    /\ \A c \in Codes : WF_vars(SweepInvite(c))

Spec == Init /\ [][Next]_vars
FairSpec == Spec /\ Fairness
-----------------------------------------------------------------------------
(* Properties *)

\* Every variable stays in its type: stored counts are between 0 and MaxUses,
\* and handlers hold copies of invites or nothing.
TypeOK ==
    /\ store \in [Codes -> Invite \union {NoInvite}]
    /\ issued \in [Codes -> 0..MaxUses \union {Unissued}]
    /\ late \subseteq Codes
    /\ members \in [Codes -> SUBSET Requests]
    /\ expiries \subseteq Requests
    /\ keys \in [Codes -> SUBSET Requests]
    /\ mapped \subseteq Codes
    /\ pc \in [Requests -> Stages]
    /\ code \in [Requests -> Codes]
    /\ copy \in [Requests -> Invite \union {NoInvite}]
    /\ seen \in [Requests -> Invite \union {NoInvite}]
    /\ edit \in [Editors -> Held \union {Idle, [Idle EXCEPT !.at = "done"]}]
    /\ sweep \in [Codes -> Invite \union {NoInvite}]
    /\ due \subseteq Codes
    /\ crashes \in 0..MaxCrashes

\* The record of a code generated with that limit: uses left and uses made add
\* up to it, and since 0 means unlimited, a limited record never reaches 0.
Balanced(inv, limit) ==
    inv # NoInvite =>
        /\ limit # Unissued
        /\ limit = 0 => inv.uses = 0
        /\ limit > 0 => inv.uses > 0 /\ inv.uses + Len(inv.usedBy) = limit

\* However handlers overlap and overwrite each other's records, the record that
\* survives balances: RemainingUses and UsedBy never drift apart, and the last
\* use of a limited invite never turns it into an unlimited one (checkInvite
\* treats RemainingUses = 0 as "infinite").
LedgerBalanced == \A c \in Codes : Balanced(store[c], issued[c])

\* Every name a record lists belongs to one of these accounts.
Listed(inv, accounts) ==
    inv # NoInvite => \A i \in 1..Len(inv.usedBy) : inv.usedBy[i] \in accounts

\* UsedBy names only accounts that exist: a use is recorded after Jellyfin has
\* created the account, whatever stale copy it is recorded on.
UsedByAreMembers == \A c \in Codes : Listed(store[c], members[c])

\* However signups, editors, housekeeping and a crash overlap, the invite that survives is
\* one a sequence of uses could have left: it balances, and lists only real accounts.
SoundRecords == TypeOK /\ LedgerBalanced /\ UsedByAreMembers

\* Why the two hold: every copy a handler may still write back is as sound as
\* the stored record, and a use is counted only for an existing account.
Sound(inv, limit, accounts) == Balanced(inv, limit) /\ Listed(inv, accounts)
SoundFor(c, inv) == Sound(inv, issued[c], members[c])
CopiesSound ==
    /\ \A c \in Codes : SoundFor(c, store[c]) /\ SoundFor(c, sweep[c])
    /\ \A r \in Requests :
          /\ SoundFor(code[r], seen[r])
          /\ pc[r] = "counting" => seen[r] # NoInvite
          /\ pc[r] \in {"created", "counting"} => r \in members[code[r]]
    /\ \A e \in Editors : edit[e].at = "open" => SoundFor(edit[e].code, edit[e].copy)
IInv == TypeOK /\ CopiesSound

\* An expired invite is swept away for good, even if a handler that read it
\* before writes it back after the sweep (checkInvites runs again).
ExpiredSwept == \A c \in Codes : c \in late ~> [](store[c] = NoInvite)

\* Handlers that do not overlap keep the books exactly: between requests a
\* stored invite lists every account created through it.
LedgerExact ==
    \A c \in Codes :
        (store[c] # NoInvite /\ Active = {}) =>
            Len(store[c].usedBy) = Cardinality(members[c])

\* A visitor told to confirm by mail has a key to confirm with.
AwaitedKeyIsKept == \A r \in Requests : pc[r] = "awaiting" => r \in keys[code[r]]

\* Requests handled one at a time lose nothing: neither a use nor another's key.
SoundBooks == LedgerExact /\ AwaitedKeyIsKept

\* What the code promises a sequence of signups: the abstract invite.
Ledger == INSTANCE InviteLedger WITH
    quota <- issued,
    state <- [c \in Codes |-> IF issued[c] = Unissued THEN "new"
                              ELSE IF store[c] = NoInvite THEN "closed" ELSE "open"]
ImplementsLedger == Ledger!Spec
=============================================================================
