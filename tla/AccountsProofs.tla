---------------------------- MODULE AccountsProofs ----------------------------
(***************************************************************************)
(* Theorems of Accounts and of Jellyseerr: rows, referrals and profiles    *)
(* stay sound under any mix of requests, housekeeping and crashes, and     *)
(* with the client of Jellyseerr at work its cache is honest and addresses *)
(* arrive.  They rest on AInv, which says what every request that has read *)
(* a table and not yet written it still knows of it, and on SeerrInv,      *)
(* which adds what every call to Jellyseerr knows.  At the end, theorems   *)
(* of UserCache, the list that shows the accounts: one sync and one sort   *)
(* run at a time, the list never moves back, and, until a fetch fails, an  *)
(* invalidation made outside a sync holds.                                 *)
(***************************************************************************)
EXTENDS Jellyseerr, UserCache, FiniteSetTheorems, WellFoundedInduction, TLAPS

(* Types *)

UserOps == {"admin", "label", "email", "signup", "refer", "unrefer", "mine", "expire"}
ProfileOps == {"content", "share", "unshare", "default"}

Works(w) == task[w] # Idle

\* A record with the fields of Task.
IsTask(c) ==
    /\ c = [op |-> c.op, who |-> c.who, at |-> c.at, copy |-> c.copy, arg |-> c.arg,
            stale |-> c.stale]
    /\ c.stale \in BOOLEAN

\* A template, or nothing, has this code or had it.
TemplateCode(k) == k = NoKey \/ /\ k \in Codes /\ k < nextCode
                                /\ invites[k] = NoInvite \/ invites[k].owner = Nobody

\* An invite that has expired, as it was read.
Expiring(w) ==
    LET k == task[w].arg.code
    IN  /\ k \in Codes /\ k < nextCode /\ task[w].arg.timed \in BOOLEAN
        /\ invites[k] # NoInvite => /\ invites[k].owner = task[w].who
                                    /\ invites[k].timed = task[w].arg.timed

\* Where a request about a user can be.
UserSteps(c) ==
    /\ c.op \in {"admin", "label"} => c.at = "row"
    /\ c.op = "email" => c.at \in {"row", "push"}
    /\ c.op = "signup" => c.at \in {"row", "share", "put", "push"}
    /\ c.op = "refer" => c.at \in {"wipe", "put"}
    /\ c.op = "unrefer" => c.at \in {"find", "row"}
    /\ c.op = "mine" => c.at \in {"template", "drop", "find", "row", "put"}
    /\ c.op = "expire" => c.at \in {"find", "row", "delete"}

\* What it holds there.
UserHolds(c) ==
    /\ c.copy \in Row \cup {NoRow}
    /\ c.op = "admin" => c.arg.admin \in BOOLEAN
    /\ c.op = "email" \/ c.at = "push" => c.arg.addr \in Addresses \cup {NoAddr}
    /\ c.op = "signup" /\ c.at # "push" =>
           c.copy \in Row /\ ~c.copy.admin /\ c.copy.tmpl = NoKey
    /\ c.op = "signup" /\ c.at \in {"row", "share"} => c.arg.tmpl \in Codes \cup {NoKey}
    /\ c.at = "row" /\ c.op \in {"unrefer", "mine", "expire"} => c.copy # NoRow
    /\ c.at \in {"wipe", "put"} => c.arg.timed \in BOOLEAN

UserTask(w) ==
    /\ task[w].who \in exists
           \/ (task[w].who = Nobody /\ task[w].op = "expire" /\ task[w].at = "delete")
    /\ UserSteps(task[w]) /\ UserHolds(task[w])
    /\ task[w].copy # NoRow => task[w].copy.tmpl < nextCode
    /\ task[w].op = "expire" \/ task[w].at = "drop" => Expiring(w)

ProfileHolds(c) ==
    /\ c.who = Nobody /\ c.arg.to \in Names
    /\ c.op = "content" => c.at \in {"write", "drop"}
    /\ c.op \in {"share", "unshare"} =>
           c.at \in {"template of profile", "write"} /\ c.arg.from = c.arg.to
    /\ c.op = "share" => c.arg.timed \in BOOLEAN
    /\ c.op # "default" => c.arg.from \in Names /\ c.copy \in Profile
    /\ c.at = "drop" => c.arg.from # c.arg.to
    /\ c.op = "default" =>
           /\ c.at = "each"
           /\ c.arg = [to |-> c.arg.to, left |-> c.arg.left]
           /\ c.arg.left \subseteq Names /\ c.arg.left # {}
           /\ c.copy \in [all : [Names -> Profile \cup {NoProfile}]]
           /\ \A p \in c.arg.left : c.copy.all[p] # NoProfile

ProfilesTask(w) ==
    /\ ProfileHolds(task[w])
    /\ task[w].op # "default" => TemplateCode(task[w].copy.tmpl)
    /\ task[w].op = "default" =>
           \A p \in task[w].arg.left : TemplateCode(task[w].copy.all[p].tmpl)

Typed(w) ==
    /\ IsTask(task[w])
    /\ task[w].op \in UserOps \cup ProfileOps
    /\ task[w].op \in UserOps => UserTask(w)
    /\ task[w].op \in ProfileOps => ProfilesTask(w)

InvitesTyped ==
    /\ invites \in [Codes -> Invite \cup {NoInvite}]
    /\ nextCode \in Nat /\ nextCode > 0
    /\ \A c \in Codes : c >= nextCode => invites[c] = NoInvite
    /\ \A c \in Codes : invites[c] # NoInvite => invites[c].owner \in exists \cup {Nobody}

TablesTyped ==
    /\ exists \subseteq Users /\ exists # {}
    /\ emails \in [Users -> Row \cup {NoRow}]
    /\ \A u \in Users : emails[u] # NoRow => emails[u].tmpl < nextCode
    /\ InvitesTyped
    /\ profiles \in [Names -> Profile \cup {NoProfile}]
    /\ \A p \in Names : profiles[p] # NoProfile => TemplateCode(profiles[p].tmpl)
    /\ calls \in 0..MaxCalls /\ events \in 0..MaxEvents
    /\ decided \in [Users -> [addr : Addresses \cup {NoAddr}, admin : BOOLEAN]]
    /\ off \subseteq Users /\ kept \subseteq exists /\ gone \subseteq Codes
    /\ lost \subseteq Users \cup {Nobody}

TasksTyped ==
    /\ task = [w \in Workers |-> task[w]]
    /\ \A w \in Workers : Works(w) => Typed(w)
    /\ Works(Daemon) => /\ task[Daemon].op = "expire" /\ task[Daemon].who # Nobody
                        /\ task[Daemon].arg.timed

\* A code will be made for it, or may be: there is one left.
WillMake(w) ==
    \/ task[w].op = "refer"
    \/ task[w].op = "signup" /\ task[w].at # "push"
    \/ task[w].op = "mine" /\ task[w].at \in {"template", "drop", "put"}
    \/ task[w].op = "share" /\ task[w].at = "template of profile"
Makers == {w \in Workers : Works(w) /\ WillMake(w)}
CodesLeft == IsFiniteSet(Makers) /\ nextCode + Cardinality(Makers) <= calls + 3

AllTyped == TablesTyped /\ TasksTyped /\ CodesLeft

-----------------------------------------------------------------------------
(* Rows *)

\* Whose copy is not stale holds the row as it is; a signup comes to no row.
CopyIsFresh(w) ==
    Works(w) /\ task[w].at = "row" /\ ~task[w].stale =>
        IF task[w].op = "signup" THEN emails[task[w].who] = NoRow
        ELSE task[w].copy = emails[task[w].who]
RowsInv ==
    /\ RowsAsDecided
    /\ \A w \in Workers : CopyIsFresh(w)
    /\ \A u \in Users \ exists :
           emails[u] = NoRow /\ decided[u] = [addr |-> NoAddr, admin |-> FALSE]

-----------------------------------------------------------------------------
(* Referrals *)

\* Who is about to make a referral has seen that there is none, and so on.
SeesReferrals(w) ==
    LET c == task[w]
    IN  Works(w) /\ c.op \in UserOps /\ c.who # Nobody /\ c.who \notin lost /\ ~c.stale =>
        /\ c.at \in {"put", "template"} \/ (c.op = "signup" /\ c.at # "push")
              => Owned(c.who) = {}
        /\ c.op \in {"unrefer", "mine"} /\ c.at \in {"find", "row"} => Owned(c.who) = {}
        /\ c.at = "drop" \/ c.op = "expire" => Owned(c.who) \subseteq {c.arg.code}
        /\ c.op = "expire" /\ c.arg.timed /\ c.at = "delete" =>
              emails[c.who] = NoRow \/ emails[c.who].tmpl = NoKey
Renews(w, u) == Works(w) /\ task[w].who = u /\ task[w].op = "mine" /\ task[w].at = "put"
OneEach == \A u \in Users \ lost : \A c, d \in Owned(u) : c = d
Kept == \A u \in kept \ lost : /\ Owned(u) # {} \/ \E w \in Workers : Renews(w, u)
                               /\ \A c \in Owned(u) : ~invites[c].timed
ReferralsInv ==
    OneEach /\ DisabledStays /\ Kept /\ \A w \in Workers : SeesReferrals(w)

-----------------------------------------------------------------------------
(* Profiles *)

Pending == {w \in Workers : /\ Works(w) /\ task[w].who = Nobody
                            /\ task[w].at \in {"write", "drop", "each"}}
Doomed ==
    \/ Nobody \in lost
    \/ \E w \in Pending : task[w].stale
    \/ \E v \in Pending : \E w \in Pending : v # w
\* The profiles P once the request c is done.
After(c, P) ==
    [p \in Names |->
       IF c.at = "each" /\ p \in c.arg.left
       THEN [c.copy.all[p] EXCEPT !.default = (p = c.arg.to)]
       ELSE IF c.at = "write" /\ p = c.arg.to THEN c.copy
       ELSE IF c.at \in {"write", "drop"} /\ p = c.arg.from THEN NoProfile
       ELSE P[p]]
InStore(k, inv, ended) == k \in {NoKey} \cup ended \/ inv[k] # NoInvite
Clean(T, inv, ended) ==
    /\ \A p \in Names : T[p] # NoProfile => InStore(T[p].tmpl, inv, ended)
    /\ \A p, q \in Names : T[p] # NoProfile /\ T[q] # NoProfile /\ p # q =>
           /\ T[p].tmpl = NoKey \/ T[p].tmpl # T[q].tmpl
           /\ ~T[p].default \/ ~T[q].default
ProfilesInv ==
    \/ Doomed
    \/ /\ Pending = {} => Clean(profiles, invites, gone)
       /\ \A w \in Pending : Clean(After(task[w], profiles), invites, gone)
       /\ \A w \in Workers :
             Works(w) /\ ~task[w].stale /\ task[w].at = "template of profile" =>
                 profiles[task[w].arg.from] = task[w].copy

AInv == AllTyped /\ RowsInv /\ ReferralsInv /\ ProfilesInv

-----------------------------------------------------------------------------
(* Steps *)

\* A step of the composition that only touches requests that pass an address on.
Elsewhere ==
    /\ UNCHANGED <<exists, emails, invites, nextCode, profiles, calls, mix, ghosts>>
    /\ events' \in 0..MaxEvents
    /\ UNCHANGED task \/ \E h \in Callers : At(h, "push") /\ End(h)
AccountsStep == TableStep \/ Crash \/ Elsewhere

\* What w does is the same; it may have become stale.
Follows(w) ==
    /\ task'[w] = Idle <=> task[w] = Idle
    /\ task[w] # Idle =>
           /\ IsTask(task'[w])
           /\ task'[w].op = task[w].op /\ task'[w].who = task[w].who
           /\ task'[w].at = task[w].at /\ task'[w].copy = task[w].copy
           /\ task'[w].arg = task[w].arg
           /\ task[w].stale => task'[w].stale

\* Only h goes on.
Moves(h) ==
    /\ task' = [w \in Workers |-> task'[w]]
    /\ \A w \in Workers \ {h} : Follows(w)

\* Users come, codes are not used again, and invites keep owner and kind.
Evolves ==
    /\ exists \subseteq exists' /\ nextCode' \in Nat /\ nextCode <= nextCode'
    /\ \A c \in Codes : c < nextCode /\ invites'[c] # NoInvite =>
           /\ invites[c] # NoInvite
           /\ invites'[c].owner = invites[c].owner /\ invites'[c].timed = invites[c].timed

LEMMA Records ==
    /\ NoRow \notin Row /\ NoInvite \notin Invite /\ NoProfile \notin Profile
    /\ EmptyRow \in Row /\ EmptyProfile \in Profile
BY DEF NoRow, Row, NoInvite, Invite, NoProfile, Profile, EmptyRow, EmptyProfile

LEMMA TaskIsTask ==
    \A op, who, pos, copy, arg :
        /\ IsTask(Task(op, who, pos, copy, arg)) /\ Task(op, who, pos, copy, arg) # Idle
        /\ Task(op, who, pos, copy, arg).op = op /\ Task(op, who, pos, copy, arg).who = who
        /\ Task(op, who, pos, copy, arg).at = pos /\ Task(op, who, pos, copy, arg).copy = copy
        /\ Task(op, who, pos, copy, arg).arg = arg /\ ~Task(op, who, pos, copy, arg).stale
BY DEF Task, IsTask, Idle

LEMMA Announced ==
    ASSUME TasksTyped, NEW h \in Workers, NEW s, NEW next, Announce(h, s, next)
    PROVE  /\ Moves(h) /\ task'[h] = next
           /\ \A w \in Workers \ {h} :
                 Works(w) /\ task[w].who = s /\ task[w].at # "push" => task'[w].stale
<1>1. task' = [w \in Workers |-> task'[w]] /\ task'[h] = next
  BY DEF Announce
<1>2. ASSUME NEW w \in Workers \ {h}
      PROVE  /\ Follows(w)
             /\ Works(w) /\ task[w].who = s /\ task[w].at # "push" => task'[w].stale
  <2>1. CASE task[w] # Idle /\ task[w].who = s /\ task[w].at # "push"
    <3>1. task'[w] = [task[w] EXCEPT !.stale = TRUE]
      BY <1>2, <2>1 DEF Announce
    <3>2. IsTask(task[w])
      BY <2>1 DEF TasksTyped, Typed, Works
    <3>3. IsTask(task'[w]) /\ task'[w] # Idle
      BY <3>1, <3>2 DEF IsTask, Idle
    <3> QED
      BY <2>1, <3>1, <3>2, <3>3 DEF IsTask, Follows
  <2>2. CASE ~(task[w] # Idle /\ task[w].who = s /\ task[w].at # "push")
    <3>1. task'[w] = task[w]
      BY <1>2, <2>2 DEF Announce
    <3> QED
      BY <2>2, <3>1 DEF TasksTyped, Typed, Works, Follows
  <2> QED
    BY <2>1, <2>2
<1> QED
  BY <1>1, <1>2 DEF Moves

LEMMA GoesOn ==
    ASSUME TasksTyped, NEW h \in Workers, NEW next, task' = [task EXCEPT ![h] = next]
    PROVE  /\ Moves(h) /\ task'[h] = next
           /\ \A w \in Workers \ {h} : task'[w] = task[w]
BY DEF TasksTyped, Moves, Follows, Typed, Works

\* Whoever is not at this step stays typed.
LEMMA TypedStays ==
    ASSUME TablesTyped, NEW w \in Workers, Works(w), Typed(w), Follows(w), Evolves
    PROVE  Typed(w)'
<1>1. IsTask(task[w])' /\ task'[w].op \in UserOps \cup ProfileOps
  BY DEF Follows, Typed, Works
<1>2. /\ task'[w].op = task[w].op /\ task'[w].who = task[w].who
      /\ task'[w].at = task[w].at /\ task'[w].copy = task[w].copy
      /\ task'[w].arg = task[w].arg
  BY DEF Follows, Works
<1>3. ASSUME NEW k, TemplateCode(k) PROVE TemplateCode(k)'
  BY <1>3 DEF TemplateCode, Evolves, TablesTyped, InvitesTyped, Codes
<1>4. Expiring(w) => Expiring(w)'
  BY <1>2 DEF Expiring, Evolves, TablesTyped, InvitesTyped, Codes
<1>5. CASE task[w].op \in UserOps
  <2>1. UserTask(w)
    BY <1>5 DEF Typed
  <2>2. UserSteps(task[w])' /\ UserHolds(task[w])'
    BY <1>2, <2>1 DEF UserTask, UserSteps, UserHolds, Codes
  <2>3. task'[w].copy # NoRow => task'[w].copy.tmpl < nextCode'
    BY <1>2, <2>1 DEF UserTask, UserHolds, Row, Codes, NoKey, Evolves, TablesTyped, InvitesTyped
  <2>4. UserTask(w)'
    BY <1>2, <1>4, <2>1, <2>2, <2>3 DEF UserTask, Evolves
  <2> QED
    BY <1>1, <1>2, <1>5, <2>4 DEF Typed, UserOps, ProfileOps
<1>6. CASE task[w].op \in ProfileOps
  <2>1. ProfilesTask(w)
    BY <1>6 DEF Typed
  <2>2. ProfileHolds(task[w])'
    BY <1>2, <2>1 DEF ProfilesTask, ProfileHolds
  <2>3. ProfilesTask(w)'
    BY <1>2, <1>3, <2>1, <2>2 DEF ProfilesTask
  <2> QED
    BY <1>1, <1>2, <1>6, <2>3 DEF Typed, UserOps, ProfileOps
<1> QED
  BY <1>5, <1>6 DEF Typed

LEMMA Begun ==
    ASSUME TasksTyped, NEW h \in Callers, NEW op, NEW who, NEW pos, NEW copy, NEW arg,
           Begin(h, Task(op, who, pos, copy, arg))
    PROVE  /\ Moves(h) /\ ~Works(h) /\ task'[h] # Idle /\ IsTask(task'[h])
           /\ task'[h].op = op /\ task'[h].who = who /\ task'[h].at = pos
           /\ task'[h].copy = copy /\ task'[h].arg = arg /\ ~task'[h].stale
           /\ lost = {} /\ calls < MaxCalls /\ calls' = calls + 1
<1>1. task' = [task EXCEPT ![h] = Task(op, who, pos, copy, arg)] /\ ~Works(h)
  BY DEF Begin, Works
<1>2. Moves(h) /\ task'[h] = Task(op, who, pos, copy, arg)
  BY <1>1, GoesOn DEF Workers
<1>3. lost = {} /\ calls < MaxCalls /\ calls' = calls + 1
  BY DEF Begin, Comes
<1> QED
  BY <1>1, <1>2, <1>3, TaskIsTask

-----------------------------------------------------------------------------
(* Types: the tables *)

LEMMA SameInvites ==
    ASSUME TablesTyped, UNCHANGED <<invites, nextCode>>, exists \subseteq exists'
    PROVE  InvitesTyped' /\ Evolves
BY DEF TablesTyped, InvitesTyped, Evolves

LEMMA Dropped ==
    ASSUME TablesTyped, NEW S, invites' = Without(S), UNCHANGED <<nextCode, exists>>
    PROVE  /\ InvitesTyped' /\ Evolves
           /\ \A c \in Codes : invites'[c] = IF c \in S THEN NoInvite ELSE invites[c]
BY DEF TablesTyped, InvitesTyped, Evolves, Without

LEMMA Made ==
    ASSUME TablesTyped, nextCode \in Codes, NEW owner \in exists \cup {Nobody},
           NEW timed \in BOOLEAN, invites' = [invites EXCEPT ![nextCode] = Fresh(owner, timed)],
           nextCode' = nextCode + 1, exists' = exists
    PROVE  /\ InvitesTyped' /\ Evolves
           /\ \A c \in Codes : c # nextCode => invites'[c] = invites[c]
           /\ invites[nextCode] = NoInvite /\ invites'[nextCode] # NoInvite
           /\ invites'[nextCode].owner = owner /\ invites'[nextCode].timed = timed
<1>1. Fresh(owner, timed) \in Invite
  BY DEF Fresh, Invite, TablesTyped
<1>2. Fresh(owner, timed) # NoInvite
  BY <1>1, Records
<1> QED
  BY <1>1, <1>2 DEF TablesTyped, InvitesTyped, Evolves, Fresh, Codes

LEMMA Over ==
    ASSUME TablesTyped, NEW c \in Codes, invites[c] # NoInvite,
           invites' = [invites EXCEPT ![c].over = TRUE], UNCHANGED <<nextCode, exists>>
    PROVE  /\ InvitesTyped' /\ Evolves
           /\ \A d \in Codes : /\ invites'[d] = NoInvite <=> invites[d] = NoInvite
                               /\ invites[d] # NoInvite =>
                                      /\ invites'[d].owner = invites[d].owner
                                      /\ invites'[d].timed = invites[d].timed
<1>1. invites[c] \in Invite
  BY DEF TablesTyped, InvitesTyped
<1>2. [invites[c] EXCEPT !.over = TRUE] \in Invite
  BY <1>1 DEF Invite
<1>3. \A d \in Codes : d # c => invites'[d] = invites[d]
  BY DEF TablesTyped, InvitesTyped
<1>4. /\ invites'[c] = [invites[c] EXCEPT !.over = TRUE] /\ invites'[c] \in Invite
      /\ invites'[c].owner = invites[c].owner /\ invites'[c].timed = invites[c].timed
  BY <1>1, <1>2 DEF TablesTyped, InvitesTyped, Invite
<1>5. invites' \in [Codes -> Invite \cup {NoInvite}]
  BY <1>2 DEF TablesTyped, InvitesTyped
<1>6. invites'[c] # NoInvite
  BY <1>4, Records
<1> QED
  BY <1>1, <1>3, <1>4, <1>5, <1>6 DEF TablesTyped, InvitesTyped, Evolves

\* Templates that profiles have are still templates.
LEMMA TemplatesStay ==
    ASSUME TablesTyped, Evolves, NEW k, TemplateCode(k)
    PROVE  TemplateCode(k)'
BY DEF TemplateCode, Evolves, TablesTyped, InvitesTyped, Codes

LEMMA TablesStay ==
    ASSUME TablesTyped, Evolves, InvitesTyped', exists' \subseteq Users,
           UNCHANGED <<emails, profiles, decided>>,
           calls' \in 0..MaxCalls, events' \in 0..MaxEvents, off' \subseteq Users,
           kept' \subseteq exists', gone' \subseteq Codes, lost' \subseteq Users \cup {Nobody}
    PROVE  TablesTyped'
<1>1. exists' # {}
  BY DEF Evolves, TablesTyped
<1>2. \A u \in Users : emails[u] # NoRow => emails[u].tmpl < nextCode'
  <2> SUFFICES ASSUME NEW u \in Users, emails[u] # NoRow PROVE emails[u].tmpl < nextCode'
    OBVIOUS
  <2>1. emails[u].tmpl \in Codes \cup {NoKey} /\ emails[u].tmpl < nextCode
    BY DEF TablesTyped, Row
  <2> QED
    BY <2>1 DEF Codes, NoKey, Evolves, TablesTyped, InvitesTyped
<1>3. \A p \in Names : profiles[p] # NoProfile => TemplateCode(profiles[p].tmpl)'
  BY DEF TemplateCode, Evolves, TablesTyped, InvitesTyped, Codes
<1> QED
  BY <1>1, <1>2, <1>3 DEF TablesTyped, TemplateCode

LEMMA TasksStay ==
    ASSUME TablesTyped, TasksTyped, NEW h \in Workers, Moves(h), Evolves,
           task'[h] # Idle => Typed(h)',
           h = Daemon /\ task'[h] # Idle =>
               task'[h].op = "expire" /\ task'[h].who # Nobody /\ task'[h].arg.timed
    PROVE  TasksTyped'
<1>1. ASSUME NEW w \in Workers, task'[w] # Idle PROVE Typed(w)'
  <2>1. CASE w = h
    BY <1>1, <2>1
  <2>2. CASE w # h
    BY <1>1, <2>2, TypedStays DEF Moves, Follows, TasksTyped, Works
  <2> QED
    BY <2>1, <2>2
<1>2. task'[Daemon] # Idle => /\ task'[Daemon].op = "expire" /\ task'[Daemon].who # Nobody
                              /\ task'[Daemon].arg.timed
  BY DEF Moves, Follows, TasksTyped, Works, Workers
<1> QED
  BY <1>1, <1>2 DEF TasksTyped, Moves, Works

-----------------------------------------------------------------------------
(* Types: a code is left *)

LEMMA MakersStay ==
    ASSUME AllTyped, NEW h \in Workers, Moves(h), nextCode' = nextCode,
           \/ calls' = calls /\ (task'[h] # Idle /\ WillMake(h)' => Works(h) /\ WillMake(h))
           \/ calls' = calls + 1
    PROVE  CodesLeft'
<1>1. IsFiniteSet(Makers) /\ nextCode + Cardinality(Makers) <= calls + 3
  BY DEF AllTyped, CodesLeft
<1>2. \A w \in Workers \ {h} : w \in Makers' <=> w \in Makers
  BY DEF Makers, WillMake, Moves, Follows, Works
<1>3. nextCode \in Nat /\ calls \in Nat
  BY AccountsAssumption DEF AllTyped, TablesTyped, InvitesTyped
<1>4. CASE calls' = calls + 1
  <2>1. Makers' \subseteq Makers \cup {h}
    BY <1>2 DEF Makers
  <2>2. IsFiniteSet(Makers \cup {h}) /\ Cardinality(Makers \cup {h}) <= Cardinality(Makers) + 1
    <3>1. /\ IsFiniteSet(Makers \cup {h})
          /\ Cardinality(Makers \cup {h}) = IF h \in Makers THEN Cardinality(Makers)
                                            ELSE Cardinality(Makers) + 1
      BY <1>1, FS_AddElement
    <3> QED
      BY <1>1, <3>1, FS_CardinalityType
  <2>3. IsFiniteSet(Makers') /\ Cardinality(Makers') <= Cardinality(Makers \cup {h})
    BY <2>1, <2>2, FS_Subset
  <2>4. /\ Cardinality(Makers') \in Nat /\ Cardinality(Makers) \in Nat
        /\ Cardinality(Makers \cup {h}) \in Nat
    BY <1>1, <2>2, <2>3, FS_CardinalityType
  <2> QED
    BY <1>1, <1>3, <1>4, <2>2, <2>3, <2>4 DEF CodesLeft
<1>5. CASE calls' = calls /\ (task'[h] # Idle /\ WillMake(h)' => Works(h) /\ WillMake(h))
  <2>1. Makers' \subseteq Makers
    BY <1>2, <1>5 DEF Makers, Works
  <2>2. IsFiniteSet(Makers') /\ Cardinality(Makers') <= Cardinality(Makers)
    BY <1>1, <2>1, FS_Subset
  <2>3. Cardinality(Makers') \in Nat /\ Cardinality(Makers) \in Nat
    BY <1>1, <2>2, FS_CardinalityType
  <2> QED
    BY <1>1, <1>3, <1>5, <2>2, <2>3 DEF CodesLeft
<1> QED
  BY <1>4, <1>5

LEMMA OneIsLeft ==
    ASSUME AllTyped, NEW h \in Workers, Works(h), WillMake(h)
    PROVE  nextCode \in Codes
<1>1. h \in Makers /\ IsFiniteSet(Makers) /\ nextCode + Cardinality(Makers) <= calls + 3
  BY DEF AllTyped, CodesLeft, Makers
<1>2. Cardinality(Makers) # 0 /\ Cardinality(Makers) \in Nat
  BY <1>1, FS_EmptySet, FS_CardinalityType
<1>3. nextCode \in Nat /\ nextCode > 0 /\ calls \in 0..MaxCalls /\ MaxCalls \in Nat
  BY AccountsAssumption DEF AllTyped, TablesTyped, InvitesTyped
<1> QED
  BY <1>1, <1>2, <1>3 DEF Codes

LEMMA MakerDone ==
    ASSUME AllTyped, NEW h \in Workers, Moves(h), Works(h), WillMake(h),
           ~(task'[h] # Idle /\ WillMake(h)'), nextCode' = nextCode + 1, calls' = calls
    PROVE  CodesLeft'
<1>1. h \in Makers /\ IsFiniteSet(Makers) /\ nextCode + Cardinality(Makers) <= calls + 3
  BY DEF AllTyped, CodesLeft, Makers
<1>2. Makers' = Makers \ {h}
  <2>1. \A w \in Workers \ {h} : w \in Makers' <=> w \in Makers
    BY DEF Makers, WillMake, Moves, Follows, Works
  <2>2. h \notin Makers'
    BY DEF Makers, Works
  <2> QED
    BY <2>1, <2>2 DEF Makers
<1>3. IsFiniteSet(Makers') /\ Cardinality(Makers') = Cardinality(Makers) - 1
  BY <1>1, <1>2, FS_RemoveElement
<1>4. /\ nextCode \in Nat /\ calls \in Nat
      /\ Cardinality(Makers') \in Nat /\ Cardinality(Makers) \in Nat
  BY <1>1, <1>3, FS_CardinalityType, AccountsAssumption DEF AllTyped, TablesTyped, InvitesTyped
<1> QED
  BY <1>1, <1>3, <1>4 DEF CodesLeft

-----------------------------------------------------------------------------
(* Types: requests begin *)

LEMMA BegunTyped ==
    ASSUME AllTyped, NEW h \in Callers, NEW op, NEW who, NEW pos, NEW copy, NEW arg,
           Begin(h, Task(op, who, pos, copy, arg)), Typed(h)',
           UNCHANGED <<emails, invites, nextCode, profiles, events, mix, ghosts>>,
           exists \subseteq exists', exists' \subseteq Users
    PROVE  AllTyped'
<1> USE DEF AllTyped
<1>1. Moves(h) /\ calls < MaxCalls /\ calls' = calls + 1
  BY Begun
<1>2. InvitesTyped' /\ Evolves
  BY SameInvites
<1>3. calls' \in 0..MaxCalls
  BY <1>1, AccountsAssumption DEF TablesTyped
<1>4. TablesTyped'
  BY <1>2, <1>3, TablesStay DEF TablesTyped, ghosts
<1>5. TasksTyped'
  BY <1>1, <1>2, TasksStay, AccountsAssumption DEF Workers
<1>6. CodesLeft'
  BY <1>1, MakersStay DEF Workers
<1> QED
  BY <1>4, <1>5, <1>6

LEMMA ReadRowTyped ==
    ASSUME AllTyped, NEW h \in Callers, NEW op \in {"admin", "label", "email"}, NEW u \in Users,
           NEW arg, ReadRow(h, op, u, arg), op = "admin" => arg.admin \in BOOLEAN,
           op = "email" => arg.addr \in Addresses \cup {NoAddr}
    PROVE  AllTyped'
<1>1. Begin(h, Task(op, u, "row", emails[u], arg)) /\ u \in exists
  BY DEF ReadRow
<1>2. /\ IsTask(task'[h]) /\ task'[h].op = op /\ task'[h].who = u /\ task'[h].at = "row"
      /\ task'[h].copy = emails[u] /\ task'[h].arg = arg
  BY <1>1, Begun DEF AllTyped
<1>3. emails[u] \in Row \cup {NoRow} /\ (emails[u] # NoRow => emails[u].tmpl < nextCode)
  BY DEF AllTyped, TablesTyped
<1>4. UNCHANGED <<exists, emails, invites, nextCode, profiles, events, mix, ghosts>>
  BY DEF ReadRow
<1>5. UserSteps(task[h])' /\ UserHolds(task[h])'
  BY <1>2, <1>3 DEF UserSteps, UserHolds
<1>6. Typed(h)'
  BY <1>1, <1>2, <1>3, <1>4, <1>5 DEF Typed, UserTask, UserOps, ProfileOps
<1>7. exists' \subseteq Users /\ exists \subseteq exists'
  BY <1>4 DEF AllTyped, TablesTyped
<1> QED
  BY <1>1, <1>4, <1>6, <1>7, BegunTyped

LEMMA SignupTyped == ASSUME AllTyped, NEW h \in Callers, Signup(h) PROVE AllTyped'
<1>1. PICK u \in Users \ exists, addr \in Addresses \cup {NoAddr},
           tmpl \in {NoKey} \cup
                    {profiles[p].tmpl : p \in {n \in Names : profiles[n] # NoProfile}} :
        /\ exists' = exists \cup {u}
        /\ Begin(h, Task("signup", u, "row", [EmptyRow EXCEPT !.addr = addr], [tmpl |-> tmpl]))
  BY DEF Signup
<1>2. /\ IsTask(task'[h]) /\ task'[h].op = "signup" /\ task'[h].who = u
      /\ task'[h].at = "row" /\ task'[h].copy = [EmptyRow EXCEPT !.addr = addr]
      /\ task'[h].arg = [tmpl |-> tmpl]
  BY <1>1, Begun DEF AllTyped
<1>3. /\ [EmptyRow EXCEPT !.addr = addr] \in Row /\ ~[EmptyRow EXCEPT !.addr = addr].admin
      /\ [EmptyRow EXCEPT !.addr = addr].tmpl = NoKey
  BY DEF EmptyRow, Row
<1>4. tmpl \in Codes \cup {NoKey} /\ NoKey < nextCode
  BY DEF AllTyped, TablesTyped, InvitesTyped, Profile, NoKey, TemplateCode
<1>5. UNCHANGED <<emails, invites, nextCode, profiles, events, mix, ghosts>>
  BY DEF Signup
<1>6. UserSteps(task[h])' /\ UserHolds(task[h])'
  BY <1>2, <1>3, <1>4 DEF UserSteps, UserHolds
<1>7. Typed(h)'
  BY <1>1, <1>2, <1>3, <1>4, <1>5, <1>6 DEF Typed, UserTask, UserOps, ProfileOps
<1>8. exists' \subseteq Users /\ exists \subseteq exists'
  BY <1>1 DEF AllTyped, TablesTyped
<1> QED
  BY <1>1, <1>5, <1>7, <1>8, BegunTyped

LEMMA ReferTyped ==
    ASSUME AllTyped, NEW h \in Callers, EnableReferralForUsers(h) PROVE AllTyped'
<1>1. PICK u \in exists, timed \in BOOLEAN :
          Begin(h, Task("refer", u, "wipe", NoRow, [timed |-> timed]))
  BY DEF EnableReferralForUsers
<1>2. /\ IsTask(task'[h]) /\ task'[h].op = "refer" /\ task'[h].who = u
      /\ task'[h].at = "wipe" /\ task'[h].copy = NoRow /\ task'[h].arg = [timed |-> timed]
  BY <1>1, Begun DEF AllTyped
<1>3. UNCHANGED <<exists, emails, invites, nextCode, profiles, events, mix, ghosts>>
  BY DEF EnableReferralForUsers
<1>4. UserSteps(task[h])' /\ UserHolds(task[h])'
  BY <1>2 DEF UserSteps, UserHolds
<1>5. Typed(h)'
  BY <1>1, <1>2, <1>3, <1>4 DEF Typed, UserTask, UserOps, ProfileOps
<1>6. exists' \subseteq Users /\ exists \subseteq exists'
  BY <1>3 DEF AllTyped, TablesTyped
<1> QED
  BY <1>1, <1>3, <1>5, <1>6, BegunTyped

\* An expired invite that is there.
LEMMA ExpiredIsTyped ==
    ASSUME AllTyped, NEW c \in Codes, invites[c] # NoInvite
    PROVE  /\ Expired(c).code = c /\ Expired(c).timed = invites[c].timed
           /\ invites[c].timed \in BOOLEAN /\ c < nextCode
           /\ invites[c].owner \in exists \cup {Nobody}
BY DEF Expired, AllTyped, TablesTyped, InvitesTyped, Invite, Codes

LEMMA MineTyped == ASSUME AllTyped, NEW h \in Callers, GetMyReferral(h) PROVE AllTyped'
<1>1. UNCHANGED <<exists, emails, invites, nextCode, profiles, events, mix, ghosts>>
  BY DEF GetMyReferral
<1>2. exists' \subseteq Users /\ exists \subseteq exists'
  BY <1>1 DEF AllTyped, TablesTyped
<1>3. PICK u \in exists :
          \/ Owned(u) = {} /\ Begin(h, Task("mine", u, "template", NoRow, Nothing))
          \/ \E c \in Owned(u) :
                invites[c].over /\ Begin(h, Task("mine", u, "drop", NoRow, Expired(c)))
  BY DEF GetMyReferral
<1>4. CASE Begin(h, Task("mine", u, "template", NoRow, Nothing))
  <2>1. /\ IsTask(task'[h]) /\ task'[h].op = "mine" /\ task'[h].who = u
        /\ task'[h].at = "template" /\ task'[h].copy = NoRow
    BY <1>4, Begun DEF AllTyped
  <2>2. UserSteps(task[h])' /\ UserHolds(task[h])'
    BY <2>1 DEF UserSteps, UserHolds
  <2>3. Typed(h)'
    BY <1>1, <1>3, <2>1, <2>2 DEF Typed, UserTask, UserOps, ProfileOps
  <2> QED
    BY <1>1, <1>2, <1>4, <2>3, BegunTyped
<1>5. ASSUME NEW c \in Owned(u), Begin(h, Task("mine", u, "drop", NoRow, Expired(c)))
      PROVE  AllTyped'
  <2>1. /\ IsTask(task'[h]) /\ task'[h].op = "mine" /\ task'[h].who = u
        /\ task'[h].at = "drop" /\ task'[h].copy = NoRow /\ task'[h].arg = Expired(c)
    BY <1>5, Begun DEF AllTyped
  <2>2. UserSteps(task[h])' /\ UserHolds(task[h])'
    BY <2>1 DEF UserSteps, UserHolds
  <2>3. c \in Codes /\ invites[c] # NoInvite /\ invites[c].owner = u
    BY DEF Owned
  <2>4. Expiring(h)'
    BY <1>1, <2>1, <2>3, ExpiredIsTyped DEF Expiring
  <2>5. Typed(h)'
    BY <1>1, <1>3, <2>1, <2>2, <2>4 DEF Typed, UserTask, UserOps, ProfileOps
  <2> QED
    BY <1>1, <1>2, <1>5, <2>5, BegunTyped
<1> QED
  BY <1>3, <1>4, <1>5

\* The task of deleting an expired invite.
LEMMA DeletingIsTyped ==
    ASSUME AllTyped, NEW c \in Codes, invites[c] # NoInvite, NEW h \in Workers,
           NEW next, next = DeleteExpiredInvite(c), task'[h] = next,
           UNCHANGED <<exists, invites, nextCode>>
    PROVE  Typed(h)'
<1>1. /\ IsTask(next) /\ next.op = "expire" /\ next.who = invites[c].owner
      /\ next.at = (IF invites[c].timed /\ invites[c].owner # Nobody THEN "find" ELSE "delete")
      /\ next.copy = NoRow /\ next.arg = Expired(c)
  BY TaskIsTask DEF DeleteExpiredInvite
<1>2. next.at \in {"find", "delete"} /\ (next.who = Nobody => next.at = "delete")
  BY <1>1
<1>3. UserSteps(next) /\ UserHolds(next)
  BY <1>1, <1>2 DEF UserSteps, UserHolds
<1>4. UserSteps(task[h])' /\ UserHolds(task[h])'
  BY <1>3 DEF UserSteps, UserHolds
<1>5. Expiring(h)'
  BY <1>1, ExpiredIsTyped DEF Expiring
<1> QED
  BY <1>1, <1>2, <1>4, <1>5, ExpiredIsTyped DEF Typed, UserTask, UserOps, ProfileOps

LEMMA CheckInviteTyped ==
    ASSUME AllTyped, NEW h \in Callers, CheckInvite(h) PROVE AllTyped'
<1>1. PICK c \in Codes : invites[c] # NoInvite /\ Begin(h, DeleteExpiredInvite(c))
  BY DEF CheckInvite
<1>2. UNCHANGED <<exists, emails, invites, nextCode, profiles, events, mix, ghosts>>
  BY DEF CheckInvite
<1>3. task'[h] = DeleteExpiredInvite(c) /\ h \in Workers
  BY <1>1 DEF Begin, AllTyped, TasksTyped, Workers
<1>4. Typed(h)'
  BY <1>1, <1>2, <1>3, DeletingIsTyped
<1>5. exists' \subseteq Users /\ exists \subseteq exists'
  BY <1>2 DEF AllTyped, TablesTyped
<1> QED
  BY <1>1, <1>2, <1>4, <1>5, BegunTyped DEF DeleteExpiredInvite

LEMMA ReadProfileTyped ==
    ASSUME AllTyped, NEW h \in Callers, NEW op, NEW pos, NEW from \in Names, NEW to \in Names,
           NEW timed \in BOOLEAN, ReadProfile(h, op, pos, from, to, timed),
           \/ op = "content" /\ pos = "write"
           \/ op \in {"share", "unshare"} /\ pos = "template of profile" /\ from = to
    PROVE  AllTyped'
<1> DEFINE arg == [from |-> from, to |-> to, timed |-> timed]
<1>1. Begin(h, Task(op, Nobody, pos, profiles[from], arg)) /\ profiles[from] # NoProfile
  BY DEF ReadProfile, Present
<1> HIDE DEF arg
<1>2. /\ IsTask(task'[h]) /\ task'[h].op = op /\ task'[h].who = Nobody /\ task'[h].at = pos
      /\ task'[h].copy = profiles[from] /\ task'[h].arg = arg
  BY <1>1, Begun DEF AllTyped
<1>3. profiles[from] \in Profile /\ TemplateCode(profiles[from].tmpl)
  BY <1>1 DEF AllTyped, TablesTyped
<1>4. UNCHANGED <<exists, emails, invites, nextCode, profiles, events, mix, ghosts>>
  BY DEF ReadProfile
<1>5. /\ arg = [from |-> from, to |-> to, timed |-> timed]
      /\ arg.from = from /\ arg.to = to /\ arg.timed = timed
  BY DEF arg
<1>6. ProfileHolds(task[h])'
  BY <1>2, <1>3, <1>5 DEF ProfileHolds
<1>7. TemplateCode(task[h].copy.tmpl)'
  BY <1>2, <1>3, <1>4 DEF TemplateCode
<1>8. Typed(h)'
  BY <1>2, <1>6, <1>7 DEF Typed, ProfilesTask, UserOps, ProfileOps
<1>9. exists' \subseteq Users /\ exists \subseteq exists'
  BY <1>4 DEF AllTyped, TablesTyped
<1> QED
  BY <1>1, <1>4, <1>8, <1>9, BegunTyped

LEMMA DefaultTyped ==
    ASSUME AllTyped, NEW h \in Callers, SetDefaultProfile(h) PROVE AllTyped'
<1>1. PICK p \in Present :
          Begin(h, Task("default", Nobody, "each", [all |-> profiles],
                        [to |-> p, left |-> Present]))
  BY DEF SetDefaultProfile
<1>2. /\ IsTask(task'[h]) /\ task'[h].op = "default" /\ task'[h].who = Nobody
      /\ task'[h].at = "each" /\ task'[h].copy = [all |-> profiles]
      /\ task'[h].arg = [to |-> p, left |-> Present]
  BY <1>1, Begun DEF AllTyped
<1>3. UNCHANGED <<exists, emails, invites, nextCode, profiles, events, mix, ghosts>>
  BY DEF SetDefaultProfile
<1>4. /\ profiles \in [Names -> Profile \cup {NoProfile}] /\ p \in Names
      /\ Present \subseteq Names /\ Present # {}
      /\ \A q \in Present : profiles[q] # NoProfile
  BY DEF AllTyped, TablesTyped, Present
<1>5. ProfileHolds(task[h])'
  BY <1>2, <1>4 DEF ProfileHolds
<1>6. \A q \in task'[h].arg.left : TemplateCode(profiles[q].tmpl)
  BY <1>2, <1>4 DEF AllTyped, TablesTyped
<1>7. \A q \in task'[h].arg.left : TemplateCode(task[h].copy.all[q].tmpl)'
  BY <1>2, <1>3, <1>6 DEF TemplateCode
<1>8. Typed(h)'
  BY <1>2, <1>5, <1>7 DEF Typed, ProfilesTask, UserOps, ProfileOps
<1>9. exists' \subseteq Users /\ exists \subseteq exists'
  BY <1>3 DEF AllTyped, TablesTyped
<1> QED
  BY <1>1, <1>3, <1>8, <1>9, BegunTyped

-----------------------------------------------------------------------------
(* Types: requests go on *)

LEMMA MovedTyped ==
    ASSUME AllTyped, NEW h \in Workers, Moves(h), Evolves, TablesTyped',
           task'[h] # Idle => Typed(h)',
           h = Daemon /\ task'[h] # Idle =>
               task'[h].op = "expire" /\ task'[h].who # Nobody /\ task'[h].arg.timed,
           \/ /\ nextCode' = nextCode
              /\ \/ calls' = calls /\ (task'[h] # Idle /\ WillMake(h)' => Works(h) /\ WillMake(h))
                 \/ calls' = calls + 1
           \/ /\ nextCode' = nextCode + 1 /\ calls' = calls
              /\ Works(h) /\ WillMake(h) /\ ~(task'[h] # Idle /\ WillMake(h)')
    PROVE  AllTyped'
<1>1. TasksTyped'
  BY TasksStay DEF AllTyped
<1>2. CodesLeft'
  BY MakersStay, MakerDone
<1> QED
  BY <1>1, <1>2 DEF AllTyped

LEMMA SweepTyped == ASSUME AllTyped, Sweep PROVE AllTyped'
<1>1. PICK c \in Codes : ToBeSwept(c) /\ task' = [task EXCEPT ![Daemon] = DeleteExpiredInvite(c)]
  BY DEF Sweep
<1>2. UNCHANGED <<exists, emails, invites, nextCode, profiles, bounds, ghosts>>
  BY DEF Sweep
<1>3. /\ Daemon \in Workers /\ Moves(Daemon) /\ task'[Daemon] = DeleteExpiredInvite(c)
  BY <1>1, GoesOn DEF AllTyped, Workers
<1>4. invites[c] # NoInvite /\ invites[c].timed /\ invites[c].owner # Nobody
  BY <1>1 DEF ToBeSwept
<1>5. Typed(Daemon)'
  BY <1>2, <1>3, <1>4, DeletingIsTyped
<1>6. /\ task'[Daemon].op = "expire" /\ task'[Daemon].who # Nobody /\ task'[Daemon].arg.timed
  BY <1>3, <1>4, ExpiredIsTyped DEF DeleteExpiredInvite, Task
<1>7. InvitesTyped' /\ Evolves
  BY <1>2, SameInvites DEF AllTyped
<1>8. TablesTyped'
  BY <1>2, <1>7, TablesStay DEF AllTyped, TablesTyped, bounds, ghosts
<1>9. ~WillMake(Daemon)'
  BY <1>6 DEF WillMake
<1> QED
  BY <1>2, <1>3, <1>5, <1>6, <1>7, <1>8, <1>9, MovedTyped DEF bounds

LEMMA ChangedRowTyped ==
    ASSUME AllTyped, NEW h \in Workers, At(h, "row"), task[h].op # "signup"
    PROVE  /\ task[h].who \in exists /\ task[h].op \in UserOps \ {"refer", "signup"}
           /\ Stored(task[h]) \in Row /\ Stored(task[h]).tmpl < nextCode
<1>1. Typed(h) /\ IsTask(task[h])
  BY DEF AllTyped, TasksTyped, Works, At, Typed
<1>2. task[h].op \in UserOps
  BY <1>1 DEF Typed, At, ProfilesTask, ProfileHolds, ProfileOps
<1>3. UserTask(h)
  BY <1>1, <1>2 DEF Typed
<1>4. task[h].who \in exists /\ task[h].op \in UserOps \ {"refer", "signup"}
  BY <1>2, <1>3 DEF UserTask, UserSteps, At, UserOps
<1>5. /\ task[h].copy \in Row \cup {NoRow} /\ (task[h].copy # NoRow => task[h].copy.tmpl < nextCode)
      /\ task[h].op = "admin" => task[h].arg.admin \in BOOLEAN
      /\ task[h].op = "email" => task[h].arg.addr \in Addresses \cup {NoAddr}
  BY <1>3 DEF UserTask, UserHolds
<1> DEFINE copy == IF task[h].copy = NoRow THEN EmptyRow ELSE task[h].copy
<1>6. copy \in Row /\ copy.tmpl < nextCode /\ 0 < nextCode
  BY <1>5, Records DEF EmptyRow, NoKey, AllTyped, TablesTyped, InvitesTyped
<1>7. Stored(task[h]) = CASE task[h].op = "admin" -> [copy EXCEPT !.admin = task[h].arg.admin]
          [] task[h].op = "label" -> copy
          [] task[h].op = "email" /\ copy.addr = NoAddr ->
                 [EmptyRow EXCEPT !.addr = task[h].arg.addr]
          [] task[h].op = "email" /\ copy.addr # NoAddr -> [copy EXCEPT !.addr = task[h].arg.addr]
          [] OTHER -> [copy EXCEPT !.tmpl = NoKey]
  BY DEF Stored
<1> HIDE DEF copy
<1>8. CASE task[h].op = "admin"
  <2>1. Stored(task[h]) = [copy EXCEPT !.admin = task[h].arg.admin]
    BY <1>7, <1>8
  <2> QED
    BY <1>4, <1>5, <1>6, <1>8, <2>1 DEF Row
<1>9. CASE task[h].op = "label"
  BY <1>4, <1>6, <1>7, <1>9
<1>10. CASE task[h].op = "email" /\ copy.addr = NoAddr
  <2>1. Stored(task[h]) = [EmptyRow EXCEPT !.addr = task[h].arg.addr]
    BY <1>7, <1>10
  <2> QED
    BY <1>4, <1>5, <1>6, <1>10, <2>1 DEF Row, EmptyRow, NoKey
<1>11. CASE task[h].op = "email" /\ copy.addr # NoAddr
  <2>1. Stored(task[h]) = [copy EXCEPT !.addr = task[h].arg.addr]
    BY <1>7, <1>11
  <2> QED
    BY <1>4, <1>5, <1>6, <1>11, <2>1 DEF Row
<1>12. CASE task[h].op \notin {"admin", "label", "email"}
  <2>1. Stored(task[h]) = [copy EXCEPT !.tmpl = NoKey]
    BY <1>7, <1>12
  <2> QED
    BY <1>4, <1>6, <1>12, <2>1 DEF Row, NoKey
<1> QED
  BY <1>8, <1>9, <1>10, <1>11, <1>12

LEMMA TablesOfRows ==
    ASSUME TablesTyped, NEW u \in exists, NEW row \in Row, row.tmpl < nextCode,
           emails' = [emails EXCEPT ![u] = row],
           UNCHANGED <<exists, invites, nextCode, profiles, calls, events, kept, gone>>,
           decided' \in [Users -> [addr : Addresses \cup {NoAddr}, admin : BOOLEAN]],
           off' \subseteq Users, lost' \subseteq Users \cup {Nobody}
    PROVE  TablesTyped'
<1>1. \A v \in Users : emails'[v] # NoRow => emails'[v].tmpl < nextCode'
  BY DEF TablesTyped
<1>2. InvitesTyped'
  BY SameInvites
<1>3. \A p \in Names : profiles'[p] # NoProfile => TemplateCode(profiles[p].tmpl)'
  BY DEF TablesTyped, TemplateCode
<1> QED
  BY <1>1, <1>2, <1>3 DEF TablesTyped

LEMMA WriteRowTyped ==
    ASSUME AllTyped, NEW h \in Workers, WriteRow(h) PROVE AllTyped'
<1> DEFINE c == task[h]
           u == c.who
           next == CASE c.op = "email" -> Push("email", u, c.arg.addr)
                     [] c.op = "expire" -> [c EXCEPT !.at = "delete"]
                     [] OTHER -> Idle
<1>1. At(h, "row") /\ c.op # "signup" /\ Overwrite(h)
  BY DEF WriteRow
<1>2. /\ u \in exists /\ c.op \in UserOps \ {"refer", "signup"}
      /\ Stored(c) \in Row /\ Stored(c).tmpl < nextCode
  BY <1>1, ChangedRowTyped
<1>3. /\ emails' = [emails EXCEPT ![u] = Stored(c)]
      /\ decided' = CASE c.op = "admin" -> [decided EXCEPT ![u].admin = c.arg.admin]
                      [] c.op = "email" ->
                            IF c.copy # NoRow /\ c.copy.addr # NoAddr
                            THEN [decided EXCEPT ![u].addr = c.arg.addr]
                            ELSE [decided EXCEPT ![u] = [addr |-> c.arg.addr, admin |-> FALSE]]
                      [] OTHER -> decided
      /\ off' = (IF c.op \in {"unrefer", "mine"} /\ ~c.stale THEN off \cup {u} ELSE off)
      /\ Announce(h, u, next)
      /\ UNCHANGED <<exists, invites, nextCode, profiles, bounds, kept, gone>>
  BY DEF WriteRow
<1>4. Works(h) /\ IsTask(c) /\ c.at = "row" /\ UserTask(h)
  BY <1>1, <1>2 DEF At, Works, AllTyped, TasksTyped, Typed
<1>5. Moves(h) /\ task'[h] = next
  BY <1>3, Announced DEF AllTyped
<1>6. InvitesTyped' /\ Evolves
  BY <1>3, SameInvites DEF AllTyped
<1>7. decided' \in [Users -> [addr : Addresses \cup {NoAddr}, admin : BOOLEAN]]
  <2>1. /\ c.op = "admin" => c.arg.admin \in BOOLEAN
        /\ c.op = "email" => c.arg.addr \in Addresses \cup {NoAddr}
    BY <1>4 DEF UserTask, UserHolds
  <2>2. decided \in [Users -> [addr : Addresses \cup {NoAddr}, admin : BOOLEAN]] /\ u \in Users
    BY <1>2 DEF AllTyped, TablesTyped
  <2> HIDE DEF c, u
  <2>3. CASE c.op = "admin"
    <3>1. decided' = [decided EXCEPT ![u].admin = c.arg.admin]
      BY <1>3, <2>3
    <3> QED
      BY <2>1, <2>2, <2>3, <3>1
  <2>4. CASE c.op = "email"
    <3>1. CASE c.copy # NoRow /\ c.copy.addr # NoAddr
      <4>1. decided' = [decided EXCEPT ![u].addr = c.arg.addr]
        BY <1>3, <2>4, <3>1
      <4> QED
        BY <2>1, <2>2, <2>4, <4>1
    <3>2. CASE ~(c.copy # NoRow /\ c.copy.addr # NoAddr)
      <4>1. decided' = [decided EXCEPT ![u] = [addr |-> c.arg.addr, admin |-> FALSE]]
        BY <1>3, <2>4, <3>2
      <4> QED
        BY <2>1, <2>2, <2>4, <4>1
    <3> QED
      BY <3>1, <3>2
  <2>5. CASE c.op \notin {"admin", "email"}
    BY <1>3, <2>2, <2>5
  <2> QED
    BY <2>3, <2>4, <2>5
<1>8. off' \subseteq Users /\ lost' \subseteq Users \cup {Nobody}
  BY <1>1, <1>2, <1>3 DEF Overwrite, AllTyped, TablesTyped
<1>9. TablesTyped'
  BY <1>2, <1>3, <1>7, <1>8, TablesOfRows DEF AllTyped, bounds
<1>10. ASSUME task'[h] # Idle PROVE Typed(h)' /\ ~WillMake(h)'
  <2>1. CASE c.op = "email"
    <3>1. task'[h] = Push("email", u, c.arg.addr)
      BY <1>5, <2>1
    <3>2. /\ IsTask(task'[h]) /\ task'[h].op = "email" /\ task'[h].who = u
          /\ task'[h].at = "push" /\ task'[h].copy = NoRow
          /\ task'[h].arg = [addr |-> c.arg.addr]
      BY <3>1, TaskIsTask DEF Push
    <3>3. c.arg.addr \in Addresses \cup {NoAddr}
      BY <1>4, <2>1 DEF UserTask, UserHolds
    <3>4. UserSteps(task[h])' /\ UserHolds(task[h])'
      BY <3>2, <3>3 DEF UserSteps, UserHolds
    <3> QED
      BY <1>2, <1>3, <3>2, <3>4 DEF Typed, UserTask, UserOps, ProfileOps, WillMake
  <2>2. CASE c.op = "expire"
    <3>1. task'[h] = [c EXCEPT !.at = "delete"]
      BY <1>5, <2>2
    <3>2. /\ IsTask(task'[h]) /\ task'[h].op = "expire" /\ task'[h].who = u
          /\ task'[h].at = "delete" /\ task'[h].copy = c.copy /\ task'[h].arg = c.arg
      BY <1>4, <2>2, <3>1 DEF IsTask
    <3>3. UserSteps(task[h])' /\ UserHolds(task[h])'
      BY <1>4, <2>2, <3>2 DEF UserSteps, UserHolds, UserTask
    <3>4. Expiring(h)'
      BY <1>3, <1>4, <2>2, <3>2 DEF Expiring, UserTask
    <3> QED
      BY <1>2, <1>3, <1>4, <3>2, <3>3, <3>4
      DEF Typed, UserTask, UserOps, ProfileOps, WillMake
  <2>3. CASE c.op \notin {"email", "expire"}
    BY <1>5, <1>10, <2>3
  <2> QED
    BY <2>1, <2>2, <2>3
<1>11. h = Daemon /\ task'[h] # Idle =>
           task'[h].op = "expire" /\ task'[h].who # Nobody /\ task'[h].arg.timed
  <2>1. CASE h = Daemon /\ task'[h] # Idle
    <3>1. c.op = "expire" /\ c.who # Nobody /\ c.arg.timed
      BY <1>4, <2>1 DEF AllTyped, TasksTyped
    <3>2. task'[h] = [c EXCEPT !.at = "delete"]
      BY <1>5, <3>1
    <3> QED
      BY <1>4, <3>1, <3>2 DEF IsTask
  <2> QED
    BY <2>1
<1> QED
  BY <1>3, <1>5, <1>6, <1>9, <1>10, <1>11, MovedTyped DEF bounds

LEMMA StoreNewRowTyped ==
    ASSUME AllTyped, NEW h \in Callers, StoreNewRow(h) PROVE AllTyped'
<1> DEFINE c == task[h]
<1>1. At(h, "row") /\ c.op = "signup" /\ Overwrite(h)
  BY DEF StoreNewRow
<1>2. Works(h) /\ IsTask(c) /\ c.at = "row" /\ UserTask(h) /\ h \in Workers
  BY <1>1 DEF At, Works, AllTyped, TasksTyped, Typed, UserOps, Workers
<1>3. /\ c.who \in exists /\ c.copy \in Row /\ ~c.copy.admin /\ c.copy.tmpl = NoKey
      /\ c.arg.tmpl \in Codes \cup {NoKey} /\ c.copy.tmpl < nextCode
  BY <1>1, <1>2, Records DEF UserTask, UserHolds
<1>4. /\ emails' = [emails EXCEPT ![c.who] = c.copy] \/ emails' = emails
      /\ decided' = [decided EXCEPT ![c.who].addr = c.copy.addr] \/ decided' = decided
      /\ Announce(h, c.who, [c EXCEPT !.at = "share"])
      /\ UNCHANGED <<exists, invites, nextCode, profiles, bounds, off, kept, gone>>
  BY DEF StoreNewRow
<1>5. Moves(h) /\ task'[h] = [c EXCEPT !.at = "share"]
  BY <1>2, <1>4, Announced DEF AllTyped
<1>6. InvitesTyped' /\ Evolves
  BY <1>4, SameInvites DEF AllTyped
<1>7. decided' \in [Users -> [addr : Addresses \cup {NoAddr}, admin : BOOLEAN]]
  BY <1>3, <1>4 DEF AllTyped, TablesTyped, Row
<1>8. off' \subseteq Users /\ lost' \subseteq Users \cup {Nobody}
  BY <1>1, <1>3, <1>4 DEF Overwrite, AllTyped, TablesTyped
<1>9. TablesTyped'
  <2>1. CASE emails' = [emails EXCEPT ![c.who] = c.copy]
    BY <1>3, <1>4, <1>7, <1>8, <2>1, TablesOfRows DEF AllTyped, bounds
  <2>2. CASE emails' = emails
    BY <1>4, <1>6, <1>7, <1>8, <2>2 DEF AllTyped, TablesTyped, bounds, TemplateCode
  <2> QED
    BY <1>4, <2>1, <2>2
<1>10. /\ IsTask(task'[h]) /\ task'[h].op = "signup" /\ task'[h].who = c.who
       /\ task'[h].at = "share" /\ task'[h].copy = c.copy /\ task'[h].arg = c.arg
  BY <1>1, <1>2, <1>5 DEF IsTask
<1>11. UserSteps(task[h])' /\ UserHolds(task[h])'
  BY <1>3, <1>10 DEF UserSteps, UserHolds
<1>12. Typed(h)'
  BY <1>3, <1>4, <1>10, <1>11 DEF Typed, UserTask, UserOps, ProfileOps
<1>13. WillMake(h)
  BY <1>1, <1>2 DEF WillMake
<1> QED
  BY <1>2, <1>4, <1>5, <1>6, <1>9, <1>12, <1>13, MovedTyped, AccountsAssumption DEF bounds

\* A step of one request that leaves the tables: h comes to have "next".
LEMMA LocalTyped ==
    ASSUME AllTyped, NEW h \in Workers, NEW next, task' = [task EXCEPT ![h] = next],
           UNCHANGED <<exists, emails, invites, nextCode, profiles, calls, decided, kept, gone,
                       lost>>,
           events' \in 0..MaxEvents, off' \subseteq Users,
           next # Idle => Typed(h)',
           h = Daemon /\ next # Idle => next.op = "expire" /\ next.who # Nobody /\ next.arg.timed,
           next # Idle /\ WillMake(h)' => Works(h) /\ WillMake(h)
    PROVE  AllTyped'
<1>1. Moves(h) /\ task'[h] = next
  BY GoesOn DEF AllTyped
<1>2. InvitesTyped' /\ Evolves
  BY SameInvites DEF AllTyped
<1>3. TablesTyped'
  BY <1>2, TablesStay DEF AllTyped, TablesTyped
<1> QED
  BY <1>1, <1>2, <1>3, MovedTyped

LEMMA ShareTemplateTyped ==
    ASSUME AllTyped, NEW h \in Callers, ShareTemplate(h) PROVE AllTyped'
<1> DEFINE c == task[h]
<1>1. PICK timed \in BOOLEAN :
          task' = [task EXCEPT ![h] = IF timed
                                      THEN [c EXCEPT !.at = "put", !.arg = [timed |-> TRUE]]
                                      ELSE Push("signup", c.who, c.copy.addr)]
  BY DEF ShareTemplate
<1>2. /\ Works(h) /\ IsTask(c) /\ c.at = "share" /\ h \in Workers /\ h # Daemon
  BY AccountsAssumption DEF ShareTemplate, At, Works, AllTyped, TasksTyped, Typed, Workers
<1>3. c.op = "signup" /\ UserTask(h)
  BY <1>2 DEF AllTyped, TasksTyped, Typed, UserOps, ProfileOps, UserTask, UserSteps,
              ProfilesTask, ProfileHolds
<1>4. c.who \in exists /\ c.copy \in Row /\ ~c.copy.admin /\ c.copy.tmpl = NoKey
      /\ c.copy.tmpl < nextCode /\ c.copy.addr \in Addresses \cup {NoAddr} /\ WillMake(h)
  BY <1>2, <1>3, Records DEF UserTask, UserHolds, Row, WillMake
<1>5. UNCHANGED <<exists, emails, invites, nextCode, profiles, bounds, ghosts>>
  BY DEF ShareTemplate
<1>6. CASE timed
  <2>1. task' = [task EXCEPT ![h] = [c EXCEPT !.at = "put", !.arg = [timed |-> TRUE]]]
    BY <1>1, <1>6
  <2>2. task'[h] = [c EXCEPT !.at = "put", !.arg = [timed |-> TRUE]]
    BY <1>2, <2>1 DEF AllTyped, TasksTyped
  <2>3. /\ IsTask(task'[h]) /\ task'[h].op = "signup" /\ task'[h].who = c.who
        /\ task'[h].at = "put" /\ task'[h].copy = c.copy /\ task'[h].arg = [timed |-> TRUE]
    BY <1>2, <1>3, <2>2 DEF IsTask
  <2>4. UserSteps(task[h])' /\ UserHolds(task[h])'
    BY <1>4, <2>3 DEF UserSteps, UserHolds
  <2>5. Typed(h)'
    BY <1>4, <1>5, <2>3, <2>4 DEF Typed, UserTask, UserOps, ProfileOps
  <2> QED
    BY <1>2, <1>4, <1>5, <2>1, <2>5, LocalTyped DEF bounds, ghosts, AllTyped, TablesTyped
<1>7. CASE ~timed
  <2>1. task' = [task EXCEPT ![h] = Push("signup", c.who, c.copy.addr)]
    BY <1>1, <1>7
  <2>2. task'[h] = Push("signup", c.who, c.copy.addr)
    BY <1>2, <2>1 DEF AllTyped, TasksTyped
  <2>3. /\ IsTask(task'[h]) /\ task'[h].op = "signup" /\ task'[h].who = c.who
        /\ task'[h].at = "push" /\ task'[h].copy = NoRow /\ task'[h].arg = [addr |-> c.copy.addr]
    BY <2>2, TaskIsTask DEF Push
  <2>4. UserSteps(task[h])' /\ UserHolds(task[h])'
    BY <1>4, <2>3 DEF UserSteps, UserHolds
  <2>5. Typed(h)'
    BY <1>4, <1>5, <2>3, <2>4 DEF Typed, UserTask, UserOps, ProfileOps
  <2> QED
    BY <1>2, <1>4, <1>5, <2>1, <2>5, LocalTyped DEF bounds, ghosts, AllTyped, TablesTyped
<1> QED
  BY <1>6, <1>7

LEMMA FindTemplateTyped ==
    ASSUME AllTyped, NEW h \in Callers, FindTemplate(h) PROVE AllTyped'
<1> DEFINE c == task[h]
<1>1. Works(h) /\ IsTask(c) /\ c.at = "template" /\ h \in Workers /\ h # Daemon
  BY AccountsAssumption DEF FindTemplate, At, Works, AllTyped, TasksTyped, Typed, Workers
<1>2. c.op = "mine" /\ UserTask(h)
  BY <1>1 DEF AllTyped, TasksTyped, Typed, UserOps, ProfileOps, UserTask, UserSteps,
              ProfilesTask, ProfileHolds
<1>3. UNCHANGED <<exists, emails, invites, nextCode, profiles, bounds, ghosts>>
  BY DEF FindTemplate
<1>4. c.who \in Users /\ WillMake(h)
  BY <1>1, <1>2 DEF UserTask, AllTyped, TablesTyped, WillMake
<1>5. CASE task' = [task EXCEPT ![h] = Idle]
  BY <1>1, <1>3, <1>5, LocalTyped DEF bounds, ghosts, AllTyped, TablesTyped
<1>6. CASE ~(task' = [task EXCEPT ![h] = Idle])
  <2>1. PICK k \in Codes : /\ invites[k] # NoInvite
                           /\ task' = [task EXCEPT ![h] = [c EXCEPT !.at = "put",
                                                 !.arg = [timed |-> invites[k].timed]]]
    <3>1. /\ emails[c.who] # NoRow /\ emails[c.who].tmpl # NoKey
          /\ invites[emails[c.who].tmpl] # NoInvite
          /\ task' = [task EXCEPT ![h] = [c EXCEPT !.at = "put",
                                   !.arg = [timed |-> invites[emails[c.who].tmpl].timed]]]
      BY <1>6 DEF FindTemplate
    <3>2. emails[c.who].tmpl \in Codes
      BY <1>4, <3>1 DEF AllTyped, TablesTyped, Row
    <3> QED
      BY <3>1, <3>2
  <2>2. task'[h] = [c EXCEPT !.at = "put", !.arg = [timed |-> invites[k].timed]]
    BY <1>1, <2>1 DEF AllTyped, TasksTyped
  <2>3. /\ IsTask(task'[h]) /\ task'[h].op = "mine" /\ task'[h].who = c.who
        /\ task'[h].at = "put" /\ task'[h].copy = c.copy
        /\ task'[h].arg = [timed |-> invites[k].timed]
    BY <1>1, <1>2, <2>2 DEF IsTask
  <2>4. invites[k].timed \in BOOLEAN
    BY <2>1 DEF AllTyped, TablesTyped, InvitesTyped, Invite
  <2>5. UserSteps(task[h])' /\ UserHolds(task[h])'
    BY <1>2, <2>3, <2>4 DEF UserSteps, UserHolds, UserTask
  <2>6. Typed(h)'
    BY <1>1, <1>2, <1>3, <2>3, <2>5 DEF Typed, UserTask, UserOps, ProfileOps
  <2> QED
    BY <1>1, <1>3, <1>4, <2>1, <2>6, LocalTyped DEF bounds, ghosts, AllTyped, TablesTyped
<1> QED
  BY <1>5, <1>6

LEMMA FindRowTyped ==
    ASSUME AllTyped, NEW h \in Workers, FindRow(h) PROVE AllTyped'
<1> DEFINE c == task[h]
           row == emails[c.who]
           next == IF row # NoRow THEN [c EXCEPT !.at = "row", !.copy = row]
                   ELSE IF c.op = "expire" THEN [c EXCEPT !.at = "delete"] ELSE Idle
<1>1. task' = [task EXCEPT ![h] = next]
  BY DEF FindRow
<1>2. UNCHANGED <<exists, emails, invites, nextCode, profiles, bounds, decided, kept, gone, lost>>
  BY DEF FindRow
<1>3. Works(h) /\ IsTask(c) /\ c.at = "find"
  BY DEF FindRow, At, Works, AllTyped, TasksTyped, Typed
<1>4. c.op \in {"unrefer", "mine", "expire"} /\ UserTask(h)
  BY <1>3 DEF AllTyped, TasksTyped, Typed, UserOps, ProfileOps, UserTask, UserSteps,
              ProfilesTask, ProfileHolds
<1>5. /\ c.who \in exists /\ c.who \in Users
      /\ row \in Row \cup {NoRow} /\ (row # NoRow => row.tmpl < nextCode)
  BY <1>3, <1>4 DEF UserTask, AllTyped, TablesTyped
<1>6. off' \subseteq Users /\ events' \in 0..MaxEvents
  BY <1>2, <1>5 DEF FindRow, AllTyped, TablesTyped, bounds
<1>7. task'[h] = next
  BY <1>1 DEF AllTyped, TasksTyped
<1>8. c.op = "expire" => Expiring(h)
  BY <1>4 DEF UserTask
<1>9. ASSUME next # Idle
      PROVE  Typed(h)' /\ next.op = c.op /\ next.who = c.who /\ next.arg = c.arg /\ ~WillMake(h)'
  <2>1. CASE row # NoRow
    <3>1. /\ IsTask(next) /\ next.op = c.op /\ next.who = c.who
          /\ next.at = "row" /\ next.copy = row /\ next.arg = c.arg
      BY <1>3, <2>1 DEF IsTask
    <3> HIDE DEF next
    <3>2. UserSteps(task[h])' /\ UserHolds(task[h])'
      BY <1>4, <1>5, <1>7, <2>1, <3>1 DEF UserSteps, UserHolds
    <3>3. c.op = "expire" => Expiring(h)'
      BY <1>2, <1>7, <1>8, <3>1 DEF Expiring
    <3> QED
      BY <1>2, <1>4, <1>5, <1>7, <2>1, <3>1, <3>2, <3>3
      DEF Typed, UserTask, UserOps, ProfileOps, WillMake
  <2>2. CASE row = NoRow /\ c.op = "expire"
    <3>1. /\ IsTask(next) /\ next.op = c.op /\ next.who = c.who
          /\ next.at = "delete" /\ next.copy = c.copy /\ next.arg = c.arg
      BY <1>3, <2>2 DEF IsTask
    <3> HIDE DEF next
    <3>2. UserSteps(task[h])' /\ UserHolds(task[h])'
      BY <1>4, <1>5, <1>7, <2>2, <3>1 DEF UserSteps, UserHolds, UserTask
    <3>3. Expiring(h)'
      BY <1>2, <1>7, <1>8, <2>2, <3>1 DEF Expiring
    <3> QED
      BY <1>2, <1>4, <1>5, <1>7, <2>2, <3>1, <3>2, <3>3
      DEF Typed, UserTask, UserOps, ProfileOps, WillMake
  <2> QED
    BY <1>9, <2>1, <2>2
<1>10. h = Daemon => c.op = "expire" /\ c.who # Nobody /\ c.arg.timed
  BY <1>3 DEF AllTyped, TasksTyped
<1> HIDE DEF next
<1> QED
  BY <1>1, <1>2, <1>6, <1>9, <1>10, LocalTyped DEF bounds

\* What a request is about follows from where it is.
LEMMA Whereabouts ==
    ASSUME AllTyped, NEW h \in Workers, task[h] # Idle
    PROVE  /\ Works(h) /\ IsTask(task[h]) /\ Typed(h)
           /\ task[h].at \in {"row", "find", "wipe", "put", "push", "template", "delete", "share"}
                  => task[h].op \in UserOps /\ UserTask(h)
           /\ task[h].at \in {"template of profile", "write", "each"}
                  => task[h].op \in ProfileOps /\ ProfilesTask(h) /\ task[h].who = Nobody
           /\ task[h].at = "share" => task[h].op = "signup"
           /\ task[h].at = "wipe" => task[h].op = "refer"
           /\ task[h].at = "put" => task[h].op \in {"refer", "mine", "signup"}
           /\ task[h].at = "template" => task[h].op = "mine"
           /\ task[h].at = "find" => task[h].op \in {"unrefer", "mine", "expire"}
           /\ task[h].at = "push" => task[h].op \in {"email", "signup"}
           /\ task[h].at = "delete" => task[h].op = "expire"
           /\ task[h].at = "template of profile" => task[h].op \in {"share", "unshare"}
           /\ task[h].at = "write" => task[h].op \in {"content", "share", "unshare"}
           /\ task[h].at = "each" => task[h].op = "default"
<1>1. Works(h) /\ IsTask(task[h]) /\ Typed(h)
  BY DEF AllTyped, TasksTyped, Works, Typed
<1>2. CASE task[h].op \in UserOps
  <2>1. UserTask(h) /\ UserSteps(task[h]) /\ task[h].op \notin ProfileOps
    BY <1>1, <1>2 DEF Typed, UserTask, UserOps, ProfileOps
  <2> QED
    BY <1>1, <1>2, <2>1 DEF UserSteps, UserOps
<1>3. CASE task[h].op \in ProfileOps
  <2>1. ProfilesTask(h) /\ ProfileHolds(task[h]) /\ task[h].op \notin UserOps
    BY <1>1, <1>3 DEF Typed, ProfilesTask, UserOps, ProfileOps
  <2> QED
    BY <1>1, <1>3, <2>1 DEF ProfileHolds, ProfileOps
<1> QED
  BY <1>1, <1>2, <1>3 DEF Typed

\* Users' requests are about users; only the deletion of a template is not.
LEMMA OfUsers ==
    ASSUME AllTyped, NEW h \in Workers, task[h] # Idle, task[h].op \in UserOps,
           task[h].op # "expire" \/ task[h].at # "delete"
    PROVE  task[h].who \in exists /\ task[h].who \in Users /\ task[h].who # Nobody
BY AccountsAssumption
   DEF AllTyped, TasksTyped, Works, Typed, UserTask, TablesTyped

LEMMA WipeOutTyped == ASSUME AllTyped, NEW h \in Callers, WipeOut(h) PROVE AllTyped'
<1> DEFINE c == task[h]
<1>1. /\ h \in Workers /\ h # Daemon /\ task[h] # Idle /\ c.at = "wipe"
  BY AccountsAssumption DEF WipeOut, At, Workers
<1>2. Works(h) /\ IsTask(c) /\ c.op = "refer" /\ UserTask(h)
  BY <1>1, Whereabouts
<1>3. /\ invites' = Without(Owned(c.who)) /\ kept' = kept \ {c.who}
      /\ Announce(h, c.who, [c EXCEPT !.at = "put"])
      /\ UNCHANGED <<exists, emails, nextCode, profiles, bounds, decided, off, gone, lost>>
  BY DEF WipeOut
<1>4. Moves(h) /\ task'[h] = [c EXCEPT !.at = "put"]
  BY <1>1, <1>3, Announced DEF AllTyped
<1>5. InvitesTyped' /\ Evolves
  BY <1>3, Dropped DEF AllTyped
<1>6. TablesTyped'
  BY <1>3, <1>5, TablesStay DEF AllTyped, TablesTyped, bounds
<1>7. /\ IsTask(task'[h]) /\ task'[h].op = "refer" /\ task'[h].who = c.who
      /\ task'[h].at = "put" /\ task'[h].copy = c.copy /\ task'[h].arg = c.arg
  BY <1>2, <1>4 DEF IsTask
<1>8. UserSteps(task[h])' /\ UserHolds(task[h])'
  BY <1>1, <1>2, <1>7 DEF UserSteps, UserHolds, UserTask
<1>9. Typed(h)'
  BY <1>2, <1>3, <1>7, <1>8 DEF Typed, UserTask, UserOps, ProfileOps
<1>10. WillMake(h)
  BY <1>2 DEF WillMake
<1> QED
  BY <1>1, <1>2, <1>3, <1>4, <1>5, <1>6, <1>9, <1>10, MovedTyped DEF bounds

LEMMA DisableTyped ==
    ASSUME AllTyped, NEW h \in Callers, DisableReferralForUsers(h) PROVE AllTyped'
<1>1. PICK u \in exists :
        /\ task[h] = Idle /\ Comes("unrefer")
        /\ invites' = Without(Owned(u)) /\ kept' = kept \ {u}
        /\ Announce(h, u, Task("unrefer", u, "find", NoRow, Nothing))
  BY DEF DisableReferralForUsers
<1>2. UNCHANGED <<exists, emails, nextCode, profiles, events, mix, decided, off, gone, lost>>
  BY DEF DisableReferralForUsers
<1>3. h \in Workers /\ h # Daemon
  BY AccountsAssumption DEF Workers
<1>4. Moves(h) /\ task'[h] = Task("unrefer", u, "find", NoRow, Nothing)
  BY <1>1, <1>3, Announced DEF AllTyped
<1>5. InvitesTyped' /\ Evolves
  BY <1>1, <1>2, Dropped DEF AllTyped
<1>6. calls' = calls + 1 /\ calls' \in 0..MaxCalls
  BY <1>1, AccountsAssumption DEF Comes, AllTyped, TablesTyped
<1>7. TablesTyped'
  BY <1>1, <1>2, <1>5, <1>6, TablesStay DEF AllTyped, TablesTyped
<1>8. /\ IsTask(task'[h]) /\ task'[h].op = "unrefer" /\ task'[h].who = u
      /\ task'[h].at = "find" /\ task'[h].copy = NoRow /\ task'[h].arg = Nothing
  BY <1>4, TaskIsTask
<1>9. UserSteps(task[h])' /\ UserHolds(task[h])'
  BY <1>8 DEF UserSteps, UserHolds
<1>10. Typed(h)'
  BY <1>2, <1>8, <1>9 DEF Typed, UserTask, UserOps, ProfileOps
<1> QED
  BY <1>2, <1>3, <1>4, <1>5, <1>6, <1>7, <1>10, MovedTyped

LEMMA DropReferralTyped ==
    ASSUME AllTyped, NEW h \in Callers, DropReferral(h) PROVE AllTyped'
<1> DEFINE c == task[h]
<1>1. /\ h \in Workers /\ h # Daemon /\ task[h] # Idle /\ c.at = "drop" /\ c.op = "mine"
  BY AccountsAssumption DEF DropReferral, At, Workers
<1>2. Works(h) /\ IsTask(c) /\ UserTask(h)
  BY <1>1, Whereabouts DEF Typed, UserOps
<1>3. PICK timed \in BOOLEAN :
        Announce(h, c.who, IF timed THEN [c EXCEPT !.at = "find"]
                           ELSE [c EXCEPT !.at = "put", !.arg = [timed |-> FALSE]])
  BY DEF DropReferral
<1>4. /\ invites' = Without({c.arg.code})
      /\ UNCHANGED <<exists, emails, nextCode, profiles, bounds, ghosts>>
  BY DEF DropReferral
<1>5. /\ Moves(h)
      /\ task'[h] = IF timed THEN [c EXCEPT !.at = "find"]
                    ELSE [c EXCEPT !.at = "put", !.arg = [timed |-> FALSE]]
  BY <1>1, <1>3, Announced DEF AllTyped
<1>6. InvitesTyped' /\ Evolves
  BY <1>4, Dropped DEF AllTyped
<1>7. TablesTyped'
  BY <1>4, <1>6, TablesStay DEF AllTyped, TablesTyped, bounds, ghosts
<1>8. /\ IsTask(task'[h]) /\ task'[h].op = "mine" /\ task'[h].who = c.who
      /\ task'[h].copy = c.copy
      /\ task'[h].at = "find" \/ (task'[h].at = "put" /\ task'[h].arg = [timed |-> FALSE])
  BY <1>1, <1>2, <1>5 DEF IsTask
<1>9. UserSteps(task[h])' /\ UserHolds(task[h])'
  <2>1. task'[h].copy \in Row \cup {NoRow}
    BY <1>2, <1>8 DEF UserTask, UserHolds
  <2>2. task'[h].at = "put" => task'[h].arg.timed = FALSE
    <3>1. task'[h].at = "put" => task'[h].arg = [timed |-> FALSE]
      BY <1>8
    <3> QED
      BY <3>1
  <2>3. task'[h].at \in {"find", "put"}
    BY <1>8
  <2> QED
    BY <1>8, <2>1, <2>2, <2>3 DEF UserSteps, UserHolds
<1>10. Typed(h)'
  BY <1>1, <1>2, <1>4, <1>8, <1>9 DEF Typed, UserTask, UserOps, ProfileOps
<1>11. WillMake(h)
  BY <1>1 DEF WillMake
<1> QED
  BY <1>1, <1>2, <1>4, <1>5, <1>6, <1>7, <1>10, <1>11, MovedTyped DEF bounds

LEMMA PutReferralTyped ==
    ASSUME AllTyped, NEW h \in Callers, PutReferral(h) PROVE AllTyped'
<1> DEFINE c == task[h]
<1>1. /\ h \in Workers /\ h # Daemon /\ task[h] # Idle /\ c.at = "put"
  BY AccountsAssumption DEF PutReferral, At, Workers
<1>2. Works(h) /\ IsTask(c) /\ UserTask(h) /\ c.op \in {"refer", "mine", "signup"}
  BY <1>1, Whereabouts
<1>3. /\ c.who \in exists /\ c.who \in Users /\ c.arg.timed \in BOOLEAN /\ WillMake(h)
      /\ c.op = "signup" => c.copy.addr \in Addresses \cup {NoAddr}
  BY <1>1, <1>2 DEF UserTask, UserHolds, AllTyped, TablesTyped, WillMake, Row
<1>4. nextCode \in Codes
  BY <1>1, <1>2, <1>3, OneIsLeft
<1>5. /\ invites' = [invites EXCEPT ![nextCode] = Fresh(c.who, c.arg.timed)]
      /\ nextCode' = nextCode + 1
      /\ kept' = (IF c.arg.timed THEN kept \ {c.who} ELSE kept \cup {c.who})
      /\ off' = off \ {c.who} /\ Overwrite(h)
      /\ Announce(h, c.who, IF c.op # "signup" THEN Idle ELSE Push(c.op, c.who, c.copy.addr))
      /\ UNCHANGED <<exists, emails, profiles, bounds, decided, gone>>
  BY DEF PutReferral
<1>6. /\ Moves(h)
      /\ task'[h] = IF c.op # "signup" THEN Idle ELSE Push(c.op, c.who, c.copy.addr)
  BY <1>1, <1>5, Announced DEF AllTyped
<1>7. InvitesTyped' /\ Evolves
  BY <1>3, <1>4, <1>5, Made DEF AllTyped
<1>8. lost' \subseteq Users \cup {Nobody} /\ kept' \subseteq exists' /\ off' \subseteq Users
  BY <1>3, <1>5 DEF Overwrite, AllTyped, TablesTyped
<1>9. TablesTyped'
  BY <1>5, <1>7, <1>8, TablesStay DEF AllTyped, TablesTyped, bounds
<1>10. ASSUME task'[h] # Idle PROVE Typed(h)' /\ ~WillMake(h)'
  <2>1. /\ IsTask(task'[h]) /\ task'[h].op = "signup" /\ task'[h].who = c.who
        /\ task'[h].at = "push" /\ task'[h].copy = NoRow /\ task'[h].arg = [addr |-> c.copy.addr]
    BY <1>6, <1>10, TaskIsTask DEF Push
  <2>2. UserSteps(task[h])'
    BY <2>1 DEF UserSteps
  <2>3. c.copy.addr \in Addresses \cup {NoAddr}
    BY <1>3, <1>6, <1>10
  <2>4. UserHolds(task[h])'
    BY <2>1, <2>3 DEF UserHolds
  <2> QED
    BY <1>3, <1>5, <2>1, <2>2, <2>4 DEF Typed, UserTask, UserOps, ProfileOps, WillMake
<1> QED
  BY <1>1, <1>2, <1>3, <1>5, <1>6, <1>7, <1>9, <1>10, MovedTyped DEF bounds

LEMMA DeleteTyped == ASSUME AllTyped, NEW h \in Workers, Delete(h) PROVE AllTyped'
<1> DEFINE c == task[h]
<1>1. task[h] # Idle /\ c.at = "delete"
  BY DEF Delete, At
<1>2. Works(h) /\ c.op = "expire" /\ UserTask(h)
  BY <1>1, Whereabouts
<1>3. /\ c.arg.code \in Codes /\ (c.who # Nobody => c.who \in Users)
  BY <1>1, <1>2 DEF UserTask, Expiring, AllTyped, TablesTyped
<1>4. /\ invites' = Without({c.arg.code})
      /\ off' \in {off, off \cup {c.who}} /\ (c.who = Nobody => off' = off)
      /\ kept' \in {kept, kept \ {c.who}} /\ gone' \in {gone, gone \cup {c.arg.code}}
      /\ Announce(h, IF c.who = Nobody THEN h ELSE c.who, Idle)
      /\ UNCHANGED <<exists, emails, nextCode, profiles, bounds, decided, lost>>
  BY DEF Delete
<1>5. Moves(h) /\ task'[h] = Idle
  BY <1>4, Announced DEF AllTyped
<1>6. InvitesTyped' /\ Evolves
  BY <1>4, Dropped DEF AllTyped
<1>7. TablesTyped'
  BY <1>3, <1>4, <1>6, TablesStay DEF AllTyped, TablesTyped, bounds
<1> QED
  BY <1>4, <1>5, <1>6, <1>7, MovedTyped DEF bounds

LEMMA SpendLastTyped == ASSUME AllTyped, NEW h \in Callers, SpendLast(h) PROVE AllTyped'
<1>1. PICK u \in Users : \E c \in Owned(u) :
        /\ invites' = Without({c}) /\ kept' = kept \ {u} /\ Announce(h, u, Idle)
  BY DEF SpendLast
<1>2. PICK c \in Codes : invites' = Without({c})
  BY <1>1 DEF Owned
<1>3. /\ UNCHANGED <<exists, emails, nextCode, profiles, events, mix, decided, off, gone, lost>>
      /\ Comes("spend") /\ h \in Workers
  BY DEF SpendLast, Workers
<1>4. Moves(h) /\ task'[h] = Idle
  BY <1>1, <1>3, Announced DEF AllTyped
<1>5. InvitesTyped' /\ Evolves
  BY <1>2, <1>3, Dropped DEF AllTyped
<1>6. calls' = calls + 1 /\ calls' \in 0..MaxCalls
  BY <1>3, AccountsAssumption DEF Comes, AllTyped, TablesTyped
<1>7. TablesTyped'
  BY <1>1, <1>3, <1>5, <1>6, TablesStay DEF AllTyped, TablesTyped
<1> QED
  BY <1>3, <1>4, <1>5, <1>6, <1>7, MovedTyped

LEMMA TimePassesTyped == ASSUME AllTyped, TimePasses PROVE AllTyped'
<1>1. PICK c \in Codes : /\ invites[c] # NoInvite
                         /\ invites' = [invites EXCEPT ![c].over = TRUE]
  BY DEF TimePasses
<1>2. UNCHANGED <<exists, emails, nextCode, profiles, task, calls, mix, ghosts>>
  BY DEF TimePasses
<1>3. InvitesTyped' /\ Evolves
  BY <1>1, <1>2, Over DEF AllTyped
<1>4. events' \in 0..MaxEvents
  BY AccountsAssumption DEF TimePasses, Happens, AllTyped, TablesTyped
<1>5. TablesTyped'
  BY <1>2, <1>3, <1>4, TablesStay DEF AllTyped, TablesTyped, ghosts
<1>6. Daemon \in Workers /\ task' = [task EXCEPT ![Daemon] = task[Daemon]]
  BY <1>2 DEF Workers, AllTyped, TasksTyped
<1>7. Moves(Daemon) /\ task'[Daemon] = task[Daemon]
  BY <1>6, GoesOn DEF AllTyped
<1>8. task[Daemon] # Idle => Typed(Daemon)'
  BY <1>3, <1>6, <1>7, TypedStays DEF AllTyped, TasksTyped, Typed, Works, Follows
<1>9. task[Daemon] # Idle => /\ task[Daemon].op = "expire" /\ task[Daemon].who # Nobody
                             /\ task[Daemon].arg.timed
  BY DEF AllTyped, TasksTyped, Works
<1>10. WillMake(Daemon)' <=> WillMake(Daemon)
  BY <1>2 DEF WillMake
<1> QED
  BY <1>2, <1>3, <1>5, <1>6, <1>7, <1>8, <1>9, <1>10, MovedTyped DEF Works

\* A profile is stored, with no template or with one that has a code.
LEMMA TablesOfProfiles ==
    ASSUME TablesTyped, NEW p \in Names, NEW profile \in Profile \cup {NoProfile},
           profile # NoProfile => TemplateCode(profile.tmpl),
           profiles' = [profiles EXCEPT ![p] = profile],
           UNCHANGED <<exists, emails, invites, nextCode, events, decided, off, kept, gone>>,
           calls' \in 0..MaxCalls, lost' \subseteq Users \cup {Nobody}
    PROVE  TablesTyped' /\ InvitesTyped' /\ Evolves
<1>1. InvitesTyped' /\ Evolves
  BY SameInvites
<1>2. \A k : TemplateCode(k)' <=> TemplateCode(k)
  BY DEF TemplateCode
<1>3. \A q \in Names : profiles'[q] # NoProfile => TemplateCode(profiles'[q].tmpl)
  BY DEF TablesTyped
<1>4. \A q \in Names : profiles'[q] # NoProfile => TemplateCode(profiles[q].tmpl)'
  BY <1>2, <1>3
<1>5. profiles' \in [Names -> Profile \cup {NoProfile}]
  BY DEF TablesTyped
<1> QED
  BY <1>1, <1>4, <1>5 DEF TablesTyped

LEMMA StoreProfileTyped ==
    ASSUME AllTyped, NEW p \in Names, NEW profile \in {EmptyProfile, NoProfile},
           StoreProfile(p, profile)
    PROVE  AllTyped'
<1>1. profile # NoProfile => profile \in Profile /\ TemplateCode(profile.tmpl)
  <2>1. EmptyProfile.tmpl = NoKey
    BY DEF EmptyProfile
  <2>2. profile # NoProfile => profile = EmptyProfile
    OBVIOUS
  <2> QED
    BY <2>1, <2>2, Records DEF TemplateCode
<1>2. /\ profiles' = [profiles EXCEPT ![p] = profile] /\ Comes("store")
      /\ Announce(Daemon, Nobody, task[Daemon])
      /\ UNCHANGED <<exists, emails, invites, nextCode, events, mix, ghosts>>
  BY DEF StoreProfile
<1>3. calls' = calls + 1 /\ calls' \in 0..MaxCalls
  BY <1>2, AccountsAssumption DEF Comes, AllTyped, TablesTyped
<1>4. TablesTyped' /\ InvitesTyped' /\ Evolves
  BY <1>1, <1>2, <1>3, TablesOfProfiles DEF AllTyped, TablesTyped, ghosts
<1>5. Daemon \in Workers
  BY DEF Workers
<1>6. Moves(Daemon) /\ task'[Daemon] = task[Daemon]
  BY <1>2, <1>5, Announced DEF AllTyped
<1>7. task[Daemon] # Idle => Typed(Daemon)'
  BY <1>4, <1>5, <1>6, TypedStays DEF AllTyped, TasksTyped, Typed, Works, Follows
<1>8. task[Daemon] # Idle => /\ task[Daemon].op = "expire" /\ task[Daemon].who # Nobody
                             /\ task[Daemon].arg.timed
  BY DEF AllTyped, TasksTyped, Works
<1> QED
  BY <1>2, <1>3, <1>4, <1>5, <1>6, <1>7, <1>8, MovedTyped

LEMMA ChangeTemplateTyped ==
    ASSUME AllTyped, NEW h \in Callers, ChangeTemplate(h) PROVE AllTyped'
<1> DEFINE c == task[h]
<1>1. /\ h \in Workers /\ h # Daemon /\ task[h] # Idle /\ c.at = "template of profile"
  BY AccountsAssumption DEF ChangeTemplate, At, Workers
<1>2. /\ Works(h) /\ IsTask(c) /\ c.op \in {"share", "unshare"} /\ ProfilesTask(h)
      /\ c.who = Nobody
  BY <1>1, Whereabouts
<1>3. /\ c.copy \in Profile /\ c.arg.to \in Names /\ c.arg.from = c.arg.to
      /\ c.op = "share" => c.arg.timed \in BOOLEAN
      /\ TemplateCode(c.copy.tmpl)
  BY <1>2 DEF ProfilesTask, ProfileHolds
<1> DEFINE made == IF c.op = "share" THEN nextCode ELSE NoKey
<1>4. /\ invites' = (IF c.op = "share"
                     THEN [invites EXCEPT ![nextCode] = Fresh(Nobody, c.arg.timed)]
                     ELSE Without({c.copy.tmpl}))
      /\ nextCode' = (IF c.op = "share" THEN nextCode + 1 ELSE nextCode)
      /\ task' = [task EXCEPT ![h].at = "write", ![h].copy.tmpl = made]
      /\ UNCHANGED <<exists, emails, profiles, bounds, ghosts>>
  BY DEF ChangeTemplate
<1>5. task' = [task EXCEPT ![h] = [c EXCEPT !.at = "write", !.copy.tmpl = made]]
  BY <1>1, <1>4 DEF AllTyped, TasksTyped
<1>6. /\ Moves(h) /\ task'[h] = [c EXCEPT !.at = "write", !.copy.tmpl = made]
  BY <1>1, <1>5, GoesOn DEF AllTyped
<1> HIDE DEF made
<1>7. c.op = "share" => WillMake(h)
  BY <1>1 DEF WillMake
<1>8. c.op = "share" =>
          /\ nextCode \in Codes /\ invites[nextCode] = NoInvite /\ invites'[nextCode] # NoInvite
          /\ invites'[nextCode].owner = Nobody /\ InvitesTyped' /\ Evolves
  BY <1>1, <1>2, <1>3, <1>4, <1>7, OneIsLeft, Made DEF AllTyped
<1>9. c.op = "unshare" => InvitesTyped' /\ Evolves
  BY <1>4, Dropped DEF AllTyped
<1>10. InvitesTyped' /\ Evolves
  BY <1>2, <1>8, <1>9
<1>11. TablesTyped'
  BY <1>4, <1>10, TablesStay DEF AllTyped, TablesTyped, bounds, ghosts
<1>12. /\ IsTask(task'[h]) /\ task'[h].op = c.op /\ task'[h].who = Nobody
       /\ task'[h].at = "write" /\ task'[h].copy = [c.copy EXCEPT !.tmpl = made]
       /\ task'[h].arg = c.arg
  BY <1>2, <1>6 DEF IsTask
<1>13. /\ made \in Codes \cup {NoKey} /\ task'[h].copy \in Profile /\ task'[h].copy.tmpl = made
  BY <1>3, <1>8, <1>12 DEF made, Profile
<1>14. TemplateCode(task[h].copy.tmpl)'
  <2>1. CASE c.op = "share"
    <3>1. task'[h].copy.tmpl = nextCode /\ nextCode < nextCode'
      BY <1>4, <1>13, <2>1 DEF made, AllTyped, TablesTyped, InvitesTyped
    <3> QED
      BY <1>8, <2>1, <3>1 DEF TemplateCode
  <2>2. CASE c.op # "share"
    BY <1>13, <2>2 DEF made, TemplateCode
  <2> QED
    BY <2>1, <2>2
<1>15. ProfileHolds(task[h])'
  BY <1>2, <1>3, <1>12, <1>13 DEF ProfileHolds
<1>16. Typed(h)'
  BY <1>2, <1>12, <1>13, <1>14, <1>15 DEF Typed, ProfilesTask, UserOps, ProfileOps
<1>17. ~WillMake(h)'
  BY <1>2, <1>12 DEF WillMake
<1> QED
  BY <1>1, <1>2, <1>4, <1>6, <1>7, <1>10, <1>11, <1>16, <1>17, MovedTyped DEF bounds

LEMMA WriteProfileTyped ==
    ASSUME AllTyped, NEW h \in Callers, WriteProfile(h) PROVE AllTyped'
<1> DEFINE c == task[h]
           next == IF c.arg.from # c.arg.to THEN [c EXCEPT !.at = "drop"] ELSE Idle
<1>1. /\ h \in Workers /\ h # Daemon /\ task[h] # Idle /\ c.at = "write" /\ Overwrite(h)
  BY AccountsAssumption DEF WriteProfile, At, Workers
<1>2. /\ Works(h) /\ IsTask(c) /\ c.op \in {"content", "share", "unshare"} /\ ProfilesTask(h)
      /\ c.who = Nobody
  BY <1>1, Whereabouts
<1>3. /\ c.copy \in Profile /\ c.arg.to \in Names /\ c.arg.from \in Names
      /\ TemplateCode(c.copy.tmpl)
      /\ c.op # "content" => c.arg.from = c.arg.to
  BY <1>2 DEF ProfilesTask, ProfileHolds
<1>4. /\ profiles' = [profiles EXCEPT ![c.arg.to] = c.copy]
      /\ Announce(h, Nobody, next)
      /\ UNCHANGED <<exists, emails, invites, nextCode, bounds, decided, off, kept, gone>>
  BY DEF WriteProfile
<1>5. lost' \subseteq Users \cup {Nobody}
  BY <1>1, <1>2 DEF Overwrite, AllTyped, TablesTyped
<1>6. TablesTyped' /\ InvitesTyped' /\ Evolves
  BY <1>3, <1>4, <1>5, TablesOfProfiles DEF AllTyped, TablesTyped, bounds
<1>7. Moves(h) /\ task'[h] = next
  BY <1>1, <1>4, Announced DEF AllTyped
<1>8. ASSUME task'[h] # Idle PROVE Typed(h)' /\ ~WillMake(h)'
  <2>1. c.arg.from # c.arg.to /\ task'[h] = [c EXCEPT !.at = "drop"] /\ c.op = "content"
    BY <1>2, <1>3, <1>7, <1>8
  <2>2. /\ IsTask(task'[h]) /\ task'[h].op = "content" /\ task'[h].who = Nobody
        /\ task'[h].at = "drop" /\ task'[h].copy = c.copy /\ task'[h].arg = c.arg
    BY <1>2, <2>1 DEF IsTask
  <2>3. ProfileHolds(task[h])'
    BY <1>3, <2>1, <2>2 DEF ProfileHolds
  <2>4. TemplateCode(task[h].copy.tmpl)'
    BY <1>3, <1>4, <2>2 DEF TemplateCode
  <2> QED
    BY <2>2, <2>3, <2>4 DEF Typed, ProfilesTask, UserOps, ProfileOps, WillMake
<1> QED
  BY <1>1, <1>2, <1>4, <1>6, <1>7, <1>8, MovedTyped DEF bounds

LEMMA DropProfileTyped ==
    ASSUME AllTyped, NEW h \in Callers, DropProfile(h) PROVE AllTyped'
<1> DEFINE c == task[h]
<1>1. /\ h \in Workers /\ h # Daemon /\ task[h] # Idle /\ c.op = "content" /\ Overwrite(h)
  BY AccountsAssumption DEF DropProfile, At, Workers
<1>2. Works(h) /\ c.who = Nobody /\ c.arg.from \in Names
  BY <1>1, Whereabouts DEF Typed, ProfilesTask, ProfileHolds, ProfileOps
<1>3. /\ profiles' = [profiles EXCEPT ![c.arg.from] = NoProfile] /\ Announce(h, Nobody, Idle)
      /\ UNCHANGED <<exists, emails, invites, nextCode, bounds, decided, off, kept, gone>>
  BY DEF DropProfile
<1>4. lost' \subseteq Users \cup {Nobody}
  BY <1>1, <1>2 DEF Overwrite, AllTyped, TablesTyped
<1>5. TablesTyped' /\ InvitesTyped' /\ Evolves
  BY <1>2, <1>3, <1>4, TablesOfProfiles DEF AllTyped, TablesTyped, bounds
<1>6. Moves(h) /\ task'[h] = Idle
  BY <1>1, <1>3, Announced DEF AllTyped
<1> QED
  BY <1>1, <1>3, <1>5, <1>6, MovedTyped DEF bounds

Less == {ss \in Nat \X Nat : ss[1] < ss[2]}
LEMMA LessIsWellFounded == IsWellFoundedOn(Less, Nat)
BY NatLessThanWellFounded DEF OpToRel, Less

\* ForEach takes the names in their order.
LEMMA LeastName ==
    ASSUME NEW S \in SUBSET Names, S # {} PROVE Min(S) \in S /\ \A x \in S : Min(S) <= x
<1>1. PICK x \in S : \A y \in S : <<y, x>> \notin Less
  BY LessIsWellFounded, WFMin, AccountsAssumption
<1>2. S \subseteq Nat
  BY AccountsAssumption
<1>3. \A y \in Nat : y < x => <<y, x>> \in Less
  BY <1>2 DEF Less
<1>4. \A y \in S : ~(y < x)
  BY <1>1, <1>2, <1>3, Zenon
<1>5. \A y \in S : x <= y
  BY <1>2, <1>4
<1> QED
  BY <1>5 DEF Min

LEMMA SetOneDefaultTyped ==
    ASSUME AllTyped, NEW h \in Callers, SetOneDefault(h) PROVE AllTyped'
<1> DEFINE c == task[h]
           p == Min(c.arg.left)
           profile == [c.copy.all[p] EXCEPT !.default = (p = c.arg.to)]
<1>1. /\ h \in Workers /\ h # Daemon /\ task[h] # Idle /\ c.at = "each" /\ Overwrite(h)
  BY AccountsAssumption DEF SetOneDefault, At, Workers
<1>2. Works(h) /\ IsTask(c) /\ c.op = "default" /\ ProfilesTask(h) /\ c.who = Nobody
  BY <1>1, Whereabouts
<1>3. /\ c.arg.left \in SUBSET Names /\ c.arg.left # {} /\ c.arg.to \in Names
      /\ c.arg = [to |-> c.arg.to, left |-> c.arg.left]
      /\ c.copy \in [all : [Names -> Profile \cup {NoProfile}]]
      /\ \A q \in c.arg.left : c.copy.all[q] # NoProfile /\ TemplateCode(c.copy.all[q].tmpl)
  BY <1>2 DEF ProfilesTask, ProfileHolds
<1>4. p \in c.arg.left /\ p \in Names
  BY <1>3, LeastName
<1>5. c.copy.all[p] \in Profile /\ TemplateCode(c.copy.all[p].tmpl)
  BY <1>3, <1>4
<1>6. profile \in Profile /\ TemplateCode(profile.tmpl)
  BY <1>5 DEF Profile
<1>7. /\ profiles' = [profiles EXCEPT ![p] = profile]
      /\ Announce(h, Nobody, IF c.arg.left = {p} THEN Idle ELSE [c EXCEPT !.arg.left = @ \ {p}])
      /\ UNCHANGED <<exists, emails, invites, nextCode, bounds, decided, off, kept, gone>>
  BY DEF SetOneDefault
<1>8. lost' \subseteq Users \cup {Nobody}
  BY <1>1, <1>2 DEF Overwrite, AllTyped, TablesTyped
<1>9. TablesTyped' /\ InvitesTyped' /\ Evolves
  <2> HIDE DEF p, profile
  <2> QED
    BY <1>4, <1>6, <1>7, <1>8, TablesOfProfiles DEF AllTyped, TablesTyped, bounds
<1>10. /\ Moves(h)
       /\ task'[h] = IF c.arg.left = {p} THEN Idle ELSE [c EXCEPT !.arg.left = @ \ {p}]
  BY <1>1, <1>7, Announced DEF AllTyped
<1> HIDE DEF p, profile
<1>11. ASSUME task'[h] # Idle PROVE Typed(h)' /\ ~WillMake(h)'
  <2>1. task'[h] = [c EXCEPT !.arg.left = @ \ {p}] /\ c.arg.left # {p}
    BY <1>10, <1>11
  <2>2. [c.arg EXCEPT !.left = @ \ {p}] = [to |-> c.arg.to, left |-> c.arg.left \ {p}]
    <3>1. PICK to, rest : c.arg = [to |-> to, left |-> rest]
      BY <1>3
    <3>2. [[to |-> to, left |-> rest] EXCEPT !.left = @ \ {p}] = [to |-> to, left |-> rest \ {p}]
      OBVIOUS
    <3>3. c.arg.to = to /\ c.arg.left = rest
      BY <3>1
    <3> QED
      BY <3>1, <3>2, <3>3
  <2>3. /\ IsTask(task'[h]) /\ task'[h].op = "default" /\ task'[h].who = Nobody
        /\ task'[h].at = "each" /\ task'[h].copy = c.copy
        /\ task'[h].arg = [to |-> c.arg.to, left |-> c.arg.left \ {p}]
    BY <1>1, <1>2, <2>1, <2>2 DEF IsTask
  <2>4. ProfileHolds(task[h])'
    <3>1. c.arg.left \ {p} # {}
      BY <1>3, <1>4, <2>1
    <3>2. /\ task'[h].arg = [to |-> task'[h].arg.to, left |-> task'[h].arg.left]
          /\ task'[h].arg.to = c.arg.to /\ task'[h].arg.left = c.arg.left \ {p}
      BY <2>3
    <3> QED
      BY <1>3, <2>3, <3>1, <3>2 DEF ProfileHolds
  <2>5. \A q \in task'[h].arg.left : TemplateCode(task[h].copy.all[q].tmpl)'
    BY <1>3, <1>7, <2>3 DEF TemplateCode
  <2> QED
    BY <2>3, <2>4, <2>5 DEF Typed, ProfilesTask, UserOps, ProfileOps, WillMake
<1> QED
  BY <1>1, <1>7, <1>9, <1>10, <1>11, MovedTyped DEF bounds

LEMMA CrashTyped == ASSUME AllTyped, Crash PROVE AllTyped'
<1>1. /\ task' = [w \in Workers |-> Idle]
      /\ UNCHANGED <<exists, emails, invites, nextCode, profiles, calls, mix, decided, off, kept,
                     gone>>
      /\ lost' = lost \cup {task[w].who : w \in {v \in Workers :
                  /\ task[v] # Idle
                  /\ \/ task[v].at \in {"write", "drop", "each"} /\ task[v].who = Nobody
                     \/ task[v].at = "put" /\ task[v].op = "mine"}}
  BY DEF Crash
<1>2. events' \in 0..MaxEvents
  BY AccountsAssumption DEF Crash, Happens, AllTyped, TablesTyped
<1>3. InvitesTyped' /\ Evolves
  BY <1>1, SameInvites DEF AllTyped
<1>4. lost' \subseteq Users \cup {Nobody}
  <2> SUFFICES ASSUME NEW v \in Workers, task[v] # Idle,
                      \/ task[v].at \in {"write", "drop", "each"} /\ task[v].who = Nobody
                      \/ task[v].at = "put" /\ task[v].op = "mine"
               PROVE  task[v].who \in Users \cup {Nobody}
    BY <1>1 DEF AllTyped, TablesTyped
  <2> QED
    BY OfUsers DEF UserOps
<1>5. TablesTyped'
  BY <1>1, <1>2, <1>3, <1>4, TablesStay DEF AllTyped, TablesTyped
<1>6. TasksTyped'
  BY <1>1 DEF TasksTyped, Works, Workers
<1>7. Makers' = {}
  BY <1>1 DEF Makers, Works
<1>8. CodesLeft'
  <2>1. nextCode <= calls + 3
    <3>1. Cardinality(Makers) \in Nat /\ nextCode + Cardinality(Makers) <= calls + 3
      BY FS_CardinalityType DEF AllTyped, CodesLeft
    <3>2. nextCode \in Nat /\ calls \in Nat
      BY AccountsAssumption DEF AllTyped, TablesTyped, InvitesTyped
    <3> QED
      BY <3>1, <3>2
  <2>2. nextCode \in Nat /\ calls \in Nat
    BY AccountsAssumption DEF AllTyped, TablesTyped, InvitesTyped
  <2> QED
    BY <1>1, <1>7, <2>1, <2>2, FS_EmptySet DEF CodesLeft
<1> QED
  BY <1>5, <1>6, <1>8 DEF AllTyped

LEMMA ElsewhereTyped == ASSUME AllTyped, Elsewhere PROVE AllTyped'
<1>1. /\ UNCHANGED <<exists, emails, invites, nextCode, profiles, calls, mix, ghosts>>
      /\ events' \in 0..MaxEvents
  BY DEF Elsewhere
<1>2. CASE UNCHANGED task
  <2>1. InvitesTyped' /\ Evolves
    BY <1>1, SameInvites DEF AllTyped
  <2>2. TablesTyped'
    BY <1>1, <2>1, TablesStay DEF AllTyped, TablesTyped, ghosts
  <2>3. Daemon \in Workers /\ task' = [task EXCEPT ![Daemon] = task[Daemon]]
    BY <1>2 DEF Workers, AllTyped, TasksTyped
  <2>4. Moves(Daemon) /\ task'[Daemon] = task[Daemon]
    BY <2>3, GoesOn DEF AllTyped
  <2>5. task[Daemon] # Idle => Typed(Daemon)'
    BY <2>1, <2>3, <2>4, TypedStays DEF AllTyped, TasksTyped, Typed, Works, Follows
  <2>6. task[Daemon] # Idle => /\ task[Daemon].op = "expire" /\ task[Daemon].who # Nobody
                               /\ task[Daemon].arg.timed
    BY DEF AllTyped, TasksTyped, Works
  <2>7. WillMake(Daemon)' <=> WillMake(Daemon)
    BY <1>2 DEF WillMake
  <2> QED
    BY <1>1, <2>1, <2>2, <2>3, <2>4, <2>5, <2>6, <2>7, MovedTyped DEF Works
<1>3. ASSUME NEW h \in Callers, End(h) PROVE AllTyped'
  <2>1. h \in Workers /\ task' = [task EXCEPT ![h] = Idle]
    BY <1>3 DEF End, Workers
  <2> QED
    BY <1>1, <2>1, LocalTyped DEF ghosts, AllTyped, TablesTyped
<1> QED
  BY <1>2, <1>3 DEF Elsewhere

LEMMA TypesStep == ASSUME AllTyped, AccountsStep PROVE AllTyped'
<1>1. CASE Crash
  BY <1>1, CrashTyped
<1>2. CASE Elsewhere
  BY <1>2, ElsewhereTyped
<1>3. CASE DaemonStep
  BY <1>3, SweepTyped, FindRowTyped, WriteRowTyped, DeleteTyped DEF DaemonStep, Workers
<1>4. CASE CreateProfile \/ DeleteProfile \/ TimePasses
  BY <1>4, StoreProfileTyped, TimePassesTyped DEF CreateProfile, DeleteProfile, Present
<1>5. ASSUME NEW h \in Callers, Request(h) PROVE AllTyped'
  <2>1. h \in Workers
    BY DEF Workers
  <2>2. CASE SetAccountsAdmin(h)
    <3>1. PICK u \in Users, admin \in BOOLEAN : ReadRow(h, "admin", u, [admin |-> admin])
      BY <2>2 DEF SetAccountsAdmin
    <3> QED
      BY <3>1, ReadRowTyped
  <2>3. CASE ModifyLabels(h)
    BY <2>3, ReadRowTyped DEF ModifyLabels
  <2>4. CASE ModifyEmail(h)
    <3>1. PICK u \in Users, addr \in Addresses \cup {NoAddr} :
              ReadRow(h, "email", u, [addr |-> addr])
      BY <2>4 DEF ModifyEmail
    <3> QED
      BY <3>1, ReadRowTyped
  <2>5. CASE ReplaceRawProfile(h) \/ SetJellyseerrProfile(h) \/ SetOmbiProfile(h)
    BY <2>5, ReadProfileTyped DEF ReplaceRawProfile, SetJellyseerrProfile, SetOmbiProfile
  <2>6. CASE EnableReferralForProfile(h) \/ DisableReferralForProfile(h)
    BY <2>6, ReadProfileTyped DEF EnableReferralForProfile, DisableReferralForProfile
  <2>7. CASE Signup(h) \/ StoreNewRow(h) \/ ShareTemplate(h)
    BY <2>7, SignupTyped, StoreNewRowTyped, ShareTemplateTyped
  <2>8. CASE EnableReferralForUsers(h) \/ WipeOut(h) \/ PutReferral(h)
    BY <2>8, ReferTyped, WipeOutTyped, PutReferralTyped
  <2>9. CASE DisableReferralForUsers(h) \/ FindRow(h) \/ WriteRow(h)
    BY <2>1, <2>9, DisableTyped, FindRowTyped, WriteRowTyped
  <2>10. CASE GetMyReferral(h) \/ FindTemplate(h) \/ DropReferral(h)
    BY <2>10, MineTyped, FindTemplateTyped, DropReferralTyped
  <2>11. CASE CheckInvite(h) \/ Delete(h) \/ SpendLast(h)
    BY <2>1, <2>11, CheckInviteTyped, DeleteTyped, SpendLastTyped
  <2>12. CASE ChangeTemplate(h) \/ WriteProfile(h) \/ DropProfile(h)
    BY <2>12, ChangeTemplateTyped, WriteProfileTyped, DropProfileTyped
  <2>13. CASE SetDefaultProfile(h) \/ SetOneDefault(h)
    BY <2>13, DefaultTyped, SetOneDefaultTyped
  <2> QED
    BY <1>5, <2>2, <2>3, <2>4, <2>5, <2>6, <2>7, <2>8, <2>9, <2>10, <2>11, <2>12, <2>13
    DEF Request
<1> QED
  BY <1>1, <1>2, <1>3, <1>4, <1>5 DEF AccountsStep, TableStep

-----------------------------------------------------------------------------
(* Rows: steps *)

\* Nothing of the rows changes, and only h may come to hold one.
LEMMA RowsStay ==
    ASSUME AllTyped, RowsInv, NEW h \in Workers, Moves(h), UNCHANGED <<emails, decided>>,
           exists \subseteq exists', exists' \subseteq Users, lost \subseteq lost',
           CopyIsFresh(h)' \/ Follows(h)
    PROVE  RowsInv'
<1>1. \A w \in Workers : Follows(w) => CopyIsFresh(w)'
  BY DEF RowsInv, CopyIsFresh, Follows, Works
<1>2. \A w \in Workers : CopyIsFresh(w)'
  BY <1>1 DEF Moves
<1>3. RowsAsDecided'
  <2> SUFFICES ASSUME NEW u \in exists' \ lost'
               PROVE  LET row == IF emails[u] = NoRow THEN EmptyRow ELSE emails[u]
                      IN  row.addr = decided[u].addr /\ row.admin = decided[u].admin
    BY DEF RowsAsDecided, EmptyRow
  <2>1. CASE u \in exists
    BY <2>1 DEF RowsInv, RowsAsDecided
  <2>2. CASE u \notin exists
    <3>1. emails[u] = NoRow /\ decided[u] = [addr |-> NoAddr, admin |-> FALSE]
      BY <2>2 DEF RowsInv
    <3> QED
      BY <3>1 DEF EmptyRow
  <2> QED
    BY <2>1, <2>2
<1> QED
  BY <1>2, <1>3 DEF RowsInv

\* A row is stored, and what is decided of its user changes with it.
LEMMA RowChanges ==
    ASSUME AllTyped, RowsInv, NEW h \in Workers, NEW u \in exists, NEW row \in Row, NEW d, NEW next,
           Announce(h, u, next), next # Idle => next.at # "row",
           emails' = [emails EXCEPT ![u] = row], decided' = [decided EXCEPT ![u] = d],
           exists' = exists, lost \subseteq lost',
           u \in lost' \/ (row.addr = d.addr /\ row.admin = d.admin)
    PROVE  RowsInv'
<1>1. /\ Moves(h) /\ task'[h] = next
      /\ \A w \in Workers \ {h} :
            Works(w) /\ task[w].who = u /\ task[w].at # "push" => task'[w].stale
  BY Announced DEF AllTyped
<1>2. \A v \in Users \ {u} : emails'[v] = emails[v] /\ decided'[v] = decided[v]
  BY DEF AllTyped, TablesTyped
<1>3. emails'[u] = row /\ decided'[u] = d /\ row # NoRow /\ u \in Users
  BY Records DEF AllTyped, TablesTyped
<1>4. ASSUME NEW w \in Workers PROVE CopyIsFresh(w)'
  <2>1. CASE w = h
    BY <1>1, <2>1 DEF CopyIsFresh, Works
  <2>2. CASE w # h /\ Works(w) /\ task[w].at = "row" /\ task[w].who # u
    <3>1. task[w].who \in Users
      BY <2>2, Whereabouts, OfUsers DEF Works
    <3> QED
      BY <1>1, <1>2, <2>2, <3>1 DEF Moves, Follows, CopyIsFresh, RowsInv, Works
  <2>3. CASE w # h /\ ~(Works(w) /\ task[w].at = "row" /\ task[w].who # u)
    BY <1>1, <2>3 DEF Moves, Follows, CopyIsFresh, Works
  <2> QED
    BY <2>1, <2>2, <2>3
<1>5. RowsAsDecided'
  <2> SUFFICES ASSUME NEW v \in exists' \ lost'
               PROVE  LET r == IF emails'[v] = NoRow THEN EmptyRow ELSE emails'[v]
                      IN  r.addr = decided'[v].addr /\ r.admin = decided'[v].admin
    BY DEF RowsAsDecided, EmptyRow
  <2>1. CASE v = u
    BY <1>3, <2>1
  <2>2. CASE v # u
    BY <1>2, <2>2 DEF RowsInv, RowsAsDecided, AllTyped, TablesTyped
  <2> QED
    BY <2>1, <2>2
<1>6. \A v \in Users \ exists' :
          emails'[v] = NoRow /\ decided'[v] = [addr |-> NoAddr, admin |-> FALSE]
  BY <1>2 DEF RowsInv
<1> QED
  BY <1>4, <1>5, <1>6 DEF RowsInv

LEMMA WriteRowRows ==
    ASSUME AllTyped, RowsInv, NEW h \in Workers, WriteRow(h) PROVE RowsInv'
<1> DEFINE c == task[h]
           u == c.who
           next == CASE c.op = "email" -> Push("email", u, c.arg.addr)
                     [] c.op = "expire" -> [c EXCEPT !.at = "delete"]
                     [] OTHER -> Idle
           d == CASE c.op = "admin" -> [decided[u] EXCEPT !.admin = c.arg.admin]
                  [] c.op = "email" ->
                        IF c.copy # NoRow /\ c.copy.addr # NoAddr
                        THEN [decided[u] EXCEPT !.addr = c.arg.addr]
                        ELSE [addr |-> c.arg.addr, admin |-> FALSE]
                  [] OTHER -> decided[u]
<1>1. At(h, "row") /\ c.op # "signup" /\ Overwrite(h) /\ task[h] # Idle /\ c.at = "row"
  BY DEF WriteRow, At
<1>2. u \in exists /\ Stored(c) \in Row /\ c.op \in UserOps \ {"refer", "signup"}
  BY <1>1, ChangedRowTyped
<1>3. u \in Users /\ decided \in [Users -> [addr : Addresses \cup {NoAddr}, admin : BOOLEAN]]
  BY <1>2 DEF AllTyped, TablesTyped
<1>4. /\ emails' = [emails EXCEPT ![u] = Stored(c)] /\ exists' = exists
      /\ decided' = CASE c.op = "admin" -> [decided EXCEPT ![u].admin = c.arg.admin]
                      [] c.op = "email" ->
                            IF c.copy # NoRow /\ c.copy.addr # NoAddr
                            THEN [decided EXCEPT ![u].addr = c.arg.addr]
                            ELSE [decided EXCEPT ![u] = [addr |-> c.arg.addr, admin |-> FALSE]]
                      [] OTHER -> decided
      /\ Announce(h, u, next)
  BY DEF WriteRow
<1>5. c.op = "email" => c.arg.addr \in Addresses \cup {NoAddr}
  BY <1>1, Whereabouts DEF UserTask, UserHolds
<1>6. lost' = IF c.stale THEN lost \cup {u} ELSE lost
  BY <1>1 DEF Overwrite
<1>7. u \notin lost' => ~c.stale /\ u \notin lost /\ c.copy = emails[u]
  BY <1>1, <1>6 DEF RowsInv, CopyIsFresh, Works
<1>8. u \notin lost' => LET r == IF c.copy = NoRow THEN EmptyRow ELSE c.copy
                        IN  r.addr = decided[u].addr /\ r.admin = decided[u].admin
  BY <1>2, <1>7 DEF RowsInv, RowsAsDecided
<1>9. next # Idle => next.at # "row"
  <2>1. CASE c.op = "email"
    <3>1. next = Push("email", u, c.arg.addr)
      BY <2>1
    <3> QED
      BY <3>1, TaskIsTask DEF Push
  <2>2. CASE c.op = "expire"
    <3>1. next = [c EXCEPT !.at = "delete"] /\ IsTask(c)
      BY <1>1, <2>2, Whereabouts
    <3> QED
      BY <3>1 DEF IsTask
  <2>3. CASE c.op \notin {"email", "expire"}
    BY <2>3
  <2> QED
    BY <2>1, <2>2, <2>3
<1> HIDE DEF next
<1> DEFINE copy == IF c.copy = NoRow THEN EmptyRow ELSE c.copy
<1>10. Stored(c) = CASE c.op = "admin" -> [copy EXCEPT !.admin = c.arg.admin]
          [] c.op = "label" -> copy
          [] c.op = "email" /\ copy.addr = NoAddr -> [EmptyRow EXCEPT !.addr = c.arg.addr]
          [] c.op = "email" /\ copy.addr # NoAddr -> [copy EXCEPT !.addr = c.arg.addr]
          [] OTHER -> [copy EXCEPT !.tmpl = NoKey]
  BY DEF Stored
<1>11. /\ copy \in Row
       /\ u \notin lost' => copy.addr = decided[u].addr /\ copy.admin = decided[u].admin
  BY <1>1, <1>8, Records, Whereabouts DEF UserTask, UserHolds
<1>12. copy.addr = NoAddr <=> ~(c.copy # NoRow /\ c.copy.addr # NoAddr)
  BY DEF EmptyRow
<1> HIDE DEF copy
<1>13. decided' = [decided EXCEPT ![u] = d]
  <2> HIDE DEF c, u
  <2>1. CASE c.op = "admin"
    <3>1. decided' = [decided EXCEPT ![u].admin = c.arg.admin]
      BY <1>4, <2>1
    <3> QED
      BY <2>1, <3>1
  <2>2. CASE c.op = "email"
    BY <1>4, <2>2
  <2>3. CASE c.op \notin {"admin", "email"}
    <3>1. decided' = decided /\ d = decided[u]
      BY <1>4, <2>3
    <3> QED
      BY <1>3, <3>1
  <2> QED
    BY <2>1, <2>2, <2>3
<1>14. u \in lost' \/ (Stored(c).addr = d.addr /\ Stored(c).admin = d.admin)
  <2>1. CASE c.op = "admin"
    <3>1. Stored(c) = [copy EXCEPT !.admin = c.arg.admin]
          /\ d = [decided[u] EXCEPT !.admin = c.arg.admin]
      BY <1>10, <2>1
    <3> HIDE DEF d
    <3>2. Stored(c).admin = c.arg.admin /\ Stored(c).addr = copy.addr
      BY <1>11, <3>1 DEF Row
    <3>3. d.admin = c.arg.admin /\ d.addr = decided[u].addr
      BY <1>3, <3>1
    <3> QED
      BY <1>11, <3>2, <3>3
  <2>2. CASE c.op = "email" /\ copy.addr = NoAddr
    <3>1. Stored(c) = [EmptyRow EXCEPT !.addr = c.arg.addr]
          /\ d = [addr |-> c.arg.addr, admin |-> FALSE]
      BY <1>10, <1>12, <2>2
    <3> HIDE DEF d
    <3> QED
      BY <3>1 DEF EmptyRow
  <2>3. CASE c.op = "email" /\ copy.addr # NoAddr
    <3>1. Stored(c) = [copy EXCEPT !.addr = c.arg.addr]
          /\ d = [decided[u] EXCEPT !.addr = c.arg.addr]
      BY <1>10, <1>12, <2>3
    <3> HIDE DEF d
    <3>2. Stored(c).addr = c.arg.addr /\ Stored(c).admin = copy.admin
      BY <1>11, <3>1 DEF Row
    <3>3. d.addr = c.arg.addr /\ d.admin = decided[u].admin
      BY <1>3, <3>1
    <3> QED
      BY <1>11, <3>2, <3>3
  <2>4. CASE c.op = "label"
    <3>1. Stored(c) = copy /\ d = decided[u]
      BY <1>10, <2>4
    <3> QED
      BY <1>11, <3>1
  <2>5. CASE c.op \notin {"admin", "email", "label"}
    <3>1. Stored(c) = [copy EXCEPT !.tmpl = NoKey] /\ d = decided[u]
      BY <1>10, <2>5
    <3> QED
      BY <1>11, <3>1 DEF Row
  <2> QED
    BY <2>1, <2>2, <2>3, <2>4, <2>5
<1> HIDE DEF d
<1> QED
  BY <1>2, <1>4, <1>6, <1>9, <1>13, <1>14, RowChanges

LEMMA StoreNewRowRows ==
    ASSUME AllTyped, RowsInv, NEW h \in Callers, StoreNewRow(h) PROVE RowsInv'
<1> DEFINE c == task[h]
           u == c.who
           stored == c.copy.addr # NoAddr \/ c.arg.tmpl # NoKey
           next == [c EXCEPT !.at = "share"]
<1>1. /\ At(h, "row") /\ c.op = "signup" /\ Overwrite(h) /\ task[h] # Idle /\ c.at = "row"
      /\ h \in Workers
  BY DEF StoreNewRow, At, Workers
<1>2. /\ u \in exists /\ u \in Users /\ c.copy \in Row /\ ~c.copy.admin /\ IsTask(c)
  BY <1>1, Whereabouts, OfUsers DEF UserTask, UserHolds
<1>3. /\ emails' = (IF stored THEN [emails EXCEPT ![u] = c.copy] ELSE emails)
      /\ decided' = (IF stored THEN [decided EXCEPT ![u].addr = c.copy.addr] ELSE decided)
      /\ Announce(h, u, next) /\ exists' = exists
      /\ lost' = IF c.stale THEN lost \cup {u} ELSE lost
  BY DEF StoreNewRow, Overwrite
<1>4. next # Idle /\ next.at # "row"
  BY <1>2 DEF IsTask, Idle
<1>5. Moves(h) /\ task'[h] = next
  BY <1>1, <1>3, Announced DEF AllTyped
<1> HIDE DEF next
<1>6. CASE stored
  <2>1. decided' = [decided EXCEPT ![u] = [decided[u] EXCEPT !.addr = c.copy.addr]]
    BY <1>3, <1>6
  <2>2. u \notin lost' => emails[u] = NoRow /\ u \notin lost
    BY <1>1, <1>3 DEF RowsInv, CopyIsFresh, Works
  <2>3. u \notin lost' => ~decided[u].admin
    BY <1>2, <2>2 DEF RowsInv, RowsAsDecided, EmptyRow
  <2>4. decided[u] \in [addr : Addresses \cup {NoAddr}, admin : BOOLEAN]
    BY <1>2 DEF AllTyped, TablesTyped
  <2>5. /\ [decided[u] EXCEPT !.addr = c.copy.addr].addr = c.copy.addr
        /\ [decided[u] EXCEPT !.addr = c.copy.addr].admin = decided[u].admin
    BY <2>4
  <2>6. u \in lost' \/ ([decided[u] EXCEPT !.addr = c.copy.addr].admin = c.copy.admin)
    BY <1>2, <2>3, <2>4, <2>5 DEF Row
  <2> QED
    BY <1>1, <1>2, <1>3, <1>4, <1>6, <2>1, <2>5, <2>6, RowChanges
<1>7. CASE ~stored
  <2>1. CopyIsFresh(h)'
    BY <1>4, <1>5 DEF CopyIsFresh
  <2> QED
    BY <1>1, <1>3, <1>5, <1>7, <2>1, RowsStay DEF AllTyped, TablesTyped
<1> QED
  BY <1>6, <1>7

\* Every other step leaves the rows.
LEMMA RowsLeft ==
    ASSUME AllTyped, RowsInv, NEW h \in Workers, NEW s, NEW next, Announce(h, s, next),
           next = Idle \/ next.at # "row" \/ next = task[h],
           UNCHANGED <<exists, emails, decided>>, lost \subseteq lost'
    PROVE  RowsInv'
<1>1. Moves(h) /\ task'[h] = next
  BY Announced DEF AllTyped
<1>2. CopyIsFresh(h)' \/ Follows(h)
  BY <1>1 DEF CopyIsFresh, Follows, AllTyped, TasksTyped, Typed, Works
<1> QED
  BY <1>1, <1>2, RowsStay DEF AllTyped, TablesTyped

LEMMA RowsBegun ==
    ASSUME AllTyped, RowsInv, NEW h \in Callers, NEW op, NEW who, NEW pos, NEW copy, NEW arg,
           Begin(h, Task(op, who, pos, copy, arg)), UNCHANGED <<emails, decided, lost>>,
           exists \subseteq exists', exists' \subseteq Users,
           \/ pos # "row" \/ (op = "signup" /\ emails[who] = NoRow)
           \/ (op # "signup" /\ copy = emails[who])
    PROVE  RowsInv'
<1>1. /\ Moves(h) /\ task'[h] # Idle /\ task'[h].op = op /\ task'[h].who = who
      /\ task'[h].at = pos /\ task'[h].copy = copy /\ h \in Workers
  BY Begun DEF AllTyped, Workers
<1>2. CopyIsFresh(h)'
  BY <1>1 DEF CopyIsFresh
<1> QED
  BY <1>1, <1>2, RowsStay

LEMMA FindRowRows ==
    ASSUME AllTyped, RowsInv, NEW h \in Workers, FindRow(h) PROVE RowsInv'
<1> DEFINE c == task[h]
           row == emails[c.who]
           next == IF row # NoRow THEN [c EXCEPT !.at = "row", !.copy = row]
                   ELSE IF c.op = "expire" THEN [c EXCEPT !.at = "delete"] ELSE Idle
<1>1. /\ task' = [task EXCEPT ![h] = next]
      /\ UNCHANGED <<exists, emails, decided, lost>>
  BY DEF FindRow
<1>2. IsTask(c) /\ c.op \in {"unrefer", "mine", "expire"}
  BY Whereabouts DEF FindRow, At
<1>3. Moves(h) /\ task'[h] = next
  BY <1>1, GoesOn DEF AllTyped
<1>4. CopyIsFresh(h)'
  <2>1. CASE row # NoRow
    <3>1. task'[h] = [c EXCEPT !.at = "row", !.copy = row]
      BY <1>3, <2>1
    <3>2. task'[h].op # "signup" /\ task'[h].who = c.who /\ task'[h].copy = row
      BY <1>2, <3>1 DEF IsTask
    <3> QED
      BY <1>1, <3>2 DEF CopyIsFresh
  <2>2. CASE row = NoRow /\ c.op = "expire"
    <3>1. task'[h] = [c EXCEPT !.at = "delete"]
      BY <1>3, <2>2
    <3>2. task'[h].at # "row"
      BY <1>2, <3>1 DEF IsTask
    <3> QED
      BY <3>2 DEF CopyIsFresh
  <2>3. CASE row = NoRow /\ c.op # "expire"
    BY <1>3, <2>3 DEF CopyIsFresh, Works
  <2> QED
    BY <2>1, <2>2, <2>3
<1> QED
  BY <1>1, <1>3, <1>4, RowsStay DEF AllTyped, TablesTyped

LEMMA RowsOfLocal ==
    ASSUME AllTyped, RowsInv, NEW h \in Callers,
           ShareTemplate(h) \/ FindTemplate(h) \/ ChangeTemplate(h)
    PROVE  RowsInv'
<1>1. h \in Workers /\ UNCHANGED <<exists, emails, decided, lost>>
  BY DEF Workers, ShareTemplate, FindTemplate, ChangeTemplate, ghosts
<1>2. PICK next : task' = [task EXCEPT ![h] = next] /\ (next # Idle => next.at # "row")
  <2>1. task[h] # Idle /\ IsTask(task[h]) /\ task = [w \in Workers |-> task[w]]
    BY <1>1, Whereabouts DEF ShareTemplate, FindTemplate, ChangeTemplate, At, AllTyped, TasksTyped
  <2>2. CASE ShareTemplate(h)
    <3>1. PICK timed \in BOOLEAN :
            task' = [task EXCEPT ![h] = IF timed
                                 THEN [task[h] EXCEPT !.at = "put", !.arg = [timed |-> TRUE]]
                                 ELSE Push("signup", task[h].who, task[h].copy.addr)]
      BY <2>2 DEF ShareTemplate
    <3>2. [task[h] EXCEPT !.at = "put", !.arg = [timed |-> TRUE]].at # "row"
      BY <2>1 DEF IsTask
    <3>3. Push("signup", task[h].who, task[h].copy.addr).at # "row"
      BY TaskIsTask DEF Push
    <3> QED
      BY <3>1, <3>2, <3>3
  <2>3. CASE FindTemplate(h)
    <3>1. PICK found, timed :
            task' = [task EXCEPT ![h] = IF found
                                 THEN [task[h] EXCEPT !.at = "put", !.arg = [timed |-> timed]]
                                 ELSE Idle]
      BY <2>3 DEF FindTemplate
    <3>2. [task[h] EXCEPT !.at = "put", !.arg = [timed |-> timed]].at # "row"
      BY <2>1 DEF IsTask
    <3> QED
      BY <3>1, <3>2
  <2>4. CASE ChangeTemplate(h)
    <3>1. PICK made : task' = [task EXCEPT ![h].at = "write", ![h].copy.tmpl = made]
      BY <2>4 DEF ChangeTemplate
    <3>2. task' = [task EXCEPT ![h] = [task[h] EXCEPT !.at = "write", !.copy.tmpl = made]]
      BY <1>1, <2>1, <3>1
    <3>3. [task[h] EXCEPT !.at = "write", !.copy.tmpl = made].at # "row"
      BY <2>1 DEF IsTask
    <3> QED
      BY <3>2, <3>3
  <2> QED
    BY <2>2, <2>3, <2>4
<1>3. Moves(h) /\ task'[h] = next
  BY <1>1, <1>2, GoesOn DEF AllTyped
<1>4. CopyIsFresh(h)'
  BY <1>2, <1>3 DEF CopyIsFresh, Works
<1> QED
  BY <1>1, <1>3, <1>4, RowsStay DEF AllTyped, TablesTyped

LEMMA RowsOfReferrals ==
    ASSUME AllTyped, RowsInv, NEW h \in Workers,
           \/ WipeOut(h) \/ PutReferral(h) \/ DisableReferralForUsers(h) \/ DropReferral(h)
           \/ Delete(h) \/ SpendLast(h)
    PROVE  RowsInv'
<1>1. UNCHANGED <<exists, emails, decided>> /\ lost \subseteq lost'
  BY DEF WipeOut, PutReferral, DisableReferralForUsers, DropReferral, Delete, SpendLast,
         Overwrite, ghosts
<1>2. task[h] # Idle => IsTask(task[h])
  BY Whereabouts
<1>3. PICK s, next : Announce(h, s, next) /\ (next # Idle => next.at # "row")
  <2>1. CASE WipeOut(h)
    <3>1. [task[h] EXCEPT !.at = "put"].at # "row"
      BY <1>2, <2>1 DEF WipeOut, At, IsTask
    <3> QED
      BY <2>1, <3>1 DEF WipeOut
  <2>2. CASE PutReferral(h)
    <3>1. PICK over \in BOOLEAN : Announce(h, task[h].who, IF over THEN Idle
                                     ELSE Push(task[h].op, task[h].who, task[h].copy.addr))
      BY <2>2 DEF PutReferral
    <3>2. Push(task[h].op, task[h].who, task[h].copy.addr).at # "row"
      BY TaskIsTask DEF Push
    <3> QED
      BY <3>1, <3>2
  <2>3. CASE DisableReferralForUsers(h)
    BY <2>3, TaskIsTask DEF DisableReferralForUsers
  <2>4. CASE DropReferral(h)
    <3>1. PICK timed \in BOOLEAN :
            Announce(h, task[h].who, IF timed THEN [task[h] EXCEPT !.at = "find"]
                               ELSE [task[h] EXCEPT !.at = "put", !.arg = [timed |-> FALSE]])
      BY <2>4 DEF DropReferral
    <3>2. /\ [task[h] EXCEPT !.at = "find"].at # "row"
          /\ [task[h] EXCEPT !.at = "put", !.arg = [timed |-> FALSE]].at # "row"
      BY <1>2, <2>4 DEF DropReferral, At, IsTask
    <3> QED
      BY <3>1, <3>2
  <2>5. CASE Delete(h)
    BY <2>5 DEF Delete
  <2>6. CASE SpendLast(h)
    BY <2>6 DEF SpendLast
  <2> QED
    BY <2>1, <2>2, <2>3, <2>4, <2>5, <2>6
<1> QED
  BY <1>1, <1>3, RowsLeft

LEMMA RowsOfProfiles ==
    ASSUME AllTyped, RowsInv, NEW h \in Callers,
           WriteProfile(h) \/ DropProfile(h) \/ SetOneDefault(h)
    PROVE  RowsInv'
<1>1. /\ h \in Workers /\ UNCHANGED <<exists, emails, decided>> /\ lost \subseteq lost'
      /\ task[h] # Idle /\ IsTask(task[h])
  BY Whereabouts DEF Workers, WriteProfile, DropProfile, SetOneDefault, Overwrite, At
<1>2. PICK s, next : Announce(h, s, next) /\ (next # Idle => next.at # "row")
  <2>1. CASE WriteProfile(h)
    <3>1. PICK more \in BOOLEAN :
              Announce(h, Nobody, IF more THEN [task[h] EXCEPT !.at = "drop"] ELSE Idle)
      BY <2>1 DEF WriteProfile
    <3>2. [task[h] EXCEPT !.at = "drop"].at # "row"
      BY <1>1 DEF IsTask
    <3> QED
      BY <3>1, <3>2
  <2>2. CASE DropProfile(h)
    BY <2>2 DEF DropProfile
  <2>3. CASE SetOneDefault(h)
    <3>1. PICK last, p :
              Announce(h, Nobody, IF last THEN Idle ELSE [task[h] EXCEPT !.arg.left = @ \ {p}])
      BY <2>3 DEF SetOneDefault
    <3>2. [task[h] EXCEPT !.arg.left = @ \ {p}].at # "row"
      BY <1>1, <2>3 DEF IsTask, SetOneDefault, At
    <3> QED
      BY <3>1, <3>2
  <2> QED
    BY <2>1, <2>2, <2>3
<1> QED
  BY <1>1, <1>2, RowsLeft

LEMMA RowsOfRequest ==
    ASSUME AllTyped, RowsInv, NEW h \in Callers, Request(h) PROVE RowsInv'
<1>1. h \in Workers /\ exists \subseteq Users
  BY DEF Workers, AllTyped, TablesTyped
<1>2. ASSUME NEW op, NEW u, NEW arg, op # "signup", ReadRow(h, op, u, arg) PROVE RowsInv'
  BY <1>1, <1>2, RowsBegun DEF ReadRow, ghosts
<1>3. CASE SetAccountsAdmin(h) \/ ModifyLabels(h) \/ ModifyEmail(h)
  BY <1>2, <1>3 DEF SetAccountsAdmin, ModifyLabels, ModifyEmail
<1>4. CASE Signup(h)
  <2>1. PICK u \in Users \ exists : \E copy, arg :
            exists' = exists \cup {u} /\ Begin(h, Task("signup", u, "row", copy, arg))
    BY <1>4 DEF Signup
  <2>2. emails[u] = NoRow
    BY DEF RowsInv
  <2> QED
    BY <1>1, <1>4, <2>1, <2>2, RowsBegun DEF Signup, ghosts
<1>5. CASE WriteRow(h) \/ StoreNewRow(h)
  BY <1>1, <1>5, WriteRowRows, StoreNewRowRows
<1>6. ASSUME NEW op, NEW pos, NEW from, NEW to, NEW timed, pos # "row",
             ReadProfile(h, op, pos, from, to, timed)
      PROVE  RowsInv'
  BY <1>1, <1>6, RowsBegun DEF ReadProfile, ghosts
<1>7. CASE \/ ReplaceRawProfile(h) \/ SetJellyseerrProfile(h) \/ SetOmbiProfile(h)
           \/ EnableReferralForProfile(h) \/ DisableReferralForProfile(h)
  BY <1>6, <1>7 DEF ReplaceRawProfile, SetJellyseerrProfile, SetOmbiProfile,
                    EnableReferralForProfile, DisableReferralForProfile
<1>8. CASE EnableReferralForUsers(h) \/ GetMyReferral(h) \/ CheckInvite(h) \/ SetDefaultProfile(h)
  <2>1. UNCHANGED <<exists, emails, ghosts>>
    BY <1>8 DEF EnableReferralForUsers, GetMyReferral, CheckInvite, SetDefaultProfile
  <2>2. PICK op, who, pos, copy, arg : pos # "row" /\ Begin(h, Task(op, who, pos, copy, arg))
    <3>1. CASE EnableReferralForUsers(h)
      BY <3>1 DEF EnableReferralForUsers
    <3>2. CASE GetMyReferral(h)
      BY <3>2 DEF GetMyReferral
    <3>3. CASE CheckInvite(h)
      <4>1. \A b \in BOOLEAN : (IF b THEN "find" ELSE "delete") # "row"
        OBVIOUS
      <4> QED
        BY <3>3, <4>1 DEF CheckInvite, DeleteExpiredInvite
    <3>4. CASE SetDefaultProfile(h)
      BY <3>4 DEF SetDefaultProfile
    <3> QED
      BY <1>8, <3>1, <3>2, <3>3, <3>4
  <2> QED
    BY <1>1, <2>1, <2>2, RowsBegun DEF ghosts
<1>9. CASE FindRow(h)
  BY <1>1, <1>9, FindRowRows
<1>10. CASE ShareTemplate(h) \/ FindTemplate(h) \/ ChangeTemplate(h)
  BY <1>10, RowsOfLocal
<1>11. CASE \/ WipeOut(h) \/ PutReferral(h) \/ DisableReferralForUsers(h) \/ DropReferral(h)
            \/ Delete(h) \/ SpendLast(h)
  BY <1>1, <1>11, RowsOfReferrals
<1>12. CASE WriteProfile(h) \/ DropProfile(h) \/ SetOneDefault(h)
  BY <1>12, RowsOfProfiles
<1> QED
  BY <1>3, <1>4, <1>5, <1>7, <1>8, <1>9, <1>10, <1>11, <1>12 DEF Request

LEMMA RowsStep == ASSUME AllTyped, RowsInv, AccountsStep PROVE RowsInv'
<1>1. exists \subseteq Users /\ Daemon \in Workers
  BY DEF AllTyped, TablesTyped, Workers
<1>2. CASE Crash
  <2>1. /\ UNCHANGED <<exists, emails, decided>> /\ lost \subseteq lost'
        /\ \A w \in Workers : task'[w] = Idle
    BY <1>2 DEF Crash
  <2> QED
    BY <2>1 DEF RowsInv, CopyIsFresh, RowsAsDecided, Works, EmptyRow
<1>3. CASE Elsewhere
  <2>1. UNCHANGED <<exists, emails, decided, lost>>
    BY <1>3 DEF Elsewhere, ghosts
  <2>2. CASE UNCHANGED task
    BY <2>1, <2>2 DEF RowsInv, CopyIsFresh, RowsAsDecided, Works
  <2>3. ASSUME NEW h \in Callers, End(h) PROVE RowsInv'
    <3>1. h \in Workers /\ Moves(h) /\ task'[h] = Idle
      BY <2>3, GoesOn DEF End, Workers, AllTyped
    <3>2. CopyIsFresh(h)'
      BY <3>1 DEF CopyIsFresh, Works
    <3> QED
      BY <1>1, <2>1, <3>1, <3>2, RowsStay
  <2> QED
    BY <1>3, <2>2, <2>3 DEF Elsewhere
<1>4. CASE Sweep
  <2>1. PICK c \in Codes : task' = [task EXCEPT ![Daemon] = DeleteExpiredInvite(c)]
    BY <1>4 DEF Sweep
  <2>2. UNCHANGED <<exists, emails, decided, lost>>
    BY <1>4 DEF Sweep, ghosts
  <2>3. Moves(Daemon) /\ task'[Daemon] = DeleteExpiredInvite(c)
    BY <1>1, <2>1, GoesOn DEF AllTyped
  <2>4. DeleteExpiredInvite(c).at # "row"
    BY TaskIsTask DEF DeleteExpiredInvite
  <2>5. CopyIsFresh(Daemon)'
    BY <2>3, <2>4 DEF CopyIsFresh
  <2> QED
    BY <1>1, <2>2, <2>3, <2>5, RowsStay
<1>5. CASE FindRow(Daemon) \/ WriteRow(Daemon) \/ Delete(Daemon)
  BY <1>1, <1>5, FindRowRows, WriteRowRows, RowsOfReferrals
<1>6. CASE CreateProfile \/ DeleteProfile
  <2>1. PICK p, profile : StoreProfile(p, profile)
    BY <1>6 DEF CreateProfile, DeleteProfile
  <2> QED
    BY <1>1, <2>1, RowsLeft DEF StoreProfile, ghosts
<1>7. CASE TimePasses
  <2>1. UNCHANGED <<exists, emails, task, decided, lost>>
    BY <1>7 DEF TimePasses, ghosts
  <2> QED
    BY <2>1 DEF RowsInv, CopyIsFresh, RowsAsDecided, Works
<1> QED
  BY <1>2, <1>3, <1>4, <1>5, <1>6, <1>7, RowsOfRequest DEF AccountsStep, TableStep, DaemonStep

-----------------------------------------------------------------------------
(* Referrals: steps *)

\* The row has no other template than it had.
RowLeft(u) ==
    emails'[u] # NoRow /\ emails'[u].tmpl # NoKey =>
        emails[u] # NoRow /\ emails'[u].tmpl = emails[u].tmpl
\* What the user has is what he had.
Left(u) == Owned(u)' = Owned(u) /\ RowLeft(u)

LEMMA Fewer ==
    ASSUME AllTyped, Evolves, NEW u \in Users, RowLeft(u), Owned(u)' \subseteq Owned(u)
    PROVE  /\ \A c \in Owned(u)' : c \in Codes /\ invites'[c].timed = invites[c].timed
           /\ HasReferrals(u)' => HasReferrals(u)
           /\ emails[u] = NoRow \/ emails[u].tmpl = NoKey =>
                 emails'[u] = NoRow \/ emails'[u].tmpl = NoKey
<1>1. ASSUME NEW c \in Owned(u)' PROVE c \in Codes /\ invites'[c].timed = invites[c].timed
  <2>1. c \in Codes /\ invites[c] # NoInvite /\ invites'[c] # NoInvite
    BY <1>1 DEF Owned
  <2>2. c < nextCode
    BY <2>1 DEF AllTyped, TablesTyped, InvitesTyped, Codes
  <2> QED
    BY <2>1, <2>2 DEF Evolves
<1>2. HasReferrals(u)' => HasReferrals(u)
  <2>1. SUFFICES ASSUME emails'[u] # NoRow, emails'[u].tmpl # NoKey,
                        invites'[emails'[u].tmpl] # NoInvite
                 PROVE  HasReferrals(u)
    BY DEF HasReferrals
  <2>2. emails[u] # NoRow /\ emails'[u].tmpl = emails[u].tmpl
    BY <2>1 DEF RowLeft
  <2>3. emails[u].tmpl \in Codes /\ emails[u].tmpl < nextCode
    BY <2>1, <2>2 DEF AllTyped, TablesTyped, Row
  <2>4. invites[emails[u].tmpl] # NoInvite
    BY <2>1, <2>2, <2>3 DEF Evolves
  <2> QED
    BY <2>1, <2>2, <2>4 DEF HasReferrals
<1>3. emails[u] = NoRow \/ emails[u].tmpl = NoKey =>
          emails'[u] = NoRow \/ emails'[u].tmpl = NoKey
  BY DEF RowLeft
<1> QED
  BY <1>1, <1>2, <1>3

\* Nothing is true of this user that was not.
LEMMA UserStays ==
    ASSUME AllTyped, ReferralsInv, Evolves, NEW u \in Users \ lost, Left(u),
           u \in off' => u \in off, u \in kept' => u \in kept,
           \A w \in Workers : Renews(w, u) => Renews(w, u)'
    PROVE  /\ \A c, d \in Owned(u)' : c = d
           /\ u \in off' => ~HasReferrals(u)'
           /\ u \in kept' => /\ Owned(u)' # {} \/ \E w \in Workers : Renews(w, u)'
                             /\ \A c \in Owned(u)' : ~invites'[c].timed
<1>1. /\ \A c \in Owned(u)' : invites'[c].timed = invites[c].timed
      /\ HasReferrals(u)' => HasReferrals(u)
  BY Fewer DEF Left
<1>2. \A c, d \in Owned(u)' : c = d
  BY DEF Left, ReferralsInv, OneEach
<1>3. u \in off' => ~HasReferrals(u)'
  BY <1>1 DEF ReferralsInv, DisabledStays
<1>4. ASSUME u \in kept'
      PROVE  /\ Owned(u)' # {} \/ \E w \in Workers : Renews(w, u)'
             /\ \A c \in Owned(u)' : ~invites'[c].timed
  <2>1. /\ Owned(u) # {} \/ \E w \in Workers : Renews(w, u)
        /\ \A c \in Owned(u) : ~invites[c].timed
    BY <1>4 DEF ReferralsInv, Kept
  <2> QED
    BY <1>1, <2>1 DEF Left
<1> QED
  BY <1>2, <1>3, <1>4

\* Whoever does not move sees what he saw, unless what the user has changed.
LEMMA StillSees ==
    ASSUME AllTyped, Evolves, NEW w \in Workers, Follows(w), SeesReferrals(w),
           lost \subseteq lost', \A u \in Users : task[w].who = u => Left(u)
    PROVE  SeesReferrals(w)'
<1> SUFFICES ASSUME Works(w)', task'[w].op \in UserOps, task'[w].who # Nobody,
                    task'[w].who \notin lost', ~task'[w].stale
             PROVE  SeesReferrals(w)'
  BY DEF SeesReferrals
<1>1. /\ Works(w) /\ task'[w].op = task[w].op /\ task'[w].who = task[w].who
      /\ task'[w].at = task[w].at /\ task'[w].arg = task[w].arg /\ ~task[w].stale
      /\ task[w].who \notin lost
  BY DEF Follows, Works
<1>2. PICK u \in Users : task[w].who = u
  <2>1. UserTask(w)
    BY <1>1, Whereabouts DEF Typed, Works
  <2> QED
    BY <1>1, <2>1 DEF UserTask, AllTyped, TablesTyped
<1>3. Left(u) /\ Owned(u)' = Owned(u)
  BY <1>2 DEF Left
<1>4. emails[u] = NoRow \/ emails[u].tmpl = NoKey => emails'[u] = NoRow \/ emails'[u].tmpl = NoKey
  BY <1>3, Fewer DEF Left
<1>5. task'[w].who = u
  BY <1>1, <1>2
<1>6. Owned(task[w].who)' = Owned(u) /\ Owned(task[w].who) = Owned(u)
  BY <1>2, <1>3, <1>5 DEF Owned
<1> QED
  BY <1>1, <1>2, <1>4, <1>5, <1>6 DEF SeesReferrals

\* A step of h that changes what the users S have, and says so.
LEMMA ReferralsChange ==
    ASSUME AllTyped, AllTyped', ReferralsInv, NEW h \in Workers, NEW S \in SUBSET Users,
           Moves(h), Evolves, lost \subseteq lost',
           \A w \in Workers \ {h}, u \in S :
               Works(w) /\ task[w].who = u /\ task[w].at # "push" => task'[w].stale \/ Left(u),
           \A u \in Users \ S : Left(u) /\ (u \in off' => u \in off) /\ (u \in kept' => u \in kept),
           \/ S = {} /\ Follows(h)
           \/ SeesReferrals(h)' /\ \A u \in Users \ S : ~Renews(h, u),
           \A u \in S \ lost' :
               /\ \A c, d \in Owned(u)' : c = d
               /\ u \in off' => ~HasReferrals(u)'
               /\ u \in kept' => /\ Owned(u)' # {} \/ \E w \in Workers : Renews(w, u)'
                                 /\ \A c \in Owned(u)' : ~invites'[c].timed
    PROVE  ReferralsInv'
<1>1. ASSUME NEW w \in Workers, NEW u \in Users \ S, Renews(w, u) PROVE Renews(w, u)'
  BY <1>1 DEF Renews, Works, Moves, Follows
<1>2. ASSUME NEW u \in Users \ lost'
      PROVE  /\ \A c, d \in Owned(u)' : c = d
             /\ u \in off' => ~HasReferrals(u)'
             /\ u \in kept' => /\ Owned(u)' # {} \/ \E w \in Workers : Renews(w, u)'
                               /\ \A c \in Owned(u)' : ~invites'[c].timed
  <2>1. CASE u \in S
    BY <1>2, <2>1
  <2>2. CASE u \notin S
    <3>1. u \in Users \ lost /\ u \in Users \ S
      BY <1>2, <2>2
    <3> QED
      BY <1>1, <3>1, UserStays
  <2> QED
    BY <2>1, <2>2
<1>3. off' \subseteq Users /\ kept' \subseteq Users
  BY DEF AllTyped, TablesTyped
<1>4. OneEach' /\ DisabledStays' /\ Kept'
  <2>1. OneEach'
    BY <1>2 DEF OneEach, Owned
  <2>2. DisabledStays'
    BY <1>2, <1>3 DEF DisabledStays, HasReferrals, Owned
  <2>3. Kept'
    BY <1>2, <1>3 DEF Kept, Owned
  <2> QED
    BY <2>1, <2>2, <2>3
<1>5. ASSUME NEW w \in Workers PROVE SeesReferrals(w)'
  <2>1. SUFFICES ASSUME Follows(w), w # h \/ S = {} PROVE SeesReferrals(w)'
    BY DEF Moves
  <2>2. CASE \A u \in Users : task[w].who = u => Left(u)
    BY <2>1, <2>2, StillSees DEF ReferralsInv
  <2>3. ASSUME NEW u \in S, task[w].who = u, ~Left(u) PROVE SeesReferrals(w)'
    <3>1. CASE Works(w) /\ task[w].at # "push"
      BY <2>1, <2>3, <3>1 DEF SeesReferrals
    <3>2. CASE ~Works(w)
      BY <2>1, <3>2 DEF SeesReferrals, Follows, Works
    <3>3. CASE Works(w) /\ task[w].at = "push"
      <4>1. task[w].op \in {"email", "signup"}
        BY <3>3, Whereabouts DEF Works
      <4> QED
        BY <2>1, <3>3, <4>1 DEF SeesReferrals, Follows, Works
    <3> QED
      BY <3>1, <3>2, <3>3
  <2> QED
    BY <2>2, <2>3
<1> QED
  BY <1>4, <1>5 DEF ReferralsInv

\* No user has other referrals than before.
LEMMA NoneChange ==
    ASSUME AllTyped, AllTyped', ReferralsInv, NEW h \in Workers, Moves(h), Evolves,
           lost \subseteq lost',
           \A u \in Users : Left(u) /\ (u \in off' => u \in off) /\ (u \in kept' => u \in kept),
           Follows(h) \/ (SeesReferrals(h)' /\ \A u \in Users : ~Renews(h, u))
    PROVE  ReferralsInv'
<1> DEFINE S == {}
<1>1. S \in SUBSET Users /\ S = {}
  OBVIOUS
<1> HIDE DEF S
<1>2. /\ \A w \in Workers \ {h}, u \in S :
            Works(w) /\ task[w].who = u /\ task[w].at # "push" => task'[w].stale \/ Left(u)
      /\ \A u \in Users \ S : Left(u) /\ (u \in off' => u \in off) /\ (u \in kept' => u \in kept)
      /\ \/ S = {} /\ Follows(h)
         \/ SeesReferrals(h)' /\ \A u \in Users \ S : ~Renews(h, u)
      /\ S \ lost' = {}
  BY <1>1
<1> QED
  BY <1>1, <1>2, ReferralsChange

\* One user has.
LEMMA OneChanges ==
    ASSUME AllTyped, AllTyped', ReferralsInv, NEW h \in Workers, NEW u \in Users, Moves(h), Evolves,
           lost \subseteq lost',
           \A w \in Workers \ {h} :
               Works(w) /\ task[w].who = u /\ task[w].at # "push" => task'[w].stale \/ Left(u),
           \A v \in Users \ {u} :
               Left(v) /\ (v \in off' => v \in off) /\ (v \in kept' => v \in kept),
           SeesReferrals(h)', \A v \in Users \ {u} : ~Renews(h, v),
           u \notin lost' =>
               /\ \A c, d \in Owned(u)' : c = d
               /\ u \in off' => ~HasReferrals(u)'
               /\ u \in kept' => /\ Owned(u)' # {} \/ \E w \in Workers : Renews(w, u)'
                                 /\ \A c \in Owned(u)' : ~invites'[c].timed
    PROVE  ReferralsInv'
<1> DEFINE S == {u}
<1>1. S \in SUBSET Users /\ \A v : v \in S <=> v = u
  OBVIOUS
<1> HIDE DEF S
<1>2. \A w \in Workers \ {h}, v \in S :
          Works(w) /\ task[w].who = v /\ task[w].at # "push" => task'[w].stale \/ Left(v)
  BY <1>1
<1>3. \A v \in Users \ S :
          /\ Left(v) /\ (v \in off' => v \in off) /\ (v \in kept' => v \in kept)
          /\ ~Renews(h, v)
  BY <1>1
<1>4. \A v \in S \ lost' :
           /\ \A c, d \in Owned(v)' : c = d
           /\ v \in off' => ~HasReferrals(v)'
           /\ v \in kept' => /\ Owned(v)' # {} \/ \E w \in Workers : Renews(w, v)'
                             /\ \A c \in Owned(v)' : ~invites'[c].timed
  BY <1>1
<1> QED
  BY <1>1, <1>2, <1>3, <1>4, ReferralsChange

\* An expired invite is all its user has.
LEMMA SeesExpired ==
    ASSUME AllTyped, ReferralsInv, NEW h \in Workers, NEW c \in Codes, invites[c] # NoInvite,
           task'[h] = DeleteExpiredInvite(c), UNCHANGED <<emails, invites, lost>>
    PROVE  SeesReferrals(h)'
<1>1. /\ task'[h].op = "expire" /\ task'[h].who = invites[c].owner
      /\ task'[h].arg = Expired(c)
      /\ task'[h].at = IF invites[c].timed /\ invites[c].owner # Nobody THEN "find" ELSE "delete"
  BY TaskIsTask DEF DeleteExpiredInvite
<1>2. /\ task'[h].arg.code = c /\ task'[h].arg.timed = invites[c].timed
      /\ invites[c].owner \in Users \cup {Nobody}
  BY <1>1, ExpiredIsTyped DEF AllTyped, TablesTyped
<1>3. ASSUME task'[h].who # Nobody, task'[h].who \notin lost'
      PROVE  /\ Owned(task[h].who)' \subseteq {task'[h].arg.code}
             /\ ~(task'[h].arg.timed /\ task'[h].at = "delete")
  <2>1. c \in Owned(invites[c].owner) /\ invites[c].owner \in Users \ lost
    BY <1>1, <1>2, <1>3 DEF Owned
  <2>2. Owned(invites[c].owner) \subseteq {c}
    BY <2>1 DEF ReferralsInv, OneEach
  <2>3. Owned(task[h].who)' = Owned(invites[c].owner)
    BY <1>1 DEF Owned
  <2>4. invites[c].timed => task'[h].at = "find"
    BY <1>1, <1>3
  <2> QED
    BY <1>2, <2>2, <2>3, <2>4
<1>4. task'[h].at \in {"find", "delete"}
  BY <1>1
<1> QED
  BY <1>1, <1>3, <1>4 DEF SeesReferrals

\* Referrals and rows are as they were.
LEMMA AllLeft ==
    ASSUME AllTyped, UNCHANGED <<emails, invites>> PROVE \A u : Left(u)
BY DEF Left, RowLeft, Owned

LEMMA ReferralsBegun ==
    ASSUME AllTyped, AllTyped', ReferralsInv, NEW h \in Callers,
           NEW op, NEW who, NEW pos, NEW copy, NEW arg,
           Begin(h, Task(op, who, pos, copy, arg)), exists \subseteq exists',
           UNCHANGED <<emails, invites, nextCode, off, kept, lost>>,
           op \in UserOps => SeesReferrals(h)'
    PROVE  ReferralsInv'
<1>1. /\ h \in Workers /\ Moves(h) /\ ~Works(h) /\ task'[h].op = op
  BY Begun DEF AllTyped, Workers
<1>2. Evolves /\ \A u : Left(u)
  BY SameInvites, AllLeft DEF AllTyped
<1>3. SeesReferrals(h)' /\ \A u \in Users : ~Renews(h, u)
  BY <1>1 DEF SeesReferrals, Renews
<1> QED
  BY <1>1, <1>2, <1>3, NoneChange

LEMMA ReadRowReferrals ==
    ASSUME AllTyped, AllTyped', ReferralsInv, NEW h \in Callers,
           NEW op \in {"admin", "label", "email"}, NEW u, NEW arg, ReadRow(h, op, u, arg)
    PROVE  ReferralsInv'
<1>1. /\ Begin(h, Task(op, u, "row", emails[u], arg))
      /\ UNCHANGED <<exists, emails, invites, nextCode, off, kept, lost>>
  BY DEF ReadRow, ghosts
<1>2. task'[h].op = op /\ task'[h].at = "row"
  BY <1>1, Begun DEF AllTyped
<1>3. SeesReferrals(h)'
  BY <1>2 DEF SeesReferrals
<1> QED
  BY <1>1, <1>3, ReferralsBegun

LEMMA BeginReferrals ==
    ASSUME AllTyped, AllTyped', ReferralsInv, NEW h \in Callers,
           \/ Signup(h) \/ EnableReferralForUsers(h) \/ GetMyReferral(h) \/ CheckInvite(h)
           \/ SetDefaultProfile(h)
    PROVE  ReferralsInv'
<1>1. UNCHANGED <<emails, invites, nextCode, off, kept, lost>> /\ exists \subseteq exists'
  BY DEF Signup, EnableReferralForUsers, GetMyReferral, CheckInvite, SetDefaultProfile, ghosts
<1>2. CASE Signup(h)
  <2>1. PICK u \in Users \ exists : \E copy, arg : Begin(h, Task("signup", u, "row", copy, arg))
    BY <1>2 DEF Signup
  <2>2. /\ task'[h].op = "signup" /\ task'[h].at = "row" /\ task'[h].who = u
    BY <2>1, Begun DEF AllTyped
  <2>3. Owned(u) = {}
    BY AccountsAssumption DEF Owned, AllTyped, TablesTyped, InvitesTyped
  <2>4. Owned(task[h].who)' = {}
    BY <1>1, <2>2, <2>3 DEF Owned
  <2>5. SeesReferrals(h)'
    BY <2>2, <2>4 DEF SeesReferrals
  <2> QED
    BY <1>1, <2>1, <2>5, ReferralsBegun
<1>3. CASE EnableReferralForUsers(h)
  <2>1. PICK u, arg : Begin(h, Task("refer", u, "wipe", NoRow, arg))
    BY <1>3 DEF EnableReferralForUsers
  <2>2. /\ task'[h].op = "refer" /\ task'[h].at = "wipe"
    BY <2>1, Begun DEF AllTyped
  <2>3. SeesReferrals(h)'
    BY <2>2 DEF SeesReferrals
  <2> QED
    BY <1>1, <2>1, <2>3, ReferralsBegun
<1>4. CASE GetMyReferral(h)
  <2>1. PICK u \in exists :
          \/ Owned(u) = {} /\ Begin(h, Task("mine", u, "template", NoRow, Nothing))
          \/ \E c \in Owned(u) : Begin(h, Task("mine", u, "drop", NoRow, Expired(c)))
    BY <1>4 DEF GetMyReferral
  <2>2. CASE Owned(u) = {} /\ Begin(h, Task("mine", u, "template", NoRow, Nothing))
    <3>1. /\ task'[h].op = "mine" /\ task'[h].at = "template" /\ task'[h].who = u
      BY <2>2, Begun DEF AllTyped
    <3>2. Owned(task[h].who)' = {}
      BY <1>1, <2>2, <3>1 DEF Owned
    <3>3. SeesReferrals(h)'
      BY <3>1, <3>2 DEF SeesReferrals
    <3> QED
      BY <1>1, <2>2, <3>3, ReferralsBegun
  <2>3. ASSUME NEW c \in Owned(u), Begin(h, Task("mine", u, "drop", NoRow, Expired(c)))
        PROVE  ReferralsInv'
    <3>1. /\ task'[h].op = "mine" /\ task'[h].at = "drop" /\ task'[h].who = u
          /\ task'[h].arg = Expired(c) /\ lost = {} /\ u \in Users
      BY <2>3, Begun DEF AllTyped, TablesTyped
    <3>2. Owned(u) \subseteq {c} /\ task'[h].arg.code = c
      BY <2>3, <3>1 DEF ReferralsInv, OneEach, Expired
    <3>3. Owned(task[h].who)' \subseteq {task'[h].arg.code}
      BY <1>1, <3>1, <3>2 DEF Owned
    <3>4. SeesReferrals(h)'
      BY <3>1, <3>3 DEF SeesReferrals
    <3> QED
      BY <1>1, <2>3, <3>4, ReferralsBegun
  <2> QED
    BY <2>1, <2>2, <2>3
<1>5. CASE CheckInvite(h)
  <2>1. PICK c \in Codes : invites[c] # NoInvite /\ Begin(h, DeleteExpiredInvite(c))
    BY <1>5 DEF CheckInvite
  <2>2. task'[h] = DeleteExpiredInvite(c) /\ h \in Workers
    BY <2>1 DEF Begin, AllTyped, TasksTyped, Workers
  <2>3. SeesReferrals(h)'
    BY <1>1, <2>1, <2>2, SeesExpired
  <2> QED
    BY <1>1, <2>1, <2>3, ReferralsBegun DEF DeleteExpiredInvite
<1>6. CASE SetDefaultProfile(h)
  <2>1. PICK copy, arg : Begin(h, Task("default", Nobody, "each", copy, arg))
    BY <1>6 DEF SetDefaultProfile
  <2> QED
    BY <1>1, <2>1, ReferralsBegun DEF UserOps
<1> QED
  BY <1>2, <1>3, <1>4, <1>5, <1>6

\* Who goes on without a change to the tables.
LEMMA ReferralsLocal ==
    ASSUME AllTyped, AllTyped', ReferralsInv, NEW h \in Workers, NEW next,
           task' = [task EXCEPT ![h] = next] \/ \E s : Announce(h, s, next),
           UNCHANGED <<exists, emails, invites, nextCode, kept>>, lost \subseteq lost',
           off' \subseteq off, \/ next = task[h]
                               \/ SeesReferrals(h)' /\ \A u \in Users : ~Renews(h, u)
    PROVE  ReferralsInv'
<1>1. Moves(h) /\ task'[h] = next
  BY GoesOn, Announced DEF AllTyped
<1>2. Evolves /\ \A u : Left(u)
  BY SameInvites, AllLeft DEF AllTyped
<1>3. next = task[h] => Follows(h)
  BY <1>1 DEF Follows, AllTyped, TasksTyped, Typed, Works
<1> QED
  BY <1>1, <1>2, <1>3, NoneChange

LEMMA SweepReferrals ==
    ASSUME AllTyped, AllTyped', ReferralsInv, Sweep PROVE ReferralsInv'
<1>1. PICK c \in Codes : ToBeSwept(c) /\ task' = [task EXCEPT ![Daemon] = DeleteExpiredInvite(c)]
  BY DEF Sweep
<1>2. UNCHANGED <<exists, emails, invites, nextCode, off, kept, lost>> /\ task[Daemon] = Idle
  BY DEF Sweep, ghosts
<1>3. Daemon \in Workers /\ task'[Daemon] = DeleteExpiredInvite(c)
  BY <1>1 DEF Workers, AllTyped, TasksTyped
<1>4. invites[c] # NoInvite
  BY <1>1 DEF ToBeSwept
<1>5. SeesReferrals(Daemon)'
  BY <1>2, <1>3, <1>4, SeesExpired
<1>6. \A u \in Users : ~Renews(Daemon, u)
  BY <1>2 DEF Renews, Works
<1> QED
  BY <1>1, <1>2, <1>3, <1>5, <1>6, ReferralsLocal

LEMMA LocalReferrals ==
    ASSUME AllTyped, AllTyped', ReferralsInv, NEW h \in Callers, ShareTemplate(h) \/ FindTemplate(h)
    PROVE  ReferralsInv'
<1> DEFINE c == task[h]
<1>1. /\ h \in Workers /\ UNCHANGED <<exists, emails, invites, nextCode, off, kept, lost>>
  BY DEF Workers, ShareTemplate, FindTemplate, ghosts
<1>2. /\ task[h] # Idle /\ IsTask(c) /\ UserTask(h) /\ c.at \in {"share", "template"}
      /\ c.op \in UserOps /\ (c.at = "share" => c.op = "signup")
      /\ c.who \in Users /\ c.who # Nobody
  BY <1>1, Whereabouts, OfUsers DEF ShareTemplate, FindTemplate, At
<1>3. c.who \notin lost /\ ~c.stale => Owned(c.who) = {}
  BY <1>1, <1>2 DEF ReferralsInv, SeesReferrals, Works
<1>4. \A u \in Users : ~Renews(h, u)
  BY <1>2 DEF Renews
<1>5. PICK next : /\ task' = [task EXCEPT ![h] = next]
                  /\ \/ next = Idle
                     \/ next = Push("signup", c.who, c.copy.addr)
                     \/ \E arg : next = [c EXCEPT !.at = "put", !.arg = arg]
  <2>1. CASE ShareTemplate(h)
    <3>1. PICK timed \in BOOLEAN :
            task' = [task EXCEPT ![h] = IF timed
                                 THEN [task[h] EXCEPT !.at = "put", !.arg = [timed |-> TRUE]]
                                 ELSE Push("signup", task[h].who, task[h].copy.addr)]
      BY <2>1 DEF ShareTemplate
    <3> QED
      BY <3>1
  <2>2. CASE FindTemplate(h)
    <3>1. PICK found, timed :
            task' = [task EXCEPT ![h] = IF found
                                 THEN [task[h] EXCEPT !.at = "put", !.arg = [timed |-> timed]]
                                 ELSE Idle]
      BY <2>2 DEF FindTemplate
    <3> QED
      BY <3>1
  <2> QED
    BY <2>1, <2>2
<1>6. task'[h] = next
  BY <1>1, <1>5 DEF AllTyped, TasksTyped
<1>7. SeesReferrals(h)'
  <2>1. CASE next = Idle
    BY <1>6, <2>1 DEF SeesReferrals, Works
  <2>2. CASE next = Push("signup", c.who, c.copy.addr)
    <3>1. task'[h].at = "push" /\ task'[h].op = "signup"
      BY <1>6, <2>2, TaskIsTask DEF Push
    <3> QED
      BY <3>1 DEF SeesReferrals
  <2>3. ASSUME NEW arg, next = [c EXCEPT !.at = "put", !.arg = arg] PROVE SeesReferrals(h)'
    <3>1. /\ task'[h].at = "put" /\ task'[h].op = c.op /\ task'[h].who = c.who
          /\ task'[h].stale = c.stale /\ c.op \in {"mine", "signup"}
      <4>1. /\ c = [op |-> c.op, who |-> c.who, at |-> c.at, copy |-> c.copy, arg |-> c.arg,
                      stale |-> c.stale]
            /\ task'[h] = [c EXCEPT !.at = "put", !.arg = arg]
        BY <1>2, <1>6, <2>3 DEF IsTask
      <4>2. c.op \in {"mine", "signup"}
        BY <1>1, <1>2, Whereabouts
      <4> QED
        BY <4>1, <4>2
    <3>2. Owned(task[h].who)' = Owned(c.who)
      BY <1>1, <3>1 DEF Owned
    <3> QED
      BY <1>1, <1>3, <3>1, <3>2 DEF SeesReferrals
  <2> QED
    BY <1>5, <2>1, <2>2, <2>3
<1> QED
  BY <1>1, <1>4, <1>5, <1>7, ReferralsLocal

\* Codes that are dropped are nobody's but the user's.
LEMMA OthersAreLeft ==
    ASSUME AllTyped, NEW D, NEW S, invites' = Without(D), emails' = emails,
           \A c \in Codes \cap D : invites[c] # NoInvite => invites[c].owner \in S \cup {Nobody},
           NEW u \in Users, u \notin S
    PROVE  Left(u)
<1>1. \A c \in Codes : invites'[c] = IF c \in D THEN NoInvite ELSE invites[c]
  BY DEF Without
<1>2. u # Nobody
  BY AccountsAssumption
<1>3. Owned(u)' = Owned(u)
  BY <1>1, <1>2 DEF Owned
<1> QED
  BY <1>3 DEF Left, RowLeft

LEMMA DroppedOwned ==
    ASSUME NEW D, NEW u, invites' = Without(D) PROVE Owned(u)' = Owned(u) \ D
BY DEF Without, Owned

LEMMA WipeOutReferrals ==
    ASSUME AllTyped, AllTyped', ReferralsInv, NEW h \in Callers, WipeOut(h) PROVE ReferralsInv'
<1> DEFINE c == task[h]
<1>1. /\ h \in Workers /\ task[h] # Idle /\ c.at = "wipe" /\ c.op = "refer" /\ IsTask(c)
      /\ c.who \in Users
  BY Whereabouts, OfUsers DEF WipeOut, At, Workers, UserOps
<1>2. PICK u \in Users : u = c.who
  BY <1>1
<1>3. /\ invites' = Without(Owned(u)) /\ kept' = kept \ {u}
      /\ Announce(h, u, [c EXCEPT !.at = "put"])
      /\ UNCHANGED <<exists, emails, nextCode, off, lost>>
  BY <1>2 DEF WipeOut
<1>4. /\ Moves(h) /\ task'[h] = [c EXCEPT !.at = "put"]
      /\ \A w \in Workers \ {h} :
            Works(w) /\ task[w].who = u /\ task[w].at # "push" => task'[w].stale
  BY <1>1, <1>3, Announced DEF AllTyped
<1>5. Evolves
  BY <1>3, Dropped DEF AllTyped
<1>6. Owned(u)' = {} /\ RowLeft(u)
  BY <1>3, DroppedOwned DEF RowLeft
<1>7. \A v \in Users \ {u} : Left(v)
  BY <1>3, OthersAreLeft DEF Owned
<1>8. task'[h].who = u /\ task'[h].op = "refer"
  BY <1>1, <1>2, <1>4 DEF IsTask
<1>9. SeesReferrals(h)' /\ \A v \in Users : ~Renews(h, v)
  <2>1. Owned(task[h].who)' = {}
    BY <1>6, <1>8 DEF Owned
  <2> QED
    BY <1>1, <1>8, <2>1 DEF SeesReferrals, Renews
<1>10. u \in off' \ lost' => ~HasReferrals(u)'
  BY <1>3, <1>5, <1>6, Fewer DEF ReferralsInv, DisabledStays
<1> QED
  BY <1>1, <1>3, <1>4, <1>5, <1>6, <1>7, <1>9, <1>10, OneChanges

LEMMA DisableReferrals ==
    ASSUME AllTyped, AllTyped', ReferralsInv, NEW h \in Callers, DisableReferralForUsers(h)
    PROVE  ReferralsInv'
<1>1. PICK u \in exists :
        /\ task[h] = Idle
        /\ invites' = Without(Owned(u)) /\ kept' = kept \ {u}
        /\ Announce(h, u, Task("unrefer", u, "find", NoRow, Nothing))
  BY DEF DisableReferralForUsers
<1>2. /\ UNCHANGED <<exists, emails, nextCode, off, lost>> /\ h \in Workers /\ u \in Users
  BY DEF DisableReferralForUsers, Workers, AllTyped, TablesTyped
<1>3. /\ Moves(h) /\ task'[h] = Task("unrefer", u, "find", NoRow, Nothing)
      /\ \A w \in Workers \ {h} :
            Works(w) /\ task[w].who = u /\ task[w].at # "push" => task'[w].stale
  BY <1>1, <1>2, Announced DEF AllTyped
<1>4. Evolves
  BY <1>1, <1>2, Dropped DEF AllTyped
<1>5. Owned(u)' = {} /\ RowLeft(u)
  BY <1>1, <1>2, DroppedOwned DEF RowLeft
<1>6. \A v \in Users \ {u} : Left(v)
  BY <1>1, <1>2, OthersAreLeft DEF Owned
<1>7. task'[h].who = u /\ task'[h].op = "unrefer" /\ task'[h].at = "find"
  BY <1>3, TaskIsTask
<1>8. SeesReferrals(h)' /\ \A v \in Users : ~Renews(h, v)
  <2>1. Owned(task[h].who)' = {}
    BY <1>5, <1>7 DEF Owned
  <2> QED
    BY <1>1, <1>7, <2>1 DEF SeesReferrals, Renews, Works
<1>9. u \in off' \ lost' => ~HasReferrals(u)'
  BY <1>2, <1>4, <1>5, Fewer DEF ReferralsInv, DisabledStays
<1> QED
  BY <1>1, <1>2, <1>3, <1>4, <1>5, <1>6, <1>8, <1>9, OneChanges

LEMMA DropReferralReferrals ==
    ASSUME AllTyped, AllTyped', ReferralsInv, NEW h \in Callers, DropReferral(h)
    PROVE  ReferralsInv'
<1> DEFINE c == task[h]
           code == c.arg.code
<1>1. /\ h \in Workers /\ task[h] # Idle /\ c.at = "drop" /\ c.op = "mine" /\ IsTask(c)
      /\ c.who \in Users /\ c.who # Nobody /\ UserTask(h)
  BY Whereabouts, OfUsers DEF DropReferral, At, Workers, UserOps, Typed
<1>2. PICK u \in Users : u = c.who /\ u # Nobody
  BY <1>1
<1>3. /\ code \in Codes /\ c.arg.timed \in BOOLEAN
      /\ invites[code] # NoInvite => invites[code].owner = u /\ invites[code].timed = c.arg.timed
  BY <1>1, <1>2 DEF UserTask, Expiring
<1>4. /\ invites' = Without({code})
      /\ Announce(h, u, IF c.arg.timed THEN [c EXCEPT !.at = "find"]
                        ELSE [c EXCEPT !.at = "put", !.arg = [timed |-> FALSE]])
      /\ UNCHANGED <<exists, emails, nextCode, off, kept, lost>>
  BY <1>2 DEF DropReferral, ghosts
<1>5. /\ Moves(h)
      /\ task'[h] = IF c.arg.timed THEN [c EXCEPT !.at = "find"]
                    ELSE [c EXCEPT !.at = "put", !.arg = [timed |-> FALSE]]
      /\ \A w \in Workers \ {h} :
            Works(w) /\ task[w].who = u /\ task[w].at # "push" => task'[w].stale
  BY <1>1, <1>4, Announced DEF AllTyped
<1>6. Evolves
  BY <1>4, Dropped DEF AllTyped
<1>7. Owned(u)' = Owned(u) \ {code} /\ RowLeft(u)
  BY <1>4, DroppedOwned DEF RowLeft
<1>8. \A v \in Users \ {u} : Left(v)
  BY <1>3, <1>4, OthersAreLeft
<1>9. /\ task'[h] # Idle /\ task'[h].who = u /\ task'[h].op = "mine" /\ task'[h].stale = c.stale
      /\ task'[h].at = IF c.arg.timed THEN "find" ELSE "put"
  BY <1>1, <1>2, <1>5 DEF IsTask, Idle
<1>10. SeesReferrals(h)' /\ \A v \in Users : ~Renews(h, v)
  <2>1. u \notin lost /\ ~c.stale => Owned(u)' = {}
    BY <1>1, <1>2, <1>7 DEF ReferralsInv, SeesReferrals, Works, UserOps
  <2>2. Owned(task[h].who)' = Owned(u)'
    BY <1>9 DEF Owned
  <2>3. task'[h].at \in {"find", "put"}
    BY <1>9
  <2> QED
    BY <1>1, <1>4, <1>9, <2>1, <2>2, <2>3 DEF SeesReferrals, Renews
<1>11. ASSUME u \notin lost'
       PROVE  /\ \A a, b \in Owned(u)' : a = b
              /\ u \in off' => ~HasReferrals(u)'
              /\ u \in kept' => /\ Owned(u)' # {} \/ \E w \in Workers : Renews(w, u)'
                                /\ \A a \in Owned(u)' : ~invites'[a].timed
  <2>1. u \in Users \ lost
    BY <1>4, <1>11
  <2>2. /\ HasReferrals(u)' => HasReferrals(u)
        /\ \A a \in Owned(u)' : invites'[a].timed = invites[a].timed
    BY <1>6, <1>7, Fewer
  <2>3. \A a, b \in Owned(u)' : a = b
    BY <1>7, <2>1 DEF ReferralsInv, OneEach
  <2>4. u \in off' => ~HasReferrals(u)'
    BY <1>4, <2>1, <2>2 DEF ReferralsInv, DisabledStays
  <2>5. ASSUME u \in kept'
        PROVE  /\ Owned(u)' # {} \/ \E w \in Workers : Renews(w, u)'
               /\ \A a \in Owned(u)' : ~invites'[a].timed
    <3>1. /\ Owned(u) # {} \/ \E w \in Workers : Renews(w, u)
          /\ \A a \in Owned(u) : ~invites[a].timed
      BY <1>4, <2>1, <2>5 DEF ReferralsInv, Kept
    <3>2. \A a \in Owned(u)' : ~invites'[a].timed
      BY <1>7, <2>2, <3>1
    <3>3. CASE c.arg.timed
      <4>1. code \notin Owned(u)
        BY <1>3, <3>1, <3>3 DEF Owned
      <4>2. \A w \in Workers : Renews(w, u) => Renews(w, u)'
        BY <1>5, <1>10 DEF Renews, Moves, Follows, Works
      <4> QED
        BY <1>7, <3>1, <3>2, <4>1, <4>2
    <3>4. CASE ~c.arg.timed
      <4>1. Renews(h, u)'
        BY <1>9, <3>4 DEF Renews, Works
      <4> QED
        BY <1>1, <3>2, <4>1
    <3> QED
      BY <1>3, <3>3, <3>4
  <2> QED
    BY <2>3, <2>4, <2>5
<1> QED
  BY <1>1, <1>4, <1>5, <1>6, <1>8, <1>10, <1>11, OneChanges

LEMMA PutReferralReferrals ==
    ASSUME AllTyped, AllTyped', ReferralsInv, NEW h \in Callers, PutReferral(h)
    PROVE  ReferralsInv'
<1> DEFINE c == task[h]
<1>1. /\ h \in Workers /\ task[h] # Idle /\ c.at = "put" /\ UserTask(h) /\ Works(h)
      /\ c.op \in {"refer", "mine", "signup"} /\ c.op \in UserOps
  BY Whereabouts DEF PutReferral, At, Workers
<1>2. /\ c.who \in exists /\ c.who \in Users /\ c.who # Nobody /\ c.arg.timed \in BOOLEAN
      /\ WillMake(h)
  BY <1>1, OfUsers DEF UserTask, UserHolds, WillMake
<1>3. PICK u \in Users : u = c.who /\ u # Nobody
  BY <1>2
<1>4. nextCode \in Codes
  BY <1>1, <1>2, OneIsLeft
<1>5. /\ invites' = [invites EXCEPT ![nextCode] = Fresh(u, c.arg.timed)]
      /\ nextCode' = nextCode + 1
      /\ kept' = (IF c.arg.timed THEN kept \ {u} ELSE kept \cup {u})
      /\ off' = off \ {u} /\ lost' = (IF c.stale THEN lost \cup {u} ELSE lost)
      /\ Announce(h, u, IF c.op # "signup" THEN Idle ELSE Push(c.op, u, c.copy.addr))
      /\ UNCHANGED <<exists, emails>>
  BY <1>3 DEF PutReferral, Overwrite
<1>6. /\ Moves(h)
      /\ task'[h] = IF c.op # "signup" THEN Idle ELSE Push(c.op, u, c.copy.addr)
      /\ \A w \in Workers \ {h} :
            Works(w) /\ task[w].who = u /\ task[w].at # "push" => task'[w].stale
  BY <1>1, <1>5, Announced DEF AllTyped
<1>7. /\ Evolves /\ \A a \in Codes : a # nextCode => invites'[a] = invites[a]
      /\ invites[nextCode] = NoInvite /\ invites'[nextCode] # NoInvite
      /\ invites'[nextCode].owner = u /\ invites'[nextCode].timed = c.arg.timed
  BY <1>2, <1>3, <1>4, <1>5, Made DEF AllTyped
<1>8. \A v \in Users \ {u} : Left(v)
  <2> SUFFICES ASSUME NEW v \in Users \ {u} PROVE Left(v)
    OBVIOUS
  <2>1. Owned(v)' = Owned(v)
    BY <1>7 DEF Owned
  <2> QED
    BY <1>5, <2>1 DEF Left, RowLeft
<1>9. Owned(u)' = Owned(u) \cup {nextCode}
  BY <1>4, <1>7 DEF Owned
<1>10. SeesReferrals(h)' /\ \A v \in Users \ {u} : ~Renews(h, v)
  <2>1. CASE c.op # "signup"
    BY <1>3, <1>6, <2>1 DEF SeesReferrals, Renews, Works
  <2>2. CASE c.op = "signup"
    <3>1. task'[h].op = "signup" /\ task'[h].at = "push"
      BY <1>6, <2>2, TaskIsTask DEF Push
    <3> QED
      BY <1>3, <3>1 DEF SeesReferrals, Renews
  <2> QED
    BY <2>1, <2>2
<1>11. ASSUME u \notin lost'
       PROVE  /\ \A a, b \in Owned(u)' : a = b
              /\ u \in off' => ~HasReferrals(u)'
              /\ u \in kept' => /\ Owned(u)' # {} \/ \E w \in Workers : Renews(w, u)'
                                /\ \A a \in Owned(u)' : ~invites'[a].timed
  <2>1. Owned(u) = {}
    BY <1>1, <1>3, <1>5, <1>11 DEF ReferralsInv, SeesReferrals
  <2>2. Owned(u)' = {nextCode}
    BY <1>9, <2>1
  <2>3. u \notin off' /\ (u \in kept' => ~c.arg.timed)
    BY <1>5
  <2> QED
    BY <1>7, <2>2, <2>3
<1>12. /\ lost \subseteq lost'
       /\ \A v \in Users \ {u} : (v \in off' => v \in off) /\ (v \in kept' => v \in kept)
  BY <1>5
<1> QED
  BY <1>1, <1>6, <1>7, <1>8, <1>10, <1>11, <1>12, OneChanges

LEMMA DeleteReferrals ==
    ASSUME AllTyped, AllTyped', ReferralsInv, NEW h \in Workers, Delete(h) PROVE ReferralsInv'
<1> DEFINE c == task[h]
           code == c.arg.code
<1>1. /\ task[h] # Idle /\ c.at = "delete" /\ c.op = "expire" /\ UserTask(h) /\ Works(h)
      /\ c.op \in UserOps
  BY Whereabouts DEF Delete, At
<1>2. /\ code \in Codes /\ c.arg.timed \in BOOLEAN
      /\ invites[code] # NoInvite =>
            invites[code].owner = c.who /\ invites[code].timed = c.arg.timed
      /\ c.who \in Users \cup {Nobody}
  BY <1>1 DEF UserTask, Expiring, AllTyped, TablesTyped
<1>3. /\ invites' = Without({code}) /\ UNCHANGED <<exists, emails, nextCode, lost>>
      /\ off' = (IF c.arg.timed /\ c.who # Nobody /\ ~c.stale THEN off \cup {c.who} ELSE off)
      /\ kept' = IF c.arg.timed \/ h = Daemon \/ invites[code] = NoInvite THEN kept
                 ELSE kept \ {c.who}
      /\ Announce(h, IF c.who = Nobody THEN h ELSE c.who, Idle)
  BY DEF Delete
<1>4. /\ Moves(h) /\ task'[h] = Idle /\ Evolves
      /\ \A w \in Workers \ {h} :
            Works(w) /\ task[w].who = (IF c.who = Nobody THEN h ELSE c.who)
               /\ task[w].at # "push" => task'[w].stale
  BY <1>3, Announced, Dropped DEF AllTyped
<1>5. SeesReferrals(h)' /\ \A v \in Users : ~Renews(h, v)
  BY <1>1, <1>4 DEF SeesReferrals, Renews, Works
<1>6. CASE c.who = Nobody
  <2>1. \A v \in Users : Left(v)
    <3>1. Nobody \notin Users
      BY AccountsAssumption
    <3>2. \A v \in Users : v \notin {Nobody}
      BY <3>1
    <3> QED
      BY <1>2, <1>3, <1>6, <3>2, OthersAreLeft
  <2>2. off' = off /\ kept' \subseteq kept
    BY <1>3, <1>6
  <2> QED
    BY <1>3, <1>4, <1>5, <2>1, <2>2, NoneChange
<1>7. CASE c.who # Nobody
  <2>1. PICK u \in Users : u = c.who
    BY <1>2, <1>7
  <2>2. \A v \in Users \ {u} : Left(v)
    BY <1>2, <1>3, <2>1, OthersAreLeft
  <2>3. Owned(u)' = Owned(u) \ {code} /\ RowLeft(u)
    BY <1>3, DroppedOwned DEF RowLeft
  <2>4. ASSUME u \notin lost'
        PROVE  /\ \A a, b \in Owned(u)' : a = b
               /\ u \in off' => ~HasReferrals(u)'
               /\ u \in kept' => /\ Owned(u)' # {} \/ \E w \in Workers : Renews(w, u)'
                                 /\ \A a \in Owned(u)' : ~invites'[a].timed
    <3>1. u \in Users \ lost
      BY <1>3, <2>4
    <3>2. /\ HasReferrals(u)' => HasReferrals(u)
          /\ \A a \in Owned(u)' : invites'[a].timed = invites[a].timed
      BY <1>4, <2>3, Fewer
    <3>3. \A a, b \in Owned(u)' : a = b
      BY <2>3, <3>1 DEF ReferralsInv, OneEach
    <3>4. u \in off' => ~HasReferrals(u)'
      <4>1. CASE u \in off
        BY <3>1, <3>2, <4>1 DEF ReferralsInv, DisabledStays
      <4>2. CASE u \in off' /\ u \notin off
        <5>1. c.arg.timed /\ ~c.stale
          BY <1>3, <4>2
        <5>2. Owned(u) \subseteq {code} /\ (emails[u] = NoRow \/ emails[u].tmpl = NoKey)
          BY <1>1, <2>1, <3>1, <5>1, <1>7 DEF ReferralsInv, SeesReferrals
        <5>3. Owned(u)' = {}
          BY <2>3, <5>2
        <5> QED
          BY <1>3, <5>2, <5>3 DEF HasReferrals
      <4> QED
        BY <4>1, <4>2
    <3>5. ASSUME u \in kept'
          PROVE  /\ Owned(u)' # {} \/ \E w \in Workers : Renews(w, u)'
                 /\ \A a \in Owned(u)' : ~invites'[a].timed
      <4>1. u \in kept
        BY <1>3, <3>5
      <4>2. /\ Owned(u) # {} \/ \E w \in Workers : Renews(w, u)
            /\ \A a \in Owned(u) : ~invites[a].timed
        BY <3>1, <4>1 DEF ReferralsInv, Kept
      <4>3. c.arg.timed \/ invites[code] = NoInvite
        <5>1. h = Daemon => c.arg.timed
          BY <1>1 DEF AllTyped, TasksTyped
        <5> QED
          BY <1>3, <2>1, <3>5, <5>1
      <4>4. code \notin Owned(u)
        BY <1>2, <4>2, <4>3 DEF Owned
      <4>5. \A w \in Workers : Renews(w, u) => Renews(w, u)'
        BY <1>4, <1>5 DEF Renews, Moves, Follows, Works
      <4> QED
        BY <2>3, <3>2, <4>2, <4>4, <4>5
    <3> QED
      BY <3>3, <3>4, <3>5
  <2>5. \A w \in Workers \ {h} :
            Works(w) /\ task[w].who = u /\ task[w].at # "push" => task'[w].stale
    BY <1>4, <1>7, <2>1
  <2>6. \A v \in Users \ {u} : (v \in off' => v \in off) /\ (v \in kept' => v \in kept)
    BY <1>3, <2>1
  <2> QED
    BY <1>3, <1>4, <1>5, <2>2, <2>4, <2>5, <2>6, OneChanges
<1> QED
  BY <1>6, <1>7

LEMMA SpendLastReferrals ==
    ASSUME AllTyped, AllTyped', ReferralsInv, NEW h \in Callers, SpendLast(h) PROVE ReferralsInv'
<1>1. PICK u \in Users : \E c \in Owned(u) :
        /\ invites' = Without({c}) /\ kept' = kept \ {u} /\ Announce(h, u, Idle)
  BY DEF SpendLast
<1>2. PICK c \in Owned(u) :
        /\ invites' = Without({c}) /\ kept' = kept \ {u} /\ Announce(h, u, Idle)
  BY <1>1
<1>3. /\ UNCHANGED <<exists, emails, nextCode, off, lost>> /\ h \in Workers /\ task[h] = Idle
  BY DEF SpendLast, Workers
<1>4. /\ Moves(h) /\ task'[h] = Idle /\ Evolves
      /\ \A w \in Workers \ {h} :
            Works(w) /\ task[w].who = u /\ task[w].at # "push" => task'[w].stale
  BY <1>2, <1>3, Announced, Dropped DEF AllTyped
<1>5. SeesReferrals(h)' /\ \A v \in Users : ~Renews(h, v)
  BY <1>3, <1>4 DEF SeesReferrals, Renews, Works
<1>6. \A v \in Users \ {u} : Left(v)
  BY <1>2, <1>3, OthersAreLeft DEF Owned
<1>7. Owned(u)' = Owned(u) \ {c} /\ RowLeft(u)
  BY <1>2, <1>3, DroppedOwned DEF RowLeft
<1>8. u \notin lost' => (\A a, b \in Owned(u)' : a = b) /\ (u \in off' => ~HasReferrals(u)')
  BY <1>3, <1>4, <1>7, Fewer DEF ReferralsInv, OneEach, DisabledStays
<1> QED
  BY <1>2, <1>3, <1>4, <1>5, <1>6, <1>8, OneChanges

\* Whoever stores a row leaves its key of a template, or clears it.
LEMMA StoredKey ==
    ASSUME NEW c, c.copy \in Row \cup {NoRow}
    PROVE  /\ Stored(c).tmpl # NoKey => c.copy # NoRow /\ Stored(c).tmpl = c.copy.tmpl
           /\ c.op \notin {"admin", "label", "email"} => Stored(c).tmpl = NoKey
<1> DEFINE copy == IF c.copy = NoRow THEN EmptyRow ELSE c.copy
<1>1. /\ copy \in Row /\ EmptyRow.tmpl = NoKey
      /\ copy.tmpl # NoKey => c.copy # NoRow /\ copy.tmpl = c.copy.tmpl
  BY Records DEF EmptyRow
<1>2. Stored(c) = CASE c.op = "admin" -> [copy EXCEPT !.admin = c.arg.admin]
          [] c.op = "label" -> copy
          [] c.op = "email" /\ copy.addr = NoAddr -> [EmptyRow EXCEPT !.addr = c.arg.addr]
          [] c.op = "email" /\ copy.addr # NoAddr -> [copy EXCEPT !.addr = c.arg.addr]
          [] OTHER -> [copy EXCEPT !.tmpl = NoKey]
  BY DEF Stored
<1> HIDE DEF copy
<1>3. CASE c.op = "admin"
  <2>1. Stored(c) = [copy EXCEPT !.admin = c.arg.admin]
    BY <1>2, <1>3
  <2> QED
    BY <1>1, <1>3, <2>1 DEF Row
<1>4. CASE c.op = "label"
  BY <1>1, <1>2, <1>4
<1>5. CASE c.op = "email" /\ copy.addr = NoAddr
  <2>1. Stored(c) = [EmptyRow EXCEPT !.addr = c.arg.addr]
    BY <1>2, <1>5
  <2>2. Stored(c).tmpl = NoKey
    BY <2>1 DEF EmptyRow
  <2> QED
    BY <1>5, <2>2
<1>6. CASE c.op = "email" /\ copy.addr # NoAddr
  <2>1. Stored(c) = [copy EXCEPT !.addr = c.arg.addr]
    BY <1>2, <1>6
  <2> QED
    BY <1>1, <1>6, <2>1 DEF Row
<1>7. CASE c.op \notin {"admin", "label", "email"}
  <2>1. Stored(c) = [copy EXCEPT !.tmpl = NoKey]
    BY <1>2, <1>7
  <2> QED
    BY <1>1, <1>7, <2>1 DEF Row
<1> QED
  BY <1>3, <1>4, <1>5, <1>6, <1>7

LEMMA WriteRowReferrals ==
    ASSUME AllTyped, AllTyped', RowsInv, ReferralsInv, NEW h \in Workers, WriteRow(h)
    PROVE  ReferralsInv'
<1> DEFINE c == task[h]
<1>1. /\ task[h] # Idle /\ c.at = "row" /\ c.op # "signup" /\ UserTask(h) /\ Works(h)
      /\ c.op \in UserOps \ {"refer", "signup"} /\ IsTask(c) /\ c.copy \in Row \cup {NoRow}
  BY Whereabouts, ChangedRowTyped DEF WriteRow, At, UserTask, UserHolds
<1>2. PICK u \in Users : u = c.who /\ u # Nobody
  BY <1>1, OfUsers
<1> DEFINE next == CASE c.op = "email" -> Push("email", u, c.arg.addr)
                     [] c.op = "expire" -> [c EXCEPT !.at = "delete"]
                     [] OTHER -> Idle
<1>3. /\ emails' = [emails EXCEPT ![u] = Stored(c)]
      /\ off' = (IF c.op \in {"unrefer", "mine"} /\ ~c.stale THEN off \cup {u} ELSE off)
      /\ lost' = (IF c.stale THEN lost \cup {u} ELSE lost)
      /\ Announce(h, u, next)
      /\ UNCHANGED <<exists, invites, nextCode, kept>>
  BY <1>2 DEF WriteRow, Overwrite
<1>4. /\ Moves(h) /\ task'[h] = next
      /\ \A w \in Workers \ {h} :
            Works(w) /\ task[w].who = u /\ task[w].at # "push" => task'[w].stale
  BY <1>3, Announced DEF AllTyped
<1>5. Evolves /\ \A v : Owned(v)' = Owned(v)
  BY <1>3, SameInvites DEF AllTyped, Owned
<1>6. emails'[u] = Stored(c) /\ \A v \in Users \ {u} : emails'[v] = emails[v]
  BY <1>3 DEF AllTyped, TablesTyped
<1>7. \A v \in Users \ {u} : Left(v)
  BY <1>5, <1>6 DEF Left, RowLeft
<1>8. \A v \in Users : ~Renews(h, v)
  BY <1>1 DEF Renews
<1>9. SeesReferrals(h)'
  <2>1. CASE c.op = "email"
    <3>1. task'[h] = Push("email", u, c.arg.addr)
      BY <1>4, <2>1
    <3>2. task'[h].op = "email" /\ task'[h].at = "push"
      BY <3>1, TaskIsTask DEF Push
    <3> QED
      BY <3>2 DEF SeesReferrals
  <2>2. CASE c.op = "expire"
    <3>1. task'[h] = [c EXCEPT !.at = "delete"]
      BY <1>4, <2>2
    <3>2. /\ task'[h].op = "expire" /\ task'[h].at = "delete" /\ task'[h].who = u
          /\ task'[h].arg = c.arg /\ task'[h].stale = c.stale
      BY <1>1, <1>2, <2>2, <3>1 DEF IsTask
    <3>3. u \notin lost' /\ ~c.stale => Owned(u) \subseteq {c.arg.code}
      BY <1>1, <1>2, <1>3, <2>2 DEF ReferralsInv, SeesReferrals
    <3>4. Owned(task[h].who)' = Owned(u)
      BY <1>5, <3>2 DEF Owned
    <3>5. emails'[u].tmpl = NoKey
      BY <1>1, <1>6, <2>2, StoredKey
    <3> QED
      BY <3>2, <3>3, <3>4, <3>5 DEF SeesReferrals
  <2>3. CASE c.op \notin {"email", "expire"}
    <3>1. task'[h] = Idle
      BY <1>4, <2>3
    <3> QED
      BY <3>1 DEF SeesReferrals, Works
  <2> QED
    BY <2>1, <2>2, <2>3
<1> HIDE DEF next
<1>10. ASSUME u \notin lost'
       PROVE  /\ \A a, b \in Owned(u)' : a = b
              /\ u \in off' => ~HasReferrals(u)'
              /\ u \in kept' => /\ Owned(u)' # {} \/ \E w \in Workers : Renews(w, u)'
                                /\ \A a \in Owned(u)' : ~invites'[a].timed
  <2>1. u \in Users \ lost /\ ~c.stale /\ c.copy = emails[u]
    BY <1>1, <1>2, <1>3, <1>10 DEF RowsInv, CopyIsFresh
  <2>2. Left(u)
    BY <1>1, <1>5, <1>6, <2>1, StoredKey DEF Left, RowLeft
  <2>3. \A w \in Workers : Renews(w, u) => Renews(w, u)'
    BY <1>4, <1>8 DEF Renews, Moves, Follows, Works
  <2>4. CASE u \in off' => u \in off
    BY <1>3, <1>5, <2>1, <2>2, <2>3, <2>4, UserStays
  <2>5. CASE u \in off' /\ u \notin off
    <3>1. c.op \in {"unrefer", "mine"}
      BY <1>3, <2>5
    <3>2. Owned(u) = {}
      BY <1>1, <1>2, <2>1, <3>1 DEF ReferralsInv, SeesReferrals
    <3>3. emails'[u].tmpl = NoKey
      BY <1>1, <1>6, <3>1, StoredKey
    <3>4. ~HasReferrals(u)' /\ Owned(u)' = {}
      BY <1>5, <3>2, <3>3 DEF HasReferrals
    <3>5. u \in kept => \E w \in Workers : Renews(w, u)
      BY <2>1, <3>2 DEF ReferralsInv, Kept
    <3> QED
      BY <1>3, <2>3, <3>4, <3>5
  <2> QED
    BY <2>4, <2>5
<1>11. /\ lost \subseteq lost'
       /\ \A v \in Users \ {u} : (v \in off' => v \in off) /\ (v \in kept' => v \in kept)
  BY <1>3
<1> QED
  BY <1>4, <1>5, <1>7, <1>8, <1>9, <1>10, <1>11, OneChanges

LEMMA StoreNewRowReferrals ==
    ASSUME AllTyped, AllTyped', ReferralsInv, NEW h \in Callers, StoreNewRow(h)
    PROVE  ReferralsInv'
<1> DEFINE c == task[h]
           next == [c EXCEPT !.at = "share"]
<1>1. /\ h \in Workers /\ task[h] # Idle /\ c.at = "row" /\ c.op = "signup" /\ IsTask(c)
      /\ UserTask(h) /\ Works(h) /\ c.op \in UserOps
  BY Whereabouts DEF StoreNewRow, At, Workers
<1>2. PICK u \in Users : u = c.who /\ u # Nobody
  BY <1>1, OfUsers
<1>3. /\ emails' \in {emails, [emails EXCEPT ![u] = c.copy]}
      /\ lost' = (IF c.stale THEN lost \cup {u} ELSE lost)
      /\ Announce(h, u, next) /\ UNCHANGED <<exists, invites, nextCode, off, kept>>
  BY <1>2 DEF StoreNewRow, Overwrite
<1>4. Moves(h) /\ task'[h] = next
  BY <1>1, <1>3, Announced DEF AllTyped
<1>5. Evolves /\ \A v : Owned(v)' = Owned(v)
  BY <1>3, SameInvites DEF AllTyped, Owned
<1>6. c.copy.tmpl = NoKey
  BY <1>1 DEF UserTask, UserHolds
<1>7. \A v \in Users : Left(v)
  BY <1>3, <1>5, <1>6 DEF Left, RowLeft, AllTyped, TablesTyped
<1>8. \A v \in Users : ~Renews(h, v)
  BY <1>1 DEF Renews
<1>9. /\ task'[h].op = "signup" /\ task'[h].at = "share" /\ task'[h].who = u
      /\ task'[h].stale = c.stale
  BY <1>1, <1>2, <1>4 DEF IsTask
<1>10. SeesReferrals(h)'
  <2>1. u \notin lost' /\ ~c.stale => Owned(u) = {}
    BY <1>1, <1>2, <1>3 DEF ReferralsInv, SeesReferrals
  <2>2. Owned(task[h].who)' = Owned(u)
    BY <1>5, <1>9 DEF Owned
  <2> QED
    BY <1>9, <2>1, <2>2 DEF SeesReferrals
<1>11. lost \subseteq lost'
  BY <1>3
<1> QED
  BY <1>1, <1>3, <1>4, <1>5, <1>7, <1>8, <1>10, <1>11, NoneChange

LEMMA FindRowReferrals ==
    ASSUME AllTyped, AllTyped', ReferralsInv, NEW h \in Workers, FindRow(h)
    PROVE  ReferralsInv'
<1> DEFINE c == task[h]
<1>1. /\ task[h] # Idle /\ c.at = "find" /\ IsTask(c) /\ UserTask(h) /\ Works(h)
      /\ c.op \in {"unrefer", "mine", "expire"} /\ c.op \in UserOps
  BY Whereabouts DEF FindRow, At
<1>2. PICK u \in Users : u = c.who /\ u # Nobody
  BY <1>1, OfUsers
<1> DEFINE row == emails[u]
           next == IF row # NoRow THEN [c EXCEPT !.at = "row", !.copy = row]
                   ELSE IF c.op = "expire" THEN [c EXCEPT !.at = "delete"] ELSE Idle
<1>3. /\ task' = [task EXCEPT ![h] = next]
      /\ off' = (IF row = NoRow /\ c.op # "expire" /\ ~c.stale THEN off \cup {u} ELSE off)
      /\ UNCHANGED <<exists, emails, invites, nextCode, kept, lost>>
  BY <1>2 DEF FindRow
<1>4. Moves(h) /\ task'[h] = next
  BY <1>3, GoesOn DEF AllTyped
<1>5. Evolves /\ \A v : Left(v)
  BY <1>3, SameInvites, AllLeft DEF AllTyped
<1>6. \A v \in Users : ~Renews(h, v)
  BY <1>1 DEF Renews
<1>7. SeesReferrals(h)'
  <2>1. /\ c.op \in {"unrefer", "mine"} /\ u \notin lost /\ ~c.stale => Owned(u) = {}
        /\ c.op = "expire" /\ u \notin lost /\ ~c.stale => Owned(u) \subseteq {c.arg.code}
    BY <1>1, <1>2 DEF ReferralsInv, SeesReferrals
  <2>2. CASE next = Idle
    BY <1>4, <2>2 DEF SeesReferrals, Works
  <2>3. CASE next # Idle
    <3>1. /\ next.op = c.op /\ next.who = u /\ next.arg = c.arg /\ next.stale = c.stale
          /\ next.at = "row" \/ (c.op = "expire" /\ next.at = "delete" /\ row = NoRow)
      BY <1>1, <1>2, <2>3 DEF IsTask
    <3> HIDE DEF next
    <3>2. Owned(task[h].who)' = Owned(u)
      BY <1>3, <1>4, <3>1 DEF Owned
    <3> QED
      BY <1>1, <1>3, <1>4, <2>1, <3>1, <3>2 DEF SeesReferrals
  <2> QED
    BY <2>2, <2>3
<1> HIDE DEF next
<1>8. ASSUME u \notin lost'
      PROVE  /\ \A a, b \in Owned(u)' : a = b
             /\ u \in off' => ~HasReferrals(u)'
             /\ u \in kept' => /\ Owned(u)' # {} \/ \E w \in Workers : Renews(w, u)'
                               /\ \A a \in Owned(u)' : ~invites'[a].timed
  <2>1. u \in Users \ lost
    BY <1>3, <1>8
  <2>2. \A w \in Workers : Renews(w, u) => Renews(w, u)'
    BY <1>4, <1>6 DEF Renews, Moves, Follows, Works
  <2>3. CASE u \in off' => u \in off
    BY <1>3, <1>5, <2>1, <2>2, <2>3, UserStays
  <2>4. CASE u \in off' /\ u \notin off
    <3>1. row = NoRow /\ c.op \in {"unrefer", "mine"} /\ ~c.stale
      BY <1>1, <1>3, <2>4
    <3>2. Owned(u) = {}
      BY <1>1, <1>2, <2>1, <3>1 DEF ReferralsInv, SeesReferrals
    <3>3. ~HasReferrals(u)' /\ Owned(u)' = {}
      BY <1>3, <1>5, <3>1, <3>2 DEF HasReferrals, Left
    <3>4. u \in kept => \E w \in Workers : Renews(w, u)
      BY <2>1, <3>2 DEF ReferralsInv, Kept
    <3> QED
      BY <1>3, <2>2, <3>3, <3>4
  <2> QED
    BY <2>3, <2>4
<1>9. \A v \in Users \ {u} : (v \in off' => v \in off) /\ (v \in kept' => v \in kept)
  BY <1>3
<1> QED
  BY <1>3, <1>4, <1>5, <1>6, <1>7, <1>8, <1>9, OneChanges

LEMMA ProfilesLeaveReferrals ==
    ASSUME AllTyped, AllTyped', ReferralsInv, NEW h \in Callers,
           ChangeTemplate(h) \/ WriteProfile(h) \/ DropProfile(h) \/ SetOneDefault(h)
    PROVE  ReferralsInv'
<1> DEFINE c == task[h]
<1>1. /\ h \in Workers /\ task[h] # Idle /\ IsTask(c) /\ c.op \in ProfileOps /\ ProfilesTask(h)
      /\ c.op \notin UserOps /\ c.op # "mine" /\ Typed(h)
  BY Whereabouts DEF ChangeTemplate, WriteProfile, DropProfile, SetOneDefault, At, Workers,
                     UserOps, ProfileOps, Typed
<1>2. \A v \in Users : ~Renews(h, v)
  BY <1>1 DEF Renews
<1>3. CASE ChangeTemplate(h)
  <2>1. /\ c.copy \in Profile /\ TemplateCode(c.copy.tmpl) /\ c.at = "template of profile"
        /\ c.op = "share" => c.arg.timed \in BOOLEAN
        /\ c.op \in {"share", "unshare"}
    BY <1>1, <1>3, Whereabouts DEF ProfilesTask, ProfileHolds, ChangeTemplate, At
  <2>2. PICK made : task' = [task EXCEPT ![h].at = "write", ![h].copy.tmpl = made]
    BY <1>3 DEF ChangeTemplate
  <2>3. task' = [task EXCEPT ![h] = [c EXCEPT !.at = "write", !.copy.tmpl = made]]
    <3>1. task = [w \in Workers |-> task[w]]
      BY DEF AllTyped, TasksTyped
    <3> QED
      BY <1>1, <2>2, <3>1
  <2>4. /\ Moves(h) /\ task'[h] = [c EXCEPT !.at = "write", !.copy.tmpl = made]
    BY <1>1, <2>3, GoesOn DEF AllTyped
  <2>5. task'[h].op = c.op
    BY <1>1, <2>4 DEF IsTask
  <2>6. /\ UNCHANGED <<exists, emails, off, kept, lost>>
        /\ invites' = (IF c.op = "share"
                       THEN [invites EXCEPT ![nextCode] = Fresh(Nobody, c.arg.timed)]
                       ELSE Without({c.copy.tmpl}))
        /\ nextCode' = (IF c.op = "share" THEN nextCode + 1 ELSE nextCode)
    BY <1>3 DEF ChangeTemplate, ghosts
  <2>7. Evolves /\ \A v \in Users : Left(v)
    <3>1. CASE c.op = "share"
      <4>1. nextCode \in Codes
        BY <1>1, <2>1, <3>1, OneIsLeft DEF WillMake, Works
      <4>2. /\ Evolves /\ \A a \in Codes : a # nextCode => invites'[a] = invites[a]
            /\ invites[nextCode] = NoInvite /\ invites'[nextCode].owner = Nobody
        BY <2>1, <2>6, <3>1, <4>1, Made DEF AllTyped
      <4>3. \A v \in Users : Owned(v)' = Owned(v)
        BY <4>2, AccountsAssumption DEF Owned
      <4> QED
        BY <2>6, <4>2, <4>3 DEF Left, RowLeft
    <3>2. CASE c.op # "share"
      <4>1. invites' = Without({c.copy.tmpl}) /\ UNCHANGED <<exists, emails, nextCode>>
        BY <2>6, <3>2
      <4>2. Evolves
        BY <4>1, Dropped DEF AllTyped
      <4>3. \A a \in Codes \cap {c.copy.tmpl} :
                invites[a] # NoInvite => invites[a].owner = Nobody
        <5> SUFFICES ASSUME NEW a \in Codes, a = c.copy.tmpl, invites[a] # NoInvite
                     PROVE  invites[a].owner = Nobody
          OBVIOUS
        <5>1. TemplateCode(a)
          BY <2>1
        <5>2. a # NoKey
          BY DEF Codes, NoKey
        <5> QED
          BY <5>1, <5>2 DEF TemplateCode
      <4>4. \A v \in Users : Left(v)
        <5> DEFINE none == {}
        <5>1. \A a \in Codes \cap {c.copy.tmpl} :
                invites[a] # NoInvite => invites[a].owner \in none \cup {Nobody}
          BY <4>3
        <5>2. \A v \in Users : v \notin none
          OBVIOUS
        <5> HIDE DEF none
        <5> QED
          BY <4>1, <5>1, <5>2, OthersAreLeft
      <4> QED
        BY <4>2, <4>4
    <3> QED
      BY <3>1, <3>2
  <2>8. SeesReferrals(h)'
    BY <1>1, <2>5 DEF SeesReferrals
  <2> QED
    BY <1>1, <1>2, <2>4, <2>6, <2>7, <2>8, NoneChange
<1>4. CASE WriteProfile(h) \/ DropProfile(h) \/ SetOneDefault(h)
  <2>1. UNCHANGED <<exists, emails, invites, nextCode, off, kept>> /\ lost \subseteq lost'
    BY <1>4 DEF WriteProfile, DropProfile, SetOneDefault, Overwrite
  <2>2. PICK next : Announce(h, Nobody, next) /\ (next # Idle => next.op = c.op)
    <3>1. CASE WriteProfile(h)
      <4>1. PICK more \in BOOLEAN :
                Announce(h, Nobody, IF more THEN [task[h] EXCEPT !.at = "drop"] ELSE Idle)
        BY <3>1 DEF WriteProfile
      <4>2. [task[h] EXCEPT !.at = "drop"].op = c.op
        BY <1>1 DEF IsTask
      <4> QED
        BY <4>1, <4>2
    <3>2. CASE DropProfile(h)
      BY <3>2 DEF DropProfile
    <3>3. CASE SetOneDefault(h)
      <4>1. PICK last, p :
                Announce(h, Nobody, IF last THEN Idle ELSE [task[h] EXCEPT !.arg.left = @ \ {p}])
        BY <3>3 DEF SetOneDefault
      <4>2. [task[h] EXCEPT !.arg.left = @ \ {p}].op = c.op
        BY <1>1 DEF IsTask
      <4> QED
        BY <4>1, <4>2
    <3> QED
      BY <1>4, <3>1, <3>2, <3>3
  <2>3. task'[h] = next
    BY <1>1, <2>2, Announced DEF AllTyped
  <2>4. SeesReferrals(h)'
    BY <1>1, <2>2, <2>3 DEF SeesReferrals, Works
  <2> QED
    BY <1>1, <1>2, <2>1, <2>2, <2>4, ReferralsLocal
<1> QED
  BY <1>3, <1>4

LEMMA ReferralsOfRequest ==
    ASSUME AllTyped, AllTyped', RowsInv, ReferralsInv, NEW h \in Callers, Request(h)
    PROVE  ReferralsInv'
<1>1. h \in Workers
  BY DEF Workers
<1>2. CASE SetAccountsAdmin(h) \/ ModifyLabels(h) \/ ModifyEmail(h)
  BY <1>2, ReadRowReferrals DEF SetAccountsAdmin, ModifyLabels, ModifyEmail
<1>3. CASE \/ Signup(h) \/ EnableReferralForUsers(h) \/ GetMyReferral(h) \/ CheckInvite(h)
           \/ SetDefaultProfile(h)
  BY <1>3, BeginReferrals
<1>4. ASSUME NEW op \in ProfileOps, NEW pos, NEW from, NEW to, NEW timed,
             ReadProfile(h, op, pos, from, to, timed)
      PROVE  ReferralsInv'
  <2>1. op \notin UserOps
    BY <1>4 DEF UserOps, ProfileOps
  <2> QED
    BY <1>4, <2>1, ReferralsBegun DEF ReadProfile, ghosts
<1>5. CASE \/ ReplaceRawProfile(h) \/ SetJellyseerrProfile(h) \/ SetOmbiProfile(h)
           \/ EnableReferralForProfile(h) \/ DisableReferralForProfile(h)
  <2>1. "content" \in ProfileOps /\ "share" \in ProfileOps /\ "unshare" \in ProfileOps
    BY DEF ProfileOps
  <2> QED
    BY <1>4, <1>5, <2>1 DEF ReplaceRawProfile, SetJellyseerrProfile, SetOmbiProfile,
                    EnableReferralForProfile, DisableReferralForProfile
<1>6. CASE WriteRow(h) \/ StoreNewRow(h) \/ FindRow(h)
  BY <1>1, <1>6, WriteRowReferrals, StoreNewRowReferrals, FindRowReferrals
<1>7. CASE ShareTemplate(h) \/ FindTemplate(h)
  BY <1>7, LocalReferrals
<1>8. CASE WipeOut(h) \/ PutReferral(h) \/ DisableReferralForUsers(h) \/ DropReferral(h)
  BY <1>8, WipeOutReferrals, PutReferralReferrals, DisableReferrals, DropReferralReferrals
<1>9. CASE Delete(h) \/ SpendLast(h)
  BY <1>1, <1>9, DeleteReferrals, SpendLastReferrals
<1>10. CASE ChangeTemplate(h) \/ WriteProfile(h) \/ DropProfile(h) \/ SetOneDefault(h)
  BY <1>10, ProfilesLeaveReferrals
<1> QED
  BY <1>2, <1>3, <1>5, <1>6, <1>7, <1>8, <1>9, <1>10 DEF Request

LEMMA CrashReferrals ==
    ASSUME AllTyped, ReferralsInv, Crash PROVE ReferralsInv'
<1>1. /\ \A w \in Workers : task'[w] = Idle
      /\ UNCHANGED <<emails, invites, off, kept>> /\ lost \subseteq lost'
      /\ lost' = lost \cup {task[w].who : w \in {v \in Workers :
                  /\ task[v] # Idle
                  /\ \/ task[v].at \in {"write", "drop", "each"} /\ task[v].who = Nobody
                     \/ task[v].at = "put" /\ task[v].op = "mine"}}
  BY DEF Crash
<1>2. \A w \in Workers, u \in Users : Renews(w, u) => u \in lost'
  BY <1>1 DEF Renews, Works
<1>3. \A w \in Workers : SeesReferrals(w)'
  BY <1>1 DEF SeesReferrals, Works
<1>4. \A u : Owned(u)' = Owned(u) /\ (HasReferrals(u)' <=> HasReferrals(u))
  BY <1>1 DEF Owned, HasReferrals
<1>5. OneEach'
  BY <1>1, <1>4 DEF ReferralsInv, OneEach, Owned
<1>6. DisabledStays'
  BY <1>1, <1>4 DEF ReferralsInv, DisabledStays, HasReferrals, Owned
<1>7. Kept'
  <2> SUFFICES ASSUME NEW u \in kept' \ lost'
               PROVE  Owned(u)' # {} /\ \A c \in Owned(u)' : ~invites'[c].timed
    BY DEF Kept, Owned
  <2>1. u \in kept \ lost /\ u \in Users
    BY <1>1 DEF AllTyped, TablesTyped
  <2> QED
    BY <1>1, <1>2, <1>4, <2>1 DEF ReferralsInv, Kept
<1> QED
  BY <1>3, <1>5, <1>6, <1>7 DEF ReferralsInv

LEMMA ReferralsStep ==
    ASSUME AllTyped, AllTyped', RowsInv, ReferralsInv, AccountsStep PROVE ReferralsInv'
<1>1. Daemon \in Workers /\ task = [w \in Workers |-> task[w]]
  BY DEF Workers, AllTyped, TasksTyped
<1>2. CASE Crash
  BY <1>2, CrashReferrals
<1>3. CASE Elsewhere
  <2>1. UNCHANGED <<exists, emails, invites, nextCode, off, kept, lost>>
    BY <1>3 DEF Elsewhere, ghosts
  <2>2. CASE UNCHANGED task
    <3>1. task' = [task EXCEPT ![Daemon] = task[Daemon]]
      BY <1>1, <2>2
    <3> QED
      BY <1>1, <2>1, <3>1, ReferralsLocal
  <2>3. ASSUME NEW h \in Callers, At(h, "push"), End(h) PROVE ReferralsInv'
    <3>1. h \in Workers /\ task' = [task EXCEPT ![h] = Idle] /\ task'[h] = Idle
      BY <1>1, <2>3 DEF End, Workers
    <3>2. SeesReferrals(h)' /\ \A u \in Users : ~Renews(h, u)
      BY <2>3, <3>1 DEF SeesReferrals, Renews, Works, At
    <3> QED
      BY <2>1, <3>1, <3>2, ReferralsLocal
  <2> QED
    BY <1>3, <2>2, <2>3 DEF Elsewhere
<1>4. CASE DaemonStep
  BY <1>1, <1>4, SweepReferrals, FindRowReferrals, WriteRowReferrals, DeleteReferrals DEF DaemonStep
<1>5. CASE CreateProfile \/ DeleteProfile
  <2>1. PICK p, profile : StoreProfile(p, profile)
    BY <1>5 DEF CreateProfile, DeleteProfile
  <2>2. Announce(Daemon, Nobody, task[Daemon])
        /\ UNCHANGED <<exists, emails, invites, nextCode, off, kept, lost>>
    BY <2>1 DEF StoreProfile, ghosts
  <2> QED
    BY <1>1, <2>2, ReferralsLocal
<1>6. CASE TimePasses
  <2>1. PICK c \in Codes : invites[c] # NoInvite /\ invites' = [invites EXCEPT ![c].over = TRUE]
    BY <1>6 DEF TimePasses
  <2>2. UNCHANGED <<exists, emails, nextCode, task, off, kept, lost>>
    BY <1>6 DEF TimePasses, ghosts
  <2>3. /\ Evolves
        /\ \A d \in Codes : /\ invites'[d] = NoInvite <=> invites[d] = NoInvite
                            /\ invites[d] # NoInvite => invites'[d].owner = invites[d].owner
    BY <2>1, <2>2, Over DEF AllTyped
  <2>4. \A u \in Users : Left(u)
    BY <2>2, <2>3 DEF Left, RowLeft, Owned
  <2>5. Moves(Daemon) /\ Follows(Daemon)
    BY <1>1, <2>2 DEF Moves, Follows, AllTyped, TasksTyped, Typed, Works
  <2> QED
    BY <1>1, <2>2, <2>3, <2>4, <2>5, NoneChange
<1> QED
  BY <1>2, <1>3, <1>4, <1>5, <1>6, ReferralsOfRequest DEF AccountsStep, TableStep

-----------------------------------------------------------------------------
(* Profiles: steps *)

\* Templates that are there, or were ended by a visitor, are still.
TemplatesRemain ==
    \A k : TemplateCode(k) /\ InStore(k, invites, gone) => InStore(k, invites', gone')

LEMMA AfterTyped ==
    ASSUME AllTyped, NEW w \in Pending, NEW p \in Names
    PROVE  /\ After(task[w], profiles)[p] \in Profile \cup {NoProfile}
           /\ After(task[w], profiles)[p] # NoProfile =>
                  TemplateCode(After(task[w], profiles)[p].tmpl)
<1>1. /\ profiles[p] \in Profile \cup {NoProfile}
      /\ profiles[p] # NoProfile => TemplateCode(profiles[p].tmpl)
  BY DEF AllTyped, TablesTyped
<1>2. /\ task[w] # Idle /\ w \in Workers /\ task[w].who = Nobody
      /\ task[w].at \in {"write", "drop", "each"}
  BY DEF Pending, Works
<1>3. /\ task[w].op \in ProfileOps /\ ProfilesTask(w)
  <2>1. Typed(w) /\ task[w].op \in UserOps =>
            task[w].at \notin {"write", "drop", "each"} \/ task[w].who # Nobody
    <3>1. Typed(w) /\ UserTask(w) => task[w].who \in exists \/ task[w].at = "delete"
      BY DEF UserTask
    <3>2. Nobody \notin exists
      BY AccountsAssumption DEF AllTyped, TablesTyped
    <3> QED
      BY <1>2, <3>1, <3>2 DEF Typed
  <2>2. Typed(w)
    BY <1>2, Whereabouts
  <2> QED
    BY <1>2, <2>1, <2>2 DEF Typed
<1>4. CASE task[w].at = "each" /\ p \in task[w].arg.left
  <2>1. task[w].op = "default"
    BY <1>2, <1>4, Whereabouts
  <2>2. /\ task[w].copy.all[p] \in Profile /\ TemplateCode(task[w].copy.all[p].tmpl)
    BY <1>3, <1>4, <2>1 DEF ProfilesTask, ProfileHolds
  <2>3. After(task[w], profiles)[p] =
            [task[w].copy.all[p] EXCEPT !.default = (p = task[w].arg.to)]
    BY <1>4 DEF After
  <2> QED
    BY <2>2, <2>3 DEF Profile
<1>5. CASE task[w].at = "write" /\ p = task[w].arg.to
  <2>1. task[w].op # "default"
    BY <1>2, <1>5, Whereabouts
  <2>2. task[w].copy \in Profile /\ TemplateCode(task[w].copy.tmpl)
    BY <1>3, <2>1 DEF ProfilesTask, ProfileHolds
  <2> QED
    BY <1>5, <2>2 DEF After
<1> QED
  BY <1>1, <1>4, <1>5 DEF After

LEMMA CleanStays ==
    ASSUME NEW T, Clean(T, invites, gone), TemplatesRemain,
           \A p \in Names : T[p] # NoProfile => TemplateCode(T[p].tmpl)
    PROVE  Clean(T, invites', gone')
BY DEF Clean, TemplatesRemain

\* Whoever is at a profile stays there, as long as he does not move.
LEMMA PendingStays ==
    ASSUME NEW w \in Workers, Follows(w)
    PROVE  /\ w \in Pending' <=> w \in Pending
           /\ w \in Pending => After(task'[w], profiles) = After(task[w], profiles)
           /\ w \in Pending /\ task[w].stale => task'[w].stale
BY DEF Pending, Follows, Works, After

LEMMA DoomedLasts ==
    ASSUME Doomed, NEW h \in Workers, Moves(h), lost \subseteq lost', h \notin Pending \/ Follows(h)
    PROVE  Doomed'
<1>1. \A w \in Pending : w \in Workers /\ Follows(w)
  BY DEF Moves, Pending
<1>2. \A w \in Pending : w \in Pending' /\ (task[w].stale => task'[w].stale)
  BY <1>1, PendingStays
<1> QED
  BY <1>2 DEF Doomed

\* Profiles are left, and h does not come to change any.
LEMMA ProfilesLeft ==
    ASSUME AllTyped, ProfilesInv, NEW h \in Workers, Moves(h), UNCHANGED profiles,
           lost \subseteq lost', TemplatesRemain,
           \/ Follows(h)
           \/ /\ h \notin Pending /\ h \notin Pending'
              /\ Works(h)' /\ ~task'[h].stale /\ task'[h].at = "template of profile" =>
                     profiles[task'[h].arg.from] = task'[h].copy
    PROVE  ProfilesInv'
<1>1. CASE Doomed
  BY <1>1, DoomedLasts DEF ProfilesInv
<1>2. CASE ~Doomed
  <2>1. /\ Pending = {} => Clean(profiles, invites, gone)
        /\ \A w \in Pending : Clean(After(task[w], profiles), invites, gone)
        /\ \A w \in Workers :
             Works(w) /\ ~task[w].stale /\ task[w].at = "template of profile" =>
                 profiles[task[w].arg.from] = task[w].copy
    BY <1>2 DEF ProfilesInv
  <2>2. \A w \in Workers : w \in Pending' <=> w \in Pending
    BY PendingStays DEF Moves
  <2>3. Pending' = Pending
    BY <2>2 DEF Pending
  <2>4. Pending' = {} => Clean(profiles', invites', gone')
    BY <2>1, <2>3, CleanStays DEF AllTyped, TablesTyped
  <2>5. \A w \in Pending' : Clean(After(task'[w], profiles'), invites', gone')
    <3> SUFFICES ASSUME NEW w \in Pending PROVE Clean(After(task'[w], profiles'), invites', gone')
      BY <2>3
    <3>1. w \in Workers /\ Follows(w)
      BY <2>3 DEF Moves, Pending
    <3>2. After(task'[w], profiles') = After(task[w], profiles)
      BY <3>1, PendingStays
    <3>3. Clean(After(task[w], profiles), invites', gone')
      <4> DEFINE T == After(task[w], profiles)
      <4>1. /\ Clean(T, invites, gone)
            /\ \A p \in Names : T[p] # NoProfile => TemplateCode(T[p].tmpl)
        BY <2>1, AfterTyped
      <4> HIDE DEF T
      <4>2. Clean(T, invites', gone')
        BY <4>1, CleanStays
      <4> QED
        BY <4>2 DEF T
    <3> QED
      BY <3>2, <3>3
  <2>6. \A w \in Workers :
             Works(w)' /\ ~task'[w].stale /\ task'[w].at = "template of profile" =>
                 profiles'[task'[w].arg.from] = task'[w].copy
    <3> SUFFICES ASSUME NEW w \in Workers, Works(w)', ~task'[w].stale,
                        task'[w].at = "template of profile"
                 PROVE  profiles[task'[w].arg.from] = task'[w].copy
      OBVIOUS
    <3>1. CASE Follows(w)
      <4>1. /\ Works(w) /\ ~task[w].stale /\ task[w].at = task'[w].at
            /\ task[w].arg = task'[w].arg /\ task[w].copy = task'[w].copy
        <5>1. IsTask(task'[w]) /\ task[w] # Idle /\ IsTask(task[w])
          BY <3>1, Whereabouts DEF Follows, Works
        <5> QED
          BY <3>1, <5>1 DEF Follows, Works, IsTask
      <4> QED
        BY <2>1, <4>1
    <3>2. CASE ~Follows(w)
      BY <3>2 DEF Moves
    <3> QED
      BY <3>1, <3>2
  <2> QED
    BY <2>4, <2>5, <2>6 DEF ProfilesInv, Works
<1> QED
  BY <1>1, <1>2

\* Who comes to change profiles is the only one, or is doomed.
LEMMA ProfileTaken ==
    ASSUME AllTyped, ProfilesInv, NEW h \in Workers, Moves(h), UNCHANGED <<profiles, lost>>,
           h \notin Pending, h \in Pending',
           ~Doomed /\ Pending = {} => Clean(After(task'[h], profiles), invites', gone') \/ Doomed'
    PROVE  ProfilesInv'
<1>1. CASE Doomed
  BY <1>1, DoomedLasts DEF ProfilesInv
<1>2. CASE Pending # {}
  <2>1. PICK w \in Pending : w # h /\ w \in Workers
    BY <1>2 DEF Pending
  <2>2. w \in Pending'
    BY <2>1, PendingStays DEF Moves
  <2> QED
    BY <2>1, <2>2 DEF ProfilesInv, Doomed
<1>3. CASE ~Doomed /\ Pending = {} /\ ~Doomed'
  <2>1. \A w \in Pending' : w = h
    BY <1>3, PendingStays DEF Moves, Pending
  <2>2. Clean(After(task'[h], profiles'), invites', gone')
    BY <1>3
  <2>3. \A w \in Workers :
             Works(w)' /\ ~task'[w].stale /\ task'[w].at = "template of profile" =>
                 profiles'[task'[w].arg.from] = task'[w].copy
    <3>1. task'[h].at # "template of profile"
      BY DEF Pending
    <3>2. \A w \in Workers :
               Works(w) /\ ~task[w].stale /\ task[w].at = "template of profile" =>
                   profiles[task[w].arg.from] = task[w].copy
      BY <1>3 DEF ProfilesInv
    <3> QED
      BY <3>1, <3>2 DEF Moves, Follows, Works
  <2> QED
    BY <2>1, <2>2, <2>3 DEF ProfilesInv, Works
<1> QED
  BY <1>1, <1>2, <1>3 DEF ProfilesInv

\* Who changes them goes on towards what he means them to be.
LEMMA ProfileChanged ==
    ASSUME AllTyped, ProfilesInv, NEW h \in Pending, NEW next, Announce(h, Nobody, next),
           Overwrite(h), UNCHANGED <<invites, gone>>,
           \/ next = Idle /\ profiles' = After(task[h], profiles)
           \/ /\ next # Idle /\ next.who = Nobody /\ next.at \in {"drop", "each"}
              /\ next.stale = task[h].stale
              /\ After(next, profiles') = After(task[h], profiles)
    PROVE  ProfilesInv'
<1>1. /\ h \in Workers /\ task[h].who = Nobody /\ task[h].at # "push"
      /\ lost' = IF task[h].stale THEN lost \cup {Nobody} ELSE lost
  BY DEF Pending, Overwrite
<1>2. /\ Moves(h) /\ task'[h] = next
      /\ \A w \in Workers \ {h} :
            Works(w) /\ task[w].who = Nobody /\ task[w].at # "push" => task'[w].stale
  BY <1>1, Announced DEF AllTyped
<1>3. CASE Doomed
  <2>1. CASE Nobody \in lost \/ task[h].stale
    BY <1>1, <2>1 DEF ProfilesInv, Doomed
  <2>2. CASE ~(Nobody \in lost \/ task[h].stale)
    <3>1. PICK w \in Pending : w # h
      BY <1>3, <2>2 DEF Doomed
    <3>2. w \in Pending' /\ task'[w].stale
      BY <1>2, <3>1, PendingStays DEF Moves, Pending
    <3> QED
      BY <3>2 DEF ProfilesInv, Doomed
  <2> QED
    BY <2>1, <2>2
<1>4. CASE ~Doomed
  <2>1. \A w \in Pending : w = h
    BY <1>4 DEF Doomed
  <2>2. Clean(After(task[h], profiles), invites', gone')
    BY <1>4 DEF ProfilesInv
  <2>3. \A w \in Workers \ {h} : w \notin Pending'
    BY <1>2, <2>1, PendingStays DEF Moves
  <2>4. \A w \in Workers : Works(w)' /\ ~task'[w].stale => task'[w].at # "template of profile"
    <3> SUFFICES ASSUME NEW w \in Workers, Works(w)', task'[w].at = "template of profile"
                 PROVE  task'[w].stale
      OBVIOUS
    <3>1. w # h
      BY <1>2 DEF Works
    <3>2. task[w] # Idle /\ task[w].at = "template of profile"
      BY <1>2, <3>1 DEF Moves, Follows, Works
    <3>3. task[w].who = Nobody
      BY <3>2, Whereabouts
    <3> QED
      BY <1>2, <3>1, <3>2, <3>3 DEF Works
  <2>5. Pending' \subseteq {h}
    BY <2>3 DEF Pending
  <2>6. CASE next = Idle
    <3>1. Pending' = {}
      BY <1>2, <2>5, <2>6 DEF Pending, Works
    <3> QED
      BY <2>2, <2>4, <2>6, <3>1 DEF ProfilesInv
  <2>7. CASE next # Idle
    <3>1. Pending' # {}
      BY <1>1, <1>2, <2>7 DEF Pending, Works
    <3>2. \A w \in Pending' : Clean(After(task'[w], profiles'), invites', gone')
      BY <1>2, <2>2, <2>5, <2>7
    <3> QED
      BY <2>4, <3>1, <3>2 DEF ProfilesInv
  <2> QED
    BY <2>6, <2>7
<1> QED
  BY <1>3, <1>4

\* Templates that no visitor ended are not dropped.
LEMMA TemplatesAreLeft ==
    ASSUME gone \subseteq gone',
           \A k \in Codes : invites[k] # NoInvite /\ invites[k].owner = Nobody =>
               invites'[k] # NoInvite \/ k \in gone'
    PROVE  TemplatesRemain
BY DEF TemplatesRemain, TemplateCode, InStore

\* Where nothing is said of profiles.
LEMMA ProfilesLeftBy ==
    ASSUME AllTyped, ProfilesInv, NEW h \in Workers, Moves(h), h \notin Pending,
           UNCHANGED profiles, lost \subseteq lost', TemplatesRemain,
           task'[h] # Idle =>
               \/ task'[h].at \in {"row", "find", "wipe", "put", "push", "template", "delete",
                                   "share"}
               \/ task'[h].at = "drop" /\ task'[h].who # Nobody
    PROVE  ProfilesInv'
<1>1. h \notin Pending'
  BY DEF Pending, Works
<1>2. Works(h)' => task'[h].at # "template of profile"
  BY DEF Works
<1> QED
  BY <1>1, <1>2, ProfilesLeft

LEMMA UsersAreElsewhere ==
    ASSUME AllTyped, NEW h \in Workers, task[h] # Idle => task[h].op \in UserOps
    PROVE  h \notin Pending
<1>1. CASE Works(h)
  <2>1. Typed(h) /\ task[h].op \in UserOps
    BY <1>1, Whereabouts DEF Works
  <2>2. UserTask(h)
    BY <2>1 DEF Typed
  <2>3. task[h].who \in exists \/ task[h].at = "delete"
    BY <2>2 DEF UserTask
  <2>4. Nobody \notin exists
    BY AccountsAssumption DEF AllTyped, TablesTyped
  <2> QED
    BY <2>3, <2>4 DEF Pending
<1> QED
  BY <1>1 DEF Pending

Quiet(c) == c.at \in {"row", "find", "wipe", "put", "push", "template", "delete", "share"}

\* Rows are written, and tasks go on.
LEMMA RowsLeaveProfiles ==
    ASSUME AllTyped, ProfilesInv, NEW h \in Workers,
           WriteRow(h) \/ StoreNewRow(h) \/ FindRow(h) \/ ShareTemplate(h) \/ FindTemplate(h)
    PROVE  ProfilesInv'
<1>1. /\ task[h] # Idle /\ IsTask(task[h]) /\ task[h].op \in UserOps
      /\ UNCHANGED <<profiles, invites, gone>> /\ lost \subseteq lost'
  BY Whereabouts DEF WriteRow, StoreNewRow, FindRow, ShareTemplate, FindTemplate, At, Overwrite,
                     ghosts
<1>2. TemplatesRemain
  BY <1>1, TemplatesAreLeft
<1>3. Moves(h) /\ (task'[h] # Idle => Quiet(task'[h]))
  <2>1. CASE WriteRow(h)
    <3>1. PICK next : Announce(h, task[h].who, next) /\ (next # Idle => Quiet(next))
      <4>1. Quiet(Push("email", task[h].who, task[h].arg.addr))
        BY TaskIsTask DEF Push, Quiet
      <4>2. Quiet([task[h] EXCEPT !.at = "delete"])
        BY <1>1 DEF IsTask, Quiet
      <4>3. CASE task[h].op = "email"
        BY <2>1, <4>1, <4>3 DEF WriteRow
      <4>4. CASE task[h].op = "expire"
        BY <2>1, <4>2, <4>4 DEF WriteRow
      <4>5. CASE task[h].op \notin {"email", "expire"}
        BY <2>1, <4>5 DEF WriteRow
      <4> QED
        BY <4>3, <4>4, <4>5
    <3> QED
      BY <3>1, Announced DEF AllTyped
  <2>2. CASE StoreNewRow(h)
    <3>1. Announce(h, task[h].who, [task[h] EXCEPT !.at = "share"])
      BY <2>2 DEF StoreNewRow
    <3>2. Quiet([task[h] EXCEPT !.at = "share"])
      BY <1>1 DEF IsTask, Quiet
    <3> QED
      BY <3>1, <3>2, Announced DEF AllTyped
  <2>3. CASE FindRow(h) \/ ShareTemplate(h) \/ FindTemplate(h)
    <3>1. PICK next : task' = [task EXCEPT ![h] = next] /\ (next # Idle => Quiet(next))
      <4>1. CASE FindRow(h)
        <5>1. Quiet([task[h] EXCEPT !.at = "row", !.copy = emails[task[h].who]])
          BY <1>1 DEF IsTask, Quiet
        <5>2. Quiet([task[h] EXCEPT !.at = "delete"])
          BY <1>1 DEF IsTask, Quiet
        <5> QED
          BY <4>1, <5>1, <5>2 DEF FindRow
      <4>2. CASE ShareTemplate(h)
        <5>1. PICK timed \in BOOLEAN :
            task' = [task EXCEPT ![h] = IF timed
                                 THEN [task[h] EXCEPT !.at = "put", !.arg = [timed |-> TRUE]]
                                 ELSE Push("signup", task[h].who, task[h].copy.addr)]
          BY <4>2 DEF ShareTemplate
        <5>2. Quiet([task[h] EXCEPT !.at = "put", !.arg = [timed |-> TRUE]])
          BY <1>1 DEF IsTask, Quiet
        <5>3. Quiet(Push("signup", task[h].who, task[h].copy.addr))
          BY TaskIsTask DEF Push, Quiet
        <5> QED
          BY <5>1, <5>2, <5>3
      <4>3. CASE FindTemplate(h)
        <5>1. PICK found, timed :
            task' = [task EXCEPT ![h] = IF found
                                 THEN [task[h] EXCEPT !.at = "put", !.arg = [timed |-> timed]]
                                 ELSE Idle]
          BY <4>3 DEF FindTemplate
        <5>2. Quiet([task[h] EXCEPT !.at = "put", !.arg = [timed |-> timed]])
          BY <1>1 DEF IsTask, Quiet
        <5> QED
          BY <5>1, <5>2
      <4> QED
        BY <2>3, <4>1, <4>2, <4>3
    <3> QED
      BY <3>1, GoesOn DEF AllTyped
  <2> QED
    BY <2>1, <2>2, <2>3
<1>4. h \notin Pending
  BY <1>1, UsersAreElsewhere
<1> QED
  BY <1>1, <1>2, <1>3, <1>4, ProfilesLeftBy DEF Quiet

\* Referrals come and go; templates stay, or a visitor ends one.
LEMMA ReferralsLeaveProfiles ==
    ASSUME AllTyped, ProfilesInv, NEW h \in Workers,
           \/ WipeOut(h) \/ DisableReferralForUsers(h) \/ DropReferral(h) \/ PutReferral(h)
           \/ Delete(h) \/ SpendLast(h)
    PROVE  ProfilesInv'
<1>1. UNCHANGED profiles /\ lost \subseteq lost' /\ gone \subseteq gone'
  BY DEF WipeOut, DisableReferralForUsers, DropReferral, PutReferral, Delete, SpendLast,
         Overwrite, ghosts
<1>2. task[h] # Idle => IsTask(task[h]) /\ Typed(h) /\ task[h].op \in UserOps
  BY Whereabouts DEF WipeOut, DisableReferralForUsers, DropReferral, PutReferral, Delete,
                     SpendLast, At, UserOps
<1>3. PICK s, next : Announce(h, s, next) /\ (next # Idle => Quiet(next))
  <2>1. CASE WipeOut(h)
    <3>1. Quiet([task[h] EXCEPT !.at = "put"])
      BY <1>2, <2>1 DEF WipeOut, At, IsTask, Quiet
    <3> QED
      BY <2>1, <3>1 DEF WipeOut
  <2>2. CASE PutReferral(h)
    <3>1. PICK over \in BOOLEAN : Announce(h, task[h].who, IF over THEN Idle
                                     ELSE Push(task[h].op, task[h].who, task[h].copy.addr))
      BY <2>2 DEF PutReferral
    <3>2. Quiet(Push(task[h].op, task[h].who, task[h].copy.addr))
      BY TaskIsTask DEF Push, Quiet
    <3> QED
      BY <3>1, <3>2
  <2>3. CASE DisableReferralForUsers(h)
    BY <2>3, TaskIsTask DEF DisableReferralForUsers, Quiet
  <2>4. CASE DropReferral(h)
    <3>1. PICK timed \in BOOLEAN :
            Announce(h, task[h].who, IF timed THEN [task[h] EXCEPT !.at = "find"]
                               ELSE [task[h] EXCEPT !.at = "put", !.arg = [timed |-> FALSE]])
      BY <2>4 DEF DropReferral
    <3>2. /\ Quiet([task[h] EXCEPT !.at = "find"])
          /\ Quiet([task[h] EXCEPT !.at = "put", !.arg = [timed |-> FALSE]])
      BY <1>2, <2>4 DEF DropReferral, At, IsTask, Quiet
    <3> QED
      BY <3>1, <3>2
  <2>5. CASE Delete(h)
    BY <2>5 DEF Delete
  <2>6. CASE SpendLast(h)
    BY <2>6 DEF SpendLast
  <2> QED
    BY <2>1, <2>2, <2>3, <2>4, <2>5, <2>6
<1>4. Moves(h) /\ task'[h] = next
  BY <1>3, Announced DEF AllTyped
<1>5. h \notin Pending
  BY <1>2, UsersAreElsewhere
<1>6. \A k \in Codes : invites[k] # NoInvite /\ invites[k].owner = Nobody =>
               invites'[k] # NoInvite \/ k \in gone'
  <2> SUFFICES ASSUME NEW k \in Codes, invites[k] # NoInvite, invites[k].owner = Nobody
               PROVE  invites'[k] # NoInvite \/ k \in gone'
    OBVIOUS
  <2>1. \A u \in Users : k \notin Owned(u)
    BY AccountsAssumption DEF Owned
  <2>2. CASE PutReferral(h)
    <3>1. invites[k] # NoInvite /\ PutReferral(h) => k # nextCode
      BY DEF AllTyped, TablesTyped, InvitesTyped
    <3> QED
      BY <2>2, <3>1 DEF PutReferral
  <2>3. CASE WipeOut(h)
    <3>1. task[h].who \in Users
      BY <1>2, <2>3, OfUsers DEF WipeOut, At
    <3> QED
      BY <2>1, <2>3, <3>1 DEF WipeOut, Without
  <2>4. CASE DisableReferralForUsers(h)
    <3>1. exists \subseteq Users
      BY DEF AllTyped, TablesTyped
    <3> QED
      BY <2>1, <2>4, <3>1 DEF DisableReferralForUsers, Without
  <2>5. CASE SpendLast(h)
    BY <2>1, <2>5 DEF SpendLast, Without
  <2>6. CASE DropReferral(h)
    <3>1. task[h].who # Nobody /\ Expiring(h)
      BY <1>2, <2>6, OfUsers DEF DropReferral, At, Typed, UserTask
    <3>2. k # task[h].arg.code
      BY <3>1 DEF Expiring
    <3> QED
      BY <2>6, <3>2 DEF DropReferral, Without
  <2>7. CASE Delete(h)
    <3>1. Expiring(h) /\ (h = Daemon => task[h].who # Nobody)
      BY <1>2, <2>7, Whereabouts DEF Delete, At, Typed, UserTask, AllTyped, TasksTyped
    <3>2. k = task[h].arg.code => task[h].who = Nobody /\ h # Daemon
      BY <3>1 DEF Expiring
    <3> QED
      BY <2>7, <3>2 DEF Delete, Without
  <2> QED
    BY <2>2, <2>3, <2>4, <2>5, <2>6, <2>7
<1>7. TemplatesRemain
  BY <1>1, <1>6, TemplatesAreLeft
<1> QED
  BY <1>1, <1>3, <1>4, <1>5, <1>7, ProfilesLeftBy DEF Quiet

\* A request of a user begins, or one that reads a profile before it changes a template.
LEMMA ProfilesBegun ==
    ASSUME AllTyped, ProfilesInv, NEW h \in Callers, NEW op, NEW who, NEW pos, NEW copy, NEW arg,
           Begin(h, Task(op, who, pos, copy, arg)),
           UNCHANGED <<invites, profiles, gone, lost>>,
           \/ pos \in {"row", "find", "wipe", "template", "delete"}
           \/ pos = "drop" /\ who # Nobody
           \/ pos = "template of profile" /\ copy = profiles[arg.from]
    PROVE  ProfilesInv'
<1>1. /\ Moves(h) /\ ~Works(h) /\ h \in Workers /\ task'[h].at = pos /\ task'[h].who = who
      /\ task'[h].copy = copy /\ task'[h].arg = arg
  <2>1. task' = [task EXCEPT ![h] = Task(op, who, pos, copy, arg)] /\ ~Works(h)
    BY DEF Begin, Works
  <2>2. Moves(h) /\ task'[h] = Task(op, who, pos, copy, arg) /\ h \in Workers
    BY <2>1, GoesOn DEF AllTyped, Workers
  <2>3. LET c == Task(op, who, pos, copy, arg)
        IN  c.at = pos /\ c.who = who /\ c.copy = copy /\ c.arg = arg
    BY DEF Task
  <2> QED
    BY <2>1, <2>2, <2>3
<1>2. h \notin Pending /\ h \notin Pending'
  BY <1>1 DEF Pending
<1>3. TemplatesRemain
  BY TemplatesAreLeft
<1> QED
  BY <1>1, <1>2, <1>3, ProfilesLeft

\* A request begins that has read all it needs to change profiles.
LEMMA ContentBegun ==
    ASSUME AllTyped, ProfilesInv, NEW h \in Callers, NEW from \in Names, NEW to \in Names,
           ReadProfile(h, "content", "write", from, to, FALSE)
    PROVE  ProfilesInv'
<1> DEFINE arg == [from |-> from, to |-> to, timed |-> FALSE]
<1>1. /\ Begin(h, Task("content", Nobody, "write", profiles[from], arg))
      /\ UNCHANGED <<invites, profiles, gone, lost>> /\ profiles[from] # NoProfile
  BY DEF ReadProfile, ghosts, Present
<1>2. /\ Moves(h) /\ ~Works(h) /\ h \in Workers /\ task'[h].at = "write" /\ task'[h].who = Nobody
      /\ task'[h].copy = profiles[from] /\ task'[h].arg = arg /\ task'[h] # Idle
  BY <1>1, Begun DEF AllTyped, Workers
<1>3. h \notin Pending /\ h \in Pending'
  BY <1>2 DEF Pending, Works
<1>4. ASSUME ~Doomed, Pending = {} PROVE Clean(After(task'[h], profiles), invites, gone)
  <2>1. Clean(profiles, invites, gone)
    BY <1>4 DEF ProfilesInv
  <2> DEFINE T == After(task'[h], profiles)
  <2>2. \A p \in Names : T[p] = IF p = to THEN profiles[from]
                                ELSE IF p = from THEN NoProfile ELSE profiles[p]
    BY <1>2 DEF After
  <2> HIDE DEF T
  <2>3. Clean(T, invites, gone)
    BY <1>1, <2>1, <2>2 DEF Clean
  <2> QED
    BY <2>3 DEF T
<1> QED
  BY <1>1, <1>2, <1>3, <1>4, ProfileTaken

LEMMA DefaultBegun ==
    ASSUME AllTyped, ProfilesInv, NEW h \in Callers, SetDefaultProfile(h)
    PROVE  ProfilesInv'
<1>1. PICK to \in Present :
        Begin(h, Task("default", Nobody, "each", [all |-> profiles],
                        [to |-> to, left |-> Present]))
  BY DEF SetDefaultProfile
<1>2. UNCHANGED <<invites, profiles, gone, lost>>
  BY DEF SetDefaultProfile, ghosts
<1>3. /\ Moves(h) /\ ~Works(h) /\ h \in Workers /\ task'[h].at = "each" /\ task'[h].who = Nobody
      /\ task'[h].copy = [all |-> profiles] /\ task'[h].arg = [to |-> to, left |-> Present]
      /\ task'[h] # Idle
  BY <1>1, Begun DEF AllTyped, Workers
<1>4. h \notin Pending /\ h \in Pending'
  BY <1>3 DEF Pending, Works
<1>5. ASSUME ~Doomed, Pending = {} PROVE Clean(After(task'[h], profiles), invites, gone)
  <2>1. Clean(profiles, invites, gone)
    BY <1>5 DEF ProfilesInv
  <2> DEFINE T == After(task'[h], profiles)
  <2>2. \A p \in Names :
            /\ profiles[p] # NoProfile => T[p] = [profiles[p] EXCEPT !.default = (p = to)]
            /\ profiles[p] = NoProfile => T[p] = NoProfile
    BY <1>3 DEF After, Present
  <2> HIDE DEF T
  <2>3. \A p \in Names :
            T[p] # NoProfile => /\ profiles[p] # NoProfile /\ T[p].tmpl = profiles[p].tmpl
                                /\ T[p].default = (p = to)
    <3>1. \A p \in Names : profiles[p] # NoProfile => profiles[p] \in Profile
      BY DEF AllTyped, TablesTyped
    <3> QED
      BY <2>2, <3>1 DEF Profile
  <2>4. \A p \in Names : T[p] # NoProfile => InStore(T[p].tmpl, invites, gone)
    BY <2>1, <2>3 DEF Clean
  <2>5. \A p, q \in Names : T[p] # NoProfile /\ T[q] # NoProfile /\ p # q =>
           T[p].tmpl = NoKey \/ T[p].tmpl # T[q].tmpl
    BY <2>1, <2>3 DEF Clean
  <2>6. \A p, q \in Names : T[p] # NoProfile /\ T[q] # NoProfile /\ p # q =>
           ~T[p].default \/ ~T[q].default
    <3> SUFFICES ASSUME NEW p \in Names, NEW q \in Names, T[p] # NoProfile, T[q] # NoProfile, p # q
                 PROVE  ~T[p].default \/ ~T[q].default
      OBVIOUS
    <3>1. T[p].default = (p = to) /\ T[q].default = (q = to)
      BY <2>3
    <3> QED
      BY <3>1
  <2>7. Clean(T, invites, gone)
    BY <2>4, <2>5, <2>6 DEF Clean
  <2> QED
    BY <2>7 DEF T
<1> QED
  BY <1>2, <1>3, <1>4, <1>5, ProfileTaken

LEMMA WriteProfileProfiles ==
    ASSUME AllTyped, ProfilesInv, NEW h \in Callers, WriteProfile(h)
    PROVE  ProfilesInv'
<1> DEFINE c == task[h]
           drop == [c EXCEPT !.at = "drop"]
<1>1. /\ h \in Workers /\ task[h] # Idle /\ c.at = "write" /\ IsTask(c) /\ Works(h)
      /\ c.who = Nobody /\ c.op \in {"content", "share", "unshare"} /\ ProfileHolds(c)
      /\ profiles \in [Names -> Profile \cup {NoProfile}]
  BY Whereabouts DEF WriteProfile, At, Workers, ProfilesTask, AllTyped, TablesTyped
<1>2. h \in Pending
  BY <1>1 DEF Pending
<1>3. c.arg.to \in Names
  BY <1>1 DEF ProfileHolds
<1>4. /\ profiles' = [profiles EXCEPT ![c.arg.to] = c.copy]
      /\ Announce(h, Nobody, IF c.arg.from # c.arg.to THEN drop ELSE Idle)
      /\ Overwrite(h) /\ UNCHANGED <<invites, gone>>
  BY DEF WriteProfile
<1>5. After(c, profiles) = [p \in Names |-> IF p = c.arg.to THEN c.copy
                                           ELSE IF p = c.arg.from THEN NoProfile ELSE profiles[p]]
  BY <1>1 DEF After
<1>6. profiles' = [p \in Names |-> IF p = c.arg.to THEN c.copy ELSE profiles[p]]
  BY <1>1, <1>4
<1>7. CASE c.arg.from = c.arg.to
  <2>1. profiles' = After(c, profiles)
    BY <1>5, <1>6, <1>7
  <2> QED
    BY <1>2, <1>4, <1>7, <2>1, ProfileChanged
<1>8. CASE c.arg.from # c.arg.to
  <2>1. /\ drop # Idle /\ drop.who = Nobody /\ drop.at = "drop" /\ drop.stale = c.stale
        /\ drop.arg = c.arg
    BY <1>1 DEF IsTask, Idle
  <2>2. After(drop, profiles') =
            [p \in Names |-> IF p = c.arg.from THEN NoProfile ELSE profiles'[p]]
    BY <2>1 DEF After
  <2>3. After(drop, profiles') = After(c, profiles)
    BY <1>5, <1>6, <1>8, <2>2
  <2>4. Announce(h, Nobody, drop)
    BY <1>4, <1>8
  <2> HIDE DEF drop
  <2> QED
    BY <1>2, <1>4, <2>1, <2>3, <2>4, ProfileChanged
<1> QED
  BY <1>7, <1>8

LEMMA DropProfileProfiles ==
    ASSUME AllTyped, ProfilesInv, NEW h \in Callers, DropProfile(h)
    PROVE  ProfilesInv'
<1> DEFINE c == task[h]
<1>1. /\ h \in Workers /\ task[h] # Idle /\ c.at = "drop" /\ c.op = "content" /\ Works(h)
      /\ Typed(h) /\ profiles \in [Names -> Profile \cup {NoProfile}]
  BY Whereabouts DEF DropProfile, At, Workers, AllTyped, TablesTyped
<1>2. c.who = Nobody /\ c.arg.from \in Names
  BY <1>1 DEF Typed, ProfileOps, ProfilesTask, ProfileHolds
<1>3. h \in Pending
  BY <1>1, <1>2 DEF Pending
<1>4. After(c, profiles) = [p \in Names |-> IF p = c.arg.from THEN NoProfile ELSE profiles[p]]
  BY <1>1 DEF After
<1>5. /\ profiles' = [profiles EXCEPT ![c.arg.from] = NoProfile]
      /\ Announce(h, Nobody, Idle) /\ Overwrite(h) /\ UNCHANGED <<invites, gone>>
  BY DEF DropProfile
<1>6. profiles' = After(c, profiles)
  BY <1>1, <1>4, <1>5
<1> QED
  BY <1>3, <1>5, <1>6, ProfileChanged

LEMMA SetOneDefaultProfiles ==
    ASSUME AllTyped, ProfilesInv, NEW h \in Callers, SetOneDefault(h)
    PROVE  ProfilesInv'
<1> DEFINE c == task[h]
           rest == c.arg.left
           Defaulted(q) == [c.copy.all[q] EXCEPT !.default = (q = c.arg.to)]
<1>1. /\ h \in Workers /\ task[h] # Idle /\ c.at = "each" /\ IsTask(c) /\ Works(h)
      /\ c.who = Nobody /\ c.op = "default" /\ ProfileHolds(c)
      /\ profiles \in [Names -> Profile \cup {NoProfile}]
  BY Whereabouts DEF SetOneDefault, At, Workers, ProfilesTask, AllTyped, TablesTyped
<1>2. h \in Pending
  BY <1>1 DEF Pending
<1>3. rest \subseteq Names /\ rest # {} /\ c.arg = [to |-> c.arg.to, left |-> rest]
  BY <1>1 DEF ProfileHolds
<1>4. PICK p \in Names : p = Min(rest) /\ p \in rest
  BY <1>3, LeastName
<1> DEFINE more == [c EXCEPT !.arg.left = @ \ {p}]
<1>5. /\ profiles' = [profiles EXCEPT ![p] = Defaulted(p)]
      /\ Announce(h, Nobody, IF rest = {p} THEN Idle ELSE more)
      /\ Overwrite(h) /\ UNCHANGED <<invites, gone>>
  BY <1>4 DEF SetOneDefault
<1>6. After(c, profiles) = [q \in Names |-> IF q \in rest THEN Defaulted(q) ELSE profiles[q]]
  BY <1>1 DEF After
<1>7. profiles' = [q \in Names |-> IF q = p THEN Defaulted(q) ELSE profiles[q]]
  BY <1>1, <1>5
<1>8. CASE rest = {p}
  <2>1. profiles' = After(c, profiles)
    BY <1>6, <1>7, <1>8
  <2> QED
    BY <1>2, <1>5, <1>8, <2>1, ProfileChanged
<1>9. CASE rest # {p}
  <2>1. /\ more # Idle /\ more.who = Nobody /\ more.at = "each" /\ more.stale = c.stale
        /\ more.copy = c.copy /\ more.arg = [c.arg EXCEPT !.left = @ \ {p}]
    BY <1>1 DEF IsTask, Idle
  <2>2. more.arg.left = rest \ {p} /\ more.arg.to = c.arg.to
    BY <1>3, <2>1
  <2>3. After(more, profiles') =
            [q \in Names |-> IF q \in rest \ {p} THEN Defaulted(q) ELSE profiles'[q]]
    BY <2>1, <2>2 DEF After
  <2>4. After(more, profiles') = After(c, profiles)
    <3> HIDE DEF more, Defaulted
    <3> QED
      BY <1>4, <1>6, <1>7, <2>3
  <2>5. Announce(h, Nobody, more)
    BY <1>5, <1>9
  <2> HIDE DEF more
  <2> QED
    BY <1>2, <1>5, <2>1, <2>4, <2>5, ProfileChanged
<1> QED
  BY <1>8, <1>9

\* A template is made, which no profile has, or one is dropped that only this profile has.
LEMMA ChangeTemplateProfiles ==
    ASSUME AllTyped, ProfilesInv, NEW h \in Callers, ChangeTemplate(h)
    PROVE  ProfilesInv'
<1> DEFINE c == task[h]
           from == c.arg.from
<1>1. /\ h \in Workers /\ task[h] # Idle /\ c.at = "template of profile" /\ IsTask(c) /\ Works(h)
      /\ c.who = Nobody /\ c.op \in {"share", "unshare"} /\ ProfilesTask(h)
      /\ task = [w \in Workers |-> task[w]]
  BY Whereabouts DEF ChangeTemplate, At, Workers, AllTyped, TasksTyped
<1>2. /\ from \in Names /\ c.arg.to = from /\ c.copy \in Profile /\ TemplateCode(c.copy.tmpl)
      /\ c.op = "share" => c.arg.timed \in BOOLEAN
  BY <1>1 DEF ProfilesTask, ProfileHolds
<1>3. PICK made : /\ made = IF c.op = "share" THEN nextCode ELSE NoKey
                  /\ task' = [task EXCEPT ![h].at = "write", ![h].copy.tmpl = made]
  BY DEF ChangeTemplate
<1>4. task' = [task EXCEPT ![h] = [c EXCEPT !.at = "write", !.copy.tmpl = made]]
  BY <1>1, <1>3
<1>5. Moves(h) /\ task'[h] = [c EXCEPT !.at = "write", !.copy.tmpl = made]
  BY <1>1, <1>4, GoesOn DEF AllTyped
<1>6. /\ task'[h] # Idle /\ task'[h].who = Nobody /\ task'[h].at = "write"
      /\ task'[h].stale = c.stale /\ task'[h].arg = c.arg
      /\ task'[h].copy = [c.copy EXCEPT !.tmpl = made]
  BY <1>1, <1>5 DEF IsTask, Idle
<1>7. h \notin Pending /\ h \in Pending'
  BY <1>1, <1>6 DEF Pending, Works
<1>8. /\ UNCHANGED <<profiles, lost, gone, exists>>
      /\ invites' = (IF c.op = "share"
                     THEN [invites EXCEPT ![nextCode] = Fresh(Nobody, c.arg.timed)]
                     ELSE Without({c.copy.tmpl}))
      /\ nextCode' = (IF c.op = "share" THEN nextCode + 1 ELSE nextCode)
  BY DEF ChangeTemplate, ghosts
<1>9. CASE c.stale
  <2>1. Doomed'
    BY <1>6, <1>7, <1>9 DEF Doomed
  <2> QED
    BY <1>1, <1>5, <1>7, <1>8, <2>1, ProfileTaken
<1>10. CASE ~c.stale
  <2>1. ASSUME ~Doomed, Pending = {}
        PROVE  Clean(After(task'[h], profiles), invites', gone')
    <3>1. Clean(profiles, invites, gone) /\ profiles[from] = c.copy
      BY <1>1, <1>10, <2>1 DEF ProfilesInv
    <3>2. profiles[from] # NoProfile
      BY <1>2, <3>1, Records
    <3> DEFINE T == After(task'[h], profiles)
    <3>3. \A p \in Names :
            T[p] = IF p = from THEN [profiles[from] EXCEPT !.tmpl = made] ELSE profiles[p]
      BY <1>2, <1>6, <3>1 DEF After
    <3> HIDE DEF T
    <3>4. T[from].tmpl = made /\ T[from].default = profiles[from].default
      BY <1>2, <3>1, <3>3 DEF Profile
    <3>5. \A p \in Names : profiles[p] # NoProfile => TemplateCode(profiles[p].tmpl)
      BY DEF AllTyped, TablesTyped
    <3>6. \A p, q \in Names : T[p] # NoProfile /\ T[q] # NoProfile /\ p # q =>
              ~T[p].default \/ ~T[q].default
      BY <1>2, <3>1, <3>2, <3>3, <3>4 DEF Clean
    <3>7. CASE c.op = "share"
      <4>1. nextCode \in Codes
        BY <1>1, <3>7, OneIsLeft DEF WillMake
      <4>2. /\ invites'[nextCode] # NoInvite
            /\ \A a \in Codes : a # nextCode => invites'[a] = invites[a]
        BY <1>2, <1>8, <3>7, <4>1, Made DEF AllTyped
      <4>3. made = nextCode
        BY <1>3, <3>7
      <4>4. \A p \in Names : profiles[p] # NoProfile =>
                /\ profiles[p].tmpl # nextCode
                /\ InStore(profiles[p].tmpl, invites', gone')
        <5> SUFFICES ASSUME NEW p \in Names, profiles[p] # NoProfile
                     PROVE  /\ profiles[p].tmpl # nextCode
                            /\ InStore(profiles[p].tmpl, invites', gone')
          OBVIOUS
        <5>1. TemplateCode(profiles[p].tmpl) /\ InStore(profiles[p].tmpl, invites, gone)
          BY <3>1, <3>5 DEF Clean
        <5>2. profiles[p].tmpl # nextCode
          BY <4>1, <5>1 DEF TemplateCode, Codes, NoKey
        <5>3. gone' = gone
          BY <1>8
        <5> QED
          BY <4>2, <5>1, <5>2, <5>3 DEF InStore, TemplateCode
      <4>5. \A p \in Names : T[p] # NoProfile => InStore(T[p].tmpl, invites', gone')
        BY <3>3, <3>4, <4>2, <4>3, <4>4 DEF InStore
      <4>6. \A p, q \in Names : T[p] # NoProfile /\ T[q] # NoProfile /\ p # q =>
                T[p].tmpl = NoKey \/ T[p].tmpl # T[q].tmpl
        BY <3>1, <3>3, <3>4, <4>3, <4>4 DEF Clean
      <4> QED
        BY <3>6, <4>5, <4>6 DEF T, Clean
    <3>8. CASE c.op # "share"
      <4>1. made = NoKey /\ invites' = Without({profiles[from].tmpl}) /\ gone' = gone
        BY <1>3, <1>8, <3>1, <3>8
      <4>2. \A p \in Names : T[p] # NoProfile => InStore(T[p].tmpl, invites', gone')
        <5> SUFFICES ASSUME NEW p \in Names, T[p] # NoProfile
                     PROVE  InStore(T[p].tmpl, invites', gone')
          OBVIOUS
        <5>1. CASE p = from
          BY <3>4, <4>1, <5>1 DEF InStore
        <5>2. CASE p # from
          <6>1. T[p] = profiles[p] /\ profiles[p] # NoProfile
            BY <3>3, <5>2
          <6>2. TemplateCode(profiles[p].tmpl) /\ InStore(profiles[p].tmpl, invites, gone)
            BY <3>1, <3>5, <6>1 DEF Clean
          <6>3. profiles[p].tmpl = NoKey \/ profiles[p].tmpl # profiles[from].tmpl
            BY <1>2, <3>1, <3>2, <5>2, <6>1 DEF Clean
          <6>4. CASE profiles[p].tmpl = NoKey
            BY <6>1, <6>4 DEF InStore
          <6>5. CASE profiles[p].tmpl # NoKey
            <7>1. profiles[p].tmpl \in Codes
              BY <6>2, <6>5 DEF TemplateCode
            <7>2. invites'[profiles[p].tmpl] = invites[profiles[p].tmpl]
              BY <4>1, <6>3, <6>5, <7>1 DEF Without
            <7> QED
              BY <4>1, <6>1, <6>2, <7>2 DEF InStore
          <6> QED
            BY <6>4, <6>5
        <5> QED
          BY <5>1, <5>2
      <4>3. \A p, q \in Names : T[p] # NoProfile /\ T[q] # NoProfile /\ p # q =>
                T[p].tmpl = NoKey \/ T[p].tmpl # T[q].tmpl
        BY <3>1, <3>3, <3>4, <4>1 DEF Clean
      <4> QED
        BY <3>6, <4>2, <4>3 DEF T, Clean
    <3> QED
      BY <3>7, <3>8
  <2> QED
    BY <1>1, <1>5, <1>7, <1>8, <2>1, ProfileTaken
<1> QED
  BY <1>1, <1>9, <1>10 DEF IsTask

\* A profile is created or deleted: who has read profiles before has stale copies.
LEMMA StoreProfileProfiles ==
    ASSUME AllTyped, ProfilesInv, CreateProfile \/ DeleteProfile
    PROVE  ProfilesInv'
<1>1. PICK n \in Names, profile \in {EmptyProfile, NoProfile} : StoreProfile(n, profile)
  BY DEF CreateProfile, DeleteProfile, Present
<1>2. /\ lost = {} /\ UNCHANGED <<invites, gone, lost>>
      /\ profiles' = [profiles EXCEPT ![n] = profile]
      /\ Announce(Daemon, Nobody, task[Daemon])
  BY <1>1 DEF StoreProfile, Comes, ghosts
<1>3. /\ Daemon \in Workers /\ Moves(Daemon) /\ task'[Daemon] = task[Daemon]
      /\ \A w \in Workers \ {Daemon} :
            Works(w) /\ task[w].who = Nobody /\ task[w].at # "push" => task'[w].stale
  BY <1>2, Announced DEF AllTyped, Workers
<1>4. Works(Daemon) => task[Daemon].op = "expire" /\ Typed(Daemon) /\ task[Daemon].who # Nobody
  BY <1>3 DEF AllTyped, TasksTyped
<1>5. Daemon \notin Pending /\ (Works(Daemon) => task[Daemon].at # "template of profile")
  <2>1. Works(Daemon) => task[Daemon].at # "template of profile"
    BY <1>3, <1>4, Whereabouts DEF Works
  <2> QED
    BY <1>4, <2>1 DEF Pending
<1>6. CASE Pending # {}
  <2>1. PICK w \in Pending : w \in Workers \ {Daemon}
    BY <1>5, <1>6 DEF Pending
  <2>2. w \in Pending' /\ task'[w].stale
    BY <1>3, <2>1, PendingStays DEF Moves, Pending
  <2> QED
    BY <2>2 DEF ProfilesInv, Doomed
<1>7. CASE Pending = {}
  <2>1. ~Doomed
    BY <1>2, <1>7 DEF Doomed
  <2>2. Pending' = {}
    <3>1. \A w \in Workers \ {Daemon} : w \notin Pending'
      BY <1>3, <1>7, PendingStays DEF Moves
    <3>2. Daemon \notin Pending'
      BY <1>3, <1>4 DEF Pending, Works
    <3> QED
      BY <3>1, <3>2 DEF Pending
  <2>3. Clean(profiles', invites', gone')
    <3>1. Clean(profiles, invites, gone)
      BY <1>7, <2>1 DEF ProfilesInv
    <3>2. \A q \in Names : profiles'[q] # NoProfile =>
              profiles'[q] = profiles[q] \/ profiles'[q] = EmptyProfile
      BY <1>2 DEF AllTyped, TablesTyped
    <3>3. EmptyProfile.tmpl = NoKey /\ ~EmptyProfile.default
      BY DEF EmptyProfile
    <3>4. \A q \in Names : profiles'[q] # NoProfile =>
              \/ profiles[q] # NoProfile /\ profiles'[q] = profiles[q]
              \/ profiles'[q].tmpl = NoKey /\ ~profiles'[q].default
      BY <3>2, <3>3
    <3>5. \A q \in Names : profiles'[q] # NoProfile => InStore(profiles'[q].tmpl, invites', gone')
      BY <1>2, <3>1, <3>4 DEF Clean, InStore
    <3>6. \A q, r \in Names : profiles'[q] # NoProfile /\ profiles'[r] # NoProfile /\ q # r =>
             /\ profiles'[q].tmpl = NoKey \/ profiles'[q].tmpl # profiles'[r].tmpl
             /\ ~profiles'[q].default \/ ~profiles'[r].default
      BY <3>1, <3>4 DEF Clean
    <3> QED
      BY <3>5, <3>6 DEF Clean
  <2>4. \A w \in Workers : Works(w)' /\ ~task'[w].stale => task'[w].at # "template of profile"
    <3> SUFFICES ASSUME NEW w \in Workers, Works(w)', task'[w].at = "template of profile"
                 PROVE  task'[w].stale
      OBVIOUS
    <3>1. w # Daemon
      BY <1>3, <1>5 DEF Works
    <3>2. task[w] # Idle /\ task[w].at = "template of profile"
      BY <1>3, <3>1 DEF Moves, Follows, Works
    <3>3. task[w].who = Nobody
      BY <3>2, Whereabouts
    <3> QED
      BY <1>3, <3>1, <3>2, <3>3 DEF Works
  <2> QED
    BY <2>2, <2>3, <2>4 DEF ProfilesInv
<1> QED
  BY <1>6, <1>7

LEMMA CrashProfiles == ASSUME AllTyped, ProfilesInv, Crash PROVE ProfilesInv'
<1>1. /\ \A w \in Workers : task'[w] = Idle
      /\ UNCHANGED <<profiles, invites, gone>> /\ lost \subseteq lost'
      /\ lost' = lost \cup {task[w].who : w \in {v \in Workers :
                  /\ task[v] # Idle
                  /\ \/ task[v].at \in {"write", "drop", "each"} /\ task[v].who = Nobody
                     \/ task[v].at = "put" /\ task[v].op = "mine"}}
  BY DEF Crash
<1>2. CASE Pending # {} \/ Nobody \in lost
  <2>1. Pending # {} => Nobody \in lost'
    BY <1>1 DEF Pending, Works
  <2> QED
    BY <1>1, <1>2, <2>1 DEF ProfilesInv, Doomed
<1>3. CASE Pending = {} /\ Nobody \notin lost
  <2>1. Clean(profiles, invites, gone)
    BY <1>3 DEF ProfilesInv, Doomed
  <2>2. \A w \in Workers : ~Works(w)'
    BY <1>1 DEF Works
  <2>3. Pending' = {}
    BY <2>2 DEF Pending
  <2> QED
    BY <1>1, <2>1, <2>2, <2>3 DEF ProfilesInv
<1> QED
  BY <1>2, <1>3

LEMMA ProfilesOfRequest ==
    ASSUME AllTyped, ProfilesInv, NEW h \in Callers, Request(h) PROVE ProfilesInv'
<1>1. h \in Workers
  BY DEF Workers
<1>2. ASSUME NEW op, NEW u, NEW arg, ReadRow(h, op, u, arg) PROVE ProfilesInv'
  BY <1>2, ProfilesBegun DEF ReadRow, ghosts
<1>3. CASE SetAccountsAdmin(h) \/ ModifyLabels(h) \/ ModifyEmail(h)
  BY <1>2, <1>3 DEF SetAccountsAdmin, ModifyLabels, ModifyEmail
<1>4. CASE Signup(h)
  <2>1. PICK u, copy, arg : Begin(h, Task("signup", u, "row", copy, arg))
    BY <1>4 DEF Signup
  <2>2. UNCHANGED <<invites, profiles, gone, lost>>
    BY <1>4 DEF Signup, ghosts
  <2> QED
    BY <2>1, <2>2, ProfilesBegun
<1>5. CASE EnableReferralForUsers(h)
  BY <1>5, ProfilesBegun DEF EnableReferralForUsers, ghosts
<1>6. CASE GetMyReferral(h)
  <2>1. Nobody \notin exists
    BY AccountsAssumption DEF AllTyped, TablesTyped
  <2>2. PICK u \in exists, pos \in {"template", "drop"} : \E arg :
            Begin(h, Task("mine", u, pos, NoRow, arg))
    BY <1>6 DEF GetMyReferral
  <2>3. UNCHANGED <<invites, profiles, gone, lost>>
    BY <1>6 DEF GetMyReferral, ghosts
  <2> QED
    BY <2>1, <2>2, <2>3, ProfilesBegun
<1>7. CASE CheckInvite(h)
  <2>1. PICK pos \in {"find", "delete"} :
            \E who, arg : Begin(h, Task("expire", who, pos, NoRow, arg))
    <3>1. PICK c \in Codes : Begin(h, DeleteExpiredInvite(c))
      BY <1>7 DEF CheckInvite
    <3>2. PICK pos \in {"find", "delete"} :
              pos = IF invites[c].timed /\ invites[c].owner # Nobody THEN "find" ELSE "delete"
      OBVIOUS
    <3>3. DeleteExpiredInvite(c) = Task("expire", invites[c].owner, pos, NoRow, Expired(c))
      BY <3>2 DEF DeleteExpiredInvite
    <3>4. Begin(h, Task("expire", invites[c].owner, pos, NoRow, Expired(c)))
      BY <3>1, <3>3
    <3> QED
      BY <3>4
  <2>2. UNCHANGED <<invites, profiles, gone, lost>>
    BY <1>7 DEF CheckInvite, ghosts
  <2>3. PICK who, arg : Begin(h, Task("expire", who, pos, NoRow, arg))
    BY <2>1
  <2> QED
    BY <2>2, <2>3, ProfilesBegun
<1>8. CASE SetDefaultProfile(h)
  BY <1>8, DefaultBegun
<1>9. CASE ReplaceRawProfile(h) \/ SetJellyseerrProfile(h) \/ SetOmbiProfile(h)
  BY <1>9, ContentBegun DEF ReplaceRawProfile, SetJellyseerrProfile, SetOmbiProfile
<1>10. CASE EnableReferralForProfile(h) \/ DisableReferralForProfile(h)
  <2>1. ASSUME NEW op, NEW p, NEW timed, ReadProfile(h, op, "template of profile", p, p, timed)
        PROVE  ProfilesInv'
    <3> DEFINE arg == [from |-> p, to |-> p, timed |-> timed]
    <3>1. /\ Begin(h, Task(op, Nobody, "template of profile", profiles[p], arg))
          /\ UNCHANGED <<invites, profiles, gone, lost>>
      BY <2>1 DEF ReadProfile, ghosts
    <3>2. profiles[arg.from] = profiles[p]
      OBVIOUS
    <3> HIDE DEF arg
    <3> QED
      BY <3>1, <3>2, ProfilesBegun
  <2> QED
    BY <1>10, <2>1 DEF EnableReferralForProfile, DisableReferralForProfile
<1>11. CASE \/ WriteRow(h) \/ StoreNewRow(h) \/ FindRow(h) \/ ShareTemplate(h)
            \/ FindTemplate(h)
  BY <1>1, <1>11, RowsLeaveProfiles
<1>12. CASE \/ WipeOut(h) \/ DisableReferralForUsers(h) \/ DropReferral(h) \/ PutReferral(h)
            \/ Delete(h) \/ SpendLast(h)
  BY <1>1, <1>12, ReferralsLeaveProfiles
<1>13. CASE ChangeTemplate(h) \/ WriteProfile(h) \/ DropProfile(h) \/ SetOneDefault(h)
  BY <1>13, ChangeTemplateProfiles, WriteProfileProfiles, DropProfileProfiles,
     SetOneDefaultProfiles
<1> QED
  BY <1>3, <1>4, <1>5, <1>6, <1>7, <1>8, <1>9, <1>10, <1>11, <1>12, <1>13 DEF Request

LEMMA ProfilesStep == ASSUME AllTyped, ProfilesInv, AccountsStep PROVE ProfilesInv'
<1>1. Daemon \in Workers /\ task = [w \in Workers |-> task[w]]
  BY DEF Workers, AllTyped, TasksTyped
<1>2. CASE Elsewhere
  <2>1. UNCHANGED <<profiles, invites, gone, lost>>
    BY <1>2 DEF Elsewhere, ghosts
  <2>2. TemplatesRemain
    BY <2>1, TemplatesAreLeft
  <2>3. CASE UNCHANGED task
    <3>1. Moves(Daemon) /\ Follows(Daemon)
      BY <1>1, <2>3 DEF Moves, Follows, AllTyped, TasksTyped, Typed, Works
    <3> QED
      BY <1>1, <2>1, <2>2, <3>1, ProfilesLeft
  <2>4. ASSUME NEW h \in Callers, At(h, "push"), End(h) PROVE ProfilesInv'
    <3>1. h \in Workers /\ Moves(h) /\ task'[h] = Idle
      BY <2>4, GoesOn DEF End, Workers, AllTyped
    <3>2. h \notin Pending
      BY <2>4 DEF At, Pending
    <3> QED
      BY <2>1, <2>2, <3>1, <3>2, ProfilesLeftBy
  <2> QED
    BY <1>2, <2>3, <2>4 DEF Elsewhere
<1>3. CASE Sweep
  <2>1. PICK c \in Codes : task' = [task EXCEPT ![Daemon] = DeleteExpiredInvite(c)]
    BY <1>3 DEF Sweep
  <2>2. UNCHANGED <<profiles, invites, gone, lost>> /\ task[Daemon] = Idle
    BY <1>3 DEF Sweep, ghosts
  <2>3. Moves(Daemon) /\ task'[Daemon] = DeleteExpiredInvite(c)
    BY <1>1, <2>1, GoesOn DEF AllTyped
  <2>4. DeleteExpiredInvite(c).at \in {"find", "delete"}
    BY TaskIsTask DEF DeleteExpiredInvite
  <2>5. Daemon \notin Pending /\ TemplatesRemain
    BY <2>2, TemplatesAreLeft DEF Pending, Works
  <2> QED
    BY <1>1, <2>2, <2>3, <2>4, <2>5, ProfilesLeftBy
<1>4. CASE TimePasses
  <2>1. PICK c \in Codes : invites[c] # NoInvite /\ invites' = [invites EXCEPT ![c].over = TRUE]
    BY <1>4 DEF TimePasses
  <2>2. UNCHANGED <<exists, nextCode, task, profiles, gone, lost>>
    BY <1>4 DEF TimePasses, ghosts
  <2>3. \A d \in Codes : invites'[d] = NoInvite <=> invites[d] = NoInvite
    BY <2>1, <2>2, Over DEF AllTyped
  <2>4. TemplatesRemain
    BY <2>2, <2>3, TemplatesAreLeft
  <2>5. Moves(Daemon) /\ Follows(Daemon)
    BY <1>1, <2>2 DEF Moves, Follows, AllTyped, TasksTyped, Typed, Works
  <2> QED
    BY <1>1, <2>2, <2>4, <2>5, ProfilesLeft
<1>5. CASE FindRow(Daemon) \/ WriteRow(Daemon) \/ Delete(Daemon)
  BY <1>1, <1>5, RowsLeaveProfiles, ReferralsLeaveProfiles
<1> QED
  BY <1>2, <1>3, <1>4, <1>5, ProfilesOfRequest, StoreProfileProfiles, CrashProfiles
     DEF AccountsStep, TableStep, DaemonStep

-----------------------------------------------------------------------------
(* The whole *)

LEMMA InvStep == ASSUME AInv, AccountsStep PROVE AInv'
<1>1. AllTyped'
  BY TypesStep DEF AInv
<1>2. RowsInv'
  BY RowsStep DEF AInv
<1>3. ReferralsInv'
  BY <1>1, ReferralsStep DEF AInv
<1>4. ProfilesInv'
  BY ProfilesStep DEF AInv
<1> QED
  BY <1>1, <1>2, <1>3, <1>4 DEF AInv

LEMMA StutterIsStep == ASSUME AInv, UNCHANGED avars PROVE AccountsStep
BY DEF avars, ghosts, AccountsStep, Elsewhere, AInv, AllTyped, TablesTyped

LEMMA NextIsStep == ASSUME AInv, [AccountsNext]_avars PROVE AccountsStep
<1>1. ASSUME NEW h \in Callers, Pushed(h) PROVE AccountsStep
  BY <1>1 DEF Pushed, bounds, ghosts, AccountsStep, Elsewhere, AInv, AllTyped, TablesTyped
<1> QED
  BY <1>1, StutterIsStep DEF AccountsNext, AccountsStep

LEMMA InitTables == ASSUME AccountsInit PROVE AllTyped
<1>1. PICK u \in {CHOOSE v \in Users : TRUE}, addr \in Addresses, key \in {NoKey, 1},
           timed \in BOOLEAN :
      \E own \in {NoInvite, Fresh(u, TRUE), Fresh(u, FALSE)} :
        /\ exists = {u}
        /\ emails = [v \in Users |->
                       IF v = u THEN [EmptyRow EXCEPT !.addr = addr, !.tmpl = key] ELSE NoRow]
        /\ invites = [c \in Codes |-> IF c = 1 THEN Fresh(Nobody, timed)
                                      ELSE IF c = 2 THEN own ELSE NoInvite]
        /\ nextCode = 3
        /\ profiles = [p \in Names |-> [default |-> (p = Min(Names)),
                                        tmpl |-> IF p = Min(Names) THEN 1 ELSE NoKey]]
        /\ task = [w \in Workers |-> Idle]
        /\ calls = 0 /\ events = 0 /\ mix \in Mixes
        /\ decided = [v \in Users |-> [addr |-> IF v = u THEN addr ELSE NoAddr, admin |-> FALSE]]
        /\ off = {} /\ gone = {} /\ lost = {}
        /\ kept = IF own # NoInvite /\ ~own.timed THEN {u} ELSE {}
  BY DEF AccountsInit
<1>2. PICK own \in {NoInvite, Fresh(u, TRUE), Fresh(u, FALSE)} :
        /\ invites = [c \in Codes |-> IF c = 1 THEN Fresh(Nobody, timed)
                                      ELSE IF c = 2 THEN own ELSE NoInvite]
        /\ kept = IF own # NoInvite /\ ~own.timed THEN {u} ELSE {}
  BY <1>1
<1>3. u \in Users /\ exists = {u} /\ 1 \in Codes /\ 2 \in Codes
  BY <1>1, AccountsAssumption DEF Codes
<1>4. /\ [EmptyRow EXCEPT !.addr = addr, !.tmpl = key] \in Row
      /\ [EmptyRow EXCEPT !.addr = addr, !.tmpl = key].tmpl = key
  BY <1>3 DEF EmptyRow, Row
<1>5. /\ Fresh(Nobody, timed) \in Invite /\ Fresh(Nobody, timed).owner = Nobody
      /\ Fresh(Nobody, timed) # NoInvite
      /\ own # NoInvite => own \in Invite /\ own.owner = u
  <2>1. \A v \in Users \cup {Nobody}, b \in BOOLEAN :
           Fresh(v, b) \in Invite /\ Fresh(v, b).owner = v
    BY DEF Fresh, Invite
  <2> QED
    BY <1>3, <2>1, Records
<1>6. InvitesTyped
  <2>1. invites \in [Codes -> Invite \cup {NoInvite}]
    BY <1>2, <1>5
  <2>2. \A c \in Codes : c >= 3 => invites[c] = NoInvite
    BY <1>2 DEF Codes
  <2>3. \A c \in Codes : invites[c] # NoInvite => invites[c].owner \in exists \cup {Nobody}
    BY <1>2, <1>3, <1>5
  <2> QED
    BY <1>1, <2>1, <2>2, <2>3 DEF InvitesTyped
<1>7. /\ emails \in [Users -> Row \cup {NoRow}]
      /\ \A v \in Users : emails[v] # NoRow => emails[v].tmpl < nextCode
  <2>1. key < 3
    BY DEF NoKey
  <2> QED
    BY <1>1, <1>4, <2>1
<1>8. TemplateCode(1) /\ TemplateCode(NoKey)
  BY <1>1, <1>2, <1>3, <1>5 DEF TemplateCode
<1>9. /\ profiles \in [Names -> Profile \cup {NoProfile}]
      /\ \A p \in Names : profiles[p] # NoProfile => TemplateCode(profiles[p].tmpl)
  BY <1>1, <1>3, <1>8 DEF Profile
<1>10. decided \in [Users -> [addr : Addresses \cup {NoAddr}, admin : BOOLEAN]]
  BY <1>1
<1>11. TablesTyped
  BY <1>1, <1>2, <1>3, <1>6, <1>7, <1>9, <1>10, AccountsAssumption DEF TablesTyped
<1>12. \A w \in Workers : ~Works(w)
  BY <1>1 DEF Works
<1>13. TasksTyped
  BY <1>1, <1>12 DEF TasksTyped, Workers
<1>14. CodesLeft
  <2>1. Makers = {}
    BY <1>12 DEF Makers
  <2> QED
    BY <1>1, <2>1, FS_EmptySet DEF CodesLeft
<1> QED
  BY <1>11, <1>13, <1>14 DEF AllTyped

LEMMA InitInv == ASSUME AccountsInit PROVE AInv
<1>1. AllTyped
  BY InitTables
<1>2. PICK u \in {CHOOSE v \in Users : TRUE}, addr \in Addresses, key \in {NoKey, 1},
           timed \in BOOLEAN :
      \E own \in {NoInvite, Fresh(u, TRUE), Fresh(u, FALSE)} :
        /\ exists = {u}
        /\ emails = [v \in Users |->
                       IF v = u THEN [EmptyRow EXCEPT !.addr = addr, !.tmpl = key] ELSE NoRow]
        /\ invites = [c \in Codes |-> IF c = 1 THEN Fresh(Nobody, timed)
                                      ELSE IF c = 2 THEN own ELSE NoInvite]
        /\ nextCode = 3
        /\ profiles = [p \in Names |-> [default |-> (p = Min(Names)),
                                        tmpl |-> IF p = Min(Names) THEN 1 ELSE NoKey]]
        /\ task = [w \in Workers |-> Idle]
        /\ calls = 0 /\ events = 0 /\ mix \in Mixes
        /\ decided = [v \in Users |-> [addr |-> IF v = u THEN addr ELSE NoAddr, admin |-> FALSE]]
        /\ off = {} /\ gone = {} /\ lost = {}
        /\ kept = IF own # NoInvite /\ ~own.timed THEN {u} ELSE {}
  BY DEF AccountsInit
<1>3. PICK own \in {NoInvite, Fresh(u, TRUE), Fresh(u, FALSE)} :
        /\ invites = [c \in Codes |-> IF c = 1 THEN Fresh(Nobody, timed)
                                      ELSE IF c = 2 THEN own ELSE NoInvite]
        /\ kept = IF own # NoInvite /\ ~own.timed THEN {u} ELSE {}
  BY <1>2
<1>4. u \in Users /\ exists = {u} /\ 1 \in Codes /\ 2 \in Codes /\ Nobody \notin Users
  BY <1>2, AccountsAssumption DEF Codes
<1>5. \A w \in Workers : ~Works(w)
  BY DEF AccountsInit, Works
<1>6. /\ Fresh(Nobody, timed).owner = Nobody /\ Fresh(Nobody, timed) # NoInvite
      /\ own # NoInvite => own.owner = u
  BY <1>3, <1>4 DEF Fresh, NoInvite
<1>7. RowsInv
  <2>1. \A v \in Users \ exists :
           emails[v] = NoRow /\ decided[v] = [addr |-> NoAddr, admin |-> FALSE]
    BY <1>2
  <2>2. emails[u].addr = addr /\ emails[u].admin = FALSE /\ emails[u] # NoRow
    <3>1. emails[u] = [EmptyRow EXCEPT !.addr = addr, !.tmpl = key]
      BY <1>2, <1>4
    <3> QED
      BY <3>1 DEF EmptyRow, NoRow
  <2>4. decided[u].addr = addr /\ decided[u].admin = FALSE
    BY <1>2, <1>4
  <2>3. RowsAsDecided
    BY <1>4, <2>2, <2>4 DEF RowsAsDecided
  <2> QED
    BY <1>5, <2>1, <2>3 DEF RowsInv, CopyIsFresh
<1>8. ReferralsInv
  <2>1. \A v \in Users : Owned(v) = IF v = u /\ own # NoInvite THEN {2} ELSE {}
    BY <1>3, <1>4, <1>6 DEF Owned
  <2>2. OneEach
    BY <2>1 DEF OneEach
  <2>3. DisabledStays
    BY <1>2 DEF DisabledStays
  <2>4. Kept
    BY <1>3, <1>4, <2>1 DEF Kept
  <2>5. \A w \in Workers : SeesReferrals(w)
    BY <1>5 DEF SeesReferrals
  <2> QED
    BY <2>2, <2>3, <2>4, <2>5 DEF ReferralsInv
<1>9. ProfilesInv
  <2>1. Pending = {}
    BY <1>5 DEF Pending
  <2>2. \A p \in Names : /\ profiles[p].tmpl = (IF p = Min(Names) THEN 1 ELSE NoKey)
                         /\ profiles[p].default = (p = Min(Names))
    BY <1>2
  <2>3. invites[1] # NoInvite
    BY <1>3, <1>4, <1>6
  <2>4. Clean(profiles, invites, gone)
    BY <2>2, <2>3 DEF Clean, InStore
  <2> QED
    BY <1>5, <2>1, <2>4 DEF ProfilesInv
<1> QED
  BY <1>1, <1>7, <1>8, <1>9 DEF AInv

-----------------------------------------------------------------------------
(* What it implies *)

LEMMA TasksAreKnown ==
    ASSUME AllTyped, NEW w \in Workers, task[w] # Idle
    PROVE  RowTask(task[w]) \/ ProfileTask(task[w])
<1>1. Typed(w) /\ exists \subseteq Users
  BY Whereabouts DEF AllTyped, TablesTyped
<1>2. CASE task[w].op \in UserOps
  <2>1. UserTask(w) /\ UserSteps(task[w]) /\ UserHolds(task[w])
    BY <1>1, <1>2 DEF Typed, UserTask
  <2>2. task[w].who \in Users \cup {Nobody} /\ task[w].copy \in Row \cup {NoRow}
    BY <1>1, <2>1 DEF UserTask, UserHolds
  <2>3. task[w].at \in {"row", "find", "delete", "wipe", "put", "template", "drop", "share", "push"}
    BY <1>2, <2>1 DEF UserSteps, UserOps
  <2> QED
    BY <1>2, <2>2, <2>3 DEF RowTask, UserOps
<1>3. CASE task[w].op \in ProfileOps
  <2>1. ProfileHolds(task[w])
    BY <1>1, <1>3 DEF Typed, ProfilesTask
  <2>2. task[w].at \in {"template of profile", "write", "drop", "each"}
    BY <1>3, <2>1 DEF ProfileHolds, ProfileOps
  <2>3. task[w].copy \in Profile \cup [all : [Names -> Profile \cup {NoProfile}]]
    BY <2>1 DEF ProfileHolds
  <2> QED
    BY <1>3, <2>1, <2>2, <2>3 DEF ProfileTask, ProfileOps, ProfileHolds
<1> QED
  BY <1>1, <1>2, <1>3 DEF Typed

LEMMA RowsAreSound == ASSUME AInv PROVE SoundRows
<1>1. AccountsTypeOK
  BY TasksAreKnown DEF AInv, AllTyped, TablesTyped, InvitesTyped, AccountsTypeOK
<1> QED
  BY <1>1 DEF SoundRows, AInv, RowsInv

LEMMA ReferralsAreSound == ASSUME AInv PROVE SoundReferrals
<1>1. OneReferralEach
  <2> SUFFICES ASSUME NEW u \in Users \ lost PROVE Cardinality(Owned(u)) <= 1
    BY DEF OneReferralEach
  <2>1. CASE Owned(u) = {}
    BY <2>1, FS_EmptySet
  <2>2. CASE Owned(u) # {}
    <3>1. PICK c : c \in Owned(u)
      BY <2>2
    <3>2. Owned(u) = {c}
      BY <3>1 DEF AInv, ReferralsInv, OneEach
    <3>3. Cardinality({c}) = 1
      BY FS_Singleton
    <3> QED
      BY <3>2, <3>3
  <2> QED
    BY <2>1, <2>2
<1>2. ReferralsAreKept
  BY DEF AInv, ReferralsInv, Kept, ReferralsAreKept, Renews, Works
<1> QED
  BY <1>1, <1>2 DEF SoundReferrals, AInv, ReferralsInv

LEMMA ProfilesAreSound == ASSUME AInv PROVE SoundProfiles
<1>1. CASE Doomed \/ Pending # {}
  <2>1. Nobody \in lost \/ \E w \in Workers : task[w] # Idle /\ task[w].who = Nobody
    BY <1>1 DEF Doomed, Pending, Works
  <2> QED
    BY <2>1 DEF SoundProfiles, TemplatesAreKept, OneDefault
<1>2. CASE ~Doomed /\ Pending = {}
  <2>1. Clean(profiles, invites, gone)
    BY <1>2 DEF AInv, ProfilesInv
  <2>2. TemplatesAreKept
    BY <2>1 DEF TemplatesAreKept, Clean, InStore, Present
  <2> DEFINE D == {p \in Present : profiles[p].default}
  <2>3. Cardinality(D) <= 1
    <3>1. CASE D = {}
      BY <3>1, FS_EmptySet
    <3>2. CASE D # {}
      <4>1. PICK p : p \in D
        BY <3>2
      <4>2. D = {p}
        BY <2>1, <4>1 DEF Clean, Present
      <4>3. Cardinality({p}) = 1
        BY FS_Singleton
      <4> QED
        BY <4>2, <4>3
    <3> QED
      BY <3>1, <3>2
  <2> QED
    BY <2>2, <2>3 DEF SoundProfiles, OneDefault
<1> QED
  BY <1>1, <1>2

-----------------------------------------------------------------------------
(* Jellyseerr *)

InCall(t) == work[t] # NoWork
Known == Addresses \cup {NoAddr, Absent}

\* A call, and where it can be with what it is for.
CallSet ==
    [at : {"look", "find", "pages", "fill", "refresh", "refreshed", "again", "main", "mark",
           "prefs", "compare", "loaded"},
     user : exists, then : {"main", "prefs", "compare"}, addr : Addresses \cup {NoAddr},
     import : BOOLEAN, next : Users \cup {"find", "again", "loaded"}, held : [Users -> Known],
     todo : SUBSET Users, stale : SUBSET exists]
IsCall(w) ==
    /\ w \in CallSet
    /\ w.at \in {"pages", "fill"} => w.next \in {"find", "again", "loaded"}
    /\ w.at = "refreshed" => w.next \in Users
    /\ w.at \notin {"pages", "fill", "refreshed", "again", "loaded"} => w.next = "find"
    /\ w.at \in {"main", "mark"} => w.then = "main"
    /\ w.at \in {"prefs", "compare"} => w.then = w.at

\* The call of a request is about what the request passes on.
OfRequest(w, c) ==
    /\ w.user = c.who /\ w.then # "compare" /\ w.at # "loaded"
    /\ w.at \in {"pages", "fill"} => w.next # "loaded"
    /\ w.then = "main" => w.addr = c.arg.addr
CallTyped(t) ==
    InCall(t) => /\ IsCall(work[t]) /\ enabled
                 /\ t \in Callers => At(t, "push") /\ OfRequest(work[t], task[t])
                 /\ t = Importer => importing

ClientTyped ==
    /\ enabled \in BOOLEAN /\ valid \in BOOLEAN /\ importing \in BOOLEAN /\ done \in BOOLEAN
    /\ seerr \in [Users -> Known] /\ userCache \in [Users -> Known]
    /\ invalidatedUsers \subseteq exists
    /\ left \subseteq exists /\ told \subseteq exists /\ troubled \subseteq exists
    /\ importing => enabled
SeerrTyped ==
    /\ ClientTyped
    /\ work = [t \in Threads |-> work[t]]
    /\ \A t \in Threads : CallTyped(t)

\* What the call of t is for is the same; more may be known to have changed meanwhile.
Stays(t) ==
    /\ work'[t] = NoWork <=> work[t] = NoWork
    /\ InCall(t) => /\ work[t].stale \subseteq work'[t].stale
                    /\ work'[t].stale \subseteq work[t].stale \cup exists
                    /\ work'[t] = [work[t] EXCEPT !.stale = work'[t].stale]
                    /\ IsCall(work[t]) => IsCall(work'[t])

LEMMA CallGoesOn ==
    ASSUME SeerrTyped, NEW t \in Threads, NEW w, Set(t, w)
    PROVE  /\ work' = [x \in Threads |-> work'[x]] /\ work'[t] = w
           /\ \A x \in Threads \ {t} : work'[x] = work[x] /\ Stays(x)
<1>1. work = [x \in Threads |-> work[x]]
  BY DEF SeerrTyped
<1>2. /\ work' = [x \in Threads |-> work'[x]] /\ work'[t] = w
      /\ \A x \in Threads \ {t} : work'[x] = work[x]
  BY <1>1 DEF Set
<1>3. ASSUME NEW x \in Threads \ {t} PROVE Stays(x)
  <2>1. InCall(x) => IsCall(work[x])
    BY DEF SeerrTyped, CallTyped
  <2>2. InCall(x) => work[x] = [work[x] EXCEPT !.stale = work[x].stale]
    BY <2>1 DEF IsCall, CallSet
  <2> QED
    BY <1>2, <2>2 DEF Stays
<1> QED
  BY <1>2, <1>3

LEMMA CallPosts ==
    ASSUME SeerrTyped, NEW t \in Threads, NEW u \in exists, NEW w, Posted(t, u, w)
    PROVE  /\ work' = [x \in Threads |-> work'[x]] /\ work'[t] = w
           /\ \A x \in Threads \ {t} :
                 /\ Stays(x)
                 /\ InCall(x) /\ work[x].at \in Holding =>
                       work'[x].stale = work[x].stale \cup {u}
<1>1. work' = [x \in Threads |-> work'[x]] /\ work'[t] = w
  BY DEF Posted
<1>2. ASSUME NEW x \in Threads \ {t}
      PROVE  /\ Stays(x)
             /\ InCall(x) /\ work[x].at \in Holding =>
                   work'[x].stale = work[x].stale \cup {u}
  <2>1. InCall(x) => IsCall(work[x])
    BY DEF SeerrTyped, CallTyped
  <2>2. CASE InCall(x) /\ work[x].at \in Holding
    <3>1. work'[x] = [work[x] EXCEPT !.stale = @ \cup {u}]
      BY <2>2 DEF Posted, InCall
    <3>2. IsCall(work'[x]) /\ work'[x].stale = work[x].stale \cup {u}
      BY <2>1, <2>2, <3>1 DEF IsCall, CallSet
    <3>3. work'[x] = [work[x] EXCEPT !.stale = work'[x].stale] /\ work'[x] # NoWork
      BY <2>1, <2>2, <3>1, <3>2 DEF IsCall, CallSet, NoWork
    <3> QED
      BY <2>2, <3>2, <3>3 DEF Stays, InCall
  <2>3. CASE ~(InCall(x) /\ work[x].at \in Holding)
    <3>1. work'[x] = work[x]
      BY <2>3 DEF Posted, InCall
    <3>2. InCall(x) => work[x] = [work[x] EXCEPT !.stale = work[x].stale]
      BY <2>1 DEF IsCall, CallSet
    <3> QED
      BY <2>3, <3>1, <3>2 DEF Stays
  <2> QED
    BY <2>2, <2>3
<1> QED
  BY <1>1, <1>2

\* The call of t goes on as w, or is over; what else there is, is for the same.
LEMMA CallMoves ==
    ASSUME SeerrTyped, ClientTyped', NEW t \in Threads, NEW w,
           work' = [x \in Threads |-> work'[x]], work'[t] = w,
           \A x \in Threads \ {t} :
               /\ Stays(x)
               /\ InCall(x) => enabled' /\ (x = Importer => importing')
                              /\ (x \in Callers => task'[x] = task[x]),
           exists \subseteq exists',
           w # NoWork => /\ IsCall(w)' /\ enabled'
                         /\ t \in Callers => At(t, "push")' /\ OfRequest(w, task'[t])
                         /\ t = Importer => importing'
    PROVE  SeerrTyped'
<1>1. \A x \in Threads \ {t} : CallTyped(x)'
  <2> SUFFICES ASSUME NEW x \in Threads \ {t}, InCall(x) PROVE CallTyped(x)'
    BY DEF CallTyped, InCall, Stays
  <2>1. /\ IsCall(work[x]) /\ IsCall(work'[x])
        /\ work'[x] = [work[x] EXCEPT !.stale = work'[x].stale]
    BY DEF SeerrTyped, CallTyped, Stays
  <2>2. /\ work'[x].user = work[x].user /\ work'[x].then = work[x].then
        /\ work'[x].at = work[x].at /\ work'[x].next = work[x].next
        /\ work'[x].addr = work[x].addr
    BY <2>1 DEF IsCall, CallSet
  <2>3. IsCall(work[x])'
    BY <2>1 DEF IsCall, CallSet
  <2>4. x \in Callers => At(x, "push") /\ OfRequest(work[x], task[x])
    BY DEF SeerrTyped, CallTyped
  <2> QED
    BY <2>2, <2>3, <2>4 DEF CallTyped, OfRequest, At
<1>2. CallTyped(t)'
  BY DEF CallTyped, InCall
<1> QED
  BY <1>1, <1>2 DEF SeerrTyped

LEMMA CallMovesOn ==
    ASSUME SeerrTyped, ClientTyped', NEW t \in Threads, InCall(t), NEW w,
           \/ Set(t, w)
           \/ \E u \in exists : Posted(t, u, w),
           UNCHANGED <<exists, task, enabled, importing>>,
           IsCall(w), t \in Callers => OfRequest(w, task[t])
    PROVE  SeerrTyped' /\ work'[t] = w
<1>1. /\ work' = [x \in Threads |-> work'[x]] /\ work'[t] = w
      /\ \A x \in Threads \ {t} : Stays(x)
  BY CallGoesOn, CallPosts
<1>2. /\ \A x \in Threads : InCall(x) => enabled /\ (x = Importer => importing)
      /\ t \in Callers => At(t, "push")
  BY DEF SeerrTyped, CallTyped
<1>3. IsCall(w)' /\ (t \in Callers => At(t, "push")' /\ OfRequest(w, task'[t]))
  BY <1>2 DEF IsCall, CallSet, At
<1> QED
  BY <1>1, <1>2, <1>3, CallMoves

LEMMA Finished ==
    ASSUME SeerrTyped, AllTyped, NEW t \in Threads, InCall(t), NEW outcome, Finish(t, outcome),
           seerr' \in [Users -> Known], userCache' \in [Users -> Known],
           invalidatedUsers' \subseteq exists, valid' \in BOOLEAN
    PROVE  /\ SeerrTyped' /\ work'[t] = NoWork
           /\ \A x \in Threads \ {t} : work'[x] = work[x]
           /\ \A h \in Callers : IF h = t THEN task'[h] = Idle /\ At(h, "push")
                               ELSE task'[h] = task[h]
<1>1. /\ work' = [x \in Threads |-> work'[x]] /\ work'[t] = NoWork
      /\ \A x \in Threads \ {t} : work'[x] = work[x] /\ Stays(x)
  BY CallGoesOn DEF Finish
<1>2. /\ \A x \in Threads : InCall(x) => enabled /\ (x = Importer => importing)
      /\ t \in Callers => At(t, "push")
      /\ work[t].user \in exists
  BY DEF SeerrTyped, CallTyped, IsCall, CallSet
<1>3. \A h \in Callers : IF h = t THEN task'[h] = Idle /\ At(h, "push")
                           ELSE task'[h] = task[h]
  <2>1. task = [h \in Workers |-> task[h]] /\ Callers \subseteq Workers
    BY DEF AllTyped, TasksTyped, Workers
  <2> QED
    BY <1>2, <2>1 DEF Finish, End
<1>4. UNCHANGED <<exists, enabled, importing, left, done>>
  BY DEF Finish
<1>5. told' \subseteq exists /\ troubled' \subseteq exists
  BY <1>2 DEF Finish, SeerrTyped, ClientTyped
<1>6. ClientTyped'
  BY <1>4, <1>5 DEF SeerrTyped, ClientTyped
<1> QED
  BY <1>1, <1>2, <1>3, <1>4, <1>6, CallMoves

LEMMA HaveIsCall ==
    ASSUME ClientTyped, NEW w, IsCall(w)
    PROVE  /\ IsCall(Have(w)) /\ Have(w).at = w.then /\ Have(w).then = w.then
           /\ Have(w).user = w.user /\ Have(w).addr = w.addr /\ Have(w).import = w.import
           /\ Have(w).next = "find"
           /\ Have(w).held = IF w.then = "compare" THEN userCache ELSE NoUsers
<1>1. NoUsers \in [Users -> Known] /\ userCache \in [Users -> Known]
  BY DEF NoUsers, Known, ClientTyped
<1> QED
  BY <1>1 DEF Have, IsCall, CallSet

LEMMA FoundIsCall ==
    ASSUME ClientTyped, exists \subseteq Users, NEW w, IsCall(w), w.at \in {"look", "find"}
    PROVE  /\ IsCall(Found(w)) /\ Found(w).then = w.then
           /\ Found(w).user = w.user /\ Found(w).addr = w.addr /\ Found(w).import = w.import
           /\ Found(w).next \in {"find", "again"}
           /\ \/ Found(w).at \in {"refresh", "again", "pages"}
              \/ Found(w) = Have(w) /\ Found(w).at = w.then /\ Has(w)
                 /\ w.user \notin invalidatedUsers
<1>1. CASE w.user \in invalidatedUsers /\ Has(w)
  <2>1. Found(w) = [w EXCEPT !.at = "refresh", !.todo = invalidatedUsers]
    BY <1>1 DEF Found
  <2> QED
    BY <2>1 DEF IsCall, CallSet, ClientTyped
<1>2. CASE w.user \notin invalidatedUsers /\ Has(w)
  <2>1. Found(w) = Have(w)
    BY <1>2 DEF Found
  <2> QED
    BY <1>2, <2>1, HaveIsCall
<1>3. CASE ~Has(w) /\ Fixed(w)
  <2>1. Found(w) = [w EXCEPT !.at = "again"]
    BY <1>3 DEF Found
  <2> QED
    BY <2>1 DEF IsCall, CallSet
<1>4. CASE ~Has(w) /\ ~Fixed(w)
  <2>1. Found(w) = [w EXCEPT !.at = "pages", !.next = "again"]
    BY <1>4 DEF Found
  <2> QED
    BY <2>1 DEF IsCall, CallSet
<1> QED
  BY <1>1, <1>2, <1>3, <1>4

LEMMA AtCall ==
    ASSUME SeerrTyped, NEW t \in Threads, work[t].at # "none"
    PROVE  /\ InCall(t) /\ IsCall(work[t]) /\ enabled /\ work[t].user \in exists
           /\ t \in Callers => At(t, "push") /\ OfRequest(work[t], task[t])
<1>1. InCall(t)
  BY DEF InCall, NoWork
<1> QED
  BY <1>1 DEF SeerrTyped, CallTyped, IsCall, CallSet

LEMMA LookTyped ==
    ASSUME AllTyped, SeerrTyped, NEW t \in Threads, Look(t) \/ Find(t) PROVE SeerrTyped'
<1> DEFINE w == work[t]
<1>1. /\ InCall(t) /\ IsCall(w) /\ w.at \in {"look", "find"}
      /\ t \in Callers => OfRequest(w, task[t])
  BY AtCall DEF Look, Find
<1>2. ClientTyped /\ exists \subseteq Users
  BY DEF SeerrTyped, AllTyped, TablesTyped
<1>3. /\ IsCall(Found(w)) /\ (t \in Callers => OfRequest(Found(w), task[t]))
  <2>1. /\ IsCall(Found(w)) /\ Found(w).then = w.then
        /\ Found(w).user = w.user /\ Found(w).addr = w.addr
        /\ Found(w).next \in {"find", "again"}
        /\ Found(w).at \in {"refresh", "again", "pages", w.then}
    BY <1>1, <1>2, FoundIsCall
  <2>2. w.then # "loaded"
    BY <1>1 DEF IsCall, CallSet
  <2> QED
    BY <1>1, <2>1, <2>2 DEF OfRequest
<1>4. w.at = "look" => LET p == [w EXCEPT !.at = "pages"]
                       IN  IsCall(p) /\ (t \in Callers => OfRequest(p, task[t]))
  BY <1>1 DEF IsCall, CallSet, OfRequest
<1>5. PICK next : /\ Set(t, next) /\ IsCall(next) /\ (t \in Callers => OfRequest(next, task[t]))
  BY <1>3, <1>4 DEF Look, Find
<1>6. /\ UNCHANGED <<exists, task, enabled, importing>>
      /\ ClientTyped'
  <2>1. valid' \in BOOLEAN
    BY Zenon DEF Look, Find
  <2> QED
    BY <1>2, <2>1 DEF Look, Find, Rest, ClientTyped
<1> QED
  BY <1>1, <1>5, <1>6, CallMovesOn

LEMMA FetchTyped ==
    ASSUME AllTyped, SeerrTyped, NEW t \in Threads, GetUserPages(t) \/ Fill(t) PROVE SeerrTyped'
<1> DEFINE w == work[t]
<1>1. /\ InCall(t) /\ IsCall(w) /\ w.at \in {"pages", "fill"}
      /\ t \in Callers => OfRequest(w, task[t])
  BY AtCall DEF GetUserPages, Fill
<1>2. ClientTyped /\ exists \subseteq Users
  BY DEF SeerrTyped, AllTyped, TablesTyped
<1>3. /\ seerr \in [Users -> Known] /\ NoUsers \in [Users -> Known]
      /\ w.held \in [Users -> Known] /\ w.stale \subseteq exists
  BY <1>1, <1>2 DEF ClientTyped, IsCall, CallSet, NoUsers, Known
<1>4. PICK next : /\ Set(t, next) /\ IsCall(next) /\ (t \in Callers => OfRequest(next, task[t]))
  <2>1. w.at = "pages" => LET p == [w EXCEPT !.at = "fill", !.held = seerr]
                          IN  IsCall(p) /\ (t \in Callers => OfRequest(p, task[t]))
    BY <1>1, <1>3 DEF IsCall, CallSet, OfRequest
  <2>2. w.at = "pages" => LET p == [w EXCEPT !.at = w.next]
                          IN  IsCall(p) /\ (t \in Callers => OfRequest(p, task[t]))
    BY <1>1 DEF IsCall, CallSet, OfRequest
  <2>3. w.at = "fill" => LET p == [w EXCEPT !.at = w.next, !.held = NoUsers, !.stale = {}]
                         IN  IsCall(p) /\ (t \in Callers => OfRequest(p, task[t]))
    BY <1>1, <1>3 DEF IsCall, CallSet, OfRequest
  <2> QED
    BY <2>1, <2>2, <2>3 DEF GetUserPages, Fill
<1>5. /\ UNCHANGED <<exists, task, enabled, importing>>
      /\ ClientTyped'
  BY <1>2, <1>3 DEF GetUserPages, Fill, Rest, ClientTyped
<1> QED
  BY <1>1, <1>4, <1>5, CallMovesOn

LEMMA RefreshTyped ==
    ASSUME AllTyped, SeerrTyped, NEW t \in Threads, UserByID(t) \/ Refresh(t) PROVE SeerrTyped'
<1> DEFINE w == work[t]
<1>1. /\ InCall(t) /\ IsCall(w) /\ w.at \in {"refresh", "refreshed"}
      /\ t \in Callers => OfRequest(w, task[t])
  BY AtCall DEF UserByID, Refresh
<1>2. ClientTyped /\ exists \subseteq Users
  BY DEF SeerrTyped, AllTyped, TablesTyped
<1>3. /\ seerr \in [Users -> Known] /\ NoUsers \in [Users -> Known]
      /\ w.held \in [Users -> Known] /\ w.stale \subseteq exists /\ w.todo \subseteq Users
  BY <1>1, <1>2 DEF ClientTyped, IsCall, CallSet, NoUsers, Known
<1>4. PICK next : /\ Set(t, next) /\ IsCall(next) /\ (t \in Callers => OfRequest(next, task[t]))
  <2>1. w.at = "refresh" => LET p == [w EXCEPT !.at = "again"]
                            IN  IsCall(p) /\ (t \in Callers => OfRequest(p, task[t]))
    BY <1>1 DEF IsCall, CallSet, OfRequest
  <2>2. ASSUME NEW u \in w.todo, w.at = "refresh"
        PROVE  LET p == [w EXCEPT !.at = "refreshed", !.next = u, !.held = seerr]
               IN  IsCall(p) /\ (t \in Callers => OfRequest(p, task[t]))
    BY <1>1, <1>3, <2>2 DEF IsCall, CallSet, OfRequest
  <2>3. ASSUME NEW u \in w.todo, w.at = "refresh"
        PROVE  LET p == [w EXCEPT !.todo = @ \ {u}]
               IN  IsCall(p) /\ (t \in Callers => OfRequest(p, task[t]))
    BY <1>1, <2>3 DEF IsCall, CallSet, OfRequest
  <2>4. ASSUME NEW u, w.at = "refreshed"
        PROVE  LET p == [w EXCEPT !.at = "refresh", !.next = "find", !.todo = @ \ {u},
                             !.held = NoUsers, !.stale = {}]
               IN  IsCall(p) /\ (t \in Callers => OfRequest(p, task[t]))
    BY <1>1, <1>3, <2>4 DEF IsCall, CallSet, OfRequest
  <2>5. CASE UserByID(t)
    BY <2>1, <2>2, <2>3, <2>5 DEF UserByID
  <2>6. CASE Refresh(t)
    BY <2>4, <2>6 DEF Refresh
  <2> QED
    BY <2>5, <2>6
<1>5. UNCHANGED <<exists, task, enabled, importing>>
  BY DEF UserByID, Refresh, Rest
<1>6. ClientTyped'
  <2>1. CASE UserByID(t)
    BY <1>2, <2>1 DEF UserByID, Rest, ClientTyped
  <2>2. CASE Refresh(t)
    <3>1. w.held[w.next] \in Known
      BY <1>1, <1>3, <2>2 DEF Refresh, IsCall
    <3>2. userCache' \in [Users -> Known]
      BY <1>2, <2>2, <3>1 DEF Refresh, ClientTyped
    <3>3. invalidatedUsers' \subseteq exists /\ troubled' \subseteq exists
      BY <1>2, <1>3, <2>2 DEF Refresh, ClientTyped
    <3> QED
      BY <1>2, <2>2, <3>2, <3>3 DEF Refresh, Rest, ClientTyped
  <2> QED
    BY <2>1, <2>2
<1> QED
  BY <1>1, <1>4, <1>5, <1>6, CallMovesOn

LEMMA LookAgainTyped ==
    ASSUME AllTyped, SeerrTyped, NEW t \in Threads, LookAgain(t) PROVE SeerrTyped'
<1> DEFINE w == work[t]
<1>1. /\ InCall(t) /\ IsCall(w) /\ w.at = "again" /\ w.user \in exists
      /\ t \in Callers => OfRequest(w, task[t])
  BY AtCall DEF LookAgain
<1>2. ClientTyped /\ exists \subseteq Users
  BY DEF SeerrTyped, AllTyped, TablesTyped
<1>3. /\ IsCall(Have(w)) /\ Have(w).at = w.then /\ Have(w).then = w.then
      /\ Have(w).user = w.user /\ Have(w).addr = w.addr
  BY <1>1, <1>2, HaveIsCall
<1>4. Has(w) \/ ~Has(w)
  OBVIOUS
<1>5. CASE Has(w)
  <2>1. Set(t, Have(w)) /\ UNCHANGED <<seerr, userCache, invalidatedUsers, valid, troubled>> /\ Rest
    BY <1>5 DEF LookAgain
  <2>2. UNCHANGED <<exists, task, enabled, importing>> /\ ClientTyped'
    BY <1>2, <2>1 DEF Rest, ClientTyped
  <2>3. t \in Callers => OfRequest(Have(w), task[t])
    BY <1>1, <1>3 DEF OfRequest, IsCall, CallSet
  <2> QED
    BY <1>1, <1>3, <2>1, <2>2, <2>3, CallMovesOn
<1>6. CASE ~Has(w) /\ Finish(t, "failed") /\ UNCHANGED <<seerr, userCache>>
  BY <1>1, <1>2, <1>6, Finished DEF LookAgain, ClientTyped
<1>7. CASE /\ ~Has(w)
           /\ seerr' = [seerr EXCEPT ![w.user] = NoAddr]
           /\ userCache' = [userCache EXCEPT ![w.user] = NoAddr]
           /\ Posted(t, w.user, [Have(w) EXCEPT !.held = IF w.then = "compare"
                                                        THEN userCache' ELSE NoUsers])
           /\ UNCHANGED <<events, troubled>> /\ Rest
  <2>1. userCache' \in [Users -> Known] /\ seerr' \in [Users -> Known]
    BY <1>2, <1>7 DEF ClientTyped, Known
  <2>2. UNCHANGED <<exists, task, enabled, importing>> /\ ClientTyped'
    BY <1>2, <1>7, <2>1 DEF LookAgain, Rest, ClientTyped
  <2>3. PICK held \in [Users -> Known] : Posted(t, w.user, [Have(w) EXCEPT !.held = held])
    <3>1. NoUsers \in [Users -> Known]
      BY DEF NoUsers, Known
    <3> QED
      BY <1>7, <2>1, <3>1
  <2>4. LET p == [Have(w) EXCEPT !.held = held]
        IN  IsCall(p) /\ (t \in Callers => OfRequest(p, task[t]))
    <3>1. PICK h : h = Have(w)
      OBVIOUS
    <3>2. /\ IsCall(h) /\ h.at = w.then /\ h.then = w.then /\ h.user = w.user /\ h.addr = w.addr
      BY <1>3, <3>1
    <3>3. LET p == [h EXCEPT !.held = held]
          IN  IsCall(p) /\ (t \in Callers => OfRequest(p, task[t]))
      BY <1>1, <3>2 DEF IsCall, CallSet, OfRequest
    <3> QED
      BY <3>1, <3>3
  <2> QED
    BY <1>1, <2>2, <2>3, <2>4, CallMovesOn
<1> QED
  BY <1>5, <1>6, <1>7 DEF LookAgain

LEMMA SetContactMethodsTyped ==
    ASSUME AllTyped, SeerrTyped, NEW h \in Callers, SetContactMethods(h) PROVE SeerrTyped'
<1>1. /\ h \in Threads /\ h \in Workers /\ h # Importer /\ ~InCall(h) /\ task[h] # Idle
      /\ task[h].at = "push"
  BY SeerrAssumption DEF SetContactMethods, Threads, Workers, InCall, At
<1>2. ClientTyped'
  BY DEF SetContactMethods, SeerrTyped, ClientTyped
<1>3. \A x \in Threads : InCall(x) => enabled /\ (x = Importer => importing)
  BY DEF SeerrTyped, CallTyped
<1>4. task = [x \in Workers |-> task[x]]
  BY DEF AllTyped, TasksTyped
<1>5. UNCHANGED <<exists, enabled, importing>>
  BY DEF SetContactMethods
<1>6. CASE enabled /\ Set(h, Call(task[h].who, "main", task[h].arg.addr, TRUE)) /\ UNCHANGED task
  <2>9. PICK w : w = Call(task[h].who, "main", task[h].arg.addr, TRUE)
    OBVIOUS
  <2>1. task[h].who \in exists /\ task[h].arg.addr \in Addresses \cup {NoAddr}
    BY <1>1, Whereabouts, OfUsers DEF UserTask, UserHolds
  <2>2. NoUsers \in [Users -> Known]
    BY DEF NoUsers, Known
  <2>3. /\ IsCall(w) /\ OfRequest(w, task[h])
    BY <2>1, <2>2, <2>9 DEF Call, IsCall, CallSet, OfRequest
  <2>4. /\ work' = [x \in Threads |-> work'[x]] /\ work'[h] = w
        /\ \A x \in Threads \ {h} : Stays(x)
    BY <1>1, <1>6, <2>9, CallGoesOn
  <2>5. IsCall(w)' /\ At(h, "push")' /\ OfRequest(w, task'[h]) /\ enabled'
    <3>1. IsCall(w) => IsCall(w)'
      BY <1>5, <1>6 DEF IsCall, CallSet
    <3> QED
      BY <1>1, <1>5, <1>6, <2>3, <3>1 DEF At
  <2>6. \A x \in Threads \ {h} :
           /\ Stays(x)
           /\ InCall(x) => enabled' /\ (x = Importer => importing')
                          /\ (x \in Callers => task'[x] = task[x])
    BY <1>3, <1>5, <1>6, <2>4
  <2>7. w # NoWork => /\ IsCall(w)' /\ enabled'
                      /\ h \in Callers => At(h, "push")' /\ OfRequest(w, task'[h])
                      /\ h = Importer => importing'
    BY <1>1, <2>5
  <2>8. exists \subseteq exists'
    BY <1>5
  <2> QED
    BY <1>1, <1>2, <2>4, <2>6, <2>7, <2>8, CallMoves
<1>7. CASE End(h) /\ UNCHANGED work
  <2>1. work' = [x \in Threads |-> work'[x]] /\ work'[h] = NoWork /\ Set(h, NoWork)
    BY <1>1, <1>7 DEF SeerrTyped, InCall, Set
  <2>2. \A x \in Threads \ {h} : Stays(x)
    BY <1>1, <2>1, CallGoesOn
  <2>3. \A x \in Callers \ {h} : task'[x] = task[x]
    BY <1>4, <1>7 DEF End, Workers
  <2> QED
    BY <1>1, <1>2, <1>3, <1>5, <2>1, <2>2, <2>3, CallMoves
<1> QED
  BY <1>6, <1>7 DEF SetContactMethods

LEMMA PostTyped ==
    ASSUME AllTyped, SeerrTyped, NEW t \in Threads,
           PostSettings(t) \/ Mark(t) \/ PostNotifications(t)
    PROVE  SeerrTyped'
<1> DEFINE w == work[t]
<1>1. /\ InCall(t) /\ IsCall(w) /\ w.at \in {"main", "mark", "prefs"} /\ w.user \in exists
      /\ t \in Callers => OfRequest(w, task[t])
  BY AtCall DEF PostSettings, Mark, PostNotifications
<1>2. ClientTyped /\ exists \subseteq Users
  BY DEF SeerrTyped, AllTyped, TablesTyped
<1>3. seerr' \in [Users -> Known]
  <2>1. w.addr \in Known
    BY <1>1 DEF IsCall, CallSet, Known
  <2> QED
    BY <1>2, <2>1 DEF PostSettings, Mark, PostNotifications, ClientTyped
<1>4. CASE PostNotifications(t) \/ (PostSettings(t) /\ Finish(t, "failed"))
  <2>1. UNCHANGED <<userCache, invalidatedUsers, valid>> /\ \E outcome : Finish(t, outcome)
    BY <1>4 DEF PostNotifications, PostSettings
  <2> QED
    BY <1>1, <1>2, <1>3, <2>1, Finished DEF ClientTyped
<1>5. CASE /\ w.at = "main" /\ Posted(t, w.user, [w EXCEPT !.at = "mark"])
           /\ UNCHANGED <<userCache, invalidatedUsers, valid, troubled>> /\ Rest
  <2>1. LET p == [w EXCEPT !.at = "mark"]
        IN  IsCall(p) /\ (t \in Callers => OfRequest(p, task[t]))
    BY <1>1, <1>5 DEF IsCall, CallSet, OfRequest
  <2>2. UNCHANGED <<exists, task, enabled, importing>> /\ ClientTyped'
    BY <1>2, <1>3, <1>5 DEF Rest, ClientTyped
  <2> QED
    BY <1>1, <1>5, <2>1, <2>2, CallMovesOn
<1>6. CASE Mark(t)
  <2>1. LET p == [w EXCEPT !.at = "look", !.then = "prefs", !.addr = NoAddr]
        IN  IsCall(p) /\ (t \in Callers => OfRequest(p, task[t]))
    BY <1>1, <1>6 DEF Mark, IsCall, CallSet, OfRequest
  <2>2. UNCHANGED <<exists, task, enabled, importing>> /\ ClientTyped'
    BY <1>1, <1>2, <1>6 DEF Mark, Rest, ClientTyped
  <2>3. Set(t, [w EXCEPT !.at = "look", !.then = "prefs", !.addr = NoAddr])
    BY <1>6 DEF Mark
  <2> QED
    BY <1>1, <2>1, <2>2, <2>3, CallMovesOn
<1> QED
  BY <1>4, <1>5, <1>6 DEF PostSettings

LEMMA ImportTyped ==
    ASSUME AllTyped, SeerrTyped,
           SynchronizeJellyseerrUsers \/ SynchronizeJellyseerrUser \/ Synchronized
    PROVE  SeerrTyped'
<1>1. /\ Importer \in Threads /\ Importer \notin Callers /\ NoUsers \in [Users -> Known]
      /\ UNCHANGED <<exists, task, enabled>>
  BY SeerrAssumption DEF Threads, NoUsers, Known, SynchronizeJellyseerrUsers,
                         SynchronizeJellyseerrUser, Synchronized, avars
<1>2. ClientTyped /\ enabled /\ (Synchronizing => importing)
  BY DEF SeerrTyped, ClientTyped, SynchronizeJellyseerrUsers, SynchronizeJellyseerrUser,
         Synchronized, Synchronizing
<1>3. ClientTyped'
  BY <1>1, <1>2 DEF ClientTyped, SynchronizeJellyseerrUsers, SynchronizeJellyseerrUser,
                    Synchronized, avars
<1>4. \A u \in exists : IsCall(Call(u, "compare", NoAddr, TRUE))
  BY <1>1 DEF Call, IsCall, CallSet
<1>5. PICK w : /\ Set(Importer, w) /\ (w # NoWork => importing')
               /\ (w # NoWork => IsCall(w))
  <2>1. CASE SynchronizeJellyseerrUsers
    <3>1. PICK u \in exists : u = CHOOSE v \in exists : TRUE
      BY DEF AllTyped, TablesTyped
    <3>2. IsCall([Call(u, "compare", NoAddr, TRUE) EXCEPT !.at = "pages", !.next = "loaded"])
      <4>1. PICK c : c = Call(u, "compare", NoAddr, TRUE)
        OBVIOUS
      <4>2. IsCall(c)
        BY <1>4, <4>1
      <4>3. IsCall([c EXCEPT !.at = "pages", !.next = "loaded"])
        BY <4>2 DEF IsCall, CallSet
      <4> QED
        BY <4>1, <4>3
    <3> QED
      BY <2>1, <3>1, <3>2 DEF SynchronizeJellyseerrUsers
  <2>2. CASE SynchronizeJellyseerrUser
    <3>1. importing' /\ left \subseteq exists
      BY <1>2, <2>2 DEF SynchronizeJellyseerrUser, ClientTyped
    <3> QED
      BY <1>4, <2>2, <3>1 DEF SynchronizeJellyseerrUser
  <2>3. CASE Synchronized
    BY <2>3 DEF Synchronized
  <2> QED
    BY <2>1, <2>2, <2>3
<1>6. /\ work' = [x \in Threads |-> work'[x]] /\ work'[Importer] = w
      /\ \A x \in Threads \ {Importer} : Stays(x)
  BY <1>1, <1>5, CallGoesOn
<1>7. w # NoWork => IsCall(w)'
  BY <1>1, <1>5 DEF IsCall, CallSet
<1> QED
  BY <1>1, <1>2, <1>3, <1>5, <1>6, <1>7, CallMoves

LEMMA CompareTyped ==
    ASSUME AllTyped, SeerrTyped, NEW t \in Threads, Compare(t) PROVE SeerrTyped'
<1> DEFINE w == work[t]
           addr == Address(w.user)
<1>1. /\ InCall(t) /\ IsCall(w) /\ w.at = "compare" /\ w.user \in exists
      /\ t \in Callers => OfRequest(w, task[t])
  BY AtCall DEF Compare
<1>2. /\ ClientTyped /\ exists \subseteq Users /\ NoUsers \in [Users -> Known]
      /\ UNCHANGED <<seerr, userCache, invalidatedUsers, valid>>
  BY DEF SeerrTyped, AllTyped, TablesTyped, Compare, NoUsers, Known
<1>3. addr \in Addresses \cup {NoAddr}
  <2>1. emails[w.user] \in Row \cup {NoRow}
    BY <1>1, <1>2 DEF AllTyped, TablesTyped
  <2> QED
    BY <2>1 DEF Address, Row
<1>4. CASE /\ Set(t, [w EXCEPT !.at = "look", !.then = "main", !.addr = addr,
                              !.held = NoUsers, !.import = FALSE])
           /\ UNCHANGED <<events, troubled>> /\ Rest
  <2>1. t \notin Callers
    BY <1>1 DEF OfRequest, IsCall
  <2>2. PICK a \in Addresses \cup {NoAddr} : a = addr
    BY <1>3
  <2>3. IsCall([w EXCEPT !.at = "look", !.then = "main", !.addr = a,
                         !.held = NoUsers, !.import = FALSE])
    BY <1>1, <1>2 DEF IsCall, CallSet
  <2>4. Set(t, [w EXCEPT !.at = "look", !.then = "main", !.addr = a,
                         !.held = NoUsers, !.import = FALSE])
    BY <1>4, <2>2
  <2>5. UNCHANGED <<exists, task, enabled, importing>> /\ ClientTyped'
    BY <1>2, <1>4 DEF Rest, ClientTyped
  <2> QED
    BY <1>1, <2>1, <2>3, <2>4, <2>5, CallMovesOn
<1>5. ASSUME NEW outcome, Finish(t, outcome) PROVE SeerrTyped'
  BY <1>1, <1>2, <1>5, Finished DEF ClientTyped
<1> QED
  BY <1>4, <1>5 DEF Compare

\* Requests that pass on an address are left to it.
LEMMA PushStays ==
    ASSUME AllTyped, NEW g \in Callers, At(g, "push"), TableStep
    PROVE  task'[g] = task[g]
<1>1. /\ g \in Workers /\ g # Daemon /\ task[g] # Idle /\ task[g].at = "push"
      /\ task = [w \in Workers |-> task[w]]
  BY AccountsAssumption DEF Workers, At, AllTyped, TasksTyped
<1>2. ASSUME NEW h, h # g, NEW s, NEW next, Announce(h, s, next) PROVE task'[g] = task[g]
  BY <1>1, <1>2 DEF Announce
<1>3. ASSUME NEW h, h # g, NEW next, task' = [task EXCEPT ![h] = next] PROVE task'[g] = task[g]
  BY <1>1, <1>3
<1>4. ASSUME NEW h \in Workers, WriteRow(h) \/ FindRow(h) \/ Delete(h) PROVE task'[g] = task[g]
  <2>1. h # g
    BY <1>1, <1>4 DEF WriteRow, FindRow, Delete, At
  <2> QED
    BY <1>2, <1>3, <1>4, <2>1 DEF WriteRow, FindRow, Delete
<1>5. ASSUME NEW h, NEW first, Begin(h, first) PROVE task'[g] = task[g]
  BY <1>1, <1>3, <1>5 DEF Begin
<1>6. ASSUME NEW h \in Callers, Request(h) PROVE task'[g] = task[g]
  <2>1. h \in Workers
    BY DEF Workers
  <2>2. CASE SetAccountsAdmin(h) \/ ModifyLabels(h) \/ ModifyEmail(h) \/ Signup(h)
    BY <1>5, <2>2 DEF SetAccountsAdmin, ModifyLabels, ModifyEmail, ReadRow, Signup
  <2>3. CASE EnableReferralForUsers(h) \/ GetMyReferral(h) \/ CheckInvite(h) \/ SetDefaultProfile(h)
    BY <1>5, <2>3 DEF EnableReferralForUsers, GetMyReferral, CheckInvite, SetDefaultProfile
  <2>4. CASE \/ ReplaceRawProfile(h) \/ SetJellyseerrProfile(h) \/ SetOmbiProfile(h)
             \/ EnableReferralForProfile(h) \/ DisableReferralForProfile(h)
    BY <1>5, <2>4 DEF ReplaceRawProfile, SetJellyseerrProfile, SetOmbiProfile, ReadProfile,
                      EnableReferralForProfile, DisableReferralForProfile
  <2>5. CASE \/ StoreNewRow(h) \/ WipeOut(h) \/ DropReferral(h) \/ PutReferral(h)
             \/ WriteProfile(h) \/ DropProfile(h) \/ SetOneDefault(h)
             \/ DisableReferralForUsers(h) \/ SpendLast(h)
    <3>1. h # g
      BY <1>1, <2>5 DEF StoreNewRow, WipeOut, DropReferral, PutReferral, WriteProfile,
                        DropProfile, SetOneDefault, DisableReferralForUsers, SpendLast, At
    <3> QED
      BY <1>2, <2>5, <3>1 DEF StoreNewRow, WipeOut, DropReferral, PutReferral, WriteProfile,
                        DropProfile, SetOneDefault, DisableReferralForUsers, SpendLast
  <2>6. CASE ShareTemplate(h) \/ FindTemplate(h)
    <3>1. h # g
      BY <1>1, <2>6 DEF ShareTemplate, FindTemplate, At
    <3> QED
      BY <1>3, <2>6, <3>1 DEF ShareTemplate, FindTemplate
  <2>7. CASE ChangeTemplate(h)
    <3>1. h # g
      BY <1>1, <2>7 DEF ChangeTemplate, At
    <3> QED
      BY <1>1, <2>7, <3>1 DEF ChangeTemplate
  <2>8. CASE WriteRow(h) \/ FindRow(h) \/ Delete(h)
    BY <1>4, <2>1, <2>8
  <2> QED
    BY <1>6, <2>2, <2>3, <2>4, <2>5, <2>6, <2>7, <2>8 DEF Request
<1>7. CASE DaemonStep
  <2>1. Sweep => task'[g] = task[g]
    BY <1>1, <1>3 DEF Sweep
  <2> QED
    BY <1>4, <1>7, <2>1 DEF DaemonStep, Workers
<1>8. CASE CreateProfile \/ DeleteProfile \/ TimePasses
  BY <1>1, <1>2, <1>8 DEF CreateProfile, DeleteProfile, StoreProfile, TimePasses
<1> QED
  BY <1>6, <1>7, <1>8 DEF TableStep

LEMMA UsersStayInTables == ASSUME TableStep PROVE exists \subseteq exists'
<1>1. ASSUME NEW h, WriteRow(h) \/ FindRow(h) \/ Delete(h) PROVE exists \subseteq exists'
  BY <1>1 DEF WriteRow, FindRow, Delete
<1>2. ASSUME NEW h, Request(h) PROVE exists \subseteq exists'
  <2>1. CASE SetAccountsAdmin(h) \/ ModifyLabels(h) \/ ModifyEmail(h) \/ Signup(h)
    BY <2>1 DEF SetAccountsAdmin, ModifyLabels, ModifyEmail, ReadRow, Signup
  <2>2. CASE EnableReferralForUsers(h) \/ GetMyReferral(h) \/ CheckInvite(h) \/ SetDefaultProfile(h)
    BY <2>2 DEF EnableReferralForUsers, GetMyReferral, CheckInvite, SetDefaultProfile
  <2>3. CASE \/ ReplaceRawProfile(h) \/ SetJellyseerrProfile(h) \/ SetOmbiProfile(h)
             \/ EnableReferralForProfile(h) \/ DisableReferralForProfile(h)
    BY <2>3 DEF ReplaceRawProfile, SetJellyseerrProfile, SetOmbiProfile, ReadProfile,
                EnableReferralForProfile, DisableReferralForProfile
  <2>4. CASE \/ StoreNewRow(h) \/ WipeOut(h) \/ DropReferral(h) \/ PutReferral(h)
             \/ WriteProfile(h) \/ DropProfile(h) \/ SetOneDefault(h)
             \/ DisableReferralForUsers(h) \/ SpendLast(h)
             \/ ShareTemplate(h) \/ FindTemplate(h) \/ ChangeTemplate(h)
    BY <2>4 DEF StoreNewRow, WipeOut, DropReferral, PutReferral, WriteProfile, DropProfile,
                SetOneDefault, DisableReferralForUsers, SpendLast, ShareTemplate, FindTemplate,
                ChangeTemplate
  <2> QED
    BY <1>1, <1>2, <2>1, <2>2, <2>3, <2>4 DEF Request
<1> QED
  BY <1>1, <1>2 DEF TableStep, DaemonStep, Sweep, CreateProfile, DeleteProfile, StoreProfile,
                    TimePasses

LEMMA BusyExists == ASSUME AllTyped, SeerrTyped, NEW u, Busy(u) PROVE u \in exists
<1>1. ASSUME NEW h \in Callers, task[h] # Idle, task[h].at = "push" \/ task[h].op = "signup"
      PROVE  task[h].who \in exists
  <2>1. h \in Workers /\ (task[h].at = "push" => task[h].op \in {"email", "signup"})
    BY <1>1, Whereabouts DEF Workers
  <2> QED
    BY <1>1, <2>1, OfUsers DEF UserOps
<1>2. \A t \in Threads : InCall(t) => work[t].user \in exists
  BY DEF SeerrTyped, CallTyped, IsCall, CallSet
<1> QED
  BY <1>1, <1>2 DEF Busy, InCall

LEMMA TablesMoveTyped == ASSUME AllTyped, AllTyped', SeerrTyped, Tables PROVE SeerrTyped'
<1>1. /\ exists \subseteq exists' /\ TableStep
      /\ UNCHANGED <<enabled, seerr, userCache, invalidatedUsers, valid, work, left, importing,
                     done, told>>
  BY UsersStayInTables DEF Tables
<1>2. troubled' \subseteq exists'
  BY <1>1, BusyExists DEF Tables, SeerrTyped, ClientTyped
<1>3. ClientTyped'
  BY <1>1, <1>2 DEF SeerrTyped, ClientTyped
<1>4. ASSUME NEW t \in Threads, InCall(t) PROVE CallTyped(t)'
  <2>1. IsCall(work[t]) => IsCall(work[t])'
    BY <1>1 DEF IsCall, CallSet
  <2>2. t \in Callers => task'[t] = task[t]
    BY <1>1, <1>4, PushStays DEF SeerrTyped, CallTyped
  <2> QED
    BY <1>1, <1>4, <2>1, <2>2 DEF SeerrTyped, CallTyped, InCall, At
<1>5. \A t \in Threads : CallTyped(t)'
  BY <1>1, <1>4 DEF CallTyped, InCall
<1> QED
  BY <1>1, <1>3, <1>5 DEF SeerrTyped

LEMMA OutsideTyped ==
    ASSUME AllTyped, SeerrTyped, SeerrChanges \/ CacheExpires \/ UNCHANGED allvars
    PROVE  SeerrTyped'
<1>1. /\ UNCHANGED <<exists, task, enabled, userCache, invalidatedUsers, work, left, importing,
                     done, told>>
      /\ exists \subseteq Users
  BY DEF SeerrChanges, CacheExpires, allvars, svars, avars, AllTyped, TablesTyped
<1>2. /\ seerr' \in [Users -> Known] /\ valid' \in BOOLEAN /\ troubled' \subseteq exists
  <2>1. seerr \in [Users -> Known] /\ valid \in BOOLEAN /\ troubled \subseteq exists
    BY DEF SeerrTyped, ClientTyped
  <2>2. CASE SeerrChanges
    <3>1. PICK u \in exists, addr \in Addresses \cup {NoAddr} :
              seerr' = [seerr EXCEPT ![u] = addr] /\ troubled' = troubled \cup {u}
      BY <2>2 DEF SeerrChanges
    <3>2. valid' = valid
      BY <2>2 DEF SeerrChanges
    <3> QED
      BY <1>1, <2>1, <3>1, <3>2 DEF Known
  <2>3. CASE CacheExpires \/ UNCHANGED allvars
    BY <2>1, <2>3 DEF CacheExpires, allvars, svars
  <2> QED
    BY <2>2, <2>3
<1>3. ClientTyped'
  BY <1>1, <1>2 DEF SeerrTyped, ClientTyped
<1>4. \A t \in Threads : CallTyped(t)'
  BY <1>1 DEF SeerrTyped, CallTyped, InCall, At, IsCall, CallSet
<1> QED
  BY <1>1, <1>3, <1>4 DEF SeerrTyped

LEMMA RestartTyped == ASSUME AllTyped, SeerrTyped, Restart PROVE SeerrTyped'
<1>1. exists' = exists /\ enabled' \in BOOLEAN /\ done' \in BOOLEAN /\ UNCHANGED seerr
  BY DEF Restart, Crash, SeerrTyped, ClientTyped
<1>2. /\ work' = [t \in Threads |-> NoWork] /\ left' = {} /\ importing' = FALSE
      /\ userCache' = NoUsers /\ invalidatedUsers' = {} /\ valid' = FALSE
      /\ told' \subseteq told
  BY DEF Restart
<1>3. troubled' \subseteq exists
  BY BusyExists DEF Restart, SeerrTyped, ClientTyped
<1>4. NoUsers \in [Users -> Known]
  BY DEF NoUsers, Known
<1>5. ClientTyped'
  BY <1>1, <1>2, <1>3, <1>4 DEF SeerrTyped, ClientTyped
<1> QED
  BY <1>2, <1>5 DEF SeerrTyped, CallTyped, InCall

LEMMA InitSeerrTyped == ASSUME SeerrInit, AllTyped PROVE SeerrTyped
<1>1. NoUsers \in [Users -> Known] /\ seerr \in [Users -> Known]
  BY DEF NoUsers, Known, SeerrInit
<1>2. ClientTyped
  BY <1>1 DEF SeerrInit, ClientTyped
<1> QED
  BY <1>2 DEF SeerrInit, SeerrTyped, CallTyped, InCall

LEMMA ClientTypedStep ==
    ASSUME AllTyped, AllTyped', SeerrTyped, [SeerrNext]_allvars PROVE SeerrTyped'
<1>1. ASSUME NEW t \in Threads, Client(t) PROVE SeerrTyped'
  BY <1>1, LookTyped, FetchTyped, RefreshTyped, LookAgainTyped, PostTyped DEF Client
<1>2. Importer \in Threads
  BY DEF Threads
<1> QED
  BY <1>1, <1>2, TablesMoveTyped, OutsideTyped, RestartTyped, SetContactMethodsTyped, ImportTyped,
     CompareTyped DEF SeerrNext

-----------------------------------------------------------------------------
(* Jellyseerr leaves the tables alone *)

LEMMA SeerrNextIsStep ==
    ASSUME AInv, SeerrTyped, [SeerrNext]_allvars PROVE AccountsStep
<1>1. events \in 0..MaxEvents /\ MaxEvents \in Nat
  BY AccountsAssumption DEF AInv, AllTyped, TablesTyped
<1>2. Happens => events' \in 0..MaxEvents
  BY <1>1 DEF Happens
<1> DEFINE Apart == UNCHANGED <<exists, emails, invites, nextCode, profiles, calls, mix, ghosts>>
<1>3. ASSUME Apart, UNCHANGED task, events' \in 0..MaxEvents PROVE AccountsStep
  BY <1>3 DEF AccountsStep, Elsewhere
<1>4. ASSUME NEW h \in Callers, Apart, At(h, "push"), End(h), events' \in 0..MaxEvents
      PROVE  AccountsStep
  BY <1>4 DEF AccountsStep, Elsewhere
<1>5. ASSUME NEW t \in Threads, InCall(t), NEW outcome, Finish(t, outcome), events' \in 0..MaxEvents
      PROVE  AccountsStep
  <2>1. Apart /\ (IF t \in Callers THEN End(t) ELSE UNCHANGED task)
    BY <1>5 DEF Finish
  <2>2. t \in Callers => At(t, "push")
    BY <1>5 DEF SeerrTyped, CallTyped
  <2> HIDE DEF Apart
  <2> QED
    BY <1>3, <1>4, <1>5, <2>1, <2>2
<1>6. Rest => Apart /\ UNCHANGED task
  BY DEF Rest
<1>7. ASSUME NEW t \in Threads, Client(t) \/ Compare(t) PROVE AccountsStep
  <2>1. work[t].at # "none"
    BY <1>7 DEF Client, Look, Find, GetUserPages, Fill, UserByID, Refresh, LookAgain,
                PostSettings, Mark, PostNotifications, Compare
  <2>2. InCall(t)
    BY <2>1, AtCall
  <2>3. events' \in 0..MaxEvents
    BY <1>1, <1>2, <1>7 DEF Client, Look, Find, GetUserPages, Fill, UserByID, Refresh, LookAgain,
                            PostSettings, Mark, PostNotifications, Compare
  <2>4. Rest \/ \E outcome : Finish(t, outcome)
    BY <1>7 DEF Client, Look, Find, GetUserPages, Fill, UserByID, Refresh, LookAgain,
                PostSettings, Mark, PostNotifications, Compare
  <2> HIDE DEF Apart
  <2> QED
    BY <1>3, <1>5, <1>6, <2>2, <2>3, <2>4
<1>8. ASSUME NEW h \in Callers, SetContactMethods(h) PROVE AccountsStep
  BY <1>1, <1>3, <1>4, <1>8 DEF SetContactMethods, bounds, ghosts
<1>9. CASE SeerrChanges \/ CacheExpires
  BY <1>2, <1>3, <1>9 DEF SeerrChanges, CacheExpires
<1>10. CASE \/ SynchronizeJellyseerrUsers \/ SynchronizeJellyseerrUser \/ Synchronized
            \/ UNCHANGED allvars
  <2>1. UNCHANGED avars
    BY <1>10 DEF SynchronizeJellyseerrUsers, SynchronizeJellyseerrUser, Synchronized, allvars
  <2> QED
    BY <2>1, StutterIsStep
<1>11. CASE Tables \/ Restart
  BY <1>11 DEF Tables, Restart, AccountsStep
<1>12. Importer \in Threads
  BY DEF Threads
<1> QED
  BY <1>7, <1>8, <1>9, <1>10, <1>11, <1>12 DEF SeerrNext

-----------------------------------------------------------------------------
(* The cache of users *)

Holds(w) == w.at \in Holding =>
                \A u \in Users \ (w.stale \cup troubled) : w.held[u] = seerr[u]
CacheInv == CacheIsHonest /\ \A t \in Threads : InCall(t) => Holds(work[t])

\* Jellyseerr and the cache stay as they are, or differ for users of whom it is known.
LEMMA CacheChanges ==
    ASSUME SeerrTyped, CacheInv, NEW t \in Threads, troubled \subseteq troubled',
           \A x \in Threads \ {t} :
               /\ Stays(x)
               /\ InCall(x) /\ work[x].at \in Holding =>
                     \A u \in Users \ (work'[x].stale \cup troubled') : seerr'[u] = seerr[u],
           InCall(t)' => Holds(work[t])',
           \A u \in Users \ (invalidatedUsers' \cup troubled') :
              \/ userCache'[u] \in {Absent, seerr'[u]}
              \/ work'[t].at = "mark" /\ work'[t].user = u
              \/ /\ userCache'[u] = userCache[u] /\ seerr'[u] = seerr[u]
                 /\ u \notin invalidatedUsers
                 /\ work[t].at = "mark" => work[t].user # u
    PROVE  CacheInv'
<1>1. ASSUME NEW x \in Threads \ {t}, InCall(x)
      PROVE  /\ work'[x].at = work[x].at /\ work'[x].user = work[x].user
             /\ work'[x].held = work[x].held /\ work[x].stale \subseteq work'[x].stale
  <2>1. /\ IsCall(work[x]) /\ work'[x] = [work[x] EXCEPT !.stale = work'[x].stale]
        /\ work[x].stale \subseteq work'[x].stale
    BY <1>1 DEF SeerrTyped, CallTyped, Stays
  <2> QED
    BY <2>1 DEF IsCall, CallSet
<1>2. ASSUME NEW x \in Threads, InCall(x)' PROVE Holds(work[x])'
  <2>1. CASE x # t
    <3>1. InCall(x)
      BY <1>2, <2>1 DEF Stays, InCall
    <3> QED
      BY <1>1, <2>1, <3>1 DEF CacheInv, Holds
  <2> QED
    BY <1>2, <2>1
<1>3. CacheIsHonest'
  <2> SUFFICES ASSUME NEW u \in Users, u \notin invalidatedUsers' \cup troubled',
                      userCache'[u] \notin {Absent, seerr'[u]},
                      ~(work'[t].at = "mark" /\ work'[t].user = u)
               PROVE  \E x \in Threads : work'[x].at = "mark" /\ work'[x].user = u
    BY DEF CacheIsHonest
  <2>1. /\ userCache'[u] = userCache[u] /\ seerr'[u] = seerr[u] /\ u \notin invalidatedUsers
        /\ u \notin troubled /\ (work[t].at = "mark" => work[t].user # u)
    OBVIOUS
  <2>2. PICK x \in Threads : work[x].at = "mark" /\ work[x].user = u
    BY <2>1 DEF CacheInv, CacheIsHonest
  <2>3. x # t /\ InCall(x)
    BY <2>1, <2>2 DEF InCall, NoWork
  <2> QED
    BY <1>1, <2>2, <2>3
<1> QED
  BY <1>2, <1>3 DEF CacheInv, InCall

\* A call goes on that changes nothing of it.
LEMMA CacheLeft ==
    ASSUME SeerrTyped, CacheInv, NEW t \in Threads, NEW w, Set(t, w),
           UNCHANGED <<seerr, userCache, invalidatedUsers>>, troubled \subseteq troubled',
           work[t].at # "mark",
           w # NoWork /\ w.at \in Holding => w.held = seerr
    PROVE  CacheInv'
<1>1. /\ work'[t] = w /\ \A x \in Threads \ {t} : Stays(x)
  BY CallGoesOn
<1>2. InCall(t)' => Holds(work[t])'
  BY <1>1 DEF InCall, Holds
<1> QED
  BY <1>1, <1>2, CacheChanges

LEMMA CacheOfClient ==
    ASSUME AllTyped, SeerrTyped, CacheInv, NEW t \in Threads, Client(t) PROVE CacheInv'
<1> DEFINE w == work[t]
<1>1. /\ InCall(t) /\ IsCall(w) /\ w.user \in exists
  <2>1. w.at # "none"
    BY DEF Client, Look, Find, GetUserPages, Fill, UserByID, Refresh, LookAgain, PostSettings,
           Mark, PostNotifications
  <2> QED
    BY <2>1, AtCall
<1>2. /\ ClientTyped /\ exists \subseteq Users
      /\ seerr \in [Users -> Known] /\ userCache \in [Users -> Known]
  BY DEF SeerrTyped, ClientTyped, AllTyped, TablesTyped
<1>3. w.next \in Users \cup {"find", "again", "loaded"} /\ w.held \in [Users -> Known]
  BY <1>1 DEF IsCall, CallSet
<1>4. CASE Look(t) \/ Find(t)
  <2>1. w.at \in {"look", "find"}
    BY <1>4 DEF Look, Find
  <2>2. Found(w).at \notin Holding
    BY <1>1, <1>2, <2>1, FoundIsCall DEF Holding, IsCall, CallSet
  <2>3. [w EXCEPT !.at = "pages"].at \notin Holding
    BY <1>1 DEF IsCall, CallSet, Holding
  <2>4. PICK next : Set(t, next) /\ next.at \notin Holding
    BY <1>4, <2>2, <2>3 DEF Look, Find
  <2>5. UNCHANGED <<seerr, userCache, invalidatedUsers, troubled>>
    BY <1>4 DEF Look, Find
  <2> QED
    BY <2>1, <2>4, <2>5, CacheLeft
<1>5. CASE GetUserPages(t)
  <2>1. w.at = "pages"
    BY <1>5 DEF GetUserPages
  <2>2. [w EXCEPT !.at = "fill", !.held = seerr].held = seerr
    BY <1>1 DEF IsCall, CallSet
  <2>3. [w EXCEPT !.at = w.next].at \notin Holding
    BY <1>1, <2>1 DEF IsCall, CallSet, Holding
  <2>4. PICK next : Set(t, next) /\ (next.at \in Holding => next.held = seerr)
    BY <1>5, <2>2, <2>3 DEF GetUserPages
  <2>5. UNCHANGED <<seerr, userCache, invalidatedUsers, troubled>>
    BY <1>5 DEF GetUserPages
  <2> QED
    BY <2>1, <2>4, <2>5, CacheLeft
<1>6. CASE UserByID(t)
  <2>1. w.at = "refresh"
    BY <1>6 DEF UserByID
  <2>2. /\ [w EXCEPT !.at = "again"].at \notin Holding
        /\ \A u : [w EXCEPT !.at = "refreshed", !.next = u, !.held = seerr].held = seerr
        /\ \A u : [w EXCEPT !.todo = @ \ {u}].at \notin Holding
    BY <1>1, <2>1 DEF IsCall, CallSet, Holding
  <2>3. PICK next : Set(t, next) /\ (next.at \in Holding => next.held = seerr)
    BY <1>6, <2>2 DEF UserByID
  <2>4. UNCHANGED <<seerr, userCache, invalidatedUsers, troubled>>
    BY <1>6 DEF UserByID
  <2> QED
    BY <2>1, <2>3, <2>4, CacheLeft
<1>7. CASE Fill(t)
  <2> DEFINE next == [w EXCEPT !.at = w.next, !.held = NoUsers, !.stale = {}]
  <2>1. /\ Set(t, next) /\ userCache' = w.held /\ invalidatedUsers' = {} /\ seerr' = seerr
        /\ troubled' = troubled \cup w.stale /\ w.at = "fill"
    BY <1>7 DEF Fill
  <2>2. next.at \notin Holding
    BY <1>1, <2>1 DEF IsCall, CallSet, Holding
  <2> HIDE DEF next
  <2>3. work'[t] = next /\ \A x \in Threads \ {t} : Stays(x)
    BY <2>1, CallGoesOn
  <2>4. \A u \in Users \ (w.stale \cup troubled) : w.held[u] = seerr[u]
    BY <1>1, <2>1 DEF CacheInv, Holds, Holding
  <2>5. InCall(t)' => Holds(work[t])'
    BY <2>2, <2>3 DEF Holds
  <2>6. \A u \in Users \ (invalidatedUsers' \cup troubled') : userCache'[u] = seerr'[u]
    BY <2>1, <2>4
  <2>7. troubled \subseteq troubled'
    BY <2>1
  <2> QED
    BY <2>1, <2>3, <2>5, <2>6, <2>7, CacheChanges
<1>8. CASE Refresh(t)
  <2> DEFINE u == w.next
             next == [w EXCEPT !.at = "refresh", !.next = "find", !.todo = @ \ {u},
                               !.held = NoUsers, !.stale = {}]
  <2>1. /\ Set(t, next) /\ userCache' = [userCache EXCEPT ![u] = w.held[u]]
        /\ invalidatedUsers' = invalidatedUsers \ {u} /\ seerr' = seerr
        /\ troubled' = troubled \cup (w.stale \cap {u}) /\ w.at = "refreshed"
    BY <1>8 DEF Refresh
  <2>2. next.at \notin Holding
    BY <1>1, <2>1 DEF IsCall, CallSet, Holding
  <2> HIDE DEF next
  <2>3. work'[t] = next /\ \A x \in Threads \ {t} : Stays(x)
    BY <2>1, CallGoesOn
  <2>4. \A v \in Users \ (w.stale \cup troubled) : w.held[v] = seerr[v]
    BY <1>1, <2>1 DEF CacheInv, Holds, Holding
  <2>5. InCall(t)' => Holds(work[t])'
    BY <2>2, <2>3 DEF Holds
  <2>6. ASSUME NEW v \in Users \ (invalidatedUsers' \cup troubled')
        PROVE  \/ userCache'[v] \in {Absent, seerr'[v]}
               \/ /\ userCache'[v] = userCache[v] /\ seerr'[v] = seerr[v]
                  /\ v \notin invalidatedUsers
                  /\ work[t].at = "mark" => work[t].user # v
    BY <1>2, <2>1, <2>4
  <2>7. troubled \subseteq troubled'
    BY <2>1
  <2> QED
    BY <2>1, <2>3, <2>5, <2>6, <2>7, CacheChanges
<1>9. CASE LookAgain(t)
  <2>1. w.at = "again" /\ UNCHANGED invalidatedUsers
    BY <1>9 DEF LookAgain
  <2>2. Have(w).at \notin Holding /\ IsCall(Have(w))
    BY <1>1, <1>2, HaveIsCall DEF IsCall, CallSet, Holding
  <2>3. CASE Set(t, Have(w)) /\ UNCHANGED <<seerr, userCache, troubled>>
    BY <2>1, <2>2, <2>3, CacheLeft
  <2>4. CASE Finish(t, "failed") /\ UNCHANGED <<seerr, userCache>>
    BY <2>1, <2>4, CacheLeft DEF Finish
  <2>5. CASE /\ seerr' = [seerr EXCEPT ![w.user] = NoAddr]
             /\ userCache' = [userCache EXCEPT ![w.user] = NoAddr]
             /\ Posted(t, w.user, [Have(w) EXCEPT !.held = IF w.then = "compare"
                                                          THEN userCache' ELSE NoUsers])
             /\ UNCHANGED troubled
    <3>1. PICK next : Posted(t, w.user, next) /\ next.at \notin Holding
      <4>1. PICK h : h = Have(w)
        OBVIOUS
      <4>2. \A held : [h EXCEPT !.held = held].at \notin Holding
        BY <2>2, <4>1 DEF IsCall, CallSet
      <4> QED
        BY <2>5, <4>1, <4>2
    <3>2. /\ work'[t] = next
          /\ \A x \in Threads \ {t} :
                 /\ Stays(x)
                 /\ InCall(x) /\ work[x].at \in Holding =>
                       work'[x].stale = work[x].stale \cup {w.user}
      BY <1>1, <3>1, CallPosts
    <3>3. InCall(t)' => Holds(work[t])'
      BY <3>1, <3>2 DEF Holds
    <3>4. \A v \in Users : v # w.user => seerr'[v] = seerr[v] /\ userCache'[v] = userCache[v]
      BY <2>5
    <3>5. w.user \in Users => userCache'[w.user] = seerr'[w.user]
      BY <1>2, <2>5
    <3> QED
      BY <2>1, <2>5, <3>2, <3>3, <3>4, <3>5, CacheChanges
  <2> QED
    BY <1>9, <2>3, <2>4, <2>5 DEF LookAgain
<1>10. CASE PostSettings(t)
  <2>1. w.at = "main" /\ UNCHANGED <<userCache, invalidatedUsers>>
    BY <1>10 DEF PostSettings
  <2>2. CASE Finish(t, "failed") /\ UNCHANGED seerr
    BY <2>1, <2>2, CacheLeft DEF Finish
  <2>3. CASE /\ seerr' = [seerr EXCEPT ![w.user] = w.addr]
             /\ Posted(t, w.user, [w EXCEPT !.at = "mark"])
             /\ UNCHANGED troubled
    <3> DEFINE next == [w EXCEPT !.at = "mark"]
    <3>1. next.at = "mark" /\ next.user = w.user
      BY <1>1 DEF IsCall, CallSet
    <3> HIDE DEF next
    <3>2. /\ work'[t] = next
          /\ \A x \in Threads \ {t} :
                 /\ Stays(x)
                 /\ InCall(x) /\ work[x].at \in Holding =>
                       work'[x].stale = work[x].stale \cup {w.user}
      BY <1>1, <2>3, CallPosts DEF next
    <3>3. InCall(t)' => Holds(work[t])'
      BY <3>1, <3>2 DEF Holds, Holding
    <3>4. \A v \in Users : v # w.user => seerr'[v] = seerr[v]
      BY <2>3
    <3> QED
      BY <2>1, <2>3, <3>1, <3>2, <3>3, <3>4, CacheChanges
  <2> QED
    BY <1>10, <2>2, <2>3 DEF PostSettings
<1>11. CASE Mark(t)
  <2> DEFINE next == [w EXCEPT !.at = "look", !.then = "prefs", !.addr = NoAddr]
  <2>1. /\ w.at = "mark" /\ invalidatedUsers' = invalidatedUsers \cup {w.user} /\ Set(t, next)
        /\ UNCHANGED <<seerr, userCache, troubled>>
    BY <1>11 DEF Mark
  <2>2. next.at = "look"
    BY <1>1 DEF IsCall, CallSet
  <2> HIDE DEF next
  <2>3. work'[t] = next /\ \A x \in Threads \ {t} : Stays(x)
    BY <2>1, CallGoesOn
  <2>4. InCall(t)' => Holds(work[t])'
    BY <2>2, <2>3 DEF Holds, Holding
  <2> QED
    BY <2>1, <2>3, <2>4, CacheChanges
<1>12. CASE PostNotifications(t)
  <2>1. /\ w.at = "prefs" /\ Set(t, NoWork) /\ troubled \subseteq troubled'
        /\ UNCHANGED <<seerr, userCache, invalidatedUsers>>
    BY <1>12 DEF PostNotifications, Finish
  <2> QED
    BY <2>1, CacheLeft
<1> QED
  BY <1>4, <1>5, <1>6, <1>7, <1>8, <1>9, <1>10, <1>11, <1>12 DEF Client

\* Nothing of the cache, of Jellyseerr and of the calls changes, or it is known of whom.
LEMMA CacheRests ==
    ASSUME SeerrTyped, CacheInv, UNCHANGED <<userCache, invalidatedUsers, work>>,
           troubled \subseteq troubled',
           \A u \in Users \ troubled' : seerr'[u] = seerr[u]
    PROVE  CacheInv'
BY DEF CacheInv, CacheIsHonest, Holds, InCall

LEMMA CacheStep ==
    ASSUME AllTyped, SeerrTyped, CacheInv, [SeerrNext]_allvars PROVE CacheInv'
<1>1. CASE \E h \in Callers : SetContactMethods(h)
  <2>1. PICK h \in Callers : SetContactMethods(h)
    BY <1>1
  <2>2. /\ work[h] = NoWork /\ h \in Threads /\ UNCHANGED <<seerr, userCache, invalidatedUsers>>
        /\ troubled' = troubled
    BY <2>1 DEF SetContactMethods, Threads
  <2>3. CASE UNCHANGED work
    BY <2>2, <2>3, CacheRests
  <2>4. CASE Set(h, Call(task[h].who, "main", task[h].arg.addr, TRUE))
    <3>1. Call(task[h].who, "main", task[h].arg.addr, TRUE).at = "look"
      BY DEF Call
    <3>2. work[h].at # "mark"
      BY <2>2 DEF NoWork
    <3> QED
      BY <2>2, <2>4, <3>1, <3>2, CacheLeft DEF Holding
  <2> QED
    BY <2>1, <2>3, <2>4 DEF SetContactMethods
<1>2. CASE SynchronizeJellyseerrUsers \/ SynchronizeJellyseerrUser \/ Synchronized
  <2>1. /\ Importer \in Threads /\ UNCHANGED <<seerr, userCache, invalidatedUsers, troubled>>
    BY <1>2 DEF SynchronizeJellyseerrUsers, SynchronizeJellyseerrUser, Synchronized, Threads
  <2>2. work[Importer].at # "mark"
    <3>1. CASE SynchronizeJellyseerrUsers
      BY <2>1, <3>1, SeerrAssumption DEF SynchronizeJellyseerrUsers, SeerrTyped, CallTyped, InCall,
                                         NoWork
    <3>2. CASE SynchronizeJellyseerrUser \/ Synchronized
      <4>1. work[Importer] = NoWork \/ work[Importer].at = "loaded"
        BY <3>2 DEF SynchronizeJellyseerrUser, Synchronized, Synchronizing
      <4>2. NoWork.at = "none"
        BY DEF NoWork
      <4> QED
        BY <4>1, <4>2
    <3> QED
      BY <1>2, <3>1, <3>2
  <2>3. PICK w : Set(Importer, w) /\ (w # NoWork => w.at \notin Holding)
    <3>1. \A u : Call(u, "compare", NoAddr, TRUE).at = "look"
      BY DEF Call
    <3>2. \A u : [Call(u, "compare", NoAddr, TRUE) EXCEPT !.at = "pages", !.next = "loaded"].at
                  = "pages"
      BY DEF Call
    <3> QED
      BY <1>2, <3>1, <3>2 DEF SynchronizeJellyseerrUsers, SynchronizeJellyseerrUser, Synchronized,
                              Holding
  <2> QED
    BY <2>1, <2>2, <2>3, CacheLeft
<1>3. CASE Compare(Importer)
  <2>1. /\ Importer \in Threads /\ work[Importer].at = "compare"
        /\ UNCHANGED <<seerr, userCache, invalidatedUsers>>
    BY <1>3 DEF Compare, Threads
  <2>2. IsCall(work[Importer])
    BY <2>1, AtCall
  <2>3. \A addr : [work[Importer] EXCEPT !.at = "look", !.then = "main", !.addr = addr,
                                         !.held = NoUsers, !.import = FALSE].at = "look"
    BY <2>2 DEF IsCall, CallSet
  <2>4. PICK w : Set(Importer, w) /\ (w # NoWork => w.at \notin Holding)
    BY <1>3, <2>3 DEF Compare, Finish, Holding
  <2>5. troubled \subseteq troubled'
    BY <1>3 DEF Compare, Finish
  <2> QED
    BY <2>1, <2>4, <2>5, CacheLeft
<1>4. CASE Tables \/ CacheExpires \/ UNCHANGED allvars
  BY <1>4, CacheRests DEF Tables, CacheExpires, allvars, svars
<1>5. CASE SeerrChanges
  <2>1. seerr \in [Users -> Known]
    BY DEF SeerrTyped, ClientTyped
  <2> QED
    BY <1>5, <2>1, CacheRests DEF SeerrChanges
<1>6. CASE Restart
  BY <1>6 DEF Restart, CacheInv, CacheIsHonest, Holds, InCall, NoUsers
<1> QED
  BY <1>1, <1>2, <1>3, <1>4, <1>5, <1>6, CacheOfClient DEF SeerrNext

LEMMA InitCache == ASSUME SeerrInit PROVE CacheInv
BY DEF SeerrInit, CacheInv, CacheIsHonest, Holds, InCall, NoUsers

-----------------------------------------------------------------------------
(* Addresses on their way *)

Passed == told \cup invalidatedUsers
Excused == troubled \cup lost
Arrived(u) == seerr[u] = Address(u)

\* A request that will still post the address of u.
Carries(h, u) ==
    /\ At(h, "push") /\ task[h].op = "email" /\ task[h].who = u
    /\ InCall(h) => work[h].then = "main" /\ work[h].at # "mark"
Carried(u) == \E h \in Callers : Carries(h, u)

PassedInv ==
    /\ ~enabled => Passed = {}
    /\ \A u \in Passed \ Excused : Arrived(u) \/ Carried(u)

\* Requests pass on the address that is stored.
HasAddress(h) ==
    Works(h) /\ task[h].who \notin Excused =>
        /\ task[h].at = "push" => task[h].arg.addr = Address(task[h].who)
        /\ task[h].op = "signup" /\ task[h].at \in {"share", "put"} =>
               task[h].copy.addr = Address(task[h].who)

\* Calls post it, and what the daemon compares it with was in Jellyseerr or is replaced.
CallKnows(t) ==
    InCall(t) /\ work[t].user \notin Excused =>
        LET w == work[t]
        IN  /\ w.then = "main" => w.addr = Address(w.user)
            /\ w.then = "prefs" \/ w.at = "mark" => Arrived(w.user)
            /\ w.at = "compare" =>
                  /\ w.held[w.user] # Absent
                  /\ w.held[w.user] = seerr[w.user] \/ Arrived(w.user) \/ Carried(w.user)

\* Nothing was passed on of a user whose row is yet to be stored.
Signs(h) == Works(h) /\ task[h].op = "signup"
NotYet(u) ==
    /\ u \notin Passed
    /\ \A g \in Callers : At(g, "push") => task[g].who # u
    /\ \A t \in Threads : InCall(t) /\ work[t].user = u => work[t].then = "compare"
SignsUp(h) == Signs(h) /\ task[h].at = "row" /\ ~task[h].stale /\ task[h].who \notin Excused
SignupAlone(h) ==
    /\ Signs(h) => \A g \in Callers : Signs(g) /\ task[g].who = task[h].who => g = h
    /\ SignsUp(h) => NotYet(task[h].who)

AddressesInv ==
    /\ PassedInv
    /\ \A h \in Callers : HasAddress(h) /\ SignupAlone(h)
    /\ \A t \in Threads : CallKnows(t)

LEMMA AddressIsKnown ==
    ASSUME AllTyped, NEW u \in Users PROVE Address(u) \in Addresses \cup {NoAddr}
<1>1. emails[u] \in Row \cup {NoRow}
  BY DEF AllTyped, TablesTyped
<1> QED
  BY <1>1 DEF Address, Row

LEMMA StoresNothingYet ==
    ASSUME RowsInv, NEW h \in Callers, SignsUp(h) PROVE Address(task[h].who) = NoAddr
BY DEF RowsInv, CopyIsFresh, SignsUp, Signs, Workers, Address

\* The call that another thread has at work is for the same.
LEMMA SameCall ==
    ASSUME SeerrTyped, NEW x \in Threads, InCall(x), Stays(x)
    PROVE  /\ InCall(x)' /\ IsCall(work[x]) /\ work[x].user \in exists
           /\ work'[x].at = work[x].at /\ work'[x].user = work[x].user
           /\ work'[x].then = work[x].then /\ work'[x].addr = work[x].addr
           /\ work'[x].held = work[x].held
<1>1. /\ IsCall(work[x]) /\ work'[x] = [work[x] EXCEPT !.stale = work'[x].stale]
      /\ work'[x] # NoWork
  BY DEF SeerrTyped, CallTyped, Stays, InCall
<1> QED
  BY <1>1 DEF IsCall, CallSet, InCall

\* A step of the call of t: what it posts is what is stored, and whom it counts as passed on
\* has the address or will have it.
LEMMA CallKeepsAddresses ==
    ASSUME AInv, SeerrTyped, SeerrTyped', AddressesInv, NEW t \in Threads, enabled,
           UNCHANGED <<exists, emails, lost, enabled>>, troubled \subseteq troubled',
           \A x \in Threads \ {t} : Stays(x),
           \A h \in Callers : task'[h] = task[h] \/ (h = t /\ task'[h] = Idle),
           \A u \in Users \ Excused' :
              /\ seerr'[u] = seerr[u] \/ Arrived(u)' \/ seerr[u] = Absent
              /\ u \in Passed' => u \in Passed \/ Arrived(u)' \/ Carried(u)'
              /\ t \in Callers /\ Carries(t, u) => Carries(t, u)' \/ Arrived(u)'
              /\ NotYet(u) /\ Address(u) = NoAddr =>
                    /\ u \notin Passed'
                    /\ InCall(t)' /\ work'[t].user = u => work'[t].then = "compare",
           CallKnows(t)'
    PROVE  AddressesInv'
<1>1. \A u : Address(u)' = Address(u)
  BY DEF Address
<1>2. Excused \subseteq Excused' /\ exists \subseteq Users
  BY DEF Excused, AInv, AllTyped, TablesTyped
<1>3. ASSUME NEW u \in Users \ Excused', Arrived(u) PROVE Arrived(u)'
  <2>1. Address(u) # Absent
    BY AddressIsKnown, SeerrAssumption DEF AInv
  <2> QED
    BY <1>1, <1>3, <2>1 DEF Arrived
<1>4. ASSUME NEW u \in Users \ Excused', Carried(u) PROVE Carried(u)' \/ Arrived(u)'
  <2>1. PICK h \in Callers : Carries(h, u)
    BY <1>4 DEF Carried
  <2>2. CASE h = t
    BY <2>1, <2>2 DEF Carried
  <2>3. CASE h # t
    <3>1. task'[h] = task[h] /\ Stays(h) /\ h \in Threads
      BY <2>3 DEF Threads
    <3>2. InCall(h)' => InCall(h)
      BY <3>1 DEF Stays, InCall
    <3>3. Carries(h, u)'
      BY <2>1, <3>1, <3>2, SameCall DEF Carries, At
    <3> QED
      BY <3>3 DEF Carried
  <2> QED
    BY <2>2, <2>3
<1>5. PassedInv'
  <2>1. ASSUME NEW u \in Passed', u \notin Excused' PROVE Arrived(u)' \/ Carried(u)'
    <3>1. u \in Users
      BY <1>2, <2>1 DEF Passed, SeerrTyped, ClientTyped
    <3>2. u \in Passed => Arrived(u) \/ Carried(u)
      BY <1>2, <2>1 DEF AddressesInv, PassedInv
    <3> QED
      BY <1>3, <1>4, <2>1, <3>1, <3>2
  <2> QED
    BY <2>1 DEF PassedInv
<1>6. ASSUME NEW h \in Callers PROVE HasAddress(h)' /\ SignupAlone(h)'
  <2>1. HasAddress(h) /\ SignupAlone(h)
    BY DEF AddressesInv
  <2>2. HasAddress(h)'
    BY <1>1, <1>2, <2>1 DEF HasAddress, Works
  <2>3. Signs(h)' => \A g \in Callers : Signs(g)' /\ task'[g].who = task'[h].who => g = h
    BY <2>1 DEF SignupAlone, Signs, Works
  <2>4. ASSUME SignsUp(h)' PROVE NotYet(task[h].who)'
    <3>1. task'[h] = task[h] /\ SignsUp(h)
      BY <1>2, <2>4 DEF SignsUp, Signs, Works
    <3> PICK u : u = task[h].who
      OBVIOUS
    <3>2. NotYet(u) /\ Address(u) = NoAddr
      BY <2>1, <3>1, StoresNothingYet DEF SignupAlone, AInv
    <3>3. u \in Users \ Excused'
      <4>1. h \in Workers /\ task[h] # Idle /\ task[h].op \in UserOps
        BY <3>1 DEF Workers, SignsUp, Signs, Works, UserOps
      <4>2. u \in Users
        BY <3>1, <4>1, OfUsers DEF AInv, SignsUp, Signs
      <4> QED
        BY <2>4, <3>1, <4>2 DEF SignsUp
    <3>4. \A g \in Callers : At(g, "push")' => task'[g].who # u
      BY <3>2 DEF NotYet, At
    <3>5. \A x \in Threads : InCall(x)' /\ work'[x].user = u => work'[x].then = "compare"
      <4> SUFFICES ASSUME NEW x \in Threads, InCall(x)', work'[x].user = u
                   PROVE  work'[x].then = "compare"
        OBVIOUS
      <4>1. CASE x = t
        BY <3>2, <3>3, <4>1
      <4>2. CASE x # t
        <5>1. Stays(x) /\ InCall(x)
          BY <4>2 DEF Stays, InCall
        <5> QED
          BY <3>2, <5>1, SameCall DEF NotYet
      <4> QED
        BY <4>1, <4>2
    <3>6. u \notin Passed'
      BY <3>2, <3>3
    <3>7. task'[h].who = u
      BY <3>1
    <3> QED
      BY <3>4, <3>5, <3>6, <3>7 DEF NotYet
  <2> QED
    BY <2>2, <2>3, <2>4 DEF SignupAlone
<1>7. ASSUME NEW x \in Threads PROVE CallKnows(x)'
  <2>1. CASE x = t
    BY <2>1
  <2>2. CASE x # t
    <3> SUFFICES ASSUME InCall(x)', work'[x].user \notin Excused' PROVE CallKnows(x)'
      BY DEF CallKnows
    <3>1. Stays(x) /\ InCall(x)
      BY <2>2 DEF Stays, InCall
    <3>2. /\ work'[x].at = work[x].at /\ work'[x].user = work[x].user
          /\ work'[x].then = work[x].then /\ work'[x].addr = work[x].addr
          /\ work'[x].held = work[x].held /\ work[x].user \in exists
      BY <3>1, SameCall
    <3>3. PICK u \in Users : u = work[x].user /\ u \notin Excused' /\ u \notin Excused
      BY <1>2, <3>2
    <3>4. CallKnows(x)
      BY DEF AddressesInv
    <3>5. work[x].then = "main" => work[x].addr = Address(u)'
      BY <1>1, <3>1, <3>3, <3>4 DEF CallKnows
    <3>6. work[x].then = "prefs" \/ work[x].at = "mark" => Arrived(u)'
      BY <1>3, <3>1, <3>3, <3>4 DEF CallKnows
    <3>7. work[x].at = "compare" =>
             /\ work[x].held[u] # Absent
             /\ work[x].held[u] = seerr'[u] \/ Arrived(u)' \/ Carried(u)'
      BY <1>3, <1>4, <3>1, <3>3, <3>4 DEF CallKnows
    <3> QED
      BY <3>2, <3>3, <3>5, <3>6, <3>7 DEF CallKnows
  <2> QED
    BY <2>1, <2>2
<1> QED
  BY <1>5, <1>6, <1>7 DEF AddressesInv

\* What carries an address goes on to, unless it is this call that does.
LEMMA OthersCarry ==
    ASSUME SeerrTyped, NEW t \in Threads, NEW u, NEW h \in Callers \ {t}, Carries(h, u),
           task'[h] = task[h], Stays(h)
    PROVE  Carries(h, u)'
<1>1. h \in Threads /\ (InCall(h)' => InCall(h))
  BY DEF Threads, Stays, InCall
<1> QED
  BY <1>1, SameCall DEF Carries, At

\* Nothing arrives, and the call is for the same.
LEMMA CallGoesOnFor ==
    ASSUME AInv, SeerrTyped, SeerrTyped', AddressesInv, NEW t \in Threads, InCall(t), enabled,
           UNCHANGED <<exists, emails, task, lost, enabled, told, seerr>>,
           invalidatedUsers' \subseteq invalidatedUsers, troubled \subseteq troubled',
           \A x \in Threads \ {t} : Stays(x),
           NEW w, work'[t] = w, w # NoWork, w.user = work[t].user, w.then = work[t].then,
           w.addr = work[t].addr, w.at # "mark", work[t].at # "mark",
           w.at = "compare" /\ w.user \notin Excused =>
               /\ w.held[w.user] # Absent
               /\ w.held[w.user] = seerr[w.user] \/ Arrived(w.user) \/ Carried(w.user)
    PROVE  AddressesInv'
<1>1. /\ Excused \subseteq Excused' /\ Passed' \subseteq Passed
      /\ \A u : Address(u)' = Address(u) /\ (Arrived(u) <=> Arrived(u)')
  BY DEF Excused, Passed, Address, Arrived
<1>2. InCall(t)' /\ work'[t].user = w.user /\ work'[t].then = w.then
  BY DEF InCall
<1>3. \A h \in Callers, u \in Users : Carries(h, u) => Carries(h, u)'
  <2>1. \A u \in Users : t \in Callers /\ Carries(t, u) => Carries(t, u)'
    BY <1>2 DEF Carries, At
  <2> QED
    BY <2>1, OthersCarry DEF Threads
<1>4. \A u \in Users : Carried(u) => Carried(u)'
  BY <1>3 DEF Carried
<1>5. CallKnows(t)'
  <2> SUFFICES ASSUME w.user \notin Excused' PROVE CallKnows(t)'
    BY DEF CallKnows
  <2>1. CallKnows(t) /\ w.user \notin Excused /\ w.user \in exists /\ exists \subseteq Users
    BY <1>1, <1>2 DEF AddressesInv, SeerrTyped, CallTyped, IsCall, CallSet, AInv, AllTyped,
                      TablesTyped
  <2>2. PICK u \in Users : u = w.user /\ u \notin Excused
    BY <2>1
  <2>3. w.then = "main" => w.addr = Address(u)'
    BY <1>1, <2>1, <2>2 DEF CallKnows
  <2>4. w.then = "prefs" => Arrived(u)'
    BY <1>1, <2>1, <2>2 DEF CallKnows
  <2>5. w.at = "compare" => /\ w.held[u] # Absent
                            /\ w.held[u] = seerr'[u] \/ Arrived(u)' \/ Carried(u)'
    BY <1>1, <1>4, <2>2
  <2> QED
    BY <1>2, <2>2, <2>3, <2>4, <2>5 DEF CallKnows
<1>6. \A u \in Users \ Excused' :
         NotYet(u) => u \notin Passed' /\ (work'[t].user = u => work'[t].then = "compare")
  BY <1>1, <1>2 DEF NotYet
<1> QED
  BY <1>1, <1>3, <1>5, <1>6, CallKeepsAddresses

LEMMA CallEnds ==
    ASSUME AInv, SeerrTyped, SeerrTyped', AddressesInv, NEW t \in Threads, InCall(t), enabled,
           NEW outcome, Finish(t, outcome), UNCHANGED <<seerr, invalidatedUsers>>,
           NEW u, u = work[t].user,
           u \notin Excused' =>
               /\ t \in Callers => Arrived(u)
               /\ outcome = "told" => /\ Arrived(u) \/ Carried(u)
                                      /\ NotYet(u) => Address(u) # NoAddr
    PROVE  AddressesInv'
<1>1. /\ work'[t] = NoWork /\ \A x \in Threads \ {t} : Stays(x)
      /\ UNCHANGED <<exists, emails, lost, enabled>> /\ troubled \subseteq troubled'
      /\ told' = (IF outcome = "told" THEN told \cup {u} ELSE told)
  BY CallGoesOn DEF Finish, ghosts
<1>2. \A h \in Callers : IF h = t THEN task'[h] = Idle ELSE task'[h] = task[h]
  <2>1. task = [h \in Workers |-> task[h]] /\ Callers \subseteq Workers
    BY DEF AInv, AllTyped, TasksTyped, Workers
  <2> QED
    BY <2>1 DEF Finish, End
<1>3. /\ Excused \subseteq Excused'
      /\ \A v : Address(v)' = Address(v) /\ (Arrived(v) <=> Arrived(v)')
  BY <1>1 DEF Excused, Address, Arrived
<1>4. \A v : t \in Callers /\ Carries(t, v) => v = u
  BY DEF SeerrTyped, CallTyped, OfRequest, Carries
<1>5. \A v \in Users \ Excused' : t \in Callers /\ Carries(t, v) => Arrived(v)'
  BY <1>3, <1>4
<1>6. \A v \in Users \ Excused' : Carried(v) => Carried(v)' \/ Arrived(v)'
  BY <1>1, <1>2, <1>5, OthersCarry DEF Carried, Threads
<1>7. \A v \in Users \ Excused' :
         /\ v \in Passed' => v \in Passed \/ Arrived(v)' \/ Carried(v)'
         /\ NotYet(v) /\ Address(v) = NoAddr => v \notin Passed'
  BY <1>1, <1>3, <1>6 DEF Passed, NotYet
<1>8. ~InCall(t)' /\ CallKnows(t)'
  BY <1>1 DEF CallKnows, InCall
<1> QED
  BY <1>1, <1>2, <1>5, <1>7, <1>8, CallKeepsAddresses

\* What the cache has of a user is in Jellyseerr, or will be replaced.
LEMMA CacheHas ==
    ASSUME AInv, SeerrTyped, CacheInv, AddressesInv, NEW u \in exists, u \notin Excused,
           userCache[u] # Absent
    PROVE  userCache[u] = seerr[u] \/ Arrived(u) \/ Carried(u)
<1>1. CASE u \in invalidatedUsers
  BY <1>1 DEF AddressesInv, PassedInv, Passed
<1>2. CASE u \notin invalidatedUsers
  <2>1. u \in Users \ (invalidatedUsers \cup troubled)
    BY <1>2 DEF AInv, AllTyped, TablesTyped, Excused
  <2>2. \/ userCache[u] = seerr[u]
        \/ \E x \in Threads : work[x].at = "mark" /\ work[x].user = u
    BY <2>1 DEF CacheInv, CacheIsHonest
  <2>3. ASSUME NEW x \in Threads, work[x].at = "mark", work[x].user = u PROVE Arrived(u)
    <3>1. InCall(x) /\ CallKnows(x)
      BY <2>3, AtCall DEF AddressesInv
    <3> QED
      BY <2>3, <3>1 DEF CallKnows
  <2> QED
    BY <2>2, <2>3
<1> QED
  BY <1>1, <1>2

LEMMA LooksForAddresses ==
    ASSUME AInv, SeerrTyped, SeerrTyped', CacheInv, AddressesInv, NEW t \in Threads,
           Look(t) \/ Find(t) \/ GetUserPages(t) \/ Fill(t) \/ UserByID(t) \/ Refresh(t)
    PROVE  AddressesInv'
<1> DEFINE w == work[t]
<1>1. /\ InCall(t) /\ IsCall(w) /\ enabled /\ w.user \in exists
      /\ w.at \in {"look", "find", "pages", "fill", "refresh", "refreshed"}
  <2>1. w.at \in {"look", "find", "pages", "fill", "refresh", "refreshed"}
    BY DEF Look, Find, GetUserPages, Fill, UserByID, Refresh
  <2> QED
    BY <2>1, AtCall
<1>2. ClientTyped /\ exists \subseteq Users
  BY DEF SeerrTyped, AInv, AllTyped, TablesTyped
<1>3. /\ UNCHANGED <<exists, emails, task, lost, enabled, told, seerr>>
      /\ invalidatedUsers' \subseteq invalidatedUsers /\ troubled \subseteq troubled'
  BY DEF Look, Find, GetUserPages, Fill, UserByID, Refresh, Rest, ghosts
<1>4. PICK next : /\ Set(t, next) /\ next # NoWork
                  /\ next.user = w.user /\ next.then = w.then /\ next.addr = w.addr
                  /\ next.at # "mark"
                  /\ next.at = "compare" => Has(w) /\ next.held = userCache
  <2>1. CASE Look(t) \/ Find(t)
    <3>1. w.at \in {"look", "find"}
      BY <2>1 DEF Look, Find
    <3>2. PICK found : found = Found(w)
      OBVIOUS
    <3>3. IsCall(found) /\ found.user = w.user /\ found.then = w.then /\ found.addr = w.addr
      BY <1>1, <1>2, <3>1, <3>2, FoundIsCall
    <3>4. \/ found.at \in {"refresh", "again", "pages"}
          \/ found = Have(w) /\ found.at = w.then /\ Has(w)
      BY <1>1, <1>2, <3>1, <3>2, FoundIsCall
    <3>5. found # NoWork /\ found.at # "mark"
      BY <1>1, <3>3, <3>4 DEF IsCall, CallSet, NoWork
    <3>6. found.at = "compare" => Has(w) /\ found.held = userCache
      BY <1>1, <1>2, <3>4, HaveIsCall
    <3>7. PICK pages : pages = [w EXCEPT !.at = "pages"]
      OBVIOUS
    <3>8. /\ pages # NoWork /\ pages.user = w.user /\ pages.then = w.then
          /\ pages.addr = w.addr /\ pages.at = "pages"
      BY <1>1, <3>7 DEF IsCall, CallSet, NoWork
    <3>9. Set(t, found) \/ Set(t, pages)
      BY <2>1, <3>2, <3>7 DEF Look, Find
    <3> QED
      BY <3>3, <3>5, <3>6, <3>8, <3>9
  <2>2. CASE GetUserPages(t)
    <3>1. w.at = "pages"
      BY <2>2 DEF GetUserPages
    <3>2. PICK next : /\ Set(t, next)
                      /\ \/ next = [w EXCEPT !.at = "fill", !.held = seerr]
                         \/ next = [w EXCEPT !.at = w.next]
      BY <2>2 DEF GetUserPages
    <3>3. /\ next # NoWork /\ next.user = w.user /\ next.then = w.then /\ next.addr = w.addr
          /\ next.at \in {"fill", "find", "again", "loaded"}
      BY <1>1, <3>1, <3>2 DEF IsCall, CallSet, NoWork
    <3> QED
      BY <3>2, <3>3
  <2>3. CASE Fill(t)
    <3>1. w.at = "fill"
      BY <2>3 DEF Fill
    <3>2. PICK next : /\ Set(t, next)
                        /\ next = [w EXCEPT !.at = w.next, !.held = NoUsers, !.stale = {}]
      BY <2>3 DEF Fill
    <3>3. /\ next # NoWork /\ next.user = w.user /\ next.then = w.then /\ next.addr = w.addr
          /\ next.at \in {"find", "again", "loaded"}
      BY <1>1, <3>1, <3>2 DEF IsCall, CallSet, NoWork
    <3> QED
      BY <3>2, <3>3
  <2>4. CASE UserByID(t)
    <3>1. w.at = "refresh"
      BY <2>4 DEF UserByID
    <3>2. PICK next, u : /\ Set(t, next)
                         /\ \/ next = [w EXCEPT !.at = "again"]
                            \/ next = [w EXCEPT !.at = "refreshed", !.next = u, !.held = seerr]
                            \/ next = [w EXCEPT !.todo = @ \ {u}]
      BY <2>4 DEF UserByID
    <3>3. /\ next # NoWork /\ next.user = w.user /\ next.then = w.then /\ next.addr = w.addr
          /\ next.at \in {"again", "refreshed", "refresh"}
      BY <1>1, <3>1, <3>2 DEF IsCall, CallSet, NoWork
    <3> QED
      BY <3>2, <3>3
  <2>5. CASE Refresh(t)
    <3>1. PICK next, u :
            /\ Set(t, next)
            /\ next = [w EXCEPT !.at = "refresh", !.next = "find", !.todo = @ \ {u},
                                !.held = NoUsers, !.stale = {}]
      BY <2>5 DEF Refresh
    <3>2. /\ next # NoWork /\ next.user = w.user /\ next.then = w.then /\ next.addr = w.addr
          /\ next.at = "refresh"
      BY <1>1, <3>1 DEF IsCall, CallSet, NoWork
    <3> QED
      BY <3>1, <3>2
  <2> QED
    BY <2>1, <2>2, <2>3, <2>4, <2>5
<1>5. work'[t] = next /\ \A x \in Threads \ {t} : Stays(x)
  BY <1>4, CallGoesOn
<1>6. next.at = "compare" /\ next.user \notin Excused =>
         /\ next.held[next.user] # Absent
         /\ next.held[next.user] = seerr[next.user] \/ Arrived(next.user) \/ Carried(next.user)
  BY <1>1, <1>4, CacheHas DEF Has
<1>7. w.at # "mark"
  BY <1>1
<1> QED
  BY <1>1, <1>3, <1>4, <1>5, <1>6, <1>7, CallGoesOnFor

LEMMA LooksAgainForAddresses ==
    ASSUME AInv, SeerrTyped, SeerrTyped', CacheInv, AddressesInv, NEW t \in Threads,
           LookAgain(t)
    PROVE  AddressesInv'
<1> DEFINE w == work[t]
<1>1. InCall(t) /\ IsCall(w) /\ enabled /\ w.user \in exists /\ w.at = "again"
  BY AtCall DEF LookAgain
<1>2. /\ ClientTyped /\ exists \subseteq Users /\ UNCHANGED invalidatedUsers
      /\ seerr \in [Users -> Known] /\ userCache \in [Users -> Known]
  BY DEF SeerrTyped, ClientTyped, AInv, AllTyped, TablesTyped, LookAgain
<1>3. PICK have : have = Have(w)
  OBVIOUS
<1>4. /\ IsCall(have) /\ have.at = w.then /\ have.then = w.then
      /\ have.user = w.user /\ have.addr = w.addr /\ have # NoWork /\ have.at # "mark"
      /\ have.at = "compare" => have.held = userCache
  BY <1>1, <1>2, <1>3, HaveIsCall DEF IsCall, CallSet, NoWork
<1>5. CASE Has(w) /\ Set(t, Have(w)) /\ UNCHANGED <<seerr, troubled>> /\ Rest
  <2>1. /\ UNCHANGED <<exists, emails, task, lost, enabled, told, seerr, invalidatedUsers>>
        /\ troubled \subseteq troubled'
    BY <1>2, <1>5 DEF Rest, ghosts
  <2>2. work'[t] = have /\ \A x \in Threads \ {t} : Stays(x)
    BY <1>3, <1>5, CallGoesOn
  <2>3. have.at = "compare" /\ have.user \notin Excused =>
           /\ have.held[have.user] # Absent
           /\ have.held[have.user] = seerr[have.user] \/ Arrived(have.user) \/ Carried(have.user)
    BY <1>1, <1>4, <1>5, CacheHas DEF Has
  <2>4. w.at # "mark"
    BY <1>1
  <2> QED
    BY <1>1, <1>4, <2>1, <2>2, <2>3, <2>4, CallGoesOnFor
<1>6. CASE Finish(t, "failed") /\ UNCHANGED seerr
  <2>1. w.user \in Excused'
    BY <1>6 DEF Finish, Excused
  <2> QED
    BY <1>1, <1>2, <1>6, <2>1, CallEnds
<1>7. CASE /\ seerr[w.user] = Absent
           /\ seerr' = [seerr EXCEPT ![w.user] = NoAddr]
           /\ Posted(t, w.user, [Have(w) EXCEPT !.held = IF w.then = "compare"
                                                        THEN userCache' ELSE NoUsers])
           /\ userCache' = [userCache EXCEPT ![w.user] = NoAddr]
           /\ UNCHANGED <<troubled>> /\ Rest
  <2>1. /\ UNCHANGED <<exists, emails, task, lost, enabled, told, invalidatedUsers, troubled>>
    BY <1>2, <1>7 DEF Rest, ghosts
  <2>2. PICK next : /\ Posted(t, w.user, next) /\ next.user = w.user /\ next.then = w.then
                    /\ next.addr = w.addr /\ next # NoWork /\ next.at = w.then
                    /\ w.then = "compare" => next.held[w.user] = NoAddr
    <3>1. PICK held : /\ Posted(t, w.user, [have EXCEPT !.held = held])
                      /\ w.then = "compare" => held = userCache'
      BY <1>3, <1>7
    <3>2. w.then = "compare" => held[w.user] = NoAddr
      BY <1>1, <1>2, <1>7, <3>1
    <3> QED
      BY <1>4, <3>1, <3>2 DEF IsCall, CallSet, NoWork
  <2>3. work'[t] = next /\ \A x \in Threads \ {t} : Stays(x)
    BY <1>1, <2>2, CallPosts
  <2>4. /\ InCall(t)' /\ work'[t].user = w.user /\ work'[t].then = w.then
        /\ work'[t].at = w.then
    BY <2>2, <2>3 DEF InCall
  <2>5. PICK u \in Users : u = w.user
    BY <1>1, <1>2
  <2>6. /\ \A v : Address(v)' = Address(v)
        /\ \A v \in Users \ {u} : seerr'[v] = seerr[v]
        /\ seerr'[u] = NoAddr /\ seerr[u] = Absent /\ Excused' = Excused /\ Passed' = Passed
    BY <1>2, <1>7, <2>1, <2>5 DEF Address, Excused, Passed
  <2>7. \A v \in Users : t \in Callers /\ Carries(t, v) => Carries(t, v)'
    BY <1>1, <2>1, <2>4 DEF Carries, At, InCall, IsCall, CallSet
  <2>8. CallKnows(t)'
    <3> SUFFICES ASSUME u \notin Excused PROVE CallKnows(t)'
      BY <2>4, <2>5, <2>6 DEF CallKnows
    <3>1. CallKnows(t) /\ Address(u) # Absent
      BY AddressIsKnown, SeerrAssumption DEF AddressesInv, AInv
    <3>2. w.then = "main" => w.addr = Address(u)'
      BY <1>1, <2>5, <2>6, <3>1 DEF CallKnows
    <3>3. w.then # "prefs"
      BY <1>1, <2>5, <2>6, <3>1 DEF CallKnows, Arrived
    <3>4. next.then = "compare" => next.held[u] # Absent /\ next.held[u] = seerr'[u]
      BY <2>2, <2>5, <2>6, SeerrAssumption
    <3>5. next.at \notin {"prefs", "mark"} /\ next.then # "prefs" /\ next.addr = w.addr
      BY <1>1, <2>2, <3>3 DEF IsCall, CallSet
    <3> QED
      BY <2>2, <2>3, <2>5, <3>2, <3>4, <3>5 DEF CallKnows
  <2>9. \A v \in Users \ Excused' :
           /\ seerr'[v] = seerr[v] \/ seerr[v] = Absent
           /\ NotYet(v) => v \notin Passed' /\ (work'[t].user = v => work'[t].then = "compare")
    BY <1>1, <2>4, <2>6 DEF NotYet
  <2> QED
    BY <1>1, <2>1, <2>3, <2>6, <2>7, <2>8, <2>9, CallKeepsAddresses
<1> QED
  BY <1>5, <1>6, <1>7 DEF LookAgain

LEMMA PostsAddresses ==
    ASSUME AInv, SeerrTyped, SeerrTyped', AddressesInv, NEW t \in Threads,
           PostSettings(t) \/ Mark(t) \/ PostNotifications(t)
    PROVE  AddressesInv'
<1> DEFINE w == work[t]
<1>1. /\ InCall(t) /\ IsCall(w) /\ enabled /\ w.user \in exists
      /\ w.at \in {"main", "mark", "prefs"} /\ CallKnows(t)
  <2>1. w.at \in {"main", "mark", "prefs"}
    BY DEF PostSettings, Mark, PostNotifications
  <2> QED
    BY <2>1, AtCall DEF AddressesInv
<1>2. exists \subseteq Users /\ seerr \in [Users -> Known]
  BY DEF SeerrTyped, ClientTyped, AInv, AllTyped, TablesTyped
<1>3. PICK u \in Users : u = w.user
  BY <1>1, <1>2
<1>4. CASE PostSettings(t)
  <2>1. w.at = "main" /\ UNCHANGED invalidatedUsers
    BY <1>4 DEF PostSettings
  <2>2. CASE Finish(t, "failed") /\ UNCHANGED seerr
    <3>1. u \in Excused'
      BY <1>3, <2>2 DEF Finish, Excused
    <3> QED
      BY <1>1, <1>3, <2>1, <2>2, <3>1, CallEnds
  <2>3. CASE /\ seerr' = [seerr EXCEPT ![w.user] = w.addr]
             /\ Posted(t, w.user, [w EXCEPT !.at = "mark"])
             /\ UNCHANGED <<events, troubled>> /\ Rest
    <3>1. UNCHANGED <<exists, emails, task, lost, enabled, told, invalidatedUsers, troubled>>
      BY <2>1, <2>3 DEF Rest, ghosts
    <3>2. PICK next : /\ Posted(t, w.user, next) /\ next.user = u /\ next.then = "main"
                      /\ next.addr = w.addr /\ next # NoWork /\ next.at = "mark"
      <4>1. PICK next : next = [w EXCEPT !.at = "mark"]
        OBVIOUS
      <4>2. /\ next.user = w.user /\ next.then = w.then /\ next.addr = w.addr
            /\ next # NoWork /\ next.at = "mark"
        BY <1>1, <4>1 DEF IsCall, CallSet, NoWork
      <4>3. w.then = "main"
        BY <1>1, <2>1 DEF IsCall
      <4> QED
        BY <1>3, <2>3, <4>1, <4>2, <4>3
    <3>3. work'[t] = next /\ \A x \in Threads \ {t} : Stays(x)
      BY <1>1, <3>2, CallPosts
    <3>4. /\ \A v : Address(v)' = Address(v)
          /\ \A v \in Users \ {u} : seerr'[v] = seerr[v]
          /\ seerr'[u] = w.addr /\ Excused' = Excused /\ Passed' = Passed
      BY <1>2, <1>3, <2>3, <3>1 DEF Address, Excused, Passed
    <3>5. u \notin Excused' => Arrived(u)' /\ w.addr = Address(u)'
      <4>1. w.then = "main"
        BY <1>1, <2>1 DEF IsCall
      <4> QED
        BY <1>1, <1>3, <3>4, <4>1 DEF CallKnows, Arrived
    <3>6. \A v : t \in Callers /\ Carries(t, v) => v = u
      BY <1>1, <1>3 DEF SeerrTyped, CallTyped, OfRequest, Carries
    <3>7. CallKnows(t)'
      BY <3>2, <3>3, <3>5 DEF CallKnows
    <3>8. \A v \in Users \ Excused' :
             /\ seerr'[v] = seerr[v] \/ Arrived(v)'
             /\ t \in Callers /\ Carries(t, v) => Arrived(v)'
             /\ NotYet(v) => v \notin Passed' /\ work'[t].user # v
      <4>1. NotYet(u) => FALSE
        BY <1>1, <1>3, <2>1 DEF NotYet, IsCall
      <4> QED
        BY <3>2, <3>3, <3>4, <3>5, <3>6, <4>1 DEF NotYet
    <3> QED
      BY <1>1, <3>1, <3>3, <3>4, <3>7, <3>8, CallKeepsAddresses
  <2> QED
    BY <1>4, <2>2, <2>3 DEF PostSettings
<1>5. CASE Mark(t)
  <2>1. /\ w.at = "mark" /\ w.then = "main" /\ UNCHANGED <<seerr, troubled>> /\ Rest
        /\ invalidatedUsers' = invalidatedUsers \cup {u}
    BY <1>1, <1>3, <1>5 DEF Mark, IsCall
  <2>2. UNCHANGED <<exists, emails, task, lost, enabled, told>>
    BY <2>1 DEF Rest, ghosts
  <2>3. PICK next : /\ Set(t, next) /\ next.user = u /\ next.then = "prefs"
                    /\ next # NoWork /\ next.at = "look"
    <3>1. PICK next : /\ Set(t, next)
                      /\ next = [w EXCEPT !.at = "look", !.then = "prefs", !.addr = NoAddr]
      BY <1>5 DEF Mark
    <3>2. next.user = w.user /\ next.then = "prefs" /\ next.at = "look"
      BY <1>1, <3>1 DEF IsCall, CallSet
    <3>3. next # NoWork
      BY <3>2 DEF NoWork
    <3> QED
      BY <1>3, <3>1, <3>2, <3>3
  <2>4. work'[t] = next /\ \A x \in Threads \ {t} : Stays(x)
    BY <2>3, CallGoesOn
  <2>5. /\ \A v : (Arrived(v) <=> Arrived(v)') /\ Excused' = Excused
        /\ Passed' = Passed \cup {u}
    BY <2>1, <2>2 DEF Address, Arrived, Excused, Passed
  <2>6. u \notin Excused' => Arrived(u)'
    BY <1>1, <1>3, <2>1, <2>5 DEF CallKnows
  <2>7. \A v : t \in Callers => ~Carries(t, v)
    BY <1>1, <2>1 DEF Carries
  <2>8. CallKnows(t)'
    BY <2>3, <2>4, <2>6 DEF CallKnows
  <2>9. ~NotYet(u)
    BY <1>1, <1>3, <2>1 DEF NotYet
  <2>10. \A v \in Users \ Excused' :
           /\ v \in Passed' => v \in Passed \/ Arrived(v)'
           /\ NotYet(v) => v \notin Passed' /\ work'[t].user # v
    BY <2>3, <2>4, <2>5, <2>6, <2>9 DEF NotYet
  <2> QED
    BY <1>1, <2>1, <2>2, <2>4, <2>7, <2>8, <2>10, CallKeepsAddresses
<1>6. CASE PostNotifications(t)
  <2>1. /\ w.at = "prefs" /\ w.then = "prefs" /\ Finish(t, "told")
        /\ UNCHANGED <<seerr, invalidatedUsers>>
    BY <1>1, <1>6 DEF PostNotifications, IsCall
  <2>2. u \notin Excused' => u \notin Excused
    BY <2>1 DEF Finish, Excused, ghosts
  <2>3. u \notin Excused' => Arrived(u) /\ ~NotYet(u)
    BY <1>1, <1>3, <2>1, <2>2 DEF CallKnows, NotYet
  <2> QED
    BY <1>1, <1>3, <2>1, <2>3, CallEnds
<1> QED
  BY <1>4, <1>5, <1>6

LEMMA ComparesAddresses ==
    ASSUME AInv, SeerrTyped, SeerrTyped', AddressesInv, NEW t \in Threads, Compare(t)
    PROVE  AddressesInv'
<1> DEFINE w == work[t]
<1>1. /\ InCall(t) /\ IsCall(w) /\ enabled /\ w.user \in exists /\ w.at = "compare"
      /\ t \notin Callers /\ CallKnows(t) /\ UNCHANGED <<seerr, invalidatedUsers>>
  BY AtCall DEF Compare, AddressesInv, OfRequest, IsCall
<1>2. PICK u \in Users : u = w.user
  BY <1>1 DEF AInv, AllTyped, TablesTyped
<1>3. CASE /\ Address(u) # NoAddr
           /\ Set(t, [w EXCEPT !.at = "look", !.then = "main", !.addr = Address(u),
                               !.held = NoUsers, !.import = FALSE])
           /\ UNCHANGED <<events, troubled>> /\ Rest
  <2>1. UNCHANGED <<exists, emails, task, lost, enabled, told>>
    BY <1>3 DEF Rest, ghosts
  <2>2. PICK addr : addr = Address(u)
    OBVIOUS
  <2>3. PICK next : /\ Set(t, next) /\ next.user = u /\ next.then = "main"
                    /\ next.addr = addr /\ next # NoWork /\ next.at = "look"
    <3>1. PICK next : /\ Set(t, next)
                      /\ next = [w EXCEPT !.at = "look", !.then = "main", !.addr = addr,
                                          !.held = NoUsers, !.import = FALSE]
      BY <1>3, <2>2
    <3>2. /\ next.user = w.user /\ next.then = "main" /\ next.at = "look"
          /\ next.addr = addr
      BY <1>1, <3>1 DEF IsCall, CallSet
    <3>3. next # NoWork
      BY <3>2 DEF NoWork
    <3> QED
      BY <1>2, <3>1, <3>2, <3>3
  <2>4. work'[t] = next /\ \A x \in Threads \ {t} : Stays(x)
    BY <2>3, CallGoesOn
  <2>5. \A v : Address(v)' = Address(v)
    BY <2>1 DEF Address
  <2>6. Passed' = Passed
    BY <1>1, <2>1 DEF Passed
  <2>7. CallKnows(t)'
    BY <2>2, <2>3, <2>4, <2>5 DEF CallKnows
  <2>8. \A v \in Users \ Excused' :
           NotYet(v) /\ Address(v) = NoAddr =>
               v \notin Passed' /\ (work'[t].user = v => work'[t].then = "compare")
    BY <1>3, <2>3, <2>4, <2>6 DEF NotYet
  <2> QED
    BY <1>1, <1>3, <2>1, <2>4, <2>6, <2>7, <2>8, CallKeepsAddresses
<1>4. CASE Finish(t, "failed")
  BY <1>1, <1>2, <1>4, CallEnds
<1>5. CASE /\ Address(u) \in {NoAddr, w.held[u]}
           /\ Finish(t, IF Address(u) = NoAddr THEN "nothing" ELSE "told")
  <2>1. PICK outcome : /\ Finish(t, outcome)
                       /\ outcome = "told" => Address(u) # NoAddr /\ Address(u) = w.held[u]
    BY <1>5
  <2>2. u \notin Excused' => u \notin Excused
    BY <2>1 DEF Finish, Excused, ghosts
  <2>3. u \notin Excused' /\ outcome = "told" => Arrived(u) \/ Carried(u)
    BY <1>1, <1>2, <2>1, <2>2 DEF CallKnows, Arrived
  <2> QED
    BY <1>1, <1>2, <2>1, <2>3, CallEnds
<1> QED
  BY <1>2, <1>3, <1>4, <1>5 DEF Compare

LEMMA BeginsToPass ==
    ASSUME AInv, SeerrTyped, SeerrTyped', AddressesInv, NEW h \in Callers,
           SetContactMethods(h)
    PROVE  AddressesInv'
<1>1. /\ h \in Threads /\ h \in Workers /\ work[h] = NoWork /\ At(h, "push")
      /\ UNCHANGED <<exists, emails, lost, enabled, seerr, told, invalidatedUsers, troubled>>
      /\ task = [x \in Workers |-> task[x]]
  BY DEF SetContactMethods, Threads, Workers, ghosts, AInv, AllTyped, TasksTyped
<1>2. /\ Passed' = Passed /\ Excused' = Excused
      /\ \A u : Address(u)' = Address(u) /\ (Arrived(u) <=> Arrived(u)')
  BY <1>1 DEF Passed, Excused, Address, Arrived
<1>3. CASE enabled /\ Set(h, Call(task[h].who, "main", task[h].arg.addr, TRUE)) /\ UNCHANGED task
  <2>1. PICK next : /\ Set(h, next) /\ next # NoWork /\ next.user = task[h].who
                    /\ next.then = "main" /\ next.at = "look" /\ next.addr = task[h].arg.addr
    BY <1>3 DEF Call, NoWork
  <2>2. work'[h] = next /\ \A x \in Threads \ {h} : Stays(x)
    BY <1>1, <2>1, CallGoesOn
  <2>3. \A u \in Users : Carries(h, u) => Carries(h, u)'
    BY <1>3, <2>1, <2>2 DEF Carries, At
  <2>4. CallKnows(h)'
    <3>1. HasAddress(h)
      BY DEF AddressesInv
    <3>2. PICK u : u = task[h].who
      OBVIOUS
    <3>3. u \notin Excused' => task[h].arg.addr = Address(u)'
      BY <1>1, <1>2, <3>1, <3>2 DEF HasAddress, Works, At
    <3> QED
      BY <2>1, <2>2, <3>2, <3>3 DEF CallKnows
  <2>5. \A u \in Users : NotYet(u) => u \notin Passed' /\ work'[h].user # u
    BY <1>1, <1>2, <2>1, <2>2 DEF NotYet
  <2> QED
    BY <1>1, <1>2, <1>3, <2>2, <2>3, <2>4, <2>5, CallKeepsAddresses
<1>4. CASE ~enabled /\ End(h) /\ UNCHANGED work
  <2>1. \A t \in Threads : ~InCall(t) /\ ~InCall(t)'
    BY <1>4 DEF SeerrTyped, CallTyped, InCall
  <2>2. Passed' = {}
    BY <1>2, <1>4 DEF AddressesInv, PassedInv
  <2>3. \A g \in Callers : task'[g] = task[g] \/ task'[g] = Idle
    BY <1>1, <1>4 DEF End
  <2>4. ASSUME NEW g \in Callers PROVE HasAddress(g)' /\ SignupAlone(g)'
    <3>1. HasAddress(g) /\ SignupAlone(g)
      BY DEF AddressesInv
    <3>2. HasAddress(g)'
      BY <1>2, <2>3, <3>1 DEF HasAddress, Works
    <3>3. Signs(g)' => \A f \in Callers : Signs(f)' /\ task'[f].who = task'[g].who => f = g
      BY <2>3, <3>1 DEF SignupAlone, Signs, Works
    <3>4. SignsUp(g)' => NotYet(task[g].who)'
      BY <1>2, <2>1, <2>2, <2>3, <3>1 DEF SignupAlone, SignsUp, Signs, Works, NotYet, At
    <3> QED
      BY <3>2, <3>3, <3>4 DEF SignupAlone
  <2> QED
    BY <2>1, <2>2, <2>4 DEF AddressesInv, PassedInv, CallKnows
<1>5. CASE enabled /\ task[h].op = "signup" /\ End(h) /\ UNCHANGED work
  <2>1. \A g \in Callers : task'[g] = task[g] \/ (g = h /\ task'[g] = Idle)
    BY <1>1, <1>5 DEF End
  <2>2. /\ \A x \in Threads : (InCall(x) <=> InCall(x)') /\ work'[x] = work[x]
        /\ ~InCall(h)
    BY <1>1, <1>5 DEF InCall
  <2>3. \A x \in Threads : Stays(x)
    <3>1. \A x \in Threads : InCall(x) => IsCall(work[x])
      BY DEF SeerrTyped, CallTyped
    <3>2. \A x \in Threads : InCall(x) => work[x] = [work[x] EXCEPT !.stale = work[x].stale]
      BY <3>1 DEF IsCall, CallSet
    <3> QED
      BY <2>2, <3>2 DEF Stays, InCall
  <2>4. \A u \in Users : ~Carries(h, u)
    BY <1>5 DEF Carries
  <2>5. CallKnows(h)'
    BY <1>1, <2>2 DEF CallKnows
  <2> QED
    BY <1>1, <1>2, <1>5, <2>1, <2>2, <2>3, <2>4, <2>5, CallKeepsAddresses DEF NotYet
<1> QED
  BY <1>3, <1>4, <1>5 DEF SetContactMethods

\* The daemon begins a call in place of none or of one that has fetched the users.
LEMMA ImportsAddresses ==
    ASSUME AInv, SeerrTyped, SeerrTyped', AddressesInv,
           SynchronizeJellyseerrUsers \/ SynchronizeJellyseerrUser \/ Synchronized
    PROVE  AddressesInv'
<1>1. /\ Importer \in Threads /\ Importer \notin Callers /\ enabled
      /\ UNCHANGED <<exists, emails, task, lost, enabled, seerr, told, invalidatedUsers, troubled>>
  BY SeerrAssumption DEF Threads, SynchronizeJellyseerrUsers, SynchronizeJellyseerrUser,
                         Synchronized, Synchronizing, SeerrTyped, ClientTyped, avars, ghosts
<1>2. PICK next : /\ Set(Importer, next)
                  /\ next # NoWork => next.then = "compare" /\ next.at \in {"look", "pages"}
  <2>1. \A u : Call(u, "compare", NoAddr, TRUE).then = "compare"
               /\ Call(u, "compare", NoAddr, TRUE).at = "look"
    BY DEF Call
  <2>2. \A u : /\ [Call(u, "compare", NoAddr, TRUE)
                      EXCEPT !.at = "pages", !.next = "loaded"].then = "compare"
               /\ [Call(u, "compare", NoAddr, TRUE)
                      EXCEPT !.at = "pages", !.next = "loaded"].at = "pages"
    BY DEF Call
  <2> QED
    BY <2>1, <2>2 DEF SynchronizeJellyseerrUsers, SynchronizeJellyseerrUser, Synchronized
<1>3. work'[Importer] = next /\ \A x \in Threads \ {Importer} : Stays(x)
  BY <1>1, <1>2, CallGoesOn
<1>4. Passed' = Passed /\ CallKnows(Importer)'
  BY <1>1, <1>2, <1>3 DEF Passed, CallKnows, InCall
<1>5. \A u \in Users : NotYet(u) =>
         /\ u \notin Passed'
         /\ InCall(Importer)' /\ work'[Importer].user = u => work'[Importer].then = "compare"
  BY <1>2, <1>3, <1>4 DEF NotYet, InCall
<1> QED
  BY <1>1, <1>3, <1>4, <1>5, CallKeepsAddresses

\* What changes an address at the tables either has a request carry it, or is known of.
LEMMA TablesKeepAddresses ==
    ASSUME AInv, SeerrTyped, AddressesInv, Tables, NEW h \in Workers, Moves(h),
           lost \subseteq lost',
           \A u \in Users \ Excused' :
              \/ Address(u)' = Address(u)
              \/ u \notin Passed
              \/ h \in Callers /\ Carries(h, u)',
           h \in Callers => HasAddress(h)' /\ SignupAlone(h)',
           \A g \in Callers \ {h} : Signs(g)' /\ task'[h] # Idle /\ task'[g].who = task'[h].who =>
              /\ task'[h].op # "signup"
              /\ task'[h].at = "push" => ~SignsUp(g)'
    PROVE  AddressesInv'
<1>1. /\ UNCHANGED <<enabled, seerr, invalidatedUsers, told, work>> /\ TableStep
      /\ troubled \subseteq troubled'
      /\ \A u \in Users \ Excused' : Busy(u) => Address(u)' = Address(u)
  BY DEF Tables, Excused
<1>2. /\ Passed' = Passed /\ Excused \subseteq Excused' /\ Callers \subseteq Workers
      /\ exists \subseteq Users /\ AllTyped
  BY <1>1 DEF Passed, Excused, Workers, AInv, AllTyped, TablesTyped
<1>3. ASSUME NEW u, Carried(u) PROVE Carried(u)' /\ Busy(u)
  <2>1. PICK g \in Callers : Carries(g, u)
    BY <1>3 DEF Carried
  <2>2. task'[g] = task[g]
    BY <1>1, <1>2, <2>1, PushStays DEF Carries
  <2>3. Carries(g, u)'
    BY <1>1, <2>1, <2>2 DEF Carries, At, InCall
  <2> QED
    BY <2>1, <2>3 DEF Carried, Busy, Carries, At
<1>4. PassedInv'
  <2>1. ASSUME NEW u \in Passed', u \notin Excused' PROVE Arrived(u)' \/ Carried(u)'
    <3>1. u \in Users /\ u \in Passed \ Excused
      BY <1>2, <2>1 DEF Passed, SeerrTyped, ClientTyped
    <3>2. Arrived(u) \/ Carried(u)
      BY <3>1 DEF AddressesInv, PassedInv
    <3>3. CASE Carried(u)
      BY <1>3, <3>3
    <3>4. CASE Arrived(u)
      <4>1. Address(u)' = Address(u) => Arrived(u)'
        BY <1>1, <3>4 DEF Arrived
      <4>2. h \in Callers /\ Carries(h, u)' => Carried(u)'
        BY DEF Carried
      <4> QED
        BY <2>1, <3>1, <4>1, <4>2
    <3> QED
      BY <3>2, <3>3, <3>4
  <2> QED
    BY <1>1, <1>2, <2>1 DEF PassedInv, AddressesInv
<1>5. ASSUME NEW g \in Callers \ {h}, Works(g)'
      PROVE  /\ Works(g)
             /\ task'[g].op = task[g].op /\ task'[g].who = task[g].who
             /\ task'[g].at = task[g].at /\ task'[g].copy = task[g].copy
             /\ task'[g].arg = task[g].arg /\ (task[g].stale => task'[g].stale)
  BY <1>2, <1>5 DEF Moves, Follows, Works
<1>6. ASSUME NEW g \in Callers PROVE HasAddress(g)'
  <2>1. CASE g # h
    <3> SUFFICES ASSUME Works(g)', task'[g].who \notin Excused',
                        \/ task'[g].at = "push"
                        \/ task'[g].op = "signup" /\ task'[g].at \in {"share", "put"}
                 PROVE  HasAddress(g)'
      BY DEF HasAddress
    <3>1. /\ Works(g) /\ task'[g].who = task[g].who /\ task'[g].op = task[g].op
          /\ task'[g].at = task[g].at /\ task'[g].copy = task[g].copy
          /\ task'[g].arg = task[g].arg
      BY <1>5, <2>1
    <3>2. PICK u : u = task[g].who
      OBVIOUS
    <3>3. Busy(u)
      BY <3>1, <3>2 DEF Busy, Works
    <3>4. u \in Users
      BY <1>2, <3>3, BusyExists DEF AInv
    <3>5. Address(u)' = Address(u) /\ u \notin Excused
      BY <1>1, <1>2, <3>1, <3>2, <3>3, <3>4
    <3>6. HasAddress(g)
      BY DEF AddressesInv
    <3> QED
      BY <3>1, <3>2, <3>5, <3>6 DEF HasAddress
  <2> QED
    BY <2>1
<1>7. ASSUME NEW g \in Callers PROVE SignupAlone(g)'
  <2>1. CASE g # h
    <3>1. SignupAlone(g)
      BY DEF AddressesInv
    <3>2. ASSUME Signs(g)', NEW f \in Callers, Signs(f)', task'[f].who = task'[g].who
          PROVE  f = g
      <4>1. Signs(g) /\ task'[g].who = task[g].who
        BY <1>5, <2>1, <3>2 DEF Signs
      <4>2. CASE f = h
        BY <2>1, <3>2, <4>2 DEF Signs, Works
      <4>3. CASE f # h
        <5>1. Signs(f) /\ task'[f].who = task[f].who
          BY <1>5, <3>2, <4>3 DEF Signs
        <5> QED
          BY <3>1, <3>2, <4>1, <5>1 DEF SignupAlone
      <4> QED
        BY <4>2, <4>3
    <3>3. ASSUME SignsUp(g)' PROVE NotYet(task[g].who)'
      <4>1. Works(g)' /\ Signs(g)'
        BY <3>3 DEF SignsUp, Signs
      <4>2. task'[g].who = task[g].who /\ SignsUp(g)
        BY <1>2, <1>5, <2>1, <3>3, <4>1 DEF SignsUp, Signs
      <4>3. PICK u : u = task[g].who
        OBVIOUS
      <4>4. NotYet(u)
        BY <3>1, <4>2, <4>3 DEF SignupAlone
      <4>5. ASSUME NEW f \in Callers, At(f, "push")' PROVE task'[f].who # u
        <5>1. CASE f = h
          BY <2>1, <3>3, <4>1, <4>2, <4>3, <4>5, <5>1 DEF At
        <5>2. CASE f # h
          <6>1. At(f, "push") /\ task'[f].who = task[f].who
            BY <1>5, <4>5, <5>2 DEF At, Works
          <6> QED
            BY <4>4, <6>1 DEF NotYet
        <5> QED
          BY <5>1, <5>2
      <4>6. \A t \in Threads : InCall(t)' /\ work'[t].user = u => work'[t].then = "compare"
        BY <1>1, <4>4 DEF NotYet, InCall
      <4>7. u \notin Passed' /\ task'[g].who = u
        BY <1>2, <4>2, <4>3, <4>4 DEF NotYet
      <4> QED
        BY <4>5, <4>6, <4>7 DEF NotYet
    <3> QED
      BY <3>2, <3>3 DEF SignupAlone
  <2> QED
    BY <2>1
<1>8. ASSUME NEW t \in Threads PROVE CallKnows(t)'
  <2> SUFFICES ASSUME InCall(t), work[t].user \notin Excused' PROVE CallKnows(t)'
    BY <1>1 DEF CallKnows, InCall
  <2>1. PICK u : u = work[t].user
    OBVIOUS
  <2>2. u \in Users /\ Busy(u)
    <3>1. IsCall(work[t])
      BY DEF SeerrTyped, CallTyped
    <3> QED
      BY <1>2, <2>1, <3>1 DEF Busy, InCall, IsCall, CallSet
  <2>3. Address(u)' = Address(u) /\ u \notin Excused
    BY <1>1, <1>2, <2>1, <2>2
  <2>4. (Arrived(u) => Arrived(u)') /\ (Carried(u) => Carried(u)')
    BY <1>1, <1>3, <2>3 DEF Arrived
  <2>5. CallKnows(t)
    BY DEF AddressesInv
  <2> QED
    BY <1>1, <2>1, <2>3, <2>4, <2>5 DEF CallKnows
<1> QED
  BY <1>4, <1>6, <1>7, <1>8 DEF AddressesInv

\* Neither a signup nor a request that passes on an address.
Calm(c) == c.at # "push" /\ c.op # "signup"

LEMMA CalmKeepsAddresses ==
    ASSUME AInv, SeerrTyped, AddressesInv, Tables, NEW h \in Workers, Moves(h),
           lost \subseteq lost', \A u \in Users \ lost' : Address(u)' = Address(u),
           task'[h] # Idle => Calm(task'[h])
    PROVE  AddressesInv'
<1>1. \A u \in Users \ Excused' : Address(u)' = Address(u)
  BY DEF Excused
<1>2. HasAddress(h)' /\ SignupAlone(h)'
  BY DEF HasAddress, SignupAlone, SignsUp, Signs, Works, Calm
<1> QED
  BY <1>1, <1>2, TablesKeepAddresses DEF Calm

LEMMA SignupKeepsAddresses ==
    ASSUME AInv, SeerrTyped, AddressesInv, Tables, NEW h \in Callers, Moves(h),
           lost \subseteq lost', Signs(h), Signs(h)', task'[h].who = task[h].who,
           task'[h].at # "row", HasAddress(h)',
           \A u \in Users \ Excused' : Address(u)' = Address(u) \/ u \notin Passed
    PROVE  AddressesInv'
<1>1. h \in Workers /\ SignupAlone(h)
  BY DEF Workers, AddressesInv
<1>2. ASSUME NEW g \in Callers \ {h}, Signs(g)' PROVE task'[g].who # task'[h].who
  <2>1. Signs(g) /\ task'[g].who = task[g].who
    BY <1>2 DEF Moves, Follows, Signs, Works, Workers
  <2> QED
    BY <1>1, <2>1 DEF SignupAlone
<1>3. SignupAlone(h)'
  BY <1>2 DEF SignupAlone, SignsUp
<1> QED
  BY <1>1, <1>2, <1>3, TablesKeepAddresses

LEMMA EmailKeepsAddresses ==
    ASSUME AInv, AInv', SeerrTyped, AddressesInv, Tables, NEW h \in Callers, WriteRow(h),
           task[h].op = "email"
    PROVE  AddressesInv'
<1> DEFINE c == task[h]
<1>1. /\ h \in Workers /\ AllTyped /\ c # Idle /\ c.at = "row"
      /\ c.who \in exists /\ exists \subseteq Users /\ c.op \in UserOps
      /\ decided \in [Users -> [addr : Addresses \cup {NoAddr}, admin : BOOLEAN]]
  BY OfUsers DEF Workers, AInv, AllTyped, TablesTyped, WriteRow, At, UserOps
<1>2. PICK u \in exists : u = c.who
  BY <1>1
<1>3. PICK next : next = Push("email", u, c.arg.addr)
  OBVIOUS
<1>4. /\ next # Idle /\ next.op = "email" /\ next.who = u /\ next.at = "push"
      /\ next.arg = [addr |-> c.arg.addr]
  BY <1>3, TaskIsTask DEF Push
<1>5. /\ Announce(h, u, next) /\ emails' = [emails EXCEPT ![u] = Stored(c)]
      /\ exists' = exists /\ lost \subseteq lost'
  BY <1>2, <1>3 DEF WriteRow, Overwrite
<1>6. /\ Moves(h) /\ task'[h] = next
      /\ \A g \in Workers \ {h} :
            Works(g) /\ task[g].who = u /\ task[g].at # "push" => task'[g].stale
  BY <1>1, <1>5, Announced DEF AllTyped
<1>7. decided'[u].addr = c.arg.addr
  BY <1>1, <1>2 DEF WriteRow
<1>8. u \notin lost' => Address(u)' = c.arg.addr
  <2>1. RowsAsDecided' /\ u \in exists'
    BY <1>5 DEF AInv, RowsInv
  <2> QED
    BY <1>7, <2>1 DEF RowsAsDecided, Address, EmptyRow
<1>9. \A v \in Users \ {u} : Address(v)' = Address(v)
  BY <1>5 DEF Address, AInv, AllTyped, TablesTyped
<1>10. Carries(h, u)'
  <2>1. ~InCall(h)
    BY <1>1 DEF SeerrTyped, CallTyped, At, Threads
  <2>2. ~InCall(h)'
    BY <2>1 DEF InCall, Tables
  <2> QED
    BY <1>4, <1>6, <2>2 DEF Carries, At
<1>11. HasAddress(h)' /\ SignupAlone(h)'
  BY <1>4, <1>6, <1>8 DEF HasAddress, SignupAlone, SignsUp, Signs, Excused
<1>12. ASSUME NEW g \in Callers \ {h}, Signs(g)', task'[g].who = u PROVE ~SignsUp(g)'
  <2>1. g \in Workers \ {h} /\ Works(g) /\ task'[g].who = task[g].who /\ task'[g].at = task[g].at
    BY <1>6, <1>12 DEF Moves, Follows, Signs, Works, Workers
  <2> QED
    BY <1>6, <1>12, <2>1 DEF SignsUp
<1> QED
  BY <1>1, <1>4, <1>5, <1>6, <1>9, <1>10, <1>11, <1>12, TablesKeepAddresses

LEMMA SignupsKeepAddresses ==
    ASSUME AInv, AInv', SeerrTyped, AddressesInv, Tables, NEW h \in Callers,
           \/ StoreNewRow(h) \/ ShareTemplate(h)
           \/ PutReferral(h) /\ task[h].op = "signup"
    PROVE  AddressesInv'
<1> DEFINE c == task[h]
<1>1. /\ h \in Workers /\ AllTyped /\ c # Idle /\ c.op = "signup" /\ c.who \in exists
      /\ IsTask(c) /\ Signs(h) /\ exists \subseteq Users /\ HasAddress(h) /\ SignupAlone(h)
  <2>1. h \in Workers /\ AllTyped /\ c # Idle
    BY DEF Workers, AInv, StoreNewRow, ShareTemplate, PutReferral, At
  <2>2. c.op = "signup" /\ c.op \in UserOps
    BY <2>1, Whereabouts DEF StoreNewRow, ShareTemplate, At, UserOps
  <2> QED
    BY <2>1, <2>2, OfUsers, Whereabouts DEF Signs, Works, AllTyped, TablesTyped, AddressesInv
<1>2. PICK u \in exists : u = c.who
  BY <1>1
<1>3. CASE StoreNewRow(h)
  <2>1. PICK next : next = [c EXCEPT !.at = "share"]
    OBVIOUS
  <2>2. /\ next # Idle /\ next.op = "signup" /\ next.who = u /\ next.at = "share"
        /\ next.copy = c.copy
    BY <1>1, <1>2, <2>1 DEF IsTask, Idle
  <2>3. /\ Announce(h, u, next) /\ c.at = "row" /\ exists' = exists
        /\ \/ emails' = [emails EXCEPT ![u] = c.copy]
           \/ emails' = emails /\ c.copy.addr = NoAddr
        /\ lost' = IF c.stale THEN lost \cup {u} ELSE lost
    BY <1>2, <1>3, <2>1 DEF StoreNewRow, Overwrite, At
  <2>4. Moves(h) /\ task'[h] = next
    BY <1>1, <2>3, Announced DEF AllTyped
  <2>5. \A v \in Users \ {u} : Address(v)' = Address(v)
    BY <2>3 DEF Address, AInv, AllTyped, TablesTyped
  <2>6. u \notin Excused' => SignsUp(h) /\ u \notin Passed /\ Address(u) = NoAddr
    <3>1. u \notin Excused' => SignsUp(h)
      BY <1>1, <1>2, <2>3 DEF SignsUp, Excused, Tables
    <3>2. SignsUp(h) => Address(u) = NoAddr
      BY <1>2, StoresNothingYet DEF AInv
    <3> QED
      BY <1>1, <1>2, <3>1, <3>2 DEF SignupAlone, NotYet
  <2>7. c.copy \in Row
    BY <1>1, <2>3, Whereabouts DEF UserTask, UserHolds
  <2>8. u \notin Excused' => Address(u)' = c.copy.addr
    <3>1. CASE emails' = [emails EXCEPT ![u] = c.copy]
      <4>1. emails'[u] = c.copy /\ c.copy # NoRow
        BY <1>1, <2>7, <3>1, Records DEF AllTyped, TablesTyped
      <4> QED
        BY <4>1 DEF Address
    <3>2. CASE emails' = emails /\ c.copy.addr = NoAddr
      BY <2>6, <3>2 DEF Address
    <3> QED
      BY <2>3, <3>1, <3>2
  <2>9. HasAddress(h)'
    BY <2>2, <2>4, <2>8 DEF HasAddress
  <2>10. Signs(h)' /\ task'[h].who = c.who /\ task'[h].at # "row"
    BY <1>2, <2>2, <2>4 DEF Signs, Works
  <2> QED
    BY <1>1, <2>3, <2>4, <2>5, <2>6, <2>9, <2>10, SignupKeepsAddresses
<1>4. CASE ShareTemplate(h) \/ PutReferral(h)
  <2>1. /\ UNCHANGED emails /\ c.at \in {"share", "put"} /\ lost \subseteq lost'
    BY <1>4 DEF ShareTemplate, PutReferral, Overwrite, At, ghosts
  <2>2. PICK next :
          /\ Moves(h) /\ task'[h] = next
          /\ next # Idle /\ next.op = "signup" /\ next.who = u
          /\ \/ next.at = "put" /\ next.copy = c.copy
             \/ next.at = "push" /\ next.arg.addr = c.copy.addr
    <3>1. PICK push : push = Push("signup", u, c.copy.addr)
      OBVIOUS
    <3>2. push # Idle /\ push.op = "signup" /\ push.who = u /\ push.at = "push"
          /\ push.arg = [addr |-> c.copy.addr]
      BY <3>1, TaskIsTask DEF Push
    <3>3. PICK put : put = [c EXCEPT !.at = "put", !.arg = [timed |-> TRUE]]
      OBVIOUS
    <3>4. put # Idle /\ put.op = "signup" /\ put.who = u /\ put.at = "put" /\ put.copy = c.copy
      BY <1>1, <1>2, <3>3 DEF IsTask, Idle
    <3>5. CASE ShareTemplate(h)
      <4>1. task' = [task EXCEPT ![h] = put] \/ task' = [task EXCEPT ![h] = push]
        BY <1>2, <3>1, <3>3, <3>5 DEF ShareTemplate
      <4>2. Moves(h) /\ (task'[h] = put \/ task'[h] = push)
        BY <1>1, <4>1, GoesOn DEF AllTyped
      <4> QED
        BY <3>2, <3>4, <4>2
    <3>6. CASE PutReferral(h)
      <4>1. Announce(h, u, push)
        BY <1>1, <1>2, <3>1, <3>6 DEF PutReferral
      <4>2. Moves(h) /\ task'[h] = push
        BY <1>1, <4>1, Announced DEF AllTyped
      <4> QED
        BY <3>2, <4>2
    <3> QED
      BY <1>4, <3>5, <3>6
  <2>3. \A v : Address(v)' = Address(v)
    BY <2>1 DEF Address
  <2>4. u \notin Excused' => c.copy.addr = Address(u)'
    BY <1>1, <1>2, <2>1, <2>3 DEF HasAddress, Works, Excused, Tables
  <2>5. HasAddress(h)'
    BY <2>2, <2>4 DEF HasAddress
  <2>6. Signs(h)' /\ task'[h].who = c.who /\ task'[h].at # "row"
    BY <1>2, <2>2 DEF Signs, Works
  <2> QED
    BY <1>1, <2>1, <2>2, <2>3, <2>5, <2>6, SignupKeepsAddresses
<1> QED
  BY <1>3, <1>4

LEMMA NewUserKeepsAddresses ==
    ASSUME AInv, SeerrTyped, AddressesInv, Tables, NEW h \in Callers, Signup(h)
    PROVE  AddressesInv'
<1>1. PICK u \in Users \ exists : \E copy, arg : Begin(h, Task("signup", u, "row", copy, arg))
  BY DEF Signup
<1>2. /\ Moves(h) /\ task'[h] # Idle /\ task'[h].op = "signup" /\ task'[h].who = u
      /\ task'[h].at = "row" /\ h \in Workers
  BY <1>1, Begun DEF AInv, AllTyped, Workers
<1>3. UNCHANGED <<emails, lost, work, told, invalidatedUsers>>
  BY DEF Signup, Tables, ghosts
<1>4. \A v : Address(v)' = Address(v)
  BY <1>3 DEF Address
<1>5. ASSUME NEW g \in Callers \ {h}, Works(g)'
      PROVE  Works(g) /\ task'[g].who = task[g].who /\ task'[g].op = task[g].op
             /\ task'[g].at = task[g].at
  BY <1>2, <1>5 DEF Moves, Follows, Works, Workers
<1>6. ASSUME NEW g \in Callers \ {h}, Works(g)', task'[g].at = "push" \/ task'[g].op = "signup"
      PROVE  task'[g].who # u
  <2>1. /\ g \in Workers /\ task[g] # Idle /\ task'[g].who = task[g].who
        /\ task[g].at = "push" \/ task[g].op = "signup"
    BY <1>5, <1>6 DEF Works, Workers
  <2>2. task[g].op \in {"email", "signup"}
    BY <2>1, Whereabouts DEF AInv
  <2>3. task[g].who \in exists
    BY <2>1, <2>2, OfUsers DEF AInv, UserOps
  <2> QED
    BY <2>1, <2>3
<1>7. NotYet(u)'
  <2>1. Passed' \subseteq exists
    BY <1>3 DEF Passed, SeerrTyped, ClientTyped
  <2>2. \A g \in Callers : At(g, "push")' => task'[g].who # u
    BY <1>2, <1>6 DEF At, Works
  <2>3. \A t \in Threads : InCall(t)' => work'[t].user \in exists
    BY <1>3 DEF InCall, SeerrTyped, CallTyped, IsCall, CallSet
  <2> QED
    BY <2>1, <2>2, <2>3 DEF NotYet
<1>8. SignupAlone(h)' /\ HasAddress(h)'
  BY <1>2, <1>6, <1>7 DEF SignupAlone, Signs, SignsUp, HasAddress
<1>9. \A g \in Callers \ {h} : Signs(g)' => task'[g].who # u
  BY <1>6 DEF Signs
<1> QED
  BY <1>2, <1>3, <1>4, <1>8, <1>9, TablesKeepAddresses

\* A row is stored for something else than its address.
LEMMA RowKeepsAddress ==
    ASSUME AInv, AInv', NEW h \in Workers, WriteRow(h), task[h].op # "email"
    PROVE  \A u \in Users \ lost' : Address(u)' = Address(u)
<1> DEFINE c == task[h]
<1>1. /\ c # Idle /\ c.at = "row" /\ c.op # "signup" /\ AllTyped /\ exists \subseteq Users
      /\ decided \in [Users -> [addr : Addresses \cup {NoAddr}, admin : BOOLEAN]]
  BY DEF WriteRow, At, AInv, AllTyped, TablesTyped
<1>2. c.who \in exists
  BY <1>1, Whereabouts, OfUsers
<1>3. PICK u \in exists : u = c.who
  BY <1>2
<1>4. emails' = [emails EXCEPT ![u] = Stored(c)] /\ exists' = exists /\ lost \subseteq lost'
  BY <1>3 DEF WriteRow, Overwrite
<1>5. decided'[u].addr = decided[u].addr
  BY <1>1, <1>3 DEF WriteRow
<1>6. u \notin lost' => Address(u)' = Address(u)
  <2>1. RowsAsDecided /\ RowsAsDecided' /\ u \in exists' /\ (u \notin lost' => u \notin lost)
    BY <1>4 DEF AInv, RowsInv
  <2>2. u \notin lost' => Address(u) = decided[u].addr
    BY <2>1 DEF RowsAsDecided, Address, EmptyRow
  <2>3. u \notin lost' => Address(u)' = decided'[u].addr
    BY <2>1 DEF RowsAsDecided, Address, EmptyRow
  <2> QED
    BY <1>5, <2>2, <2>3
<1>7. \A v \in Users \ {u} : Address(v)' = Address(v)
  BY <1>4 DEF Address, AllTyped, TablesTyped, AInv
<1> QED
  BY <1>6, <1>7

LEMMA RowsAreCalm ==
    ASSUME AInv, AInv', SeerrTyped, AddressesInv, Tables, NEW h \in Workers,
           (WriteRow(h) /\ task[h].op # "email") \/ FindRow(h)
    PROVE  AddressesInv'
<1>1. /\ AllTyped /\ task[h] # Idle /\ IsTask(task[h]) /\ task[h].op # "signup"
      /\ task = [w \in Workers |-> task[w]]
  BY Whereabouts DEF AInv, AllTyped, TasksTyped, WriteRow, FindRow, At
<1>2. lost \subseteq lost' /\ \A u \in Users \ lost' : Address(u)' = Address(u)
  BY RowKeepsAddress DEF WriteRow, FindRow, Overwrite, Address
<1>3. PICK next : /\ Announce(h, task[h].who, next) \/ task' = [task EXCEPT ![h] = next]
                  /\ next # Idle => Calm(next)
  <2>1. PICK delete : delete = [task[h] EXCEPT !.at = "delete"]
    OBVIOUS
  <2>2. PICK write : write = [task[h] EXCEPT !.at = "row", !.copy = emails[task[h].who]]
    OBVIOUS
  <2>3. Calm(delete) /\ Calm(write)
    BY <1>1, <2>1, <2>2 DEF IsTask, Calm
  <2>4. WriteRow(h) => \/ Announce(h, task[h].who, delete)
                       \/ Announce(h, task[h].who, Idle)
    <3>1. CASE task[h].op = "expire"
      BY <2>1, <3>1 DEF WriteRow
    <3>2. CASE task[h].op \notin {"email", "expire"}
      BY <3>2 DEF WriteRow
    <3>3. FindRow(h) => task[h].op # "email"
      BY Whereabouts DEF FindRow, At, AInv
    <3> QED
      BY <3>1, <3>2, <3>3
  <2>5. FindRow(h) => \/ task' = [task EXCEPT ![h] = write]
                      \/ task' = [task EXCEPT ![h] = delete]
                      \/ task' = [task EXCEPT ![h] = Idle]
    BY <2>1, <2>2 DEF FindRow
  <2> QED
    BY <2>3, <2>4, <2>5
<1>4. Moves(h) /\ task'[h] = next
  BY <1>1, <1>3, Announced, GoesOn DEF AllTyped
<1> QED
  BY <1>2, <1>3, <1>4, CalmKeepsAddresses

LEMMA ReferralsAreCalm ==
    ASSUME AInv, SeerrTyped, AddressesInv, Tables, NEW h \in Workers,
           \/ WipeOut(h) \/ DisableReferralForUsers(h) \/ DropReferral(h)
           \/ PutReferral(h) /\ task[h].op # "signup"
           \/ Delete(h) \/ SpendLast(h) \/ WriteProfile(h) \/ DropProfile(h)
           \/ SetOneDefault(h)
    PROVE  AddressesInv'
<1>1. /\ UNCHANGED emails /\ lost \subseteq lost' /\ AllTyped
      /\ task[h] # Idle => IsTask(task[h])
  BY Whereabouts DEF WipeOut, DisableReferralForUsers, DropReferral, PutReferral, Delete,
         SpendLast, WriteProfile, DropProfile, SetOneDefault, Overwrite, ghosts, AInv
<1>2. PICK s, next : Announce(h, s, next) /\ (next # Idle => Calm(next))
  <2>1. CASE WipeOut(h)
    <3>1. Calm([task[h] EXCEPT !.at = "put"])
      BY <1>1, <2>1, Whereabouts DEF WipeOut, At, IsTask, Calm
    <3> QED
      BY <2>1, <3>1 DEF WipeOut
  <2>2. CASE PutReferral(h) /\ task[h].op # "signup"
    BY <2>2 DEF PutReferral
  <2>3. CASE DisableReferralForUsers(h)
    BY <2>3, TaskIsTask DEF DisableReferralForUsers, Calm
  <2>4. CASE DropReferral(h)
    <3>1. PICK timed \in BOOLEAN :
            Announce(h, task[h].who, IF timed THEN [task[h] EXCEPT !.at = "find"]
                               ELSE [task[h] EXCEPT !.at = "put", !.arg = [timed |-> FALSE]])
      BY <2>4 DEF DropReferral
    <3>2. /\ Calm([task[h] EXCEPT !.at = "find"])
          /\ Calm([task[h] EXCEPT !.at = "put", !.arg = [timed |-> FALSE]])
      BY <1>1, <2>4 DEF DropReferral, At, IsTask, Calm
    <3> QED
      BY <3>1, <3>2
  <2>5. CASE Delete(h)
    BY <2>5 DEF Delete
  <2>6. CASE SpendLast(h)
    BY <2>6 DEF SpendLast
  <2>7. CASE WriteProfile(h)
    <3>1. Calm([task[h] EXCEPT !.at = "drop"])
      BY <1>1, <2>7, Whereabouts DEF WriteProfile, At, IsTask, Calm
    <3>2. PICK over \in BOOLEAN :
              Announce(h, Nobody, IF over THEN [task[h] EXCEPT !.at = "drop"] ELSE Idle)
      BY <2>7 DEF WriteProfile
    <3> QED
      BY <3>1, <3>2
  <2>8. CASE DropProfile(h)
    BY <2>8 DEF DropProfile
  <2>9. CASE SetOneDefault(h)
    <3>1. PICK last, p :
              Announce(h, Nobody, IF last THEN Idle ELSE [task[h] EXCEPT !.arg.left = @ \ {p}])
      BY <2>9 DEF SetOneDefault
    <3>2. Calm([task[h] EXCEPT !.arg.left = @ \ {p}])
      BY <1>1, <2>9, Whereabouts DEF SetOneDefault, At, IsTask, Calm
    <3> QED
      BY <3>1, <3>2
  <2> QED
    BY <2>1, <2>2, <2>3, <2>4, <2>5, <2>6, <2>7, <2>8, <2>9
<1>3. Moves(h) /\ task'[h] = next
  BY <1>1, <1>2, Announced DEF AllTyped
<1>4. \A u \in Users \ lost' : Address(u)' = Address(u)
  BY <1>1 DEF Address
<1> QED
  BY <1>1, <1>2, <1>3, <1>4, CalmKeepsAddresses

LEMMA ReadsAreCalm ==
    ASSUME AInv, SeerrTyped, AddressesInv, Tables, NEW h \in Callers,
           \/ FindTemplate(h) \/ ChangeTemplate(h)
           \/ SetAccountsAdmin(h) \/ ModifyLabels(h) \/ ModifyEmail(h)
           \/ EnableReferralForUsers(h) \/ GetMyReferral(h) \/ CheckInvite(h)
           \/ ReplaceRawProfile(h) \/ SetJellyseerrProfile(h) \/ SetOmbiProfile(h)
           \/ EnableReferralForProfile(h) \/ DisableReferralForProfile(h)
           \/ SetDefaultProfile(h)
    PROVE  AddressesInv'
<1>1. /\ UNCHANGED <<emails, lost>> /\ AllTyped /\ h \in Workers
      /\ task = [w \in Workers |-> task[w]] /\ (task[h] # Idle => IsTask(task[h]))
  BY Whereabouts DEF FindTemplate, ChangeTemplate, SetAccountsAdmin, ModifyLabels, ModifyEmail,
         ReadRow, EnableReferralForUsers, GetMyReferral, CheckInvite, ReplaceRawProfile,
         SetJellyseerrProfile, SetOmbiProfile, EnableReferralForProfile,
         DisableReferralForProfile, ReadProfile, SetDefaultProfile, ghosts, AInv, AllTyped,
         TasksTyped, Workers
<1>2. PICK next : task' = [task EXCEPT ![h] = next] /\ (next # Idle => Calm(next))
  <2>1. CASE FindTemplate(h)
    <3>1. PICK found, timed :
            task' = [task EXCEPT ![h] = IF found
                                 THEN [task[h] EXCEPT !.at = "put", !.arg = [timed |-> timed]]
                                 ELSE Idle]
      BY <2>1 DEF FindTemplate
    <3>2. Calm([task[h] EXCEPT !.at = "put", !.arg = [timed |-> timed]])
      BY <1>1, <2>1, Whereabouts DEF FindTemplate, At, IsTask, Calm
    <3> QED
      BY <3>1, <3>2
  <2>2. CASE ChangeTemplate(h)
    <3>1. PICK made : task' = [task EXCEPT ![h].at = "write", ![h].copy.tmpl = made]
      BY <2>2 DEF ChangeTemplate
    <3>2. task' = [task EXCEPT ![h] = [task[h] EXCEPT !.at = "write", !.copy.tmpl = made]]
      BY <1>1, <3>1
    <3>3. Calm([task[h] EXCEPT !.at = "write", !.copy.tmpl = made])
      BY <1>1, <2>2, Whereabouts DEF ChangeTemplate, At, IsTask, Calm
    <3> QED
      BY <3>2, <3>3
  <2>3. CASE ~(FindTemplate(h) \/ ChangeTemplate(h))
    <3>1. PICK op, who, pos, copy, arg :
              Begin(h, Task(op, who, pos, copy, arg)) /\ pos # "push" /\ op # "signup"
      <4>1. CASE SetAccountsAdmin(h) \/ ModifyLabels(h) \/ ModifyEmail(h)
        BY <4>1 DEF SetAccountsAdmin, ModifyLabels, ModifyEmail, ReadRow
      <4>2. CASE EnableReferralForUsers(h) \/ GetMyReferral(h) \/ SetDefaultProfile(h)
        BY <4>2 DEF EnableReferralForUsers, GetMyReferral, SetDefaultProfile
      <4>3. CASE CheckInvite(h)
        <5>1. PICK c \in Codes : Begin(h, DeleteExpiredInvite(c))
          BY <4>3 DEF CheckInvite
        <5> QED
          BY <5>1 DEF DeleteExpiredInvite
      <4>4. CASE \/ ReplaceRawProfile(h) \/ SetJellyseerrProfile(h) \/ SetOmbiProfile(h)
                 \/ EnableReferralForProfile(h) \/ DisableReferralForProfile(h)
        BY <4>4 DEF ReplaceRawProfile, SetJellyseerrProfile, SetOmbiProfile, ReadProfile,
                    EnableReferralForProfile, DisableReferralForProfile
      <4> QED
        BY <2>3, <4>1, <4>2, <4>3, <4>4
    <3>2. task' = [task EXCEPT ![h] = Task(op, who, pos, copy, arg)]
      BY <3>1 DEF Begin
    <3>3. Calm(Task(op, who, pos, copy, arg))
      <4>1. /\ Task(op, who, pos, copy, arg).op = op
            /\ Task(op, who, pos, copy, arg).at = pos
        BY TaskIsTask
      <4> QED
        BY <3>1, <4>1 DEF Calm
    <3> QED
      BY <3>2, <3>3
  <2> QED
    BY <2>1, <2>2, <2>3
<1>3. Moves(h) /\ task'[h] = next
  BY <1>1, <1>2, GoesOn DEF AllTyped
<1>4. \A u \in Users \ lost' : Address(u)' = Address(u)
  BY <1>1 DEF Address
<1> QED
  BY <1>1, <1>2, <1>3, <1>4, CalmKeepsAddresses

LEMMA DaemonIsCalm ==
    ASSUME AInv, SeerrTyped, AddressesInv, Tables,
           Sweep \/ CreateProfile \/ DeleteProfile \/ TimePasses
    PROVE  AddressesInv'
<1>1. /\ UNCHANGED <<emails, lost>> /\ AllTyped /\ Daemon \in Workers
      /\ task = [w \in Workers |-> task[w]]
  BY DEF Sweep, CreateProfile, DeleteProfile, StoreProfile, TimePasses, ghosts, AInv, AllTyped,
         TasksTyped, Workers
<1>2. task[Daemon] # Idle => Calm(task[Daemon])
  <2>1. task[Daemon] # Idle => task[Daemon].op = "expire" /\ task[Daemon].at # "push"
    BY <1>1, Whereabouts DEF AllTyped, TasksTyped, Works
  <2> QED
    BY <2>1 DEF Calm
<1>3. Moves(Daemon) /\ (task'[Daemon] # Idle => Calm(task'[Daemon]))
  <2>1. CASE Sweep
    <3>1. PICK c \in Codes : task' = [task EXCEPT ![Daemon] = DeleteExpiredInvite(c)]
      BY <2>1 DEF Sweep
    <3>2. DeleteExpiredInvite(c).at \in {"find", "delete"} /\ DeleteExpiredInvite(c).op = "expire"
      BY TaskIsTask DEF DeleteExpiredInvite
    <3> QED
      BY <1>1, <3>1, <3>2, GoesOn DEF AllTyped, Calm
  <2>2. CASE CreateProfile \/ DeleteProfile
    <3>1. Announce(Daemon, Nobody, task[Daemon])
      BY <2>2 DEF CreateProfile, DeleteProfile, StoreProfile
    <3> QED
      BY <1>1, <1>2, <3>1, Announced DEF AllTyped
  <2>3. CASE TimePasses
    <3>1. UNCHANGED task
      BY <2>3 DEF TimePasses
    <3> QED
      BY <1>1, <1>2, <3>1 DEF Moves, Follows, AllTyped, TasksTyped, Typed, Works
  <2> QED
    BY <2>1, <2>2, <2>3
<1>4. \A u \in Users \ lost' : Address(u)' = Address(u)
  BY <1>1 DEF Address
<1> QED
  BY <1>1, <1>3, <1>4, CalmKeepsAddresses

LEMMA TablesMoveAddresses ==
    ASSUME AInv, AInv', SeerrTyped, AddressesInv, Tables PROVE AddressesInv'
<1>1. TableStep /\ Daemon \in Workers /\ Callers \subseteq Workers
  BY DEF Tables, Workers
<1>2. ASSUME NEW h \in Callers, Request(h) PROVE AddressesInv'
  <2>1. CASE WriteRow(h) \/ FindRow(h)
    BY <1>1, <2>1, EmailKeepsAddresses, RowsAreCalm
  <2>2. CASE StoreNewRow(h) \/ ShareTemplate(h) \/ Signup(h)
    BY <2>2, SignupsKeepAddresses, NewUserKeepsAddresses
  <2>3. CASE \/ WipeOut(h) \/ DisableReferralForUsers(h) \/ DropReferral(h) \/ PutReferral(h)
             \/ Delete(h) \/ SpendLast(h) \/ WriteProfile(h) \/ DropProfile(h)
             \/ SetOneDefault(h)
    BY <1>1, <2>3, SignupsKeepAddresses, ReferralsAreCalm
  <2>4. CASE \/ FindTemplate(h) \/ ChangeTemplate(h)
             \/ SetAccountsAdmin(h) \/ ModifyLabels(h) \/ ModifyEmail(h)
             \/ EnableReferralForUsers(h) \/ GetMyReferral(h) \/ CheckInvite(h)
             \/ ReplaceRawProfile(h) \/ SetJellyseerrProfile(h) \/ SetOmbiProfile(h)
             \/ EnableReferralForProfile(h) \/ DisableReferralForProfile(h)
             \/ SetDefaultProfile(h)
    BY <1>2, <2>4, ReadsAreCalm
  <2> QED
    BY <1>2, <2>1, <2>2, <2>3, <2>4 DEF Request
<1>3. CASE DaemonStep
  <2>1. task[Daemon] # Idle => task[Daemon].op # "email"
    BY DEF AInv, AllTyped, TasksTyped, Works
  <2>2. WriteRow(Daemon) => task[Daemon].op # "email"
    BY <2>1 DEF WriteRow, At
  <2> QED
    BY <1>1, <1>3, <2>2, DaemonIsCalm, RowsAreCalm, ReferralsAreCalm DEF DaemonStep
<1>4. CASE CreateProfile \/ DeleteProfile \/ TimePasses
  BY <1>4, DaemonIsCalm
<1> QED
  BY <1>1, <1>2, <1>3, <1>4 DEF TableStep

LEMMA OutsideLeavesAddresses ==
    ASSUME AInv, SeerrTyped, SeerrTyped', AddressesInv,
           SeerrChanges \/ CacheExpires \/ UNCHANGED allvars
    PROVE  AddressesInv'
<1>1. /\ UNCHANGED <<exists, emails, task, lost, enabled, invalidatedUsers, work, told>>
      /\ troubled \subseteq troubled'
  BY DEF SeerrChanges, CacheExpires, allvars, svars, avars, ghosts
<1>2. /\ Passed' = Passed /\ Excused \subseteq Excused'
      /\ \A u : Address(u)' = Address(u) /\ (Carried(u) <=> Carried(u)')
  BY <1>1 DEF Passed, Excused, Address, Carried, Carries, At, InCall
<1>3. \A u \in Users \ Excused' : seerr'[u] = seerr[u]
  <2>1. seerr \in [Users -> Known]
    BY DEF SeerrTyped, ClientTyped
  <2> QED
    BY <2>1 DEF SeerrChanges, CacheExpires, allvars, svars, Excused
<1>4. Passed \subseteq Users /\ \A t \in Threads : InCall(t) => work[t].user \in Users
  BY DEF Passed, SeerrTyped, ClientTyped, CallTyped, IsCall, CallSet, AInv, AllTyped, TablesTyped
<1>5. PassedInv'
  BY <1>1, <1>2, <1>3, <1>4 DEF AddressesInv, PassedInv, Arrived
<1>6. ASSUME NEW h \in Callers PROVE HasAddress(h)' /\ SignupAlone(h)'
  <2>1. HasAddress(h) /\ SignupAlone(h)
    BY DEF AddressesInv
  <2> QED
    BY <1>1, <1>2, <2>1 DEF HasAddress, SignupAlone, SignsUp, Signs, Works, NotYet, At, InCall
<1>7. ASSUME NEW t \in Threads PROVE CallKnows(t)'
  <2>1. CallKnows(t)
    BY DEF AddressesInv
  <2> QED
    BY <1>1, <1>2, <1>3, <1>4, <2>1 DEF CallKnows, InCall, Arrived
<1> QED
  BY <1>5, <1>6, <1>7 DEF AddressesInv

LEMMA RestartLeavesAddresses ==
    ASSUME AInv, SeerrTyped, AddressesInv, Restart PROVE AddressesInv'
<1>1. /\ UNCHANGED <<exists, emails, seerr>> /\ lost \subseteq lost'
      /\ told' \subseteq told /\ (~enabled' => told' = {}) /\ invalidatedUsers' = {}
      /\ troubled' = troubled \cup {u \in Users : Busy(u)}
      /\ task' = [w \in Workers |-> Idle] /\ work' = [t \in Threads |-> NoWork]
  BY DEF Restart, Crash
<1>2. \A t \in Threads : CallKnows(t)'
  BY <1>1 DEF CallKnows, InCall
<1>3. \A h \in Callers : HasAddress(h)' /\ SignupAlone(h)'
  BY <1>1 DEF HasAddress, SignupAlone, SignsUp, Signs, Works, Workers
<1>4. ASSUME NEW u \in Passed', u \notin Excused' PROVE Arrived(u)'
  <2>1. u \in Passed \ Excused /\ u \in Users
    BY <1>1, <1>4 DEF Passed, Excused, SeerrTyped, ClientTyped, AInv, AllTyped, TablesTyped
  <2>2. ~Busy(u)
    BY <1>1, <1>4, <2>1 DEF Excused
  <2>3. ~Carried(u)
    BY <2>2 DEF Carried, Carries, At, Busy
  <2>4. Arrived(u)
    BY <2>1, <2>3 DEF AddressesInv, PassedInv
  <2> QED
    BY <1>1, <2>4 DEF Arrived, Address
<1>5. PassedInv'
  BY <1>1, <1>4 DEF PassedInv, Passed
<1> QED
  BY <1>2, <1>3, <1>5 DEF AddressesInv

LEMMA AddressesStep ==
    ASSUME AInv, AInv', SeerrTyped, SeerrTyped', CacheInv, AddressesInv, [SeerrNext]_allvars
    PROVE  AddressesInv'
<1>1. ASSUME NEW t \in Threads, Client(t) PROVE AddressesInv'
  BY <1>1, LooksForAddresses, LooksAgainForAddresses, PostsAddresses DEF Client
<1>2. Importer \in Threads
  BY DEF Threads
<1> QED
  BY <1>1, <1>2, TablesMoveAddresses, OutsideLeavesAddresses, RestartLeavesAddresses,
     BeginsToPass, ImportsAddresses, ComparesAddresses DEF SeerrNext

LEMMA InitAddresses == ASSUME SeerrInit PROVE AddressesInv
<1>1. /\ \A h \in Callers : ~Works(h)
      /\ \A t \in Threads : ~InCall(t)
      /\ Passed = {}
  BY DEF SeerrInit, AccountsInit, Works, InCall, Passed, Workers
<1> QED
  BY <1>1 DEF AddressesInv, PassedInv, HasAddress, SignupAlone, SignsUp, Signs, CallKnows

-----------------------------------------------------------------------------
(* Theorems *)

LEMMA AccountsHold == AccountsSpec => []AInv
<1>1. AccountsInit => AInv
  BY InitInv
<1>2. AInv /\ [AccountsNext]_avars => AInv'
  BY NextIsStep, InvStep
<1> QED
  BY <1>1, <1>2, PTL DEF AccountsSpec

\* Whatever requests and housekeeping do at once: the tables hold records, codes come from the
\* counter, and a row has the address and the access its user was given last, unless a handler
\* has stored a copy that another had changed since.
THEOREM RowsStaySound == AccountsSpec => []SoundRows
<1>1. AInv => SoundRows
  BY RowsAreSound
<1> QED
  BY <1>1, AccountsHold, PTL

\* Whatever requests and housekeeping do at once: no user has two referrals, none has one that
\* was disabled, and a referral without an end is there until it is disabled, unless a handler
\* has stored or made one from what another had changed since.
THEOREM ReferralsStaySound == AccountsSpec => []SoundReferrals
<1>1. AInv => SoundReferrals
  BY ReferralsAreSound
<1> QED
  BY <1>1, AccountsHold, PTL

\* Whatever requests and housekeeping do at once: profiles keep the templates they name, and
\* one at most is the default, unless two requests changed profiles at once.
THEOREM ProfilesStaySound == AccountsSpec => []SoundProfiles
<1>1. AInv => SoundProfiles
  BY ProfilesAreSound
<1> QED
  BY <1>1, AccountsHold, PTL

\* What holds of the tables, of the client's records, of its cache and of the addresses that
\* are on their way to Jellyseerr.
SeerrInv == AInv /\ SeerrTyped /\ CacheInv /\ AddressesInv

LEMMA SeerrHolds == SeerrSpec => []SeerrInv
<1>1. SeerrInit => SeerrInv
  <2> SUFFICES ASSUME SeerrInit PROVE SeerrInv
    OBVIOUS
  <2>1. AInv
    BY InitInv DEF SeerrInit
  <2>2. AllTyped
    BY <2>1 DEF AInv
  <2> QED
    BY <2>1, <2>2, InitSeerrTyped, InitCache, InitAddresses DEF SeerrInv
<1>2. SeerrInv /\ [SeerrNext]_allvars => SeerrInv'
  <2> SUFFICES ASSUME SeerrInv, [SeerrNext]_allvars PROVE SeerrInv'
    OBVIOUS
  <2>1. AInv /\ SeerrTyped /\ CacheInv /\ AddressesInv
    BY DEF SeerrInv
  <2>2. AInv'
    BY <2>1, SeerrNextIsStep, InvStep
  <2>3. AllTyped /\ AllTyped'
    BY <2>1, <2>2 DEF AInv
  <2>4. SeerrTyped'
    BY <2>1, <2>3, ClientTypedStep
  <2>5. CacheInv'
    BY <2>1, <2>3, CacheStep
  <2>6. AddressesInv'
    BY <2>1, <2>2, <2>4, AddressesStep
  <2> QED
    BY <2>2, <2>4, <2>5, <2>6 DEF SeerrInv
<1> QED
  BY <1>1, <1>2, PTL DEF SeerrSpec

\* The tables are as sound while addresses are passed on to Jellyseerr, which ends requests
\* but touches no table.
THEOREM TablesStaySound == SeerrSpec => [](SoundRows /\ SoundReferrals /\ SoundProfiles)
<1>1. SeerrInv => SoundRows /\ SoundReferrals /\ SoundProfiles
  BY RowsAreSound, ReferralsAreSound, ProfilesAreSound DEF SeerrInv
<1> QED
  BY <1>1, SeerrHolds, PTL

LEMMA ClientIsSound == ASSUME SeerrInv PROVE SoundClient
<1>1. SeerrTypeOK
  <2>1. \A t \in Threads : InCall(t) => work[t].user \in exists
    BY DEF SeerrInv, SeerrTyped, CallTyped, IsCall, CallSet
  <2> QED
    BY <2>1 DEF SeerrInv, AInv, AllTyped, TablesTyped, SeerrTyped, ClientTyped, Known, InCall,
           SeerrTypeOK
<1>2. CacheIsHonest
  BY DEF SeerrInv, CacheInv
<1>3. AddressArrives
  <2>1. \A u : Carried(u) => Busy(u)
    BY DEF Carried, Carries, At, Busy
  <2> QED
    BY <2>1 DEF SeerrInv, AddressesInv, PassedInv, Passed, Excused, Arrived, AddressArrives
<1> QED
  BY <1>1, <1>2, <1>3 DEF SoundClient

\* Whatever requests, the daemon and Jellyseerr do at once: what the client's cache says of a
\* user is what Jellyseerr has, and Jellyseerr has the stored address of everyone whose address
\* was passed on, unless a call for the user failed or changes of the user crossed.
THEOREM ClientStaysSound == SeerrSpec => []SoundClient
<1>1. SeerrInv => SoundClient
  BY ClientIsSound
<1> QED
  BY <1>1, SeerrHolds, PTL

-----------------------------------------------------------------------------
(* The list of users *)

\* No two callers wait on the same channel.
OwnChannel ==
    \A q, r \in Readers : awaits[q] = awaits[r] /\ awaits[q] # None => q = r

Locks == TypeOK /\ OwnChannel /\ OneSync /\ OneSorter

\* The list and the fetched lists are versions that exist, and the one about to
\* be published is no older than the published one.
Ordered ==
    /\ ref <= data
    /\ \A g \in Goroutines : fetched[g] <= data
    /\ \A g \in Goroutines : at[g] = "list" => fetched[g] >= ref

\* What a call may ask for has been, or is about to be, put in the list.
Covered ==
    /\ need <= data
    /\ \A r \in Readers : needed[r] <= need
    /\ age # "old" => ref >= need
    /\ \A g \in Goroutines :
          /\ at[g] = "list" => fetched[g] >= need
          /\ at[g] \in {"flag", "stamp", "release"} => ref >= need
    /\ \A r \in Readers :
          /\ result[r] = "list" => got[r] >= needed[r]
          /\ reader[r] \notin {"idle", "waiting"} => ref >= needed[r]
          /\ (reader[r] = "waiting" /\ (at[awaits[r]] = "sendNil"
                                          \/ (at[awaits[r]] = "spin" /\ ~syncing)))
                => ref >= needed[r]

\* It is promised only until a fetch fails.
CoveredSoFar == failures = 0 => Covered
-----------------------------------------------------------------------------
(* Mutual exclusion *)

\* Syncing and Sorting each have one holder, from the start and after any step.
LEMMA LocksHold == Spec => []Locks
<1>1. Init => Locks
  <2> SUFFICES ASSUME Init PROVE Locks
    OBVIOUS
  <2>1. TypeOK
    <3> USE UserCacheAssumption DEF Init, Ages, Places, ReaderPlaces
    <3>1. /\ data \in 1..MaxVersion /\ need \in 1..MaxVersion
          /\ needed \in [Readers -> 1..MaxVersion]
          /\ fetched \in [Goroutines -> 0..MaxVersion]
          /\ got \in [Readers -> 0..MaxVersion]
          /\ ref \in 0..MaxVersion /\ failures \in 0..MaxFailures
      OBVIOUS
    <3>2. /\ writer \in {"idle", "changed"} /\ age \in Ages
          /\ at \in [Goroutines -> Places]
          /\ reader \in [Readers -> ReaderPlaces]
          /\ awaits \in [Readers -> Goroutines \union {None}]
          /\ result \in [Readers -> {"none", "list", "fallback", "error"}]
      OBVIOUS
    <3>3. /\ syncing \in BOOLEAN /\ sorted \in BOOLEAN /\ sorting \in BOOLEAN
          /\ wants \in [Readers -> BOOLEAN]
      OBVIOUS
    <3>4. \A r \in Readers : reader[r] # "waiting" /\ awaits[r] = None
      OBVIOUS
    <3> QED
      BY <3>1, <3>2, <3>3, <3>4 DEF TypeOK, FlagsTyped, ThreadsTyped, Answered
  <2>2. OwnChannel
    BY DEF Init, OwnChannel
  <2>3. OneSync /\ OneSorter
    BY DEF Init, OneSync, OneSorter, InSync
  <2> QED
    BY <2>1, <2>2, <2>3 DEF Locks
<1>2. ASSUME Locks, [Next]_vars PROVE Locks'
  <2> USE UserCacheAssumption DEF Locks, TypeOK, FlagsTyped, ThreadsTyped,
      Answered, OwnChannel, OneSync, OneSorter, Ages, Places,
      InSync, ReaderPlaces, Goto, Step, vars, order, goroutine, call
  <2>1. CASE Change
    BY <1>2, <2>1 DEF Change
  <2>2. CASE Invalidate
    BY <1>2, <2>2 DEF Invalidate
  <2>3. CASE GrowOld
    BY <1>2, <2>3 DEF GrowOld
  <2>4. ASSUME NEW r \in Readers, MaybeSync(r) PROVE Locks'
    <3>1. FlagsTyped'
      BY <1>2, <2>4 DEF MaybeSync
    <3>2. ThreadsTyped'
      <4>1. needed' \in [Readers -> 1..MaxVersion]
        BY <1>2, <2>4 DEF MaybeSync
      <4>2. awaits' \in [Readers -> Goroutines \union {None}] /\ wants' \in [Readers -> BOOLEAN]
        BY <1>2, <2>4 DEF MaybeSync
      <4>3. reader' \in [Readers -> ReaderPlaces] /\ got' \in [Readers -> 0..MaxVersion]
        BY <1>2, <2>4 DEF MaybeSync
      <4>4. /\ at' \in [Goroutines -> Places] /\ fetched' \in [Goroutines -> 0..MaxVersion]
            /\ result' \in [Readers -> {"none", "list", "fallback", "error"}]
        BY <1>2, <2>4 DEF MaybeSync
      <4> QED
        BY <4>1, <4>2, <4>3, <4>4
    <3>3. Answered'
      BY <1>2, <2>4 DEF MaybeSync
    <3>4. OwnChannel'
      BY <1>2, <2>4 DEF MaybeSync
    <3>5. OneSync' /\ OneSorter'
      BY <1>2, <2>4 DEF MaybeSync
    <3> QED
      BY <3>1, <3>2, <3>3, <3>4, <3>5
  <2>5. ASSUME NEW r \in Readers, TakeSort(r) PROVE Locks'
    <3>1. FlagsTyped'
      BY <1>2, <2>5 DEF TakeSort
    <3>2. ThreadsTyped'
      BY <1>2, <2>5 DEF TakeSort
    <3>3. Answered'
      BY <1>2, <2>5 DEF TakeSort
    <3>4. OwnChannel'
      BY <1>2, <2>5 DEF TakeSort
    <3>5. OneSync' /\ OneSorter'
      BY <1>2, <2>5 DEF TakeSort
    <3> QED
      BY <3>1, <3>2, <3>3, <3>4, <3>5
  <2>6. ASSUME NEW r \in Readers, SortList(r) PROVE Locks'
    BY <1>2, <2>6 DEF SortList
  <2>7. ASSUME NEW r \in Readers, MarkSorted(r) PROVE Locks'
    BY <1>2, <2>7 DEF MarkSorted
  <2>8. ASSUME NEW r \in Readers, SpinSort(r) PROVE Locks'
    BY <1>2, <2>8 DEF SpinSort
  <2>9. ASSUME NEW r \in Readers, Serve(r) PROVE Locks'
    BY <1>2, <2>9 DEF Serve, Return
  <2>10. ASSUME NEW g \in Goroutines, Claim(g) PROVE Locks'
    BY <1>2, <2>10 DEF Claim
  <2>11. ASSUME NEW g \in Goroutines, Fetch(g) PROVE Locks'
    BY <1>2, <2>11 DEF Fetch
  <2>12. ASSUME NEW g \in Goroutines, FetchFails(g) PROVE Locks'
    <3>1. FlagsTyped'
      <4>1. failures' \in 0..MaxFailures
        BY <1>2, <2>12 DEF FetchFails
      <4>2. UNCHANGED <<data, need, writer, ref, age, sorted, sorting>>
        BY <2>12 DEF FetchFails
      <4>3. syncing' = FALSE
        BY <2>12 DEF FetchFails
      <4> QED
        BY ONLY <1>2, <4>1, <4>2, <4>3 DEF Locks, TypeOK, FlagsTyped
    <3>2. ThreadsTyped'
      BY <1>2, <2>12 DEF FetchFails
    <3>3. Answered'
      BY <1>2, <2>12 DEF FetchFails
    <3>4. OwnChannel'
      BY <1>2, <2>12 DEF FetchFails
    <3>5. OneSync' /\ OneSorter'
      BY <1>2, <2>12 DEF FetchFails
    <3> QED
      BY <3>1, <3>2, <3>3, <3>4, <3>5
  <2>13. ASSUME NEW g \in Goroutines, SetList(g) PROVE Locks'
    <3>1. FlagsTyped'
      <4>1. ref' \in 0..MaxVersion
        BY <1>2, <2>13 DEF SetList
      <4>2. UNCHANGED <<data, need, writer, age, syncing, sorted, sorting, failures>>
        BY <2>13 DEF SetList
      <4>3. FlagsTyped
        BY <1>2
      <4> QED
        BY ONLY <4>1, <4>2, <4>3 DEF FlagsTyped
    <3>2. ThreadsTyped'
      BY <1>2, <2>13 DEF SetList
    <3>3. Answered'
      BY <1>2, <2>13 DEF SetList
    <3>4. OwnChannel'
      BY <1>2, <2>13 DEF SetList
    <3>5. OneSync' /\ OneSorter'
      BY <1>2, <2>13 DEF SetList
    <3> QED
      BY <3>1, <3>2, <3>3, <3>4, <3>5
  <2>14. ASSUME NEW g \in Goroutines, ClearSorted(g) PROVE Locks'
    BY <1>2, <2>14, ZenonT(60) DEF ClearSorted
  <2>15. ASSUME NEW g \in Goroutines, Stamp(g) PROVE Locks'
    BY <1>2, <2>15 DEF Stamp
  <2>16. ASSUME NEW g \in Goroutines, Release(g) PROVE Locks'
    BY <1>2, <2>16 DEF Release
  <2>17. ASSUME NEW g \in Goroutines, SpinSync(g) PROVE Locks'
    BY <1>2, <2>17 DEF SpinSync
  <2>18. ASSUME NEW g \in Goroutines, NEW r \in Readers, Report(g, r) PROVE Locks'
    <3>1. FlagsTyped'
      BY <1>2, <2>18 DEF Report, Return
    <3>2. ThreadsTyped'
      <4>1. awaits' \in [Readers -> Goroutines \union {None}] /\ wants' \in [Readers -> BOOLEAN]
        BY <1>2, <2>18 DEF Report, Return
      <4>2. reader' \in [Readers -> ReaderPlaces]
        BY <1>2, <2>18 DEF Report, Return
      <4>4. got' \in [Readers -> 0..MaxVersion]
        BY <1>2, <2>18 DEF Report, Return
      <4>3. /\ at' \in [Goroutines -> Places]
            /\ result' \in [Readers -> {"none", "list", "fallback", "error"}]
        BY <1>2, <2>18 DEF Report, Return
      <4> QED
        BY <1>2, <2>18, <4>1, <4>2, <4>3, <4>4 DEF Report
    <3>3. Answered'
      BY <1>2, <2>18 DEF Report, Return
    <3>4. OwnChannel'
      BY <1>2, <2>18 DEF Report, Return
    <3>5. OneSync'
      BY <1>2, <2>18 DEF Report, Return
    <3>6. OneSorter'
      BY <1>2, <2>18 DEF Report, Return
    <3> QED
      BY <3>1, <3>2, <3>3, <3>4, <3>5, <3>6
  <2>19. CASE UNCHANGED vars
    BY <1>2, <2>19
  <2> QED
    BY <1>2, <2>1, <2>2, <2>3, <2>4, <2>5, <2>6, <2>7, <2>8, <2>9, <2>10, <2>11, <2>12, <2>13,
       <2>14, <2>15, <2>16, <2>17, <2>18, <2>19 DEF Next, Read, Sync
<1> QED
  BY <1>1, <1>2, PTL DEF Spec

\* The comment of MaybeSync, "Only one sync will run at a time", holds for any number
\* of callers and goroutines, and through failing fetches; two callers never sort the
\* same slice at once (usercache.go, MaybeSync and GetUserDTOs).
THEOREM SyncsAndSortsExclude == Spec => []OneAtATime
<1>1. Locks => OneAtATime
  BY DEF Locks, OneAtATime
<1> QED
  BY <1>1, LocksHold, PTL
-----------------------------------------------------------------------------
(* The list moves forward *)

\* Published and fetched versions stay in order: only the one goroutine that
\* syncs can publish, and it fetched after the last one published.
LEMMA InOrder == Spec => [](Locks /\ Ordered)
<1>1. Init => Ordered
  BY UserCacheAssumption DEF Init, Ordered
<1>2. ASSUME Locks, Ordered, [Next]_vars PROVE Ordered'
  <2> USE UserCacheAssumption DEF Ordered, Goto, vars, order, goroutine, call
  <2>1. /\ data \in Nat /\ ref \in Nat
        /\ at \in [Goroutines -> Places] /\ fetched \in [Goroutines -> Nat]
        /\ \A g, h \in Goroutines : at[g] \in InSync /\ at[h] \in InSync => g = h
    BY <1>2 DEF Locks, TypeOK, FlagsTyped, ThreadsTyped, OneSync
  <2>2. CASE Change \/ Invalidate \/ GrowOld \/ UNCHANGED vars
    BY <1>2, <2>1, <2>2 DEF Change, Invalidate, GrowOld
  <2>3. CASE \E r \in Readers : MaybeSync(r) \/ Read(r)
    BY <1>2, <2>1, <2>3 DEF MaybeSync, Read, TakeSort, SortList, MarkSorted, SpinSort, Serve
  <2>4. ASSUME NEW g \in Goroutines, Claim(g) \/ Fetch(g) \/ FetchFails(g) PROVE Ordered'
    BY <1>2, <2>1, <2>4 DEF Claim, Fetch, FetchFails
  <2>5. ASSUME NEW g \in Goroutines, SetList(g) PROVE Ordered'
    BY <1>2, <2>1, <2>5 DEF SetList, InSync
  <2>6. ASSUME NEW g \in Goroutines,
               ClearSorted(g) \/ Stamp(g) \/ Release(g) \/ SpinSync(g)
                  \/ \E r \in Readers : Report(g, r)
        PROVE Ordered'
    BY <1>2, <2>1, <2>6 DEF ClearSorted, Stamp, Release, SpinSync, Report
  <2> QED
    BY <1>2, <2>2, <2>3, <2>4, <2>5, <2>6 DEF Next, Sync
<1> QED
  BY <1>1, <1>2, LocksHold, PTL DEF Spec

\* The accounts list is only ever replaced by one at least as new, whatever
\* number of syncs are started, joined and failed (usercache.go, MaybeSync).
THEOREM ListIsMonotone == Spec => ListMovesForward
<1>1. ASSUME Locks, Ordered, [Next]_vars PROVE [ref' >= ref]_ref
  <2>1. ref \in Nat
    BY <1>1 DEF Locks, TypeOK, FlagsTyped
  <2>2. ASSUME NEW g \in Goroutines, SetList(g) PROVE ref' >= ref
    BY <1>1, <2>2 DEF SetList, Ordered
  <2>3. CASE UNCHANGED ref
    BY <2>3
  <2>4. (\A g \in Goroutines : ~SetList(g)) => UNCHANGED ref
    BY <1>1 DEF Next, Change, Invalidate, GrowOld, MaybeSync, Read, TakeSort, SortList,
       MarkSorted, SpinSort, Serve, Sync, Claim, Fetch, FetchFails, ClearSorted, Stamp,
       Release, SpinSync, Report, vars
  <2> QED
    BY <2>2, <2>3, <2>4
<1> QED
  BY <1>1, InOrder, PTL DEF Spec, ListMovesForward
-----------------------------------------------------------------------------
(* Invalidations hold *)

\* The count of failed fetches never goes down.
LEMMA NothingFailed ==
    ASSUME TypeOK, [Next]_vars, failures' = 0
    PROVE  failures = 0
<1>1. failures \in Nat
  BY UserCacheAssumption DEF TypeOK, FlagsTyped
<1>2. CASE \E g \in Goroutines : FetchFails(g)
  BY <1>1, <1>2 DEF FetchFails
<1>3. CASE failures' = failures
  BY <1>3
<1> QED
  BY <1>1, <1>2, <1>3 DEF Next, vars, Sync, Read, Change, Invalidate, GrowOld, MaybeSync, Claim,
     Fetch, SetList, ClearSorted, Stamp, Release, SpinSync, Report, TakeSort, SortList,
     MarkSorted, SpinSort, Serve, Return

\* Until a fetch fails, what a call may ask for is in the list by the time the
\* call stops waiting: a sync that runs started after the last such change.
LEMMA CoveredHolds == Spec => [](Locks /\ Ordered /\ CoveredSoFar)
<1>1. Init => CoveredSoFar
  BY UserCacheAssumption DEF Init, Covered, CoveredSoFar
<1>2. ASSUME Locks, Ordered, CoveredSoFar, [Next]_vars PROVE CoveredSoFar'
  <2> SUFFICES ASSUME failures' = 0 PROVE Covered'
    BY DEF CoveredSoFar
  <2> USE UserCacheAssumption DEF Covered, Goto, Step, vars, order, goroutine, call
  <2>1. /\ data \in Nat /\ ref \in Nat /\ need \in Nat /\ failures \in Nat
        /\ at \in [Goroutines -> Places] /\ fetched \in [Goroutines -> Nat]
        /\ reader \in [Readers -> ReaderPlaces]
        /\ awaits \in [Readers -> Goroutines \union {None}]
        /\ got \in [Readers -> Nat]
        /\ result \in [Readers -> {"none", "list", "fallback", "error"}]
        /\ needed \in [Readers -> Nat]
    BY <1>2 DEF Locks, TypeOK, FlagsTyped, ThreadsTyped
  <2>0. Covered
    BY <1>2, <2>1, NothingFailed DEF CoveredSoFar, Locks, TypeOK, FlagsTyped
  <2>2. Answered /\ OneSync /\ OwnChannel /\ Ordered
    BY <1>2 DEF Locks, TypeOK
  <2>3. CASE Change
    BY <2>0, <2>1, <2>3 DEF Change
  <2>4. CASE Invalidate
    BY <2>0, <2>1, <2>2, <2>4 DEF Invalidate, OneSync, InSync
  <2>5. CASE GrowOld \/ UNCHANGED vars
    BY <2>0, <2>5 DEF GrowOld
  <2>6. ASSUME NEW r \in Readers, MaybeSync(r) PROVE Covered'
    BY <2>0, <2>1, <2>2, <2>6 DEF MaybeSync, Answered
  <2>7. ASSUME NEW r \in Readers, Read(r) PROVE Covered'
    BY <2>0, <2>1, <2>2, <2>7 DEF Read, TakeSort, SortList, MarkSorted, SpinSort, Serve, Return,
       Answered
  <2>8. ASSUME NEW g \in Goroutines, Claim(g) PROVE Covered'
    BY <2>0, <2>1, <2>2, <2>8 DEF Claim, Answered
  <2>9. ASSUME NEW g \in Goroutines, Fetch(g) PROVE Covered'
    BY <2>0, <2>1, <2>2, <2>9 DEF Fetch, Answered
  <2>10. ASSUME NEW g \in Goroutines, FetchFails(g) PROVE FALSE
    BY <2>1, <2>10 DEF FetchFails
  <2>11. ASSUME NEW g \in Goroutines, SetList(g) PROVE Covered'
    BY <2>0, <2>1, <2>2, <2>11 DEF SetList, Answered, Ordered, OneSync, InSync
  <2>12. ASSUME NEW g \in Goroutines, ClearSorted(g) \/ Stamp(g) PROVE Covered'
    BY <2>0, <2>1, <2>2, <2>12 DEF ClearSorted, Stamp, Answered
  <2>13. ASSUME NEW g \in Goroutines, Release(g) PROVE Covered'
    BY <2>0, <2>1, <2>2, <2>13 DEF Release, Answered
  <2>14. ASSUME NEW g \in Goroutines, SpinSync(g) PROVE Covered'
    BY <2>0, <2>1, <2>2, <2>14 DEF SpinSync, Answered
  <2>15. ASSUME NEW g \in Goroutines, NEW r \in Readers, Report(g, r) PROVE Covered'
    BY <2>0, <2>1, <2>2, <2>15 DEF Report, Return, Answered, OwnChannel
  <2> QED
    BY <1>2, <2>3, <2>4, <2>5, <2>6, <2>7, <2>8, <2>9, <2>10, <2>11, <2>12, <2>13, <2>14, <2>15
       DEF Next, Sync
<1> QED
  BY <1>1, <1>2, InOrder, PTL DEF Spec

\* While Jellyfin answers, a change invalidated when no sync was running is in
\* every list a later call is served, though syncs are shared and the cache is
\* stamped fresh at the end of each (usercache.go:29-31, 151).
THEOREM InvalidationHolds == Spec => []InvalidationSticks
<1>1. CoveredSoFar => InvalidationSticks
  BY DEF CoveredSoFar, Covered, InvalidationSticks
<1> QED
  BY <1>1, CoveredHolds, PTL
===============================================================================
