------------------------------- MODULE Queries -------------------------------
(***************************************************************************)
(* Searching and paging: what the admin's page loads of the accounts, of   *)
(* the activity log and of a user's entries in Jellyfin's log, one page    *)
(* after the other, while these lists change; and housekeeping's trimming  *)
(* of the activity log.                                                    *)
(***************************************************************************)
EXTENDS Integers, Sequences, FiniteSets, SequencesExt

CONSTANTS AllAccounts,  \* what the list shows of each, in Jellyfin's order
          UserRequests, LogRequests, \* what is searched for, and how it is sorted
          Kinds,        \* of activities: of which type, done by whom, to whom
          Limits,       \* of entries on a page
          Zone,         \* the server's clock, ahead of UTC
          DayLength,    \* in hours
          KeepCount, MaxAge, \* keep_n_records and delete_after_days; 0 for no limit
          MaxActivities, MaxHour, MaxChanges, \* bounds: activities, time, what else changes
          NotGiven

ASSUME QueriesAssumption ==
    /\ KeepCount \in Nat /\ MaxAge \in Nat /\ DayLength \in Nat \ {0} /\ Zone \in Int
    /\ Limits \subseteq Nat \ {0}
    /\ AllAccounts \in Seq(ToSet(AllAccounts)) /\ \A a \in ToSet(AllAccounts) : a.name \in Int
    /\ \A req \in LogRequests : req.ascending \in BOOLEAN
    /\ MaxActivities \in Nat /\ MaxHour \in Nat \ {0} /\ MaxChanges \in Nat

VARIABLES list,    \* what is looked at: "users", "log" or "jellyfin"
          accounts, ref, sorted, \* Jellyfin's users, and the cache of them
          log,     \* the activity log; an activity's id is its key, and random
          entries, \* a user's entries of Jellyfin's log, whose ids ascend
          made,    \* ids that were given
          hour, changes,
          clear,   \* clearActivities: where it is, and what it still deletes one by one
          walk     \* the page in the browser

lists == <<accounts, ref, sorted, log, entries>>
queryVars == <<list, lists, made, hour, changes, clear, walk>>

Ids == 1..MaxActivities

(***************************************************************************)
(* Dates.  A date that was searched for has some of its fields; the others *)
(* are taken from the time it is compared with, as the server's clock has  *)
(* them, and all is read as a time of the zone of whoever asks.            *)
(***************************************************************************)
Sign(n) == IF n < 0 THEN -1 ELSE IF n > 0 THEN 1 ELSE 0
Day(t) == (t + Zone) \div DayLength
Hour(t) == (t + Zone) % DayLength
Given(field, else) == IF field = NotGiven THEN else ELSE field

Compare(d, t) == Sign(t - (Given(d.day, Day(t)) * DayLength + Given(d.hour, Hour(t)) - d.offset))

\* 0 is no time.
CompareUnixWithOperator(d, t, operator) == t # 0 /\ Compare(d, t) = operator

(***************************************************************************)
(* Filtering and sorting the accounts.                                     *)
(***************************************************************************)
bool2int(b) == IF b THEN 1 ELSE 0
BoolFields == {"admin"}
\* Strings are ranked without regard to case; 0 is the empty one.
Key(field, u) == IF field \in BoolFields THEN bool2int(u[field]) ELSE u[field]

StringFilter(q, u) == Sign(u[q.field] - q.value) = q.operator
\* Of an address or a date: whether there is one.
PresenceFilter(q, u) == (u[q.field] # 0) = q.value
BoolFilter(q, u) == Sign(bool2int(u[q.field]) - bool2int(q.value)) = q.operator
DateFilter(q, u) == CompareUnixWithOperator(q.value, u[q.field], q.operator)

AsFilter(q, u) ==
    IF q.field \in BoolFields THEN BoolFilter(q, u)
    ELSE IF q.class = "bool" THEN PresenceFilter(q, u)
    ELSE IF q.class = "date" THEN DateFilter(q, u) ELSE StringFilter(q, u)

\* All terms are found in some field, and all queries hold.
MatchesSearch(u, term) == term \in u.words
Meets(req, u) ==
    /\ \A term \in req.terms : MatchesSearch(u, term)
    /\ \A q \in req.queries : AsFilter(q, u)

\* The members of a set, each after as many as are before it.
Arranged(S, before) ==
    [k \in 1..Cardinality(S) |->
        CHOOSE x \in S : Cardinality({y \in S : <<y, x>> \in before}) = k - 1]

\* By a key, up or down, equals by their place.
ByKey(S, key, place, up) ==
    {p \in S \X S : IF key[p[1]] = key[p[2]] THEN place[p[1]] < place[p[2]]
                    ELSE (key[p[1]] < key[p[2]]) = up}

Those(s, order) == [k \in DOMAIN order |-> s[order[k]]]
OnlyThose(s, I) == Those(s, Arranged(I, {p \in I \X I : p[1] < p[2]}))

Sort(users, field, ascending) ==
    LET D == DOMAIN users
        up == Those(users, Arranged(D, ByKey(D, [i \in D |-> Key(field, users[i])],
                                             [i \in D |-> i], TRUE)))
    IN  IF ascending THEN up ELSE Reverse(up)

DefaultField == "name"
Filter(users, req) == OnlyThose(users, {i \in DOMAIN users : Meets(req, users[i])})
FoundUsers(users, req) ==
    IF req.field # DefaultField THEN Sort(Filter(users, req), req.field, req.ascending)
    ELSE IF req.ascending THEN Filter(users, req) ELSE Reverse(Filter(users, req))

(***************************************************************************)
(* The activity log is searched in the database: the queries are added to  *)
(* what the terms of the search ask of the first field, and what they ask  *)
(* of the others is found besides.  One term is enough.                    *)
(***************************************************************************)
SourceIsUser(a) == a.by \in {"user", "admin"} /\ a.source # NotGiven
SourceNames(a) == IF SourceIsUser(a) THEN {a.source} ELSE {}
OfType(q, a) == (a.type = q.field) = q.value
matchMentionedUsers(q, a) == q.value \in {a.user} \cup SourceNames(a)
matchActor(q, a) == q.value \in {a.by} \cup SourceNames(a)
\* Asked for accounts that nobody referred, it finds none.
matchReferrer(q, a) ==
    /\ a.type = "accountCreation" /\ a.by = "user" /\ SourceIsUser(a)
    /\ IF q.class = "bool" THEN q.value ELSE q.value = a.source
matchTime(q, a) == CompareUnixWithOperator(q.value, a.time, q.operator)

ActivityMeets(q, a) ==
    CASE q.field = "mentionedUsers" -> matchMentionedUsers(q, a)
      [] q.field = "actor" -> matchActor(q, a)
      [] q.field = "referrer" -> matchReferrer(q, a)
      [] q.field = "time" -> matchTime(q, a)
      [] OTHER -> OfType(q, a)

ActivityMatchesSearch(terms, fields) == fields \cap terms # {}
QueriesMeet(req, a) == \A q \in req.queries : ActivityMeets(q, a)
generateActivitiesQuery(req, a) ==
    IF req.terms = {} THEN QueriesMeet(req, a)
    ELSE \/ ActivityMatchesSearch(req.terms, {a.id}) /\ QueriesMeet(req, a)
         \/ ActivityMatchesSearch(req.terms, {a.user, a.source})

\* There is no such field as the accounts' default: nothing is found then.
LogFields == {"time", "type"}
InOrder(S, field, up) ==
    Arranged(S, ByKey(S, [a \in S |-> a[field]], [a \in S |-> a.id], up))
FoundActivities(req) ==
    IF req.field \notin LogFields THEN <<>>
    ELSE InOrder({a \in log : generateActivitiesQuery(req, a)}, req.field, req.ascending)

(***************************************************************************)
(* Pages.                                                                  *)
(***************************************************************************)
Page(s, limit, page) ==
    LET start == page * limit
    IN  SubSeq(s, start + 1, IF start + limit < Len(s) THEN start + limit ELSE Len(s))

\* Mutant: a page that is full is the last one too.
LastPageFull(s, limit, page) == TRUE

LastPage(s, limit, page) == Len(Page(s, limit, page)) # limit

\* What a request finds; the cache of users is sorted on the way if need be.
Sorts(req) == list = "users" /\ req.field = DefaultField /\ ~sorted
Found(req) ==
    CASE list = "users" -> FoundUsers(IF Sorts(req) THEN Sort(ref, DefaultField, TRUE) ELSE ref,
                                      req)
      [] list = "log" -> FoundActivities(req)
      [] list = "jellyfin" -> InOrder(entries, "id", FALSE)

IdsOf(s) == [i \in DOMAIN s |-> s[i].id]
Requests == IF list = "users" THEN UserRequests ELSE LogRequests
Idle == [at |-> "idle"]
ListOf(users) == OnlyThose(AllAccounts, {i \in DOMAIN AllAccounts : AllAccounts[i] \in users})

\* SearchUsers, GetActivities, GetPaginatedJFActivitesForUser, and what the page does then.
Load(w, limit, page, got) ==
    LET s == Found(w.req)
    IN  /\ walk' = [w EXCEPT !.at = IF LastPage(s, limit, page) THEN "done" ELSE "more",
                             !.got = got \o IdsOf(Page(s, limit, page))]
        /\ sorted' = (sorted \/ Sorts(w.req))
        /\ ref' = IF Sorts(w.req) THEN Sort(ref, DefaultField, TRUE) ELSE ref
        /\ UNCHANGED <<list, accounts, log, entries, made, hour, clear>>

\* _reload: as much as was loaded, at once.
Begin(req, limit, page) ==
    Load([at |-> "idle", req |-> req, limit |-> limit, page |-> page, got |-> <<>>,
          begun |-> {x.id : x \in ToSet(Found(req))}, moved |-> FALSE, cut |-> FALSE],
         limit * (page + 1), 0, <<>>)

Open == /\ walk = Idle
        /\ \E req \in Requests, limit \in Limits : Begin(req, limit, 0)
        /\ UNCHANGED changes

Changes == changes < MaxChanges /\ changes' = changes + 1
Reload == /\ walk # Idle /\ walk.at \in {"more", "done"} /\ Changes
          /\ Begin(walk.req, walk.limit, walk.page)

LoadMore ==
    /\ walk # Idle /\ walk.at = "more"
    /\ Load([walk EXCEPT !.page = @ + 1], walk.limit, walk.page + 1, walk.got)
    /\ UNCHANGED changes

\* The lock is not released: nothing is loaded from then on.
LoadFails ==
    /\ walk # Idle /\ walk.at = "more" /\ Changes
    /\ walk' = [walk EXCEPT !.page = @ + 1, !.at = "locked"]
    /\ UNCHANGED <<list, lists, made, hour, clear>>

(***************************************************************************)
(* What changes meanwhile.                                                 *)
(***************************************************************************)
Moved == walk' = IF walk = Idle THEN walk ELSE [walk EXCEPT !.moved = TRUE]
Cut == walk' = IF walk = Idle THEN walk
               ELSE [walk EXCEPT !.moved = TRUE, !.cut = TRUE, !.begun = {}]

\* Somebody else lists the accounts by name.
OtherSorts ==
    /\ list = "users" /\ ~sorted /\ Changes
    /\ sorted' = TRUE /\ ref' = Sort(ref, DefaultField, TRUE)
    /\ IF walk # Idle /\ walk.req.field # DefaultField THEN Moved ELSE UNCHANGED walk
    /\ UNCHANGED <<list, accounts, log, entries, made, hour, clear>>

\* An account came or went, and the cache is renewed.
Sync ==
    /\ list = "users" /\ Changes
    /\ \E u \in ToSet(AllAccounts) :
          accounts' = IF u \in accounts THEN accounts \ {u} ELSE accounts \cup {u}
    /\ ref' = ListOf(accounts')
    /\ sorted' = FALSE
    /\ Moved
    /\ UNCHANGED <<list, log, entries, made, hour, clear>>

\* An activity comes under a random key.
SetActivityKey ==
    /\ list = "log"
    /\ \E id \in Ids \ made, kind \in Kinds :
          /\ made' = made \cup {id}
          /\ log' = log \cup {[id |-> id, time |-> hour, type |-> kind.type, by |-> kind.by,
                               user |-> kind.user, source |-> kind.source]}
    /\ Moved
    /\ UNCHANGED <<list, accounts, ref, sorted, entries, hour, changes, clear>>

DeleteActivity ==
    /\ list = "log" /\ Changes
    /\ \E a \in log : log' = log \ {a}
    /\ Cut
    /\ clear' = [clear EXCEPT !.cut = clear.at = "each"]
    /\ UNCHANGED <<list, accounts, ref, sorted, entries, made, hour>>

\* Jellyfin has a new entry of the user; the oldest may be dropped.
NewEntry ==
    /\ list = "jellyfin"
    /\ \E id \in Ids, dropped \in SUBSET {e \in entries : \A f \in entries : e.id <= f.id} :
          /\ \A m \in made : m < id
          /\ made' = made \cup {id}
          /\ entries' = (entries \ dropped) \cup {[id |-> id]}
    /\ Moved
    /\ UNCHANGED <<list, accounts, ref, sorted, log, hour, changes, clear>>

Tick == /\ list = "log" /\ hour < MaxHour /\ hour' = hour + 1
        /\ UNCHANGED <<list, lists, made, changes, clear, walk>>

(***************************************************************************)
(* clearActivities.  A deletion may be too big for one transaction; what   *)
(* it was to delete is then looked up and deleted one by one, and what was *)
(* to follow is left for the next time.                                    *)
(***************************************************************************)
Old == {a \in log : a.time < hour - MaxAge}
Skipping(s) == {s[k] : k \in (KeepCount + 1)..Len(s)}
\* Mutant: those kept are the oldest.
ExcessOldest == Skipping(InOrder(log, "time", TRUE))

Excess == Skipping(InOrder(log, "time", FALSE))

Surplus == IF clear.at = "old" THEN (IF MaxAge = 0 THEN {} ELSE Old)
           ELSE IF KeepCount = 0 THEN {} ELSE Excess

Without(S) == log' = log \ S
Housekeeping(next) ==
    /\ clear' = next
    /\ IF log' = log THEN UNCHANGED walk ELSE IF clear.at = "each" THEN Cut ELSE Moved
    /\ UNCHANGED <<list, accounts, ref, sorted, entries, made, hour, changes>>
At(at) == [at |-> at, left |-> {}, cut |-> FALSE]

StartClear == /\ list = "log" /\ clear.at = "idle" /\ log' = log
              /\ Housekeeping(At("old"))

DeleteMatching ==
    /\ clear.at \in {"old", "count"}
    /\ Without(Surplus)
    /\ Housekeeping(At(IF clear.at = "old" THEN "count" ELSE "idle"))

\* Mutant: what is too big is left alone.
TooBigEnds ==
    /\ clear.at \in {"old", "count"} /\ Surplus # {} /\ log' = log
    /\ Housekeeping(At("idle"))

TooBig ==
    /\ clear.at \in {"old", "count"} /\ Surplus # {} /\ log' = log
    /\ Housekeeping([at |-> "each", left |-> {a.id : a \in Surplus}, cut |-> FALSE])

DeleteActivityKey ==
    /\ clear.at = "each"
    /\ IF clear.left = {} THEN log' = log /\ Housekeeping(At("idle"))
       ELSE \E id \in clear.left :
              /\ Without({a \in log : a.id = id})
              /\ Housekeeping([clear EXCEPT !.left = @ \ {id}])

QueriesInit ==
    /\ list \in {"users", "log", "jellyfin"}
    /\ accounts = (IF list = "users" THEN ToSet(AllAccounts) ELSE {})
    /\ ref = ListOf(accounts) /\ sorted = FALSE
    /\ log = {} /\ entries = {}
    /\ made = {} /\ hour = 1 /\ changes = 0
    /\ clear = At("idle") /\ walk = Idle

Client == Open \/ Reload \/ LoadMore \/ LoadFails
Daemon == StartClear \/ DeleteMatching \/ TooBig \/ DeleteActivityKey
QueriesNext ==
        \/ Client \/ OtherSorts \/ Sync \/ SetActivityKey \/ DeleteActivity \/ NewEntry \/ Tick
        \/ Daemon
\* The ticker of the housekeeping daemon comes again and again.
QueriesSpec == QueriesInit /\ [][QueriesNext]_queryVars /\ WF_queryVars(Daemon)

(***************************************************************************)
(* Properties.                                                             *)
(***************************************************************************)
\* Lists are of what there is, and no page is asked for after the last.
QueriesTypeOK ==
    /\ ToSet(ref) \subseteq ToSet(AllAccounts)
    /\ made \subseteq Ids /\ {x.id : x \in log \cup entries} \subseteq made
    /\ hour \in 1..MaxHour /\ changes \in 0..MaxChanges
    /\ clear.at \in {"idle", "old", "count", "each"} /\ clear.left \subseteq made
    /\ walk # Idle => /\ walk.at \in {"more", "done", "locked"}
                      /\ walk.page * walk.limit <= MaxActivities + Len(AllAccounts)

\* Once all pages are loaded they have what the request finds, each once and in its order:
\* if the list did not change, a page that failed is not skipped, and one loaded again not
\* repeated.  (Another order of the accounts is a change unless they are listed by name.)
PagesAreTheList ==
    walk # Idle /\ walk.at = "done" /\ ~walk.moved => walk.got = IdsOf(Found(walk.req))

\* Newest first, new entries and the trimming of the log make no page miss anything: what was
\* found at first and still is, is on some page, unless activities were deleted one by one.
NewestFirstMissesNothing ==
    walk # Idle /\ walk.at = "done" /\ ~walk.cut /\
    (list = "jellyfin" \/ (list = "log" /\ walk.req.field = "time" /\ ~walk.req.ascending))
        => walk.begun \cap {x.id : x \in ToSet(Found(walk.req))} \subseteq ToSet(walk.got)

\* A walk through the pages of a list ends with the list, if it stood still, and with all
\* that was there at first, if only newer entries came.
SoundWalks == QueriesTypeOK /\ PagesAreTheList /\ NewestFirstMissesNothing

\* Housekeeping deletes only what is too old, or has as many newer activities as are to be
\* kept; an admin may have deleted some of these since it looked.
NewestAreKept ==
    [][clear'.at # clear.at \/ clear'.left # clear.left =>
        \A a \in log \ log' :
            \/ MaxAge # 0 /\ a.time < hour - MaxAge
            \/ KeepCount # 0 /\ clear.cut
            \/ KeepCount # 0 /\ Cardinality({b \in log : b.time >= a.time}) > KeepCount]_queryVars

\* The log is trimmed again and again, also when deletions are too big.
LogIsTrimmed == []<>(Cardinality(log) <= KeepCount /\ Old = {})
=============================================================================
