------------------------------ MODULE UserCache ------------------------------
(***************************************************************************)
(* The accounts list kept for the web pages (usercache.go).  Readers call  *)
(* GetUserDTOs; MaybeSync starts a goroutine per call that finds the cache *)
(* too old, of which one at a time fetches the users and rebuilds the list *)
(* while the others spin; handlers that change a user invalidate the cache *)
(* by zeroing LastSync.  Apart from the two small critical sections under  *)
(* SyncLock and SortLock nothing is locked, so each assignment is a step.  *)
(***************************************************************************)
EXTENDS Integers, FiniteSets

CONSTANTS Readers,      \* requests that list users, one call at a time each
          Goroutines,   \* bound: the sync goroutines alive at a time
          MaxVersion,   \* bound: states of the user data, numbered from 1
          MaxFailures,  \* bound: failing calls to Jellyfin
          None

ASSUME UserCacheAssumption ==
    /\ None \notin Goroutines
    /\ MaxVersion \in Nat \ {0} /\ MaxFailures \in Nat

VARIABLES data,       \* the version of Jellyfin's users and the stored details
          writer,     \* "idle", or "changed": stored but not yet invalidated
          ref,        \* version of the list Cache and Ref hold, 0 before any
          age,        \* time since LastSync against the two timeouts
          syncing, sorted, sorting,   \* the flags of the same names
          at,         \* where each sync goroutine is
          fetched,    \* the version it fetched
          reader,     \* where each reader is
          awaits,     \* the goroutine whose channel a reader receives from
          wants,      \* whether the call asked for a sorted list
          got, result,\* the version a finished call returned, and how it ended
          failures,
          need,       \* properties only: the newest version that was stored and
                        \* invalidated outside any sync,
          needed      \* and what a call may ask for, from when it began

goroutine == <<at, fetched>>
order == <<sorted, sorting>>
call == <<reader, awaits, wants, got, result, needed>>
vars == <<data, writer, ref, age, syncing, order, goroutine, call, failures, need>>

\* fresh: within SyncTimeout; stale: within WaitForSyncTimeout; old: beyond it,
\* never synced, or invalidated.
Ages == {"fresh", "stale", "old"}
InSync == {"fetch", "list", "flag", "stamp", "release"}
Places == InSync \union {"none", "claim", "spin", "sendErr", "sendNil"}
ReaderPlaces == {"idle", "waiting", "read", "sorting", "mark", "spin", "serve"}

Init ==
    /\ data = 1 /\ writer = "idle"
    /\ ref = 0 /\ age = "old"
    /\ syncing = FALSE /\ sorted = FALSE /\ sorting = FALSE
    /\ at = [g \in Goroutines |-> "none"]
    /\ fetched = [g \in Goroutines |-> 0]
    /\ reader = [r \in Readers |-> "idle"]
    /\ awaits = [r \in Readers |-> None]
    /\ wants = [r \in Readers |-> FALSE]
    /\ got = [r \in Readers |-> 0]
    /\ result = [r \in Readers |-> "none"]
    /\ failures = 0
    /\ need = 1
    /\ needed = [r \in Readers |-> 1]

Goto(g, place) == at' = [at EXCEPT ![g] = place]
Step(r, place) == reader' = [reader EXCEPT ![r] = place]
-----------------------------------------------------------------------------
(* Handlers that change users, and time *)

Change ==
    /\ writer = "idle"
    /\ data < MaxVersion
    /\ data' = data + 1
    /\ writer' = "changed"
    /\ UNCHANGED <<ref, age, syncing, order, goroutine, call, failures, need>>

\* InvalidateWebUserCache, after the change has been stored.
Invalidate ==
    /\ writer = "changed"
    /\ writer' = "idle"
    /\ age' = "old"
    /\ need' = IF syncing THEN need ELSE data
    /\ UNCHANGED <<data, ref, syncing, order, goroutine, call, failures>>

GrowOld ==
    /\ \/ age = "fresh" /\ age' = "stale"
       \/ age = "stale" /\ age' = "old"
    /\ UNCHANGED <<data, writer, ref, syncing, order, goroutine, call, failures, need>>
-----------------------------------------------------------------------------
(* GetUserDTOs *)

\* MaybeSync: a fresh cache is read at once, a stale one while a goroutine
\* syncs behind, and an old or empty one once that goroutine has reported.
MaybeSync(r) ==
    /\ reader[r] = "idle"
    /\ \E s \in BOOLEAN : wants' = [wants EXCEPT ![r] = s]
    /\ needed' = [needed EXCEPT ![r] = need]
    /\ result' = [result EXCEPT ![r] = "none"]
    /\ got' = [got EXCEPT ![r] = 0]
    /\ \/ /\ age = "fresh"
          /\ Step(r, "read")
          /\ UNCHANGED <<at, awaits>>
       \/ /\ age # "fresh"
          /\ \E g \in Goroutines :
                /\ at[g] = "none"
                /\ Goto(g, "claim")
                /\ IF age = "old" \/ ref = 0
                   THEN Step(r, "waiting") /\ awaits' = [awaits EXCEPT ![r] = g]
                   ELSE Step(r, "read") /\ UNCHANGED awaits
    /\ UNCHANGED <<data, writer, ref, age, syncing, order, fetched, failures, need>>

\* A sorted list is wanted and the flag is down: one reader sorts, under no
\* lock but its Sorting flag; the others spin.
TakeSort(r) ==
    /\ reader[r] = "read"
    /\ IF wants[r] /\ ~sorted
       THEN /\ Step(r, IF sorting THEN "spin" ELSE "sorting")
            /\ sorting' = TRUE
       ELSE Step(r, "serve") /\ UNCHANGED sorting
    /\ UNCHANGED <<data, writer, ref, age, syncing, sorted, goroutine, awaits,
                   wants, got, result, needed, failures, need>>

\* The slice being sorted is the one Ref held when the sort began, which a sync
\* may replace meanwhile.
SortList(r) ==
    /\ reader[r] = "sorting"
    /\ Step(r, "mark")
    /\ UNCHANGED <<data, writer, ref, age, syncing, order, goroutine, awaits, wants, got, result,
                   needed, failures, need>>

\* Sorted goes up, then Sorting comes down under SortLock.
MarkSorted(r) ==
    /\ reader[r] = "mark"
    /\ sorted' = TRUE
    /\ sorting' = FALSE
    /\ Step(r, "serve")
    /\ UNCHANGED <<data, writer, ref, age, syncing, goroutine, awaits,
                   wants, got, result, needed, failures, need>>

SpinSort(r) ==
    /\ reader[r] = "spin"
    /\ ~sorting
    /\ Step(r, "serve")
    /\ UNCHANGED <<data, writer, ref, age, syncing, order, goroutine, awaits,
                   wants, got, result, needed, failures, need>>

Return(r, how, version) ==
    /\ Step(r, "idle")
    /\ result' = [result EXCEPT ![r] = how]
    /\ got' = [got EXCEPT ![r] = version]
    /\ wants' = [wants EXCEPT ![r] = FALSE]

Serve(r) ==
    /\ reader[r] = "serve"
    /\ Return(r, "list", ref)
    /\ UNCHANGED <<data, writer, ref, age, syncing, order, goroutine, awaits,
                   needed, failures, need>>
-----------------------------------------------------------------------------
(* The goroutine of MaybeSync *)

\* Mutant: Syncing is tested without being raised under the same lock.
ClaimUnmarked(g) ==
    /\ at[g] = "claim"
    /\ Goto(g, IF syncing THEN "spin" ELSE "fetch")
    /\ UNCHANGED <<data, writer, ref, age, syncing, order, fetched, call, failures, need>>

\* Under SyncLock: whoever finds Syncing down raises it and syncs.
Claim(g) ==
    /\ at[g] = "claim"
    /\ Goto(g, IF syncing THEN "spin" ELSE "fetch")
    /\ syncing' = TRUE
    /\ UNCHANGED <<data, writer, ref, age, order, fetched, call, failures, need>>

\* Mutant: the flag is taken down as soon as Jellyfin has answered.
FetchReleases(g) ==
    /\ at[g] = "fetch"
    /\ fetched' = [fetched EXCEPT ![g] = data]
    /\ syncing' = FALSE
    /\ Goto(g, "list")
    /\ UNCHANGED <<data, writer, ref, age, order, call, failures, need>>

Fetch(g) ==
    /\ at[g] = "fetch"
    /\ fetched' = [fetched EXCEPT ![g] = data]
    /\ Goto(g, "list")
    /\ UNCHANGED <<data, writer, ref, age, syncing, order, call, failures, need>>

\* Mutant: an error is reported without the flag being taken down.
FetchFailsUnreleased(g) ==
    /\ at[g] = "fetch"
    /\ failures < MaxFailures
    /\ failures' = failures + 1
    /\ Goto(g, "sendErr")
    /\ UNCHANGED <<data, writer, ref, age, syncing, order, fetched, call, need>>

FetchFails(g) ==
    /\ at[g] = "fetch"
    /\ failures < MaxFailures
    /\ failures' = failures + 1
    /\ syncing' = FALSE
    /\ Goto(g, "sendErr")
    /\ UNCHANGED <<data, writer, ref, age, order, fetched, call, need>>

SetList(g) ==
    /\ at[g] = "list"
    /\ ref' = fetched[g]
    /\ fetched' = [fetched EXCEPT ![g] = 0]
    /\ Goto(g, "flag")
    /\ UNCHANGED <<data, writer, age, syncing, order, call, failures, need>>

ClearSorted(g) ==
    /\ at[g] = "flag"
    /\ sorted' = FALSE
    /\ Goto(g, "stamp")
    /\ UNCHANGED <<data, writer, ref, age, syncing, sorting, fetched, call,
                   failures, need>>

\* LastSync = time.Now(), whatever was invalidated since the fetch.
Stamp(g) ==
    /\ at[g] = "stamp"
    /\ age' = "fresh"
    /\ Goto(g, "release")
    /\ UNCHANGED <<data, writer, ref, syncing, order, fetched, call, failures, need>>

Release(g) ==
    /\ at[g] = "release"
    /\ syncing' = FALSE
    /\ Goto(g, "sendNil")
    /\ UNCHANGED <<data, writer, ref, age, order, fetched, call, failures, need>>

\* Mutant: a joiner does not wait for the sync in progress.
SpinSyncUnchecked(g) ==
    /\ at[g] = "spin"
    /\ Goto(g, "sendNil")
    /\ UNCHANGED <<data, writer, ref, age, syncing, order, fetched, call, failures, need>>

SpinSync(g) ==
    /\ at[g] = "spin"
    /\ ~syncing
    /\ Goto(g, "sendNil")
    /\ UNCHANGED <<data, writer, ref, age, syncing, order, fetched, call, failures, need>>

\* The channel has no buffer: the send completes only with a reader that waits
\* on it.  After an error a reader is served the last list, if there is one.
Report(g, r) ==
    /\ reader[r] = "waiting"
    /\ awaits[r] = g
    /\ awaits' = [awaits EXCEPT ![r] = None]
    /\ Goto(g, "none")
    /\ \/ /\ at[g] = "sendNil"
          /\ Step(r, "read")
          /\ UNCHANGED <<wants, got, result>>
       \/ /\ at[g] = "sendErr"
          /\ Return(r, IF ref # 0 THEN "fallback" ELSE "error", ref)
    /\ UNCHANGED <<data, writer, ref, age, syncing, order, fetched, needed, failures, need>>

Sync(g) ==
    \/ Claim(g) \/ Fetch(g) \/ FetchFails(g) \/ SetList(g) \/ ClearSorted(g)
    \/ Stamp(g) \/ Release(g) \/ SpinSync(g) \/ \E r \in Readers : Report(g, r)

Read(r) == TakeSort(r) \/ SortList(r) \/ MarkSorted(r) \/ SpinSort(r) \/ Serve(r)

Next ==
    \/ Change \/ Invalidate \/ GrowOld
    \/ \E r \in Readers : MaybeSync(r) \/ Read(r)
    \/ \E g \in Goroutines : Sync(g)

\* The Go scheduler runs every goroutine that can go on, and a call to Jellyfin
\* returns (its client has a timeout).  A loop that spins on a flag reads it all
\* the time, and between two syncs or sorts the flag is down for much longer than
\* one turn of the loop: hence strong fairness.
Fairness ==
    /\ \A g \in Goroutines : WF_vars(Sync(g)) /\ SF_vars(SpinSync(g))
    /\ \A r \in Readers : WF_vars(Read(r)) /\ SF_vars(SpinSort(r))

Spec == Init /\ [][Next]_vars
FairSpec == Spec /\ Fairness
-----------------------------------------------------------------------------
(* Properties *)

FlagsTyped ==
    /\ data \in 1..MaxVersion /\ need \in 1..MaxVersion
    /\ writer \in {"idle", "changed"}
    /\ ref \in 0..MaxVersion
    /\ age \in Ages
    /\ syncing \in BOOLEAN /\ sorted \in BOOLEAN /\ sorting \in BOOLEAN
    /\ failures \in 0..MaxFailures

ThreadsTyped ==
    /\ at \in [Goroutines -> Places]
    /\ fetched \in [Goroutines -> 0..MaxVersion]
    /\ reader \in [Readers -> ReaderPlaces]
    /\ awaits \in [Readers -> Goroutines \union {None}]
    /\ wants \in [Readers -> BOOLEAN]
    /\ got \in [Readers -> 0..MaxVersion]
    /\ needed \in [Readers -> 1..MaxVersion]
    /\ result \in [Readers -> {"none", "list", "fallback", "error"}]

Answered ==
    \A r \in Readers :
        IF reader[r] = "waiting" THEN awaits[r] \in Goroutines /\ at[awaits[r]] # "none"
                                 ELSE awaits[r] = None

\* Every variable stays in its type, and a waiting caller always has a live
\* goroutine at the other end of its channel.
TypeOK == FlagsTyped /\ ThreadsTyped /\ Answered

\* "Only one sync will run at a time": of any number of goroutines one at most
\* is between raising Syncing and taking it down, and Syncing says whether.
OneSync ==
    /\ \A g, h \in Goroutines : at[g] \in InSync /\ at[h] \in InSync => g = h
    /\ syncing <=> \E g \in Goroutines : at[g] \in InSync

\* One reader at a time sorts, and Sorting says whether one does.
OneSorter ==
    /\ \A q, r \in Readers :
          reader[q] \in {"sorting", "mark"} /\ reader[r] \in {"sorting", "mark"} => q = r
    /\ sorting <=> \E r \in Readers : reader[r] \in {"sorting", "mark"}

\* Syncs and sorts each run one at a time, and the flags that callers spin on say so.
OneAtATime == TypeOK /\ OneSync /\ OneSorter

\* A list is only ever replaced by one that is at least as new: no goroutine
\* that fetched earlier publishes later.
ListMovesForward == [][ref' >= ref]_ref

\* As long as Jellyfin has answered, a change that was stored and invalidated while
\* no sync was running is in every list served to a call that began afterwards.
InvalidationSticks ==
    failures = 0 => \A r \in Readers : result[r] = "list" => got[r] >= needed[r]

\* Every call to GetUserDTOs returns, whether it waits for a sync, for another
\* caller's sync that may fail, or for another caller's sort.
EveryCallReturns == \A r \in Readers : reader[r] # "idle" ~> reader[r] = "idle"
=============================================================================
