---------------------------- MODULE ActivityCache ----------------------------
(***************************************************************************)
(* The cache of Jellyfin's activity log (jf_activity.go): a ring of Limit  *)
(* entries, newest first from start, with an index by entry and one by     *)
(* user.  A caller that finds it too old syncs it, or waits for whoever is *)
(* syncing; readers take no lock.  Entries are numbered in the order they  *)
(* were logged, 0 being an empty cell, and time is the number logged.      *)
(***************************************************************************)
EXTENDS Integers, Sequences, FiniteSets, SequencesExt

CONSTANTS Limit,        \* ActivityLimit, the cells of the ring
          Users,        \* users of Jellyfin, of whom each entry names one
          Callers,      \* requests that read the cache, each with its goroutine
          MaxEvents,    \* bound: entries that are logged
          Burst,        \* bound: entries logged between two syncs
          MaxFailures,  \* bound: failing calls to Jellyfin
          Nil

ASSUME ActivityCacheAssumption ==
    /\ Limit \in Nat \ {0} /\ MaxEvents \in Nat /\ Burst \in Nat \ {0}
    /\ MaxFailures \in Nat /\ Nil \notin Users \cup 0..(Limit - 1)

VARIABLES userOf,     \* the log of Jellyfin: the user of each entry
          cache, start, end, total,   \* the ring
          byEntryID,  \* the cell of each entry held
          lists,      \* byUserID: the memory of each user's slice of cells
          used,       \* and how much of it the slice has
          lastSync, lastYieldingSync, fresh, syncing,
          at,         \* where each caller is
          thisSync, items, prior,  \* of a syncing caller: its time, what it was
                      \* sent that is new, and where the ring started before
          looks,      \* the user whose list, or the entry which, is looked up
          found,      \* how far its slice goes, or the cell of the entry
          result,     \* the entries a finished call returned
          failures

ring == <<cache, start, end, total, byEntryID>>
slices == <<lists, used>>
clock == <<lastSync, lastYieldingSync, fresh>>
sync == <<thisSync, items, prior>>
lookup == <<looks, found, result>>
activityVars == <<userOf, ring, slices, clock, syncing, at, sync, lookup, failures>>

Cells == 0..(Limit - 1)
Entries == 1..MaxEvents
logged == Len(userOf)
Never == -1

\* The newest entry held, 0 if there is none.
newest == IF start = -1 THEN 0 ELSE cache[start]

Goto(c, place) == at' = [at EXCEPT ![c] = place]

\* Cells from one to another, going round the ring: the loops over i and ci.
Path(from, to) == [k \in 1..(((to - from) % Limit) + 1) |-> (from + k - 1) % Limit]

\* The cells of a path whose entry names the user.
Of(u, path, content) ==
    LET names(i) == content[i] # 0 /\ userOf[content[i]] = u
        upTo[n \in 0..Len(path)] ==
            IF n = 0 THEN <<>>
            ELSE IF names(path[n]) THEN Append(upTo[n - 1], path[n]) ELSE upTo[n - 1]
    IN  upTo[Len(path)]

\* Appending cells to a slice writes over what its memory held before.
Overwrite(memory, from, cells) ==
    [k \in 1..(IF from + Len(cells) > Len(memory) THEN from + Len(cells) ELSE Len(memory)) |->
        IF k \in (from + 1)..(from + Len(cells)) THEN cells[k - from] ELSE memory[k]]

Extend(path, content) ==
    /\ lists' = [u \in Users |-> Overwrite(lists[u], used[u], Of(u, path, content))]
    /\ used' = [u \in Users |-> used[u] + Len(Of(u, path, content))]

ActivityInit ==
    /\ userOf = <<>>
    /\ cache = [i \in Cells |-> 0] /\ start = -1 /\ end = -1 /\ total = 0
    /\ byEntryID = [e \in Entries |-> Nil]
    /\ lists = [u \in Users |-> <<>>] /\ used = [u \in Users |-> 0]
    /\ lastSync = Never /\ lastYieldingSync = 0
    /\ fresh = FALSE /\ syncing = FALSE
    /\ at = [c \in Callers |-> "idle"]
    /\ thisSync = [c \in Callers |-> 0]
    /\ items = [c \in Callers |-> <<>>]
    /\ prior = [c \in Callers |-> -1]
    /\ looks = [c \in Callers |-> Nil] /\ found = [c \in Callers |-> Nil]
    /\ result = [c \in Callers |-> {}]
    /\ failures = 0
-----------------------------------------------------------------------------
(* Jellyfin, and time *)

LogEvent ==
    /\ logged < MaxEvents
    /\ logged - newest < Burst
    /\ \E u \in Users : userOf' = Append(userOf, u)
    /\ UNCHANGED <<ring, slices, clock, syncing, at, sync, lookup, failures>>

GrowOld ==
    /\ fresh
    /\ fresh' = FALSE
    /\ UNCHANGED <<userOf, ring, slices, lastSync, lastYieldingSync, syncing, at, sync, lookup,
                   failures>>
-----------------------------------------------------------------------------
(* MaybeSync *)

\* ByUserID or ByEntryID is called, and goes on to sync unless the cache is fresh.
Call(c) ==
    /\ at[c] = "idle"
    /\ \E x \in Users \union 1..logged : looks' = [looks EXCEPT ![c] = x]
    /\ result' = [result EXCEPT ![c] = {}]
    /\ Goto(c, IF fresh THEN "read" ELSE "claim")
    /\ UNCHANGED <<userOf, ring, slices, clock, syncing, sync, found, failures>>

Claim(c) ==
    /\ at[c] = "claim"
    /\ syncing' = TRUE
    /\ IF syncing THEN Goto(c, "spin") /\ UNCHANGED thisSync
                  ELSE Goto(c, "query") /\ thisSync' = [thisSync EXCEPT ![c] = logged]
    /\ UNCHANGED <<userOf, ring, slices, clock, items, prior, lookup, failures>>

\* The newest entries since a time, as many as there is room for.
ActivityLog(since) ==
    [k \in 1..(IF logged - since < Limit THEN logged - since ELSE Limit) |-> logged - k + 1]

\* Mutant: everything sent counts as new.
NewAll(sent) == sent

\* Those before the first that is held already.
New(sent) == LET dupe == SelectInSeq(sent, LAMBDA e : byEntryID[e] # Nil)
             IN  IF dupe = 0 THEN sent ELSE SubSeq(sent, 1, dupe - 1)

Query(c) ==
    /\ at[c] = "query"
    /\ LET new == New(ActivityLog(lastYieldingSync))
       IN  /\ items' = [items EXCEPT ![c] = new]
           /\ Goto(c, IF new = <<>> THEN "finish" ELSE "wipe")
    /\ UNCHANGED <<userOf, ring, slices, clock, syncing, thisSync, prior, lookup, failures>>

QueryFails(c) ==
    /\ at[c] = "query"
    /\ failures < MaxFailures
    /\ failures' = failures + 1
    /\ syncing' = FALSE
    /\ thisSync' = [thisSync EXCEPT ![c] = 0]
    /\ looks' = [looks EXCEPT ![c] = Nil]
    /\ Goto(c, "idle")
    /\ UNCHANGED <<userOf, ring, slices, clock, items, prior, found, result>>

\* Mutant: the slices are left as they are.
WipeNothing(c) ==
    /\ at[c] = "wipe"
    /\ Goto(c, "place")
    /\ UNCHANGED <<userOf, ring, slices, clock, syncing, sync, lookup, failures>>

\* The slices are emptied and keep their memory.
Wipe(c) ==
    /\ at[c] = "wipe"
    /\ used' = [u \in Users |-> 0]
    /\ Goto(c, "place")
    /\ UNCHANGED <<userOf, ring, lists, clock, syncing, sync, lookup, failures>>

\* Where the ring ends: it gives up one cell if its new start is taken.
NewEnd(from, length) ==
    IF start = -1 THEN length - 1
    ELSE IF cache[from] # 0 THEN (end - 1) % Limit ELSE end

\* Mutant: the start moves back one cell too few.
NewStartShort(length) == IF start = -1 THEN 0 ELSE (start - length + 1) % Limit

NewStart(length) == IF start = -1 THEN 0 ELSE (start - length) % Limit

CountNew(path) == total + Cardinality({i \in ToSet(path) : cache[i] = 0})

\* The index with the overwritten entries out and the placed ones in.
Reindex(entry) ==
    [e \in Entries |-> IF \E i \in DOMAIN entry : entry[i] = e
                       THEN CHOOSE i \in DOMAIN entry : entry[i] = e
                       ELSE IF byEntryID[e] \in DOMAIN entry THEN Nil ELSE byEntryID[e]]

\* The new entries go before the old ones, over the oldest once the ring is full.
Place(c) ==
    /\ at[c] = "place"
    /\ LET length == Len(items[c])
           from == NewStart(length)
           path == Path(from, from + length - 1)
           entry == [i \in ToSet(path) |-> items[c][((i - from) % Limit) + 1]]
       IN  /\ start' = from
           /\ end' = NewEnd(from, length)
           /\ total' = CountNew(path)
           /\ cache' = [i \in Cells |-> IF i \in DOMAIN entry THEN entry[i] ELSE cache[i]]
           /\ byEntryID' = Reindex(entry)
           /\ Extend(path, cache')
    /\ prior' = [prior EXCEPT ![c] = start]
    /\ items' = [items EXCEPT ![c] = <<>>]
    /\ Goto(c, IF start = -1 THEN "yield" ELSE "rebuild")
    /\ UNCHANGED <<userOf, clock, syncing, thisSync, lookup, failures>>

\* Every old entry is appended after them, from the old start to the end.
Rebuild(c) ==
    /\ at[c] = "rebuild"
    /\ Extend(Path(prior[c], end), cache)
    /\ prior' = [prior EXCEPT ![c] = -1]
    /\ Goto(c, "yield")
    /\ UNCHANGED <<userOf, ring, clock, syncing, thisSync, items, lookup, failures>>

Finish(c) ==
    /\ at[c] \in {"finish", "yield"}
    /\ lastSync' = thisSync[c]
    /\ lastYieldingSync' = IF at[c] = "yield" THEN thisSync[c] ELSE lastYieldingSync
    /\ fresh' = TRUE
    /\ syncing' = FALSE
    /\ thisSync' = [thisSync EXCEPT ![c] = 0]
    /\ Goto(c, "read")
    /\ UNCHANGED <<userOf, ring, slices, items, prior, lookup, failures>>

Spin(c) ==
    /\ at[c] = "spin"
    /\ ~syncing
    /\ Goto(c, "read")
    /\ UNCHANGED <<userOf, ring, slices, clock, syncing, sync, lookup, failures>>
-----------------------------------------------------------------------------
(* ByUserID and ByEntryID, after MaybeSync *)

ReadIndex(c) ==
    /\ at[c] = "read"
    /\ found' = [found EXCEPT ![c] = IF looks[c] \in Users THEN used[looks[c]]
                                                           ELSE byEntryID[looks[c]]]
    /\ Goto(c, "lookup")
    /\ UNCHANGED <<userOf, ring, slices, clock, syncing, sync, looks, result, failures>>

\* The slice taken before is read now, in memory it shares with byUserID.
ReadEntries(c) ==
    /\ at[c] = "lookup"
    /\ result' = [result EXCEPT ![c] =
          IF looks[c] \in Users THEN {cache[lists[looks[c]][k]] : k \in 1..found[c]}
          ELSE IF found[c] = Nil THEN {} ELSE {cache[found[c]]}]
    /\ found' = [found EXCEPT ![c] = Nil]
    /\ Goto(c, "idle")
    /\ UNCHANGED <<userOf, ring, slices, clock, syncing, sync, looks, failures>>

ActivityNext ==
    \/ LogEvent \/ GrowOld
    \/ \E c \in Callers :
          \/ Call(c) \/ Claim(c) \/ Query(c) \/ QueryFails(c) \/ Wipe(c) \/ Place(c)
          \/ Rebuild(c) \/ Finish(c) \/ Spin(c) \/ ReadIndex(c) \/ ReadEntries(c)

ActivitySpec == ActivityInit /\ [][ActivityNext]_activityVars
-----------------------------------------------------------------------------
(* Properties *)

Places == {"idle", "claim", "query", "wipe", "place", "rebuild", "yield", "finish", "spin",
           "read", "lookup"}

\* Every variable stays in its type; a slice never outgrows its memory.
ActivityTypeOK ==
    /\ userOf \in Seq(Users) /\ logged <= MaxEvents
    /\ cache \in [Cells -> 0..MaxEvents]
    /\ start \in Cells \union {-1} /\ end \in Cells \union {-1} /\ total \in 0..Limit
    /\ byEntryID \in [Entries -> Cells \union {Nil}]
    /\ \A u \in Users : lists[u] \in Seq(Cells) /\ used[u] \in 0..Len(lists[u])
    /\ lastSync \in {Never} \union 0..MaxEvents /\ lastYieldingSync \in 0..MaxEvents
    /\ fresh \in BOOLEAN /\ syncing \in BOOLEAN
    /\ at \in [Callers -> Places]
    /\ thisSync \in [Callers -> 0..MaxEvents]
    /\ \A c \in Callers : items[c] \in Seq(Entries) /\ Len(items[c]) <= Limit
    /\ prior \in [Callers -> Cells \union {-1}]
    /\ looks \in [Callers -> Users \union Entries \union {Nil}]
    /\ \A c \in Callers : result[c] \subseteq 0..MaxEvents
    /\ failures \in 0..MaxFailures

\* Going round the ring from start, the entries held are consecutive and each
\* older than the one before, total of them, and no event between is missing.
RingIsInOrder ==
    IF start = -1 THEN total = 0 /\ \A i \in Cells : cache[i] = 0
    ELSE \A k \in 0..(Limit - 1) :
            cache[(start + k) % Limit] = IF k < total THEN cache[start] - k ELSE 0

\* byEntryID finds exactly the entries the ring holds, each in its cell.
IndexFindsEntries ==
    \A e \in Entries, i \in Cells : byEntryID[e] = i <=> cache[i] = e

\* The cache is complete up to LastSync: whatever was logged before the last
\* finished sync began is held, or was pushed out by Limit newer entries.
CompleteToLastSync == newest >= lastSync

\* Ring and index agree on which entries are held, newest first, and those are all that
\* there were up to LastSync, through bursts, duplicates and failing and shared syncs.
SoundCache == ActivityTypeOK /\ RingIsInOrder /\ IndexFindsEntries /\ CompleteToLastSync

\* The ring implements a window that slides over the newest entries.
held == {cache[i] : i \in Cells} \ {0}
Recent == INSTANCE RecentEvents
ImplementsRecentEvents == Recent!Spec

\* "end (i.e. oldest)": the entry in the end cell is the oldest one held.
EndIsOldest == start # -1 => cache[end] = cache[start] - total + 1

\* byUserID: each user's slice has the cells of the entries that name the user,
\* each once, newest first.
SlicesAreExact ==
    (start # -1 /\ \A c \in Callers : at[c] \notin {"place", "rebuild"}) =>
        \A u \in Users : SubSeq(lists[u], 1, used[u]) = Of(u, Path(start, start - 1), cache)

\* A sync that leaves an old entry in the ring, and ends the ring where the
\* oldest one is, leaves every slice exact.
SlicesFollowEnd ==
    [][\A c \in Callers :
          (at[c] = "rebuild" /\ at'[c] # "rebuild" /\ prior[c] # start /\ EndIsOldest)
          => SlicesAreExact']_activityVars
=============================================================================
