------------------------------- MODULE Backups -------------------------------
(***************************************************************************)
(* The database over starts and stops: backups, which the daemon and the   *)
(* admins make in one directory, removing old ones first; restoring one,   *)
(* for which the process restarts; and the start itself, which puts the    *)
(* database aside, loads the backup, and copies what older versions kept   *)
(* in JSON files, once.  The process may stop between any two steps.       *)
(***************************************************************************)
EXTENDS Integers, FiniteSets

CONSTANTS Makers,      \* the daemon and requests that make a backup
          Versions,    \* commits, in whose name backups are made
          Keep,        \* keep_n_backups
          MaxTime,     \* bound: backups are named after the second they are made in
          MaxEdits,    \* bound: changes of the database
          MaxRestores, \* bound: backups restored
          MaxTroubles, \* bound: crashes and writes that fail
          None

ASSUME BackupsAssumption ==
    /\ IsFiniteSet(Versions) /\ None \notin Versions /\ Keep \in Nat
    /\ {MaxTime, MaxEdits, MaxRestores, MaxTroubles} \subseteq Nat /\ MaxTime > 0

\* The name of a file: of a backup, or of one that is none and has no date.
Name == [date : 0..MaxTime, commit : Versions \cup {None}, upload : BOOLEAN]
Foreign == [date |-> 0, commit |-> None, upload |-> FALSE]
FromString(f) == f.date > 0

\* The database: invites stand for what the migration overwrites, templates for what it
\* does not.  An edit is counted.
Missing == -2
Empty == -1
Legacy == 0
Value == Missing..MaxEdits
Database == [invites : Value, templates : Value, migrated : BOOLEAN]
Fresh == [invites |-> Missing, templates |-> Missing, migrated |-> FALSE]
\* A file whose writing was cut off.
Cut == [cut |-> TRUE]
\* makeBackup at work: it has read the directory, or is writing.
Idle == [at |-> "idle"]
Work == {Idle} \cup [at : {"removing"}, doomed : SUBSET Name, name : Name]
               \cup [at : {"writing"}, name : Name, spoilt : BOOLEAN]

VARIABLES pc,       \* where the start is: down, moved, open, copying, copied, serving
          version,  \* the commit that runs
          db, aside,
          files,    \* the directory: each file that is there, and what it holds
          pending,  \* LOADBAK
          maker,    \* each makeBackup at work
          now, edits, restores, troubles,
          keepPreviousVersions,
          last,     \* properties only: the database users last saw
          botched   \* properties only: a backup was restored that was cut off

disk == <<db, aside, files>>
bounds == <<edits, restores, troubles>>
vars == <<pc, version, disk, pending, maker, now, bounds, keepPreviousVersions, last, botched>>

Init == /\ pc = "down" /\ version \in Versions
        /\ db = Fresh /\ aside = {} /\ files = [f \in {Foreign} |-> Cut]
        /\ pending = None /\ maker = [m \in Makers |-> Idle]
        /\ now = 1 /\ edits = 0 /\ restores = 0 /\ troubles = 0
        /\ keepPreviousVersions \in BOOLEAN
        /\ last = Fresh /\ botched = FALSE

Put(f, content) == [g \in DOMAIN files \cup {f} |-> IF g = f THEN content ELSE files[g]]
Without(f) == [g \in DOMAIN files \ {f} |-> files[g]]
Trouble == troubles < MaxTroubles /\ troubles' = troubles + 1

-----------------------------------------------------------------------------
(* makeBackup *)

Newer(f, S) == {g \in S : g.commit = f.commit /\ g.date > f.date}
Older(f, S) == {g \in S : g.date < f.date}

\* What is to go: so many of the oldest that with the new one Keep are left.  The last one
\* of a version stays where they are kept: those before it in the list have gone by then.
\* Mutant: the last one of a version is not looked for.
DoomedByAge(S) ==
    LET backups == {f \in S : FromString(f)}
        toDelete == Cardinality(backups) + 1 - Keep
    IN IF toDelete > Cardinality(backups) THEN {}
       ELSE {f \in backups : Cardinality(Older(f, backups)) < toDelete}

Doomed(S) ==
    LET backups == {f \in S : FromString(f)}
        toDelete == Cardinality(backups) + 1 - Keep
    IN IF toDelete > Cardinality(backups) THEN {}
       ELSE {f \in backups : /\ Cardinality(Older(f, backups)) < toDelete
                             /\ keepPreviousVersions => Newer(f, backups) # {}}

\* The directory is read, by the daemon or by a request.
MakeBackup(m) ==
    /\ pc = "serving" /\ maker[m] = Idle
    /\ maker' = [maker EXCEPT ![m] =
                   [at |-> "removing", doomed |-> Doomed(DOMAIN files),
                    name |-> [date |-> now, commit |-> version, upload |-> FALSE]]]
    /\ UNCHANGED <<pc, version, disk, pending, now, bounds, keepPreviousVersions, last, botched>>

\* The oldest goes first; if it is not there any more no backup is made.
RemoveOld(m) ==
    /\ maker[m].at = "removing"
    /\ \E f \in maker[m].doomed :
          /\ Older(f, maker[m].doomed) = {}
          /\ IF f \in DOMAIN files
             THEN /\ files' = Without(f)
                  /\ maker' = [maker EXCEPT ![m].doomed = @ \ {f}]
             ELSE maker' = [maker EXCEPT ![m] = Idle] /\ UNCHANGED files
    /\ UNCHANGED <<pc, version, db, aside, pending, now, bounds, keepPreviousVersions, last,
                   botched>>

\* The file is created, or emptied if there is one of that name, and written; another that
\* is written at the same time under this name spoils it.
Create(m) ==
    /\ maker[m].at = "removing" /\ maker[m].doomed = {}
    /\ files' = Put(maker[m].name, Cut)
    /\ maker' = [n \in Makers |->
                   IF n = m THEN [at |-> "writing", name |-> maker[m].name,
                                  spoilt |-> \E o \in Makers \ {m} :
                                     maker[o].at = "writing" /\ maker[o].name = maker[m].name]
                   ELSE IF maker[n].at = "writing" /\ maker[n].name = maker[m].name
                        THEN [maker[n] EXCEPT !.spoilt = TRUE] ELSE maker[n]]
    /\ UNCHANGED <<pc, version, db, aside, pending, now, bounds, keepPreviousVersions, last,
                   botched>>

\* One of which a writer was cut off is cut off for good.
Write(m) ==
    /\ maker[m].at = "writing"
    /\ \/ /\ files' = IF maker[m].spoilt \/ maker[m].name \notin DOMAIN files THEN files
                      ELSE Put(maker[m].name, db)
          /\ UNCHANGED troubles
       \/ Trouble /\ UNCHANGED files
    /\ maker' = [maker EXCEPT ![m] = Idle]
    /\ UNCHANGED <<pc, version, db, aside, pending, now, edits, restores, keepPreviousVersions,
                   last, botched>>

-----------------------------------------------------------------------------
(* Restoring: the process is told which, and started again *)

\* A backup's writer is not waited for.
Stop == /\ maker' = [m \in Makers |-> Idle] /\ pc' = "down"

RestoreLocalBackup(f) ==
    /\ pc = "serving" /\ f \in DOMAIN files /\ FromString(f)
    /\ restores < MaxRestores /\ restores' = restores + 1
    /\ pending' = f /\ Stop
    /\ UNCHANGED <<version, disk, now, edits, troubles, keepPreviousVersions, last, botched>>

\* That the upload could not be saved is not looked at.
RestoreBackup(content) ==
    LET f == [date |-> now, commit |-> None, upload |-> TRUE]
    IN /\ pc = "serving" /\ restores < MaxRestores /\ restores' = restores + 1
       /\ \/ files' = Put(f, content) /\ UNCHANGED troubles
          \/ files' = Put(f, Cut) /\ Trouble
       /\ pending' = f /\ Stop
       /\ UNCHANGED <<version, db, aside, now, edits, keepPreviousVersions, last, botched>>

\* A stop, by a crash or an admin: what is pending is lost with the process, and another
\* version may be started next.
Crash == /\ pc # "down" \/ pending # None
         /\ Trouble /\ Stop
         /\ pending' = None /\ version' \in Versions
         /\ UNCHANGED <<disk, now, edits, restores, keepPreviousVersions, last, botched>>

-----------------------------------------------------------------------------
(* The start *)

\* Mutant: the database is deleted.
SetAsideNot == aside

SetAside == aside \cup {db}

\* loadPendingBackup: the database is set aside, ...
MoveAside ==
    /\ pc = "down" /\ pending # None
    /\ aside' = SetAside /\ db' = Fresh /\ pc' = "moved"
    /\ UNCHANGED <<version, files, pending, maker, now, bounds, keepPreviousVersions, last,
                   botched>>

\* The backup is tried once.
\* Mutant: until it can be loaded.
StillPending == pending

NowPending == None

\* ... and the backup is loaded into a new one.  If it cannot be, the process ends: the
\* next start finds the new one.  One that was cut off may be loaded all the same.
Load ==
    /\ pc = "moved" /\ pending' = NowPending
    /\ \/ /\ pending \in DOMAIN files /\ files[pending] # Cut
          /\ db' = files[pending] /\ pc' = "open" /\ UNCHANGED botched
       \/ /\ pending \in DOMAIN files /\ files[pending] = Cut
          /\ \E done \in BOOLEAN : db' = [Fresh EXCEPT !.migrated = done]
          /\ pc' = "open" /\ botched' = TRUE
       \/ /\ pending \notin DOMAIN files \/ files[pending] = Cut
          /\ pc' = "down" /\ UNCHANGED <<db, botched>>
    /\ UNCHANGED <<version, aside, files, maker, now, bounds, keepPreviousVersions, last>>

Connect == /\ pc = "down" /\ pending = None /\ pc' = "open"
           /\ UNCHANGED <<version, disk, pending, maker, now, bounds, keepPreviousVersions, last,
                          botched>>

\* migrateToBadger: unless it was done, invites are copied, ...
CopyLegacy == /\ pc = "open" /\ ~db.migrated
              /\ db' = [db EXCEPT !.invites = Legacy] /\ pc' = "copying"
              /\ UNCHANGED <<version, aside, files, pending, maker, now, bounds,
                             keepPreviousVersions, last, botched>>

\* ... and templates where there are none, ...
CopyContent == /\ pc = "copying" /\ pc' = "copied"
               /\ db' = [db EXCEPT !.templates = IF @ = Missing THEN Legacy ELSE @]
               /\ UNCHANGED <<version, aside, files, pending, maker, now, bounds,
                              keepPreviousVersions, last, botched>>

\* ... which is then noted.
\* Mutant: it is not.
MarkNot == db

MarkMigrated == [db EXCEPT !.migrated = TRUE]

\* Templates that are still missing are stored empty (intialiseCustomContent).
Filled(d) == [d EXCEPT !.templates = IF @ = Missing THEN Empty ELSE @]

ServesFrom == IF db.migrated THEN {"open"} ELSE {"copied"}

Serve == /\ pc \in ServesFrom /\ pc' = "serving"
         /\ db' = Filled(IF pc = "open" THEN db ELSE MarkMigrated)
         /\ last' = db'
         /\ UNCHANGED <<version, aside, files, pending, maker, now, bounds, keepPreviousVersions,
                        botched>>

-----------------------------------------------------------------------------
(* Users, time *)

Edit(field) ==
    /\ pc = "serving" /\ edits < MaxEdits /\ edits' = edits + 1
    /\ db' = [db EXCEPT ![field] = edits + 1] /\ last' = db'
    /\ UNCHANGED <<pc, version, aside, files, pending, maker, now, restores, troubles,
                   keepPreviousVersions, botched>>

\* Bound: seconds in which nothing is named after them are left out.
Tick == /\ \E f \in DOMAIN files : f.date = now
        /\ now < MaxTime /\ now' = now + 1
        /\ UNCHANGED <<pc, version, disk, pending, maker, bounds, keepPreviousVersions, last,
                       botched>>

Start == MoveAside \/ Load \/ Connect \/ CopyLegacy \/ CopyContent \/ Serve
Next == \/ Start \/ Crash \/ Tick
        \/ \E m \in Makers : MakeBackup(m) \/ RemoveOld(m) \/ Create(m) \/ Write(m)
        \/ \E f \in DOMAIN files : \/ RestoreLocalBackup(f)
                                   \/ files[f] # Cut /\ RestoreBackup(files[f])
        \/ \E field \in {"invites", "templates"} : Edit(field)

Spec == Init /\ [][Next]_vars
FairSpec == Spec /\ WF_vars(Start)

-----------------------------------------------------------------------------
(* Properties *)

\* Everything holds what it is declared to hold; what is served has been migrated.
TypeOK ==
    /\ pc \in {"down", "moved", "open", "copying", "copied", "serving"}
    /\ version \in Versions /\ db \in Database /\ aside \subseteq Database
    /\ DOMAIN files \subseteq Name /\ files \in [DOMAIN files -> Database \cup {Cut}]
    /\ pending \in Name \cup {None} /\ maker \in [Makers -> Work]
    /\ pc # "serving" => \A m \in Makers : maker[m] = Idle
    /\ now \in 1..MaxTime /\ edits \in 0..MaxEdits /\ botched \in BOOLEAN
    /\ last \in Database /\ (pc = "serving" => db.migrated /\ db = last)

\* What users last saw is in the database or was set aside, however often a restore was
\* interrupted or failed and whatever was started after it.
NothingServedIsLost == last = Fresh \/ last = db \/ last \in aside

\* What is served has all of what was in the JSON files, or what became of it, unless a
\* backup was restored that was cut off.
LegacyArrives == pc = "serving" /\ ~botched => db.invites >= Legacy /\ db.templates >= Legacy

\* However starts, restores and the copying of JSON files are interrupted, the database has
\* what users last saw, or that was set aside, and nothing from the files is missing.
SoundDatabase == TypeOK /\ NothingServedIsLost /\ LegacyArrives

\* Only backups are removed, and where versions are kept one that is newer and of the same
\* version stays, also when two remove at once.
NewestOfVersionStays ==
    [][\A f \in DOMAIN files \ DOMAIN files' :
         FromString(f) /\ (keepPreviousVersions => Newer(f, DOMAIN files') # {})]_vars

\* However a start is interrupted, and whatever could not be restored, one serves in the
\* end: a backup that cannot be loaded is not tried for ever.
StartsServe == pc = "down" ~> pc = "serving"
=============================================================================
