---------------------------- MODULE StoresProofs ----------------------------
(***************************************************************************)
(* Theorems about what is kept.  Backups: the database loses nothing over  *)
(* starts, restores and crashes.  Then ActivityCache: the ring of log      *)
(* entries is in order, indexed, and complete up to the last sync,         *)
(* implements the window of RecentEvents, and users' slices follow it.     *)
(***************************************************************************)
EXTENDS Backups, ActivityCache, FiniteSetTheorems, SequenceTheorems, WellFoundedInduction, TLAPS

\* A database that was migrated has everything of the JSON files, or what became of it; in
\* one that was not templates are missing or copied.
Whole(d) == d.invites >= Legacy /\ d.templates >= Legacy
Honest(d) == IF d.migrated THEN Whole(d) ELSE d.templates = Missing \/ d.templates >= Legacy

\* Why nothing is lost: what users saw was migrated, and only a database that was not, or
\* the one a restore has just begun, is written over at a start.
Kept ==
    /\ NothingServedIsLost
    /\ last = Fresh \/ last.migrated
    /\ pc = "moved" => db = Fresh
    /\ pc \in {"copying", "copied"} => ~db.migrated

\* Why what is served is whole: no backup is made of a database that is not.
DatabaseComplete ==
    /\ Honest(db)
    /\ pc = "copying" => db.invites >= Legacy
    /\ pc = "copied" => Whole(db)
FilesComplete == \A f \in DOMAIN files : files[f] # Cut => files[f].migrated /\ Whole(files[f])
Complete == ~botched => DatabaseComplete /\ FilesComplete

\* Why the newest stays: of what some maker is yet to remove there is always a newer one.
Covered ==
    \A m \in Makers : maker[m].at = "removing" =>
        \A f \in maker[m].doomed :
            FromString(f) /\ (keepPreviousVersions => Newer(f, DOMAIN files) # {})

IInv == TypeOK /\ Kept /\ Complete /\ Covered

-----------------------------------------------------------------------------
(* Types *)

LEMMA Numbers ==
    /\ MaxTime \in Nat \ {0} /\ MaxEdits \in Nat /\ Missing = -2 /\ Empty = -1 /\ Legacy = 0
    /\ Value = -2..MaxEdits
    /\ Fresh \in Database /\ Foreign \in Name
BY BackupsAssumption DEF Missing, Empty, Legacy, Value, Fresh, Database, Foreign, Name

LEMMA FilledIsTyped ==
    ASSUME NEW d \in Database
    PROVE  /\ Filled(d) \in Database /\ Filled(d).migrated = d.migrated
           /\ Filled(d).invites = d.invites
           /\ Filled(d).templates = IF d.templates = Missing THEN Empty ELSE d.templates
BY Numbers DEF Filled, Database

LEMMA PutIsTyped ==
    ASSUME TypeOK, NEW f \in Name, NEW content \in Database \cup {Cut}
    PROVE  /\ DOMAIN Put(f, content) = DOMAIN files \cup {f}
           /\ DOMAIN Put(f, content) \subseteq Name
           /\ Put(f, content) \in [DOMAIN Put(f, content) -> Database \cup {Cut}]
           /\ \A g \in DOMAIN Put(f, content) :
                 Put(f, content)[g] = IF g = f THEN content ELSE files[g]
BY DEF Put, TypeOK

LEMMA RemoveIsTyped ==
    ASSUME TypeOK, NEW f
    PROVE  /\ DOMAIN Without(f) = DOMAIN files \ {f}
           /\ DOMAIN Without(f) \subseteq Name
           /\ Without(f) \in [DOMAIN Without(f) -> Database \cup {Cut}]
           /\ \A g \in DOMAIN Without(f) : Without(f)[g] = files[g]
BY DEF Without, TypeOK

LEMMA NamesAreTyped ==
    ASSUME TypeOK, NEW c \in Versions \cup {None}, NEW u \in BOOLEAN
    PROVE  [date |-> now, commit |-> c, upload |-> u] \in Name
BY Numbers DEF Name, TypeOK

LEMMA DoomedIsTyped ==
    ASSUME TypeOK, NEW f \in Doomed(DOMAIN files)
    PROVE  /\ f \in Name /\ FromString(f)
           /\ keepPreviousVersions => Newer(f, DOMAIN files) # {}
BY DEF Doomed, Newer, TypeOK

LEMMA MakersAreTyped ==
    ASSUME TypeOK, NEW m \in Makers
    PROVE  /\ maker[m] \in Work
           /\ maker[m].at = "removing" => /\ maker[m].doomed \subseteq Name
                                          /\ maker[m].name \in Name
           /\ maker[m].at = "writing" => /\ maker[m].name \in Name
                                         /\ maker[m].spoilt \in BOOLEAN
           /\ maker[m].at \in {"removing", "writing"} => pc = "serving"
BY DEF TypeOK, Work, Idle

LEMMA TypeStep == ASSUME TypeOK, [Next]_vars PROVE TypeOK'
<1> USE DEF bounds, disk
<1>0. TypeOK
  OBVIOUS
<1>1. CASE UNCHANGED vars
  BY <1>0, <1>1 DEF vars, TypeOK
<1>2. ASSUME NEW m \in Makers, MakeBackup(m) PROVE TypeOK'
  <2>1. [date |-> now, commit |-> version, upload |-> FALSE] \in Name
    BY NamesAreTyped DEF TypeOK
  <2>2. Doomed(DOMAIN files) \subseteq Name
    BY DoomedIsTyped
  <2>3. [at |-> "removing", doomed |-> Doomed(DOMAIN files),
         name |-> [date |-> now, commit |-> version, upload |-> FALSE]] \in Work
    BY <2>1, <2>2 DEF Work
  <2> QED
    BY <1>0, <1>2, <2>3 DEF MakeBackup, TypeOK
<1>3. ASSUME NEW m \in Makers, RemoveOld(m) PROVE TypeOK'
  <2>1. PICK f \in maker[m].doomed :
          IF f \in DOMAIN files
          THEN files' = Without(f) /\ maker' = [maker EXCEPT ![m].doomed = @ \ {f}]
          ELSE maker' = [maker EXCEPT ![m] = Idle] /\ UNCHANGED files
    BY <1>3 DEF RemoveOld
  <2>2. maker[m] \in [at : {"removing"}, doomed : SUBSET Name, name : Name] /\ pc = "serving"
    BY <1>3, MakersAreTyped DEF RemoveOld, Work, Idle
  <2>3. [maker[m] EXCEPT !.doomed = @ \ {f}] \in Work
    BY <2>2 DEF Work
  <2>4. maker' \in [Makers -> Work]
    BY <1>0, <2>1, <2>3 DEF TypeOK, Work
  <2>5. DOMAIN files' \subseteq Name /\ files' \in [DOMAIN files' -> Database \cup {Cut}]
    <3>1. CASE files' = Without(f)
      BY <3>1, RemoveIsTyped
    <3>2. CASE UNCHANGED files
      BY <1>0, <3>2 DEF TypeOK
    <3> QED
      BY <2>1, <3>1, <3>2
  <2> QED
    BY <1>0, <1>3, <2>2, <2>4, <2>5 DEF RemoveOld, TypeOK
<1>4. ASSUME NEW m \in Makers, Create(m) PROVE TypeOK'
  <2>1. maker[m].name \in Name /\ pc = "serving"
    BY <1>4, MakersAreTyped DEF Create
  <2>2. DOMAIN files' \subseteq Name /\ files' \in [DOMAIN files' -> Database \cup {Cut}]
    BY <1>4, <2>1, PutIsTyped DEF Create
  <2>3. ASSUME NEW n \in Makers PROVE maker'[n] \in Work
    <3>1. n # m /\ maker[n].at = "writing" => [maker[n] EXCEPT !.spoilt = TRUE] \in Work
      BY MakersAreTyped DEF Work, Idle
    <3> QED
      BY <1>4, <2>1, <3>1, MakersAreTyped DEF Create, Work
  <2>4. maker' \in [Makers -> Work]
    BY <1>4, <2>3 DEF Create
  <2> QED
    BY <1>0, <1>4, <2>1, <2>2, <2>4 DEF Create, TypeOK
<1>5. ASSUME NEW m \in Makers, Write(m) PROVE TypeOK'
  <2>1. maker[m].name \in Name /\ pc = "serving"
    BY <1>5, MakersAreTyped DEF Write
  <2>2. DOMAIN files' \subseteq Name /\ files' \in [DOMAIN files' -> Database \cup {Cut}]
    <3>1. CASE files' = Put(maker[m].name, db)
      <4>1. db \in Database \cup {Cut}
        BY <1>0 DEF TypeOK
      <4> QED
        BY <2>1, <3>1, <4>1, PutIsTyped
    <3>2. CASE UNCHANGED files
      BY <1>0, <3>2 DEF TypeOK
    <3> QED
      BY <1>5, <3>1, <3>2 DEF Write
  <2>3. maker' \in [Makers -> Work]
    BY <1>0, <1>5 DEF Write, TypeOK, Work
  <2> QED
    BY <1>0, <1>5, <2>1, <2>2, <2>3 DEF Write, TypeOK
<1>6. ASSUME NEW f \in DOMAIN files, RestoreLocalBackup(f) PROVE TypeOK'
  BY <1>0, <1>6 DEF RestoreLocalBackup, Stop, TypeOK, Work
<1>7. ASSUME NEW f \in DOMAIN files, files[f] # Cut, RestoreBackup(files[f]) PROVE TypeOK'
  <2> DEFINE g == [date |-> now, commit |-> None, upload |-> TRUE]
  <2>1. g \in Name
    BY NamesAreTyped
  <2>2. DOMAIN files' \subseteq Name /\ files' \in [DOMAIN files' -> Database \cup {Cut}]
    <3>1. files[f] \in Database \cup {Cut}
      BY <1>0 DEF TypeOK
    <3>2. files' = Put(g, files[f]) \/ files' = Put(g, Cut)
      BY <1>7 DEF RestoreBackup
    <3> QED
      <4>1. ASSUME NEW c \in Database \cup {Cut}, files' = Put(g, c)
            PROVE  /\ DOMAIN files' \subseteq Name
                   /\ files' \in [DOMAIN files' -> Database \cup {Cut}]
        BY <2>1, <4>1, PutIsTyped
      <4> QED
        BY <3>1, <3>2, <4>1
  <2> QED
    BY <1>0, <1>7, <2>1, <2>2 DEF RestoreBackup, Stop, TypeOK, Work
<1>8. CASE Crash
  BY <1>0, <1>8 DEF Crash, Stop, TypeOK, Work
<1>9. CASE MoveAside
  BY <1>0, <1>9, Numbers DEF MoveAside, SetAside, TypeOK
<1>10. CASE Load
  <2>1. db' \in Database /\ pc' \in {"open", "down"}
    BY <1>0, <1>10, Numbers DEF Load, TypeOK, Database, Fresh
  <2>2. pc = "moved" /\ botched' \in BOOLEAN /\ pending' \in {None}
    BY <1>0, <1>10 DEF Load, TypeOK, NowPending
  <2> QED
    BY <1>0, <1>10, <2>1, <2>2 DEF Load, TypeOK
<1>11. CASE Connect
  BY <1>0, <1>11 DEF Connect, TypeOK
<1>12. CASE CopyLegacy
  BY <1>0, <1>12, Numbers, SMTT(30) DEF CopyLegacy, TypeOK, Database
<1>13. CASE CopyContent
  BY <1>0, <1>13, Numbers, SMTT(30) DEF CopyContent, TypeOK, Database
<1>14. CASE Serve
  <2>1. MarkMigrated \in Database /\ MarkMigrated.migrated
    BY <1>0 DEF MarkMigrated, TypeOK, Database
  <2>2. db' \in Database /\ db'.migrated /\ last' = db'
    BY <1>0, <1>14, <2>1, FilledIsTyped DEF Serve, ServesFrom, TypeOK
  <2> QED
    BY <1>0, <1>14, <2>2 DEF Serve, TypeOK
<1>15. ASSUME NEW field \in {"invites", "templates"}, Edit(field) PROVE TypeOK'
  <2>1. db' \in Database /\ db'.migrated /\ last' = db' /\ edits' \in 0..MaxEdits
    BY <1>0, <1>15, Numbers DEF Edit, TypeOK, Database
  <2> QED
    BY <1>0, <1>15, <2>1 DEF Edit, TypeOK
<1>16. CASE Tick
  BY <1>0, <1>16, Numbers DEF Tick, TypeOK
<1> QED
  BY <1>1, <1>2, <1>3, <1>4, <1>5, <1>6, <1>7, <1>8, <1>9, <1>10, <1>11, <1>12, <1>13,
     <1>14, <1>15, <1>16 DEF Next, Start
-----------------------------------------------------------------------------
(* What users saw *)

LEMMA KeptStep == ASSUME TypeOK, Kept, [Next]_vars PROVE Kept'
<1> USE DEF bounds, disk
<1>0. /\ last = Fresh \/ last = db \/ last \in aside
      /\ last = Fresh \/ last.migrated
      /\ pc = "moved" => db = Fresh
      /\ pc \in {"copying", "copied"} => ~db.migrated
      /\ db \in Database /\ last \in Database
      /\ pc = "serving" => db.migrated /\ db = last
  BY DEF Kept, NothingServedIsLost, TypeOK
<1>1. ASSUME UNCHANGED <<db, aside, last>>, pc' \in {pc, "down"} \/ pc' = "open"
      PROVE Kept'
  BY <1>0, <1>1 DEF Kept, NothingServedIsLost
<1>2. CASE UNCHANGED vars
  BY <1>1, <1>2 DEF vars
<1>3. ASSUME NEW m \in Makers, MakeBackup(m) \/ RemoveOld(m) \/ Create(m) \/ Write(m)
      PROVE Kept'
  BY <1>1, <1>3 DEF MakeBackup, RemoveOld, Create, Write
<1>4. ASSUME NEW f \in DOMAIN files, RestoreLocalBackup(f) PROVE Kept'
  BY <1>1, <1>4 DEF RestoreLocalBackup, Stop
<1>5. ASSUME NEW f \in DOMAIN files, RestoreBackup(files[f]) PROVE Kept'
  BY <1>1, <1>5 DEF RestoreBackup, Stop
<1>6. CASE Crash \/ Connect \/ Tick
  BY <1>1, <1>6 DEF Crash, Stop, Connect, Tick
<1>7. CASE MoveAside
  BY <1>0, <1>7 DEF MoveAside, SetAside, Kept, NothingServedIsLost
<1>8. CASE Load
  BY <1>0, <1>8 DEF Load, Kept, NothingServedIsLost
<1>9. CASE CopyLegacy \/ CopyContent
  <2>1. ~db.migrated /\ db'.migrated = db.migrated /\ UNCHANGED <<aside, last>>
        /\ pc' \in {"copying", "copied"}
    BY <1>0, <1>9 DEF CopyLegacy, CopyContent, Database
  <2>2. last = Fresh \/ last \in aside
    BY <1>0, <2>1
  <2> QED
    BY <1>0, <2>1, <2>2 DEF Kept, NothingServedIsLost
<1>10. CASE Serve
  <2>1. MarkMigrated \in Database /\ MarkMigrated.migrated
    BY <1>0 DEF MarkMigrated, Database
  <2>2. db'.migrated /\ last' = db' /\ pc' = "serving"
    BY <1>0, <1>10, <2>1, FilledIsTyped DEF Serve, ServesFrom
  <2> QED
    BY <2>2 DEF Kept, NothingServedIsLost
<1>11. ASSUME NEW field \in {"invites", "templates"}, Edit(field) PROVE Kept'
  <2>1. db'.migrated /\ last' = db' /\ pc' = "serving"
    BY <1>0, <1>11 DEF Edit, Database
  <2> QED
    BY <2>1 DEF Kept, NothingServedIsLost
<1> QED
  BY <1>2, <1>3, <1>4, <1>5, <1>6, <1>7, <1>8, <1>9, <1>10, <1>11 DEF Next, Start

-----------------------------------------------------------------------------
(* What came from the JSON files *)

LEMMA PutIsComplete ==
    ASSUME TypeOK, NEW f \in Name, NEW content \in Database \cup {Cut}, FilesComplete,
           content # Cut => content.migrated /\ Whole(content), files' = Put(f, content)
    PROVE  FilesComplete'
<1>1. /\ DOMAIN Put(f, content) = DOMAIN files \cup {f}
      /\ \A g \in DOMAIN Put(f, content) :
            Put(f, content)[g] = IF g = f THEN content ELSE files[g]
  BY PutIsTyped
<1>2. \A g \in DOMAIN files' :
         (g \in DOMAIN files \/ g = f) /\ files'[g] = IF g = f THEN content ELSE files[g]
  BY <1>1
<1> QED
  BY <1>2 DEF FilesComplete, Whole

LEMMA CompleteStep == ASSUME TypeOK, Kept, Complete, [Next]_vars PROVE Complete'
<1> USE DEF bounds, disk
<1>0. db \in Database /\ DOMAIN files \subseteq Name /\ botched \in BOOLEAN
      /\ files \in [DOMAIN files -> Database \cup {Cut}]
      /\ (pc = "serving" => db.migrated)
  BY DEF TypeOK
<1> SUFFICES ASSUME ~botched' PROVE DatabaseComplete' /\ FilesComplete'
  BY DEF Complete
<1>1. ~botched
  BY <1>0 DEF Next, Start, vars, MakeBackup, RemoveOld, Create, Write, RestoreLocalBackup,
     RestoreBackup, Crash, Tick, MoveAside, Load, Connect, CopyLegacy, CopyContent, Serve, Edit
<1>2. DatabaseComplete /\ FilesComplete
  BY <1>1 DEF Complete
<1>3. ASSUME UNCHANGED db, pc' = pc \/ pc' \notin {"copying", "copied"} PROVE DatabaseComplete'
  BY <1>2, <1>3 DEF DatabaseComplete, Honest, Whole
<1>4. ASSUME UNCHANGED files PROVE FilesComplete'
  BY <1>2, <1>4 DEF FilesComplete, Whole
<1>5. CASE UNCHANGED vars
  BY <1>3, <1>4, <1>5 DEF vars
<1>6. ASSUME NEW m \in Makers, MakeBackup(m) PROVE DatabaseComplete' /\ FilesComplete'
  BY <1>3, <1>4, <1>6 DEF MakeBackup
<1>7. ASSUME NEW m \in Makers, RemoveOld(m) PROVE DatabaseComplete' /\ FilesComplete'
  <2>1. (\E f \in DOMAIN files : files' = Without(f)) \/ UNCHANGED files
    BY <1>7 DEF RemoveOld
  <2>2. FilesComplete'
    <3>1. ASSUME NEW f \in DOMAIN files, files' = Without(f) PROVE FilesComplete'
      <4>1. \A g \in DOMAIN files' : g \in DOMAIN files /\ files'[g] = files[g]
        BY <3>1, RemoveIsTyped
      <4> QED
        BY <1>2, <4>1 DEF FilesComplete, Whole
    <3> QED
      BY <1>4, <2>1, <3>1
  <2> QED
    BY <1>3, <1>7, <2>2 DEF RemoveOld
<1>8. ASSUME NEW m \in Makers, Create(m) PROVE DatabaseComplete' /\ FilesComplete'
  <2>1. maker[m].name \in Name /\ files' = Put(maker[m].name, Cut)
    BY <1>8, MakersAreTyped DEF Create
  <2>2. FilesComplete'
    BY <1>2, <2>1, PutIsComplete
  <2> QED
    BY <1>3, <1>8, <2>2 DEF Create
<1>9. ASSUME NEW m \in Makers, Write(m) PROVE DatabaseComplete' /\ FilesComplete'
  <2>1. maker[m].name \in Name /\ db.migrated /\ Whole(db)
    BY <1>0, <1>2, <1>9, MakersAreTyped DEF Write, DatabaseComplete, Honest
  <2>2. files' = Put(maker[m].name, db) \/ UNCHANGED files
    BY <1>9 DEF Write
  <2>3. ASSUME files' = Put(maker[m].name, db) PROVE FilesComplete'
    <3>1. db \in Database \cup {Cut}
      BY <1>0
    <3> QED
      BY <1>2, <2>1, <2>3, <3>1, PutIsComplete
  <2>4. FilesComplete'
    BY <1>4, <2>2, <2>3
  <2> QED
    BY <1>3, <1>9, <2>4 DEF Write
<1>10. ASSUME NEW f \in DOMAIN files, RestoreLocalBackup(f)
       PROVE DatabaseComplete' /\ FilesComplete'
  BY <1>3, <1>4, <1>10 DEF RestoreLocalBackup, Stop
<1>11. ASSUME NEW f \in DOMAIN files, files[f] # Cut, RestoreBackup(files[f])
       PROVE DatabaseComplete' /\ FilesComplete'
  <2> DEFINE g == [date |-> now, commit |-> None, upload |-> TRUE]
  <2>1. g \in Name
    BY NamesAreTyped
  <2>2. files[f] \in Database \cup {Cut} /\ files[f].migrated /\ Whole(files[f])
    BY <1>0, <1>2, <1>11 DEF FilesComplete
  <2>3. files' = Put(g, files[f]) \/ files' = Put(g, Cut)
    BY <1>11 DEF RestoreBackup
  <2>4. ASSUME files' = Put(g, files[f]) PROVE FilesComplete'
    BY <1>2, <2>1, <2>2, <2>4, PutIsComplete
  <2>5. ASSUME files' = Put(g, Cut) PROVE FilesComplete'
    BY <1>2, <2>1, <2>5, PutIsComplete
  <2>6. DatabaseComplete'
    BY <1>3, <1>11 DEF RestoreBackup, Stop
  <2> QED
    BY <2>3, <2>4, <2>5, <2>6
<1>12. CASE Crash \/ Connect \/ Tick
  BY <1>3, <1>4, <1>12 DEF Crash, Stop, Connect, Tick
<1>13. CASE MoveAside
  <2>1. Honest(Fresh)
    BY Numbers DEF Honest, Fresh
  <2> QED
    BY <1>4, <1>13, <2>1 DEF MoveAside, DatabaseComplete, Honest, Whole
<1>14. CASE Load
  <2>1. CASE pending \in DOMAIN files /\ files[pending] # Cut /\ db' = files[pending]
             /\ pc' = "open"
    BY <1>2, <1>4, <1>14, <2>1 DEF Load, DatabaseComplete, FilesComplete, Honest, Whole
  <2>2. CASE pc' = "down" /\ UNCHANGED db
    BY <1>3, <1>4, <1>14, <2>2 DEF Load
  <2> QED
    BY <1>14, <2>1, <2>2 DEF Load
<1>15. CASE CopyLegacy
  <2>1. db'.invites >= Legacy /\ ~db'.migrated /\ db'.templates = db.templates
    BY <1>0, <1>15, Numbers DEF CopyLegacy, Database
  <2> QED
    BY <1>2, <1>4, <1>15, <2>1 DEF CopyLegacy, DatabaseComplete, Honest, Whole
<1>16. CASE CopyContent
  <2>1. ~db.migrated
    BY <1>16 DEF Kept, CopyContent
  <2>2. db'.invites >= Legacy /\ ~db'.migrated /\ db'.templates >= Legacy
    BY <1>0, <1>2, <1>16, <2>1, Numbers DEF CopyContent, Database, DatabaseComplete, Honest
  <2> QED
    BY <1>4, <1>16, <2>2 DEF CopyContent, DatabaseComplete, Honest, Whole
<1>17. CASE Serve
  <2>1. MarkMigrated \in Database /\ MarkMigrated.migrated
        /\ MarkMigrated.invites = db.invites /\ MarkMigrated.templates = db.templates
    BY <1>0 DEF MarkMigrated, Database
  <2>2. Whole(db)
    BY <1>2, <1>17 DEF Serve, ServesFrom, DatabaseComplete, Honest
  <2>3. db.templates # Missing
    BY <2>2, Numbers DEF Whole
  <2>4. db'.migrated /\ db'.invites = db.invites /\ db'.templates = db.templates
        /\ pc' = "serving"
    BY <1>0, <1>17, <2>1, <2>3, FilledIsTyped DEF Serve, ServesFrom
  <2> QED
    BY <1>4, <1>17, <2>2, <2>4 DEF Serve, DatabaseComplete, Honest, Whole
<1>18. ASSUME NEW field \in {"invites", "templates"}, Edit(field)
       PROVE DatabaseComplete' /\ FilesComplete'
  <2>1. Whole(db) /\ pc' = "serving"
    BY <1>0, <1>2, <1>18 DEF Edit, DatabaseComplete, Honest
  <2>2. db'.migrated /\ Whole(db)'
    BY <1>0, <1>18, <2>1, Numbers DEF Edit, Database, Whole, TypeOK
  <2> QED
    BY <1>4, <1>18, <2>1, <2>2 DEF Edit, DatabaseComplete, Honest
<1> QED
  BY <1>5, <1>6, <1>7, <1>8, <1>9, <1>10, <1>11, <1>12, <1>13, <1>14, <1>15, <1>16, <1>17,
     <1>18 DEF Next, Start
-----------------------------------------------------------------------------
(* What is removed *)

\* A newer one of the same version may go, if one that is newer than that stays.
LEMMA NewerStays ==
    ASSUME NEW S \in SUBSET Name, NEW f \in Name, NEW g \in Name,
           Newer(f, S) # {}, g \in Newer(f, S) => Newer(g, S) # {}
    PROVE  Newer(f, S \ {g}) # {}
<1> USE BackupsAssumption DEF Newer, Name
<1>1. CASE g \in Newer(f, S)
  <2>1. PICK h \in S : h.commit = g.commit /\ h.date > g.date
    BY <1>1
  <2>2. h.commit = f.commit /\ h.date > f.date /\ h # g
    BY <1>1, <2>1
  <2> QED
    BY <2>1, <2>2
<1>2. CASE g \notin Newer(f, S)
  BY <1>2
<1> QED
  BY <1>1, <1>2

LEMMA NewerGrows ==
    ASSUME NEW S, NEW T, S \subseteq T, NEW f
    PROVE  Newer(f, S) \subseteq Newer(f, T)
BY DEF Newer

LEMMA CoveredStep == ASSUME TypeOK, Covered, [Next]_vars PROVE Covered'
<1> USE DEF bounds, disk
<1>1. UNCHANGED keepPreviousVersions
  BY DEF Next, Start, vars, MakeBackup, RemoveOld, Create, Write, RestoreLocalBackup,
     RestoreBackup, Crash, Tick, MoveAside, Load, Connect, CopyLegacy, CopyContent, Serve, Edit
<1>2. ASSUME DOMAIN files \subseteq DOMAIN files',
             \A m \in Makers : maker'[m].at = "removing" => maker'[m] = maker[m]
      PROVE  Covered'
  <2>1. \A f : Newer(f, DOMAIN files) \subseteq Newer(f, DOMAIN files')
    BY <1>2, NewerGrows
  <2> QED
    BY <1>1, <1>2, <2>1 DEF Covered, FromString
<1>3. CASE UNCHANGED <<maker, files>>
  BY <1>2, <1>3
<1>4. ASSUME NEW m \in Makers, MakeBackup(m) PROVE Covered'
  <2>1. UNCHANGED files /\ \A n \in Makers : maker'[n].at = "removing" =>
          IF n = m THEN maker'[n].doomed = Doomed(DOMAIN files) ELSE maker'[n] = maker[n]
    BY <1>4 DEF MakeBackup, TypeOK
  <2> QED
    BY <1>1, <2>1, DoomedIsTyped DEF Covered, FromString
<1>5. ASSUME NEW m \in Makers, RemoveOld(m) PROVE Covered'
  <2>1. PICK g \in maker[m].doomed :
          IF g \in DOMAIN files
          THEN files' = Without(g) /\ maker' = [maker EXCEPT ![m].doomed = @ \ {g}]
          ELSE maker' = [maker EXCEPT ![m] = Idle] /\ UNCHANGED files
    BY <1>5 DEF RemoveOld
  <2>2. maker[m].at = "removing" /\ maker[m].doomed \subseteq Name
    BY <1>5, MakersAreTyped DEF RemoveOld
  <2>3. ASSUME g \notin DOMAIN files PROVE Covered'
    BY <1>2, <2>1, <2>3 DEF TypeOK, Idle
  <2>4. ASSUME g \in DOMAIN files PROVE Covered'
    <3>1. DOMAIN files' = DOMAIN files \ {g}
      BY <2>1, <2>4, RemoveIsTyped
    <3>2. ASSUME NEW n \in Makers, maker'[n].at = "removing", NEW f \in maker'[n].doomed
          PROVE  maker[n].at = "removing" /\ f \in maker[n].doomed /\ f \in Name
      <4>1. maker[m] \in [at : {"removing"}, doomed : SUBSET Name, name : Name]
        BY <2>2, MakersAreTyped DEF Work, Idle
      <4>2. IF n = m THEN maker'[m] = [maker[m] EXCEPT !.doomed = @ \ {g}]
                     ELSE maker'[n] = maker[n]
        BY <2>1, <2>4 DEF TypeOK
      <4>3. maker[n].at = "removing" /\ f \in maker[n].doomed
        BY <3>2, <4>1, <4>2
      <4> QED
        BY <4>3, MakersAreTyped
    <3>3. ASSUME NEW n \in Makers, maker'[n].at = "removing", NEW f \in maker'[n].doomed
          PROVE  FromString(f) /\ (keepPreviousVersions => Newer(f, DOMAIN files') # {})
      <4>1. FromString(f) /\ (keepPreviousVersions => Newer(f, DOMAIN files) # {})
        BY <3>2, <3>3 DEF Covered
      <4>2. keepPreviousVersions => Newer(g, DOMAIN files) # {}
        BY <2>2 DEF Covered
      <4>3. DOMAIN files \in SUBSET Name /\ f \in Name /\ g \in Name
        BY <2>2, <3>2, <3>3 DEF TypeOK
      <4> QED
        BY <3>1, <4>1, <4>2, <4>3, NewerStays
    <3> QED
      BY <1>1, <3>3 DEF Covered, FromString
  <2> QED
    BY <2>3, <2>4
<1>6. ASSUME NEW m \in Makers, Create(m) PROVE Covered'
  <2>2. DOMAIN files \subseteq DOMAIN files'
    BY <1>6 DEF Create, Put
  <2>3. \A n \in Makers : maker'[n].at = "removing" => maker'[n] = maker[n]
    BY <1>6, MakersAreTyped DEF Create, Work, Idle
  <2> QED
    BY <1>2, <2>2, <2>3
<1>7. ASSUME NEW m \in Makers, Write(m) PROVE Covered'
  <2>1. DOMAIN files \subseteq DOMAIN files'
    BY <1>7, MakersAreTyped DEF Write, Put
  <2>2. \A n \in Makers : maker'[n].at = "removing" => maker'[n] = maker[n]
    BY <1>7 DEF Write, TypeOK, Idle
  <2> QED
    BY <1>2, <2>1, <2>2
<1>8. ASSUME NEW f \in DOMAIN files, RestoreLocalBackup(f) PROVE Covered'
  BY <1>2, <1>8 DEF RestoreLocalBackup, Stop, Idle
<1>9. ASSUME NEW f \in DOMAIN files, RestoreBackup(files[f]) PROVE Covered'
  BY <1>2, <1>9 DEF RestoreBackup, Stop, Idle, Put
<1>10. CASE Crash
  BY <1>2, <1>10 DEF Crash, Stop, Idle
<1> QED
  BY <1>3, <1>4, <1>5, <1>6, <1>7, <1>8, <1>9, <1>10 DEF Next, Start, vars, Tick, MoveAside,
     Load, Connect, CopyLegacy, CopyContent, Serve, Edit

-----------------------------------------------------------------------------
(* Theorems *)

LEMMA Inductive == Spec => []IInv
<1>1. Init => IInv
  <2>1. Init => TypeOK
    <3> SUFFICES ASSUME Init PROVE TypeOK
      OBVIOUS
    <3>1. /\ DOMAIN files = {Foreign} /\ files \in [DOMAIN files -> Database \cup {Cut}]
          /\ db \in Database /\ last \in Database /\ DOMAIN files \subseteq Name
      BY Numbers DEF Init
    <3>2. maker \in [Makers -> Work] /\ \A m \in Makers : maker[m] = Idle
      BY DEF Init, Work
    <3>3. now \in 1..MaxTime /\ edits \in 0..MaxEdits
      BY Numbers DEF Init
    <3>4. botched \in BOOLEAN
      BY Zenon DEF Init
    <3>5. pc = "down" /\ version \in Versions /\ aside = {} /\ pending = None
      BY DEF Init
    <3> QED
      BY <3>1, <3>2, <3>3, <3>4, <3>5 DEF TypeOK
  <2>2. Init => Kept
    BY DEF Init, Kept, NothingServedIsLost
  <2>3. Init => Complete
    BY Numbers DEF Init, Complete, DatabaseComplete, FilesComplete, Honest, Fresh
  <2>4. Init => Covered
    BY DEF Init, Covered, Idle
  <2> QED
    BY <2>1, <2>2, <2>3, <2>4 DEF IInv
<1>2. IInv /\ [Next]_vars => IInv'
  BY TypeStep, KeptStep, CompleteStep, CoveredStep DEF IInv
<1> QED
  BY <1>1, <1>2, PTL DEF Spec

\* For any makers, versions and bounds, what users last saw is in the database or was set
\* aside, and nothing from the JSON files is missing (backups.go loadPendingBackup,
\* migrations.go migrateToBadger), unless a backup was restored that was cut off.
THEOREM DatabaseIsSound == Spec => []SoundDatabase
<1>1. Kept => NothingServedIsLost
  BY DEF Kept
<1>2. TypeOK /\ Complete => LegacyArrives
  BY DEF TypeOK, Complete, DatabaseComplete, Honest, Whole, LegacyArrives
<1>3. IInv => SoundDatabase
  BY <1>1, <1>2 DEF IInv, SoundDatabase
<1> QED
  BY <1>3, Inductive, PTL

\* For any number of makers of backups, whatever each removes of what it once listed, the
\* newest of a version stays where versions are kept (backups.go makeBackup).
THEOREM NewestStays == Spec => NewestOfVersionStays
<1> DEFINE Stays == \A f \in DOMAIN files \ DOMAIN files' :
                       FromString(f) /\ (keepPreviousVersions => Newer(f, DOMAIN files') # {})
<1>1. ASSUME IInv, [Next]_vars PROVE [Stays]_vars
  <2> USE DEF bounds, disk
  <2>0. TypeOK /\ Covered
    BY <1>1 DEF IInv
  <2>1. ASSUME NEW m \in Makers, RemoveOld(m) PROVE Stays
    <3>1. PICK g \in maker[m].doomed : UNCHANGED files \/ files' = Without(g)
      BY <2>1 DEF RemoveOld
    <3>2. maker[m].at = "removing" /\ maker[m].doomed \subseteq Name
      BY <2>0, <2>1, MakersAreTyped DEF RemoveOld
    <3>3. FromString(g) /\ (keepPreviousVersions => Newer(g, DOMAIN files) # {})
      BY <2>0, <3>2 DEF Covered
    <3>4. keepPreviousVersions => Newer(g, DOMAIN files \ {g}) # {}
      BY <2>0, <3>2, <3>3, NewerStays DEF TypeOK
    <3> QED
      BY <2>0, <3>1, <3>3, <3>4, RemoveIsTyped
  <2>2. ASSUME NEW m \in Makers, MakeBackup(m) \/ Create(m) \/ Write(m)
        PROVE DOMAIN files \subseteq DOMAIN files'
    BY <2>2 DEF MakeBackup, Create, Write, Put
  <2>3. ASSUME NEW f \in DOMAIN files, RestoreLocalBackup(f) \/ RestoreBackup(files[f])
        PROVE DOMAIN files \subseteq DOMAIN files'
    BY <2>3 DEF RestoreLocalBackup, RestoreBackup, Put
  <2>4. CASE Start \/ Crash \/ Tick \/ UNCHANGED vars
    BY <2>4 DEF Start, Crash, Tick, vars, MoveAside, Load, Connect, CopyLegacy, CopyContent, Serve
  <2>5. ASSUME NEW field \in {"invites", "templates"}, Edit(field) PROVE UNCHANGED files
    BY <2>5 DEF Edit
  <2> QED
    BY <1>1, <2>1, <2>2, <2>3, <2>4, <2>5 DEF Next
<1> QED
  BY <1>1, Inductive, PTL DEF Spec, NewestOfVersionStays
-----------------------------------------------------------------------------
(* ActivityCache: why the ring is sound *)

\* One caller syncs at a time, and the flag is up while it does.
Syncing == {"query", "wipe", "place", "rebuild", "yield", "finish"}
OneSyncs ==
    /\ \A c, d \in Callers : at[c] \in Syncing /\ at[d] \in Syncing => c = d
    /\ \A c \in Callers : at[c] \in Syncing => syncing

\* The ring has the newest entries up to one, as many as there are or have a cell.
Least(m, n) == IF m < n THEN m ELSE n
RingIsFull ==
    /\ newest <= logged
    /\ start # -1 => newest >= 1 /\ total = Least(newest, Limit)

\* What was sent and is new goes on where the ring ends, or is more than the ring holds.
Sent(c) ==
    LET new == items[c]
    IN  /\ Len(new) \in 1..Limit
        /\ \A k \in 1..Len(new) : new[k] = new[1] - k + 1
        /\ new[1] \in thisSync[c]..logged
        /\ \/ new[1] - Len(new) = newest
           \/ Len(new) = Limit /\ new[1] - Limit >= newest

\* The times of syncs are not ahead of what the ring has, or will have.
TimesOf(c) ==
    /\ at[c] = "query" => thisSync[c] <= logged
    /\ at[c] \in {"wipe", "place"} => Sent(c)
    /\ at[c] \in {"rebuild", "yield", "finish"} => thisSync[c] <= newest
Times ==
    /\ lastSync <= newest /\ lastYieldingSync <= newest
    /\ \A c \in Callers : TimesOf(c)

\* What a caller looks up is an entry or a list of which it has no more than is there.
Reads(c) ==
    /\ at[c] # "idle" => looks[c] \in Users \cup Entries
    /\ at[c] = "lookup" => IF looks[c] \in Users THEN found[c] \in 0..Len(lists[looks[c]])
                           ELSE found[c] \in Cells \cup {Nil}

\* What is kept for each caller.
Domains == DOMAIN items = Callers /\ DOMAIN found = Callers /\ DOMAIN result = Callers

CacheIsSound ==
    /\ ActivityTypeOK /\ Domains /\ RingIsInOrder /\ IndexFindsEntries
    /\ OneSyncs /\ RingIsFull /\ Times /\ \A c \in Callers : Reads(c)

-----------------------------------------------------------------------------
(* Going round the ring *)

LEMMA Around ==
    ASSUME NEW a \in Int
    PROVE  /\ a % Limit \in Cells
           /\ 0 <= a /\ a < Limit => a % Limit = a
           /\ Limit <= a /\ a < 2 * Limit => a % Limit = a - Limit
           /\ -Limit <= a /\ a < 0 => a % Limit = a + Limit
<1>1. Limit \in Nat \ {0}
  BY ActivityCacheAssumption
<1>2. a % Limit \in Cells
  BY <1>1 DEF Cells
<1>3. 0 <= a /\ a < Limit => a % Limit = a
  BY <1>1
<1>4. Limit <= a /\ a < 2 * Limit => a % Limit = a - Limit
  BY <1>1
<1>5. -Limit <= a /\ a < 0 => a % Limit = a + Limit
  BY <1>1
<1> QED
  BY <1>2, <1>3, <1>4, <1>5

LEMMA PathIsPath ==
    ASSUME NEW from \in Int, NEW to \in Int
    PROVE  /\ Path(from, to) \in Seq(Cells)
           /\ Len(Path(from, to)) = ((to - from) % Limit) + 1
           /\ \A k \in 1..Len(Path(from, to)) : Path(from, to)[k] = (from + k - 1) % Limit
<1> DEFINE n == ((to - from) % Limit) + 1
<1>1. n \in Nat
  BY Around DEF Cells
<1>2. \A k \in 1..n : (from + k - 1) % Limit \in Cells
  BY Around, <1>1
<1>3. Path(from, to) = [k \in 1..n |-> (from + k - 1) % Limit]
  BY DEF Path
<1> HIDE DEF n
<1>4. Path(from, to) \in Seq(Cells) /\ Len(Path(from, to)) = n
  BY <1>1, <1>2, <1>3, IsASeq
<1> QED
  BY <1>3, <1>4 DEF n

-----------------------------------------------------------------------------
(* Slices *)

Less == {ss \in Nat \X Nat : ss[1] < ss[2]}
LEMMA LessIsWellFounded == IsWellFoundedOn(Less, Nat)
BY NatLessThanWellFounded DEF OpToRel, Less

\* A set of naturals that is not empty has a least one.
LEMMA LeastOf == ASSUME NEW S \in SUBSET Nat, S # {} PROVE \E x \in S : \A y \in S : x <= y
<1>1. PICK x \in S : \A y \in S : <<y, x>> \notin Less
  BY LessIsWellFounded, WFMin
<1>2. \A y \in S : x <= y
  <2> SUFFICES ASSUME NEW y \in S, y < x PROVE FALSE
    OBVIOUS
  <2>1. <<y, x>> \in Less
    BY DEF Less
  <2> QED
    BY <1>1, <2>1
<1> QED
  BY <1>2

Names(u, i, content, who) == content[i] # 0 /\ who[content[i]] = u
Grown(g, n, u, path, content, who) ==
    IF Names(u, path[n], content, who) THEN Append(g[n - 1], path[n]) ELSE g[n - 1]
UpTo(g, m, u, path, content, who) ==
    g = [n \in 0..m |-> IF n = 0 THEN <<>> ELSE Grown(g, n, u, path, content, who)]

LEMMA UpToExists ==
    ASSUME NEW u, NEW path, NEW content, NEW who, NEW m \in Nat
    PROVE  \E g : UpTo(g, m, u, path, content, who)
<1> DEFINE Bad == {k \in Nat : ~\E g : UpTo(g, k, u, path, content, who)}
<1>1. SUFFICES Bad = {}
  OBVIOUS
<1>2. SUFFICES ASSUME Bad # {} PROVE FALSE
  OBVIOUS
<1>3. PICK k \in Bad : \A j \in Bad : k <= j
  BY <1>2, LeastOf
<1>4. CASE k = 0
  <2>1. UpTo([n \in 0..0 |-> <<>>], 0, u, path, content, who)
    BY DEF UpTo
  <2> QED
    BY <1>3, <1>4, <2>1
<1>5. CASE k # 0
  <2>1. k \in Nat /\ k - 1 \in Nat /\ k - 1 \notin Bad
    BY <1>3, <1>5
  <2>2. PICK g : UpTo(g, k - 1, u, path, content, who)
    BY <2>1
  <2> DEFINE h == [n \in 0..k |-> IF n = k THEN Grown(g, k, u, path, content, who) ELSE g[n]]
  <2>3. \A n \in 0..(k - 1) : h[n] = g[n]
    BY <2>1
  <2>4. g = [n \in 0..(k - 1) |-> IF n = 0 THEN <<>> ELSE Grown(g, n, u, path, content, who)]
    BY <2>2 DEF UpTo
  <2>5. ASSUME NEW n \in 0..k
        PROVE  h[n] = IF n = 0 THEN <<>> ELSE Grown(h, n, u, path, content, who)
    <3>1. CASE n = 0
      <4>1. g[0] = <<>>
        BY <2>1, <2>4
      <4> QED
        BY <1>5, <2>1, <3>1, <4>1
    <3>2. CASE n # 0
      <4>1. n - 1 \in 0..(k - 1) /\ h[n - 1] = g[n - 1]
        BY <2>1, <2>3, <3>2
      <4>2. Grown(h, n, u, path, content, who) = Grown(g, n, u, path, content, who)
        BY <4>1 DEF Grown
      <4>3. h[n] = Grown(g, n, u, path, content, who)
        <5>1. CASE n = k
          BY <5>1, <2>1
        <5>2. CASE n # k
          BY <5>2, <2>1, <2>3, <2>4, <3>2
        <5> QED
          BY <5>1, <5>2
      <4> QED
        BY <3>2, <4>2, <4>3
    <3> QED
      BY <3>1, <3>2
  <2>6. h = [n \in 0..k |-> h[n]]
    OBVIOUS
  <2> HIDE DEF h
  <2>7. UpTo(h, k, u, path, content, who)
    BY <2>5, <2>6 DEF UpTo
  <2> QED
    BY <1>3, <2>7
<1> QED
  BY <1>4, <1>5

LEMMA UpToTyped ==
    ASSUME NEW u, NEW path \in Seq(Cells), NEW content, NEW who, NEW g,
           UpTo(g, Len(path), u, path, content, who)
    PROVE  \A n \in 0..Len(path) : g[n] \in Seq(Cells) /\ Len(g[n]) <= n
<1> DEFINE Bad == {n \in 0..Len(path) : ~(g[n] \in Seq(Cells) /\ Len(g[n]) <= n)}
<1>1. SUFFICES ASSUME Bad # {} PROVE FALSE
  OBVIOUS
<1>2. Len(path) \in Nat /\ Bad \in SUBSET Nat
  BY LenProperties
<1>3. PICK n \in Bad : \A j \in Bad : n <= j
  BY <1>1, <1>2, LeastOf
<1>4. g[n] = IF n = 0 THEN <<>> ELSE Grown(g, n, u, path, content, who)
  BY <1>3 DEF UpTo
<1>5. n # 0
  BY <1>3, <1>4, EmptySeq
<1>6. n - 1 \in 0..Len(path) /\ n - 1 \notin Bad
  BY <1>2, <1>3, <1>5
<1>7. g[n - 1] \in Seq(Cells) /\ Len(g[n - 1]) <= n - 1 /\ path[n] \in Cells
  BY <1>2, <1>3, <1>5, <1>6, ElementOfSeq
<1>8. CASE Names(u, path[n], content, who)
  <2>1. g[n] = Append(g[n - 1], path[n])
    BY <1>4, <1>5, <1>8 DEF Grown
  <2>2. g[n] \in Seq(Cells) /\ Len(g[n]) = Len(g[n - 1]) + 1
    BY <1>7, <2>1, AppendProperties
  <2> QED
    BY <1>2, <1>3, <1>7, <2>2, LenProperties
<1>9. CASE ~Names(u, path[n], content, who)
  BY <1>2, <1>3, <1>4, <1>5, <1>7, <1>9, LenProperties DEF Grown
<1> QED
  BY <1>8, <1>9

\* Of by what the entries name.
Picked(u, path, content, who) == (CHOOSE g : UpTo(g, Len(path), u, path, content, who))[Len(path)]

LEMMA OfIsPicked ==
    ASSUME NEW u, NEW path, NEW content
    PROVE  /\ Of(u, path, content) = Picked(u, path, content, userOf)
           /\ Of(u, path, content)' = Picked(u, path, content, userOf')
<1>1. Of(u, path, content) = Picked(u, path, content, userOf)
  BY DEF Of, UpTo, Grown, Names, Picked
<1>2. Of(u, path, content)' = Picked(u, path, content, userOf')
  BY DEF Of, UpTo, Grown, Names, Picked
<1> QED
  BY <1>1, <1>2

LEMMA PickedIs ==
    ASSUME NEW u, NEW path \in Seq(Cells), NEW content, NEW who
    PROVE  \E g : /\ UpTo(g, Len(path), u, path, content, who)
                  /\ Picked(u, path, content, who) = g[Len(path)]
                  /\ \A n \in 0..Len(path) : g[n] \in Seq(Cells)
<1> DEFINE chosen == CHOOSE g : UpTo(g, Len(path), u, path, content, who)
<1>1. Picked(u, path, content, who) = chosen[Len(path)]
  BY DEF Picked
<1>2. Len(path) \in Nat
  BY LenProperties
<1>3. UpTo(chosen, Len(path), u, path, content, who)
  BY <1>2, UpToExists
<1> HIDE DEF chosen
<1> QED
  BY <1>1, <1>3, UpToTyped

LEMMA PickedIsSeq ==
    ASSUME NEW u, NEW path \in Seq(Cells), NEW content, NEW who
    PROVE  Picked(u, path, content, who) \in Seq(Cells)
<1>1. Len(path) \in 0..Len(path)
  BY LenProperties
<1>2. PICK g : /\ Picked(u, path, content, who) = g[Len(path)]
               /\ \A n \in 0..Len(path) : g[n] \in Seq(Cells)
  BY PickedIs
<1> QED
  BY <1>1, <1>2

LEMMA OfIsSeq ==
    ASSUME NEW u, NEW path \in Seq(Cells), NEW content
    PROVE  Of(u, path, content) \in Seq(Cells)
BY OfIsPicked, PickedIsSeq

\* What is picked depends on what the entries of the path name.
LEMMA PickedSame ==
    ASSUME NEW u, NEW path \in Seq(Cells), NEW content, NEW who, NEW content2, NEW who2,
           \A k \in 1..Len(path) : Names(u, path[k], content, who)
                                   <=> Names(u, path[k], content2, who2)
    PROVE  Picked(u, path, content, who) = Picked(u, path, content2, who2)
<1>1. PICK g : /\ UpTo(g, Len(path), u, path, content, who)
               /\ Picked(u, path, content, who) = g[Len(path)]
  BY PickedIs
<1>2. PICK h : /\ UpTo(h, Len(path), u, path, content2, who2)
               /\ Picked(u, path, content2, who2) = h[Len(path)]
  BY PickedIs
<1> DEFINE Bad == {n \in 0..Len(path) : g[n] # h[n]}
<1>3. Len(path) \in Nat /\ Bad \in SUBSET Nat
  BY LenProperties
<1>4. ASSUME Bad # {} PROVE FALSE
  <2>1. PICK n \in Bad : \A j \in Bad : n <= j
    BY <1>3, <1>4, LeastOf
  <2>2. /\ n \in 0..Len(path) /\ g[n] # h[n]
        /\ g[n] = IF n = 0 THEN <<>> ELSE Grown(g, n, u, path, content, who)
        /\ h[n] = IF n = 0 THEN <<>> ELSE Grown(h, n, u, path, content2, who2)
    BY <1>1, <1>2, <2>1 DEF UpTo
  <2>3. n # 0
    BY <2>2
  <2>4. n - 1 \in 0..Len(path) /\ n - 1 \notin Bad /\ n \in 1..Len(path)
    BY <1>3, <2>1, <2>2, <2>3
  <2>5. g[n - 1] = h[n - 1]
    BY <2>4
  <2>6. Grown(g, n, u, path, content, who) = Grown(h, n, u, path, content2, who2)
    BY <2>4, <2>5 DEF Grown
  <2> QED
    BY <2>2, <2>3, <2>6
<1>5. g[Len(path)] = h[Len(path)]
  BY <1>3, <1>4
<1> QED
  BY <1>1, <1>2, <1>5

LEMMA AppendLater ==
    ASSUME NEW s \in Seq(Cells), NEW r \in Seq(Cells), NEW x \in Cells
    PROVE  Append(s \o r, x) = s \o Append(r, x)
<1> DEFINE left == Append(s \o r, x)
           right == s \o Append(r, x)
           n == Len(s) + Len(r) + 1
<1>1. Len(s) \in Nat /\ Len(r) \in Nat /\ n \in Nat
  BY LenProperties
<1>2. /\ s \o r \in Seq(Cells) /\ Len(s \o r) = Len(s) + Len(r)
      /\ \A i \in 1..(Len(s) + Len(r)) : (s \o r)[i] = IF i <= Len(s) THEN s[i]
                                                       ELSE r[i - Len(s)]
  BY ConcatProperties
<1>3. /\ left \in Seq(Cells) /\ Len(left) = n /\ left[n] = x
      /\ \A i \in 1..(Len(s) + Len(r)) : left[i] = (s \o r)[i]
  BY <1>2, AppendProperties
<1>4. /\ Append(r, x) \in Seq(Cells) /\ Len(Append(r, x)) = Len(r) + 1
      /\ Append(r, x)[Len(r) + 1] = x
      /\ \A i \in 1..Len(r) : Append(r, x)[i] = r[i]
  BY AppendProperties
<1> DEFINE later == Append(r, x)
<1>5. /\ later \in Seq(Cells) /\ Len(later) = Len(r) + 1
      /\ later[Len(r) + 1] = x /\ \A i \in 1..Len(r) : later[i] = r[i]
  BY <1>4
<1> HIDE DEF later
<1>6. /\ s \o later \in Seq(Cells) /\ Len(s \o later) = Len(s) + Len(later)
      /\ \A i \in 1..(Len(s) + Len(later)) : (s \o later)[i] = IF i <= Len(s) THEN s[i]
                                                               ELSE later[i - Len(s)]
  BY <1>5, ConcatProperties
<1>7. right = s \o later
  BY DEF later
<1> HIDE DEF left, right
<1>8. right \in Seq(Cells) /\ Len(right) = n
  BY <1>1, <1>5, <1>6, <1>7
<1>9. ASSUME NEW i \in 1..n PROVE left[i] = right[i]
  <2>1. i \in 1..(Len(s) + Len(later))
    BY <1>1, <1>5
  <2>2. right[i] = IF i <= Len(s) THEN s[i] ELSE later[i - Len(s)]
    BY <1>6, <1>7, <2>1
  <2>3. CASE i = n
    <3>1. ~(i <= Len(s)) /\ i - Len(s) = Len(r) + 1
      BY <1>1, <2>3
    <3> QED
      BY <1>3, <1>5, <2>2, <2>3, <3>1
  <2>4. CASE i # n
    <3>1. i \in 1..(Len(s) + Len(r))
      BY <1>1, <2>4
    <3>2. left[i] = IF i <= Len(s) THEN s[i] ELSE r[i - Len(s)]
      BY <1>2, <1>3, <3>1
    <3>3. ~(i <= Len(s)) => i - Len(s) \in 1..Len(r)
      BY <1>1, <3>1
    <3> QED
      BY <1>5, <2>2, <3>2, <3>3
  <2> QED
    BY <2>3, <2>4
<1> HIDE DEF n
<1>10. left = right
  BY <1>3, <1>8, <1>9, SeqEqual
<1> QED
  BY <1>10 DEF left, right

\* Of one path after another, what is of the first and then what is of the second.
Joined(s, t) == s \o t
LEMMA PickedJoins ==
    ASSUME NEW u, NEW p \in Seq(Cells), NEW q \in Seq(Cells), NEW content, NEW who
    PROVE  Picked(u, Joined(p, q), content, who)
             = Joined(Picked(u, p, content, who), Picked(u, q, content, who))
<1> SUFFICES Picked(u, p \o q, content, who)
               = Picked(u, p, content, who) \o Picked(u, q, content, who)
  BY DEF Joined
<1>1. /\ p \o q \in Seq(Cells) /\ Len(p \o q) = Len(p) + Len(q)
      /\ \A i \in 1..(Len(p) + Len(q)) : (p \o q)[i] = IF i <= Len(p) THEN p[i]
                                                       ELSE q[i - Len(p)]
  BY ConcatProperties
<1>2. Len(p) \in Nat /\ Len(q) \in Nat
  BY LenProperties
<1>3. PICK g : /\ UpTo(g, Len(p \o q), u, p \o q, content, who)
               /\ Picked(u, p \o q, content, who) = g[Len(p \o q)]
  BY <1>1, PickedIs
<1>4. PICK g1 : /\ UpTo(g1, Len(p), u, p, content, who)
                /\ Picked(u, p, content, who) = g1[Len(p)]
                /\ \A n \in 0..Len(p) : g1[n] \in Seq(Cells)
  BY PickedIs
<1>5. PICK g2 : /\ UpTo(g2, Len(q), u, q, content, who)
                /\ Picked(u, q, content, who) = g2[Len(q)]
                /\ \A n \in 0..Len(q) : g2[n] \in Seq(Cells)
  BY PickedIs
<1> DEFINE pq == p \o q
           m == Len(p)
<1>6. \A n \in 0..(m + Len(q)) : g[n] = IF n = 0 THEN <<>> ELSE Grown(g, n, u, pq, content, who)
  BY <1>1, <1>3 DEF UpTo
<1>7. /\ \A i \in 1..m : pq[i] = p[i]
      /\ \A i \in 1..Len(q) : pq[m + i] = q[i]
  <2>1. \A i \in 1..m : pq[i] = p[i]
    BY <1>1, <1>2
  <2>2. ASSUME NEW i \in 1..Len(q) PROVE pq[m + i] = q[i]
    <3>1. m + i \in 1..(m + Len(q)) /\ ~(m + i <= m) /\ (m + i) - m = i
      BY <1>2
    <3> QED
      BY <1>1, <3>1
  <2> QED
    BY <2>1, <2>2
<1> HIDE DEF pq, m
\* Over the first path,
<1>8. g[m] = g1[m]
  <2> DEFINE Bad == {n \in 0..m : g[n] # g1[n]}
  <2>1. m \in Nat /\ Bad \in SUBSET Nat
    BY <1>2 DEF m
  <2>2. ASSUME Bad # {} PROVE FALSE
    <3>1. PICK n \in Bad : \A j \in Bad : n <= j
      BY <2>1, <2>2, LeastOf
    <3>2. g1[n] = IF n = 0 THEN <<>> ELSE Grown(g1, n, u, p, content, who)
      BY <1>4, <3>1 DEF UpTo, m
    <3>3. n \in 0..(m + Len(q)) /\ n \in 0..m /\ g[n] # g1[n]
      BY <1>2, <2>1, <3>1
    <3>4. g[n] = IF n = 0 THEN <<>> ELSE Grown(g, n, u, pq, content, who)
      BY <1>6, <3>3
    <3>5. n # 0
      BY <3>2, <3>3, <3>4
    <3>6. n - 1 \in 0..m /\ n - 1 \notin Bad /\ n \in 1..m
      BY <2>1, <3>1, <3>3, <3>5
    <3>7. g[n - 1] = g1[n - 1] /\ pq[n] = p[n]
      BY <1>7, <3>6
    <3>8. Grown(g, n, u, pq, content, who) = Grown(g1, n, u, p, content, who)
      BY <3>7 DEF Grown
    <3> QED
      BY <3>2, <3>3, <3>4, <3>5, <3>8
  <2> QED
    BY <2>1, <2>2
\* and on from there over the second.
<1>9. g[m + Len(q)] = g1[m] \o g2[Len(q)]
  <2> DEFINE first == g1[m]
             Bad == {n \in 0..Len(q) : g[m + n] # first \o g2[n]}
  <2>4. m \in Nat /\ first \in Seq(Cells)
    <3>1. Len(p) \in 0..Len(p)
      BY <1>2
    <3> QED
      BY <1>2, <1>4, <3>1 DEF m
  <2>5. g[m] = first
    BY <1>8
  <2> HIDE DEF first
  <2>6. Bad \in SUBSET Nat
    BY <1>2
  <2>1. m \in Nat /\ Bad \in SUBSET Nat /\ first \in Seq(Cells)
    BY <2>4, <2>6
  <2>2. ASSUME Bad # {} PROVE FALSE
    <3>1. PICK n \in Bad : \A j \in Bad : n <= j
      BY <2>1, <2>2, LeastOf
    <3>11. n \in 0..Len(q) /\ g[m + n] # first \o g2[n]
      BY <3>1
    <3>2. n \in 0..Len(q) /\ g[m + n] # first \o g2[n] /\ m + n \in 0..(m + Len(q))
      BY <1>2, <2>1, <3>11
    <3>3. g2[n] = IF n = 0 THEN <<>> ELSE Grown(g2, n, u, q, content, who)
      BY <1>5, <3>2 DEF UpTo
    <3>4. n # 0
      <4> SUFFICES ASSUME n = 0 PROVE FALSE
        OBVIOUS
      <4>1. g2[n] = <<>> /\ m + n = m
        BY <2>1, <3>3
      <4> QED
        BY <2>1, <2>5, <3>2, <4>1, ConcatEmptySeq
    <3>12. n - 1 \in 0..Len(q) /\ n \in 1..Len(q) /\ m + n # 0 /\ (m + n) - 1 = m + (n - 1)
      BY <1>2, <2>1, <3>2, <3>4
    <3>13. n - 1 \notin Bad
      <4> SUFFICES ASSUME n - 1 \in Bad PROVE FALSE
        OBVIOUS
      <4>1. n <= n - 1
        BY <3>1
      <4> QED
        BY <1>2, <3>2, <4>1
    <3>5. n - 1 \in 0..Len(q) /\ n - 1 \notin Bad /\ n \in 1..Len(q) /\ m + n # 0
          /\ (m + n) - 1 = m + (n - 1)
      BY <3>12, <3>13
    <3>6. g[m + n] = Grown(g, m + n, u, pq, content, who) /\ pq[m + n] = q[n]
      BY <1>6, <1>7, <3>2, <3>5
    <3>7. g[(m + n) - 1] = first \o g2[n - 1]
      BY <3>5
    <3>8. g2[n - 1] \in Seq(Cells) /\ q[n] \in Cells
      BY <1>5, <3>5, ElementOfSeq
    <3>9. CASE Names(u, q[n], content, who)
      <4>1. g2[n] = Append(g2[n - 1], q[n])
        BY <3>3, <3>4, <3>9 DEF Grown
      <4>2. g[m + n] = Append(first \o g2[n - 1], q[n])
        BY <3>6, <3>7, <3>9 DEF Grown
      <4>3. Append(first \o g2[n - 1], q[n]) = first \o Append(g2[n - 1], q[n])
        <5> DEFINE a == g2[n - 1]
                   b == q[n]
        <5>1. first \in Seq(Cells) /\ a \in Seq(Cells) /\ b \in Cells
          BY <2>1, <3>8
        <5> HIDE DEF a, b
        <5>2. Append(first \o a, b) = first \o Append(a, b)
          BY <5>1, AppendLater, Zenon
        <5> QED
          BY <5>2 DEF a, b
      <4> QED
        BY <3>2, <4>1, <4>2, <4>3
    <3>10. CASE ~Names(u, q[n], content, who)
      <4>1. g2[n] = g2[n - 1]
        BY <3>3, <3>4, <3>10 DEF Grown
      <4>2. g[m + n] = first \o g2[n - 1]
        BY <3>6, <3>7, <3>10 DEF Grown
      <4> QED
        BY <3>2, <4>1, <4>2
    <3> QED
      BY <3>9, <3>10
  <2>3. Len(q) \in 0..Len(q)
    BY <1>2
  <2> QED
    BY <2>2, <2>3 DEF first
<1> QED
  BY <1>1, <1>3, <1>4, <1>5, <1>9 DEF m

\* Of a path on which nothing names the user, nothing.
LEMMA PickedNone ==
    ASSUME NEW u, NEW path \in Seq(Cells), NEW content, NEW who,
           \A k \in 1..Len(path) : ~Names(u, path[k], content, who)
    PROVE  Picked(u, path, content, who) = <<>>
<1>1. PICK g : /\ UpTo(g, Len(path), u, path, content, who)
               /\ Picked(u, path, content, who) = g[Len(path)]
  BY PickedIs
<1> DEFINE Bad == {n \in 0..Len(path) : g[n] # <<>>}
<1>2. Len(path) \in Nat /\ Bad \in SUBSET Nat
  BY LenProperties
<1>3. ASSUME Bad # {} PROVE FALSE
  <2>1. PICK n \in Bad : \A j \in Bad : n <= j
    BY <1>2, <1>3, LeastOf
  <2>2. /\ n \in 0..Len(path) /\ g[n] # <<>>
        /\ g[n] = IF n = 0 THEN <<>> ELSE Grown(g, n, u, path, content, who)
    BY <1>1, <2>1 DEF UpTo
  <2>3. n - 1 \in 0..Len(path) /\ n - 1 \notin Bad /\ n \in 1..Len(path) /\ n # 0
    BY <1>2, <2>1, <2>2
  <2>4. g[n - 1] = <<>>
    BY <2>3
  <2> QED
    BY <2>2, <2>3, <2>4 DEF Grown
<1> QED
  BY <1>1, <1>2, <1>3

SlicesTyped == \A u \in Users : lists[u] \in Seq(Cells) /\ used[u] \in 0..Len(lists[u])

LEMMA OverwriteTyped ==
    ASSUME NEW memory \in Seq(Cells), NEW cells \in Seq(Cells), NEW from \in 0..Len(memory)
    PROVE  /\ Overwrite(memory, from, cells) \in Seq(Cells)
           /\ from + Len(cells) <= Len(Overwrite(memory, from, cells))
           /\ Len(memory) <= Len(Overwrite(memory, from, cells))
<1> DEFINE n == IF from + Len(cells) > Len(memory) THEN from + Len(cells) ELSE Len(memory)
           value(k) == IF k \in (from + 1)..(from + Len(cells)) THEN cells[k - from]
                       ELSE memory[k]
<1>1. Len(memory) \in Nat /\ Len(cells) \in Nat
  BY LenProperties
<1>2. n \in Nat /\ from + Len(cells) <= n /\ Len(memory) <= n
  BY <1>1
<1>3. ASSUME NEW k \in 1..n PROVE value(k) \in Cells
  <2>1. CASE k \in (from + 1)..(from + Len(cells))
    <3>1. k - from \in 1..Len(cells)
      BY <1>1, <1>2, <2>1
    <3> QED
      BY <2>1, <3>1, ElementOfSeq
  <2>2. CASE k \notin (from + 1)..(from + Len(cells))
    <3>1. k \in 1..Len(memory)
      BY <1>1, <1>2, <2>2
    <3> QED
      BY <2>2, <3>1, ElementOfSeq
  <2> QED
    BY <2>1, <2>2
<1>4. Overwrite(memory, from, cells) = [k \in 1..n |-> value(k)]
  BY DEF Overwrite
<1> HIDE DEF n, value
<1>5. Overwrite(memory, from, cells) \in Seq(Cells)
  BY <1>2, <1>3, <1>4, IsASeq
<1>6. Len(Overwrite(memory, from, cells)) = n
  BY <1>2, <1>3, <1>4, IsASeq
<1> QED
  BY <1>2, <1>5, <1>6

LEMMA Extended ==
    ASSUME SlicesTyped, NEW path \in Seq(Cells), NEW content, Extend(path, content)
    PROVE  SlicesTyped' /\ \A u \in Users : Len(lists[u]) <= Len(lists'[u])
<1> SUFFICES ASSUME NEW u \in Users
             PROVE  /\ lists'[u] \in Seq(Cells) /\ used'[u] \in 0..Len(lists'[u])
                    /\ Len(lists[u]) <= Len(lists'[u])
  BY DEF SlicesTyped
<1> DEFINE new == Of(u, path, content)
<1>1. /\ lists'[u] = Overwrite(lists[u], used[u], new)
      /\ used'[u] = used[u] + Len(new)
  BY DEF Extend
<1>2. new \in Seq(Cells)
  BY OfIsSeq
<1> HIDE DEF new
<1>3. lists[u] \in Seq(Cells) /\ used[u] \in 0..Len(lists[u]) /\ Len(new) \in Nat
  BY <1>2, LenProperties DEF SlicesTyped
<1>4. /\ lists'[u] \in Seq(Cells) /\ used'[u] <= Len(lists'[u])
      /\ Len(lists[u]) <= Len(lists'[u])
  BY <1>1, <1>2, <1>3, OverwriteTyped
<1> QED
  BY <1>1, <1>3, <1>4, LenProperties

-----------------------------------------------------------------------------
(* Where entries are *)

\* Cells by how far they are from one.
LEMMA Offsets ==
    ASSUME NEW from \in Cells, NEW i \in Cells
    PROVE  /\ (i - from) % Limit \in Cells
           /\ (from + ((i - from) % Limit)) % Limit = i
           /\ (((from + i) % Limit) - from) % Limit = i
<1>1. Limit \in Nat \ {0} /\ from \in 0..(Limit - 1) /\ i \in 0..(Limit - 1)
  BY ActivityCacheAssumption DEF Cells
<1>2. (i - from) % Limit \in Cells
  BY <1>1, Around
<1>3. (from + ((i - from) % Limit)) % Limit = i
  <2>1. CASE from <= i
    <3>1. (i - from) % Limit = i - from
      BY <1>1, <2>1, Around
    <3> QED
      BY <1>1, <2>1, <3>1, Around
  <2>2. CASE i < from
    <3>1. (i - from) % Limit = i - from + Limit
      BY <1>1, <2>2, Around
    <3> QED
      BY <1>1, <2>2, <3>1, Around
  <2> QED
    BY <1>1, <2>1, <2>2
<1>4. (((from + i) % Limit) - from) % Limit = i
  <2>1. CASE from + i < Limit
    <3>1. (from + i) % Limit = from + i
      BY <1>1, <2>1, Around
    <3> QED
      BY <1>1, <2>1, <3>1, Around
  <2>2. CASE Limit <= from + i
    <3>1. (from + i) % Limit = from + i - Limit
      BY <1>1, <2>2, Around
    <3>2. ((from + i) % Limit) - from = i - Limit
      BY <1>1, <3>1
    <3>3. (i - Limit) % Limit = i
      BY <1>1, Around
    <3> QED
      BY <3>2, <3>3
  <2> QED
    BY <1>1, <2>1, <2>2
<1> QED
  BY <1>2, <1>3, <1>4

\* n cells before start, round the ring.
LEMMA Before ==
    ASSUME NEW cell \in Cells, NEW n \in 1..Limit, NEW k \in Cells
    PROVE  (((cell - n) % Limit) + k) % Limit =
               IF k < n THEN (cell + (Limit - n + k)) % Limit ELSE (cell + (k - n)) % Limit
<1>1. Limit \in Nat \ {0} /\ cell \in 0..(Limit - 1) /\ k \in 0..(Limit - 1)
  BY ActivityCacheAssumption DEF Cells
<1> DEFINE from == (cell - n) % Limit
<1>2. from = IF n <= cell THEN cell - n ELSE cell - n + Limit
  BY <1>1, Around
<1> HIDE DEF from
<1>3. CASE n <= cell
  <2>1. from + k = cell - n + k
    BY <1>1, <1>2, <1>3
  <2>2. CASE k < n
    <3>1. (from + k) % Limit = cell - n + k
      BY <1>1, <1>3, <2>1, <2>2, Around
    <3>2. (cell + (Limit - n + k)) % Limit = cell - n + k
      BY <1>1, <1>3, <2>2, Around
    <3> QED
      BY <2>2, <3>1, <3>2 DEF from
  <2>3. CASE ~(k < n)
    <3>1. from + k = cell + (k - n)
      BY <1>1, <2>1
    <3> QED
      BY <2>3, <3>1 DEF from
  <2> QED
    BY <2>2, <2>3
<1>4. CASE cell < n
  <2>1. from + k = cell - n + Limit + k
    BY <1>1, <1>2, <1>4
  <2>2. CASE k < n
    <3>1. from + k = cell + (Limit - n + k)
      BY <1>1, <2>1
    <3> QED
      BY <2>2, <3>1 DEF from
  <2>3. CASE ~(k < n)
    <3>1. (from + k) % Limit = cell - n + k
      BY <1>1, <1>4, <2>1, <2>3, Around
    <3>2. (cell + (k - n)) % Limit = cell - n + k
      BY <1>1, <1>4, <2>3, Around
    <3> QED
      BY <2>3, <3>1, <3>2 DEF from
  <2> QED
    BY <2>2, <2>3
<1> QED
  BY <1>1, <1>3, <1>4

-----------------------------------------------------------------------------
(* What the ring has *)

LEMMA Bounds ==
    /\ Limit \in Nat \ {0} /\ MaxEvents \in Nat /\ MaxFailures \in Nat /\ Burst \in Nat \ {0}
    /\ Nil \notin Users /\ Nil \notin Cells /\ 0 \in Cells
BY ActivityCacheAssumption DEF Cells

\* NumbersHeld of entries are natural.
LEMMA NumbersHeld ==
    ASSUME CacheIsSound
    PROVE  /\ logged \in Nat /\ logged <= MaxEvents /\ newest \in Nat /\ newest <= logged
           /\ start # -1 => start \in Cells /\ newest >= 1 /\ newest \in Entries
           /\ start = -1 => newest = 0
<1>1. userOf \in Seq(Users) /\ logged <= MaxEvents /\ start \in Cells \cup {-1}
      /\ cache \in [Cells -> 0..MaxEvents]
  BY DEF CacheIsSound, ActivityTypeOK
<1>2. logged \in Nat
  BY <1>1, LenProperties DEF logged
<1>3. newest \in Nat /\ newest <= logged /\ (start # -1 => newest >= 1)
  BY <1>1, Bounds DEF newest, CacheIsSound, RingIsFull
<1> QED
  BY <1>1, <1>2, <1>3, Bounds DEF newest, Entries

\* Every cell has an entry that is no newer than the newest, or none.
LEMMA CellHas ==
    ASSUME CacheIsSound, NEW i \in Cells
    PROVE  cache[i] \in Nat /\ cache[i] <= newest
<1>1. cache[i] \in 0..MaxEvents /\ newest \in Nat
  BY NumbersHeld DEF CacheIsSound, ActivityTypeOK
<1>2. CASE start = -1
  BY <1>1, <1>2 DEF CacheIsSound, RingIsInOrder
<1>3. CASE start # -1
  <2>1. start \in Cells
    BY <1>3, NumbersHeld
  <2>2. PICK k \in Cells : (start + k) % Limit = i
    BY <2>1, Offsets
  <2>3. cache[i] = IF k < total THEN newest - k ELSE 0
    BY <1>3, <2>2 DEF CacheIsSound, RingIsInOrder, newest, Cells
  <2>4. k \in Nat
    BY Bounds DEF Cells
  <2> QED
    BY <1>1, <2>3, <2>4
<1> QED
  BY <1>2, <1>3

\* An entry with a cell is no newer; the newest has one.
LEMMA IndexHas ==
    ASSUME CacheIsSound
    PROVE  /\ \A e \in Entries : byEntryID[e] # Nil => e <= newest
           /\ newest # 0 => byEntryID[newest] # Nil
<1>1. ASSUME NEW e \in Entries, byEntryID[e] # Nil PROVE e <= newest
  <2>1. byEntryID[e] \in Cells
    BY <1>1 DEF CacheIsSound, ActivityTypeOK
  <2>2. cache[byEntryID[e]] = e
    BY <2>1 DEF CacheIsSound, IndexFindsEntries
  <2> QED
    BY <2>1, <2>2, CellHas
<1>2. ASSUME newest # 0 PROVE byEntryID[newest] # Nil
  <2>1. start \in Cells /\ newest \in Entries /\ cache[start] = newest
    BY <1>2, NumbersHeld DEF newest
  <2>2. byEntryID[newest] = start
    BY <2>1 DEF CacheIsSound, IndexFindsEntries
  <2> QED
    BY <2>1, <2>2, Bounds
<1> QED
  BY <1>1, <1>2

-----------------------------------------------------------------------------
(* What is new *)

\* Of what was sent, what comes before the first entry that is held.
LEMMA NewOf ==
    ASSUME NEW S, NEW sent \in Seq(S)
    PROVE  \/ New(sent) = sent /\ \A k \in 1..Len(sent) : byEntryID[sent[k]] = Nil
           \/ \E d \in 1..Len(sent) :
                 /\ byEntryID[sent[d]] # Nil
                 /\ \A k \in 1..(d - 1) : byEntryID[sent[k]] = Nil
                 /\ New(sent) = SubSeq(sent, 1, d - 1)
<1> DEFINE I == {k \in 1..Len(sent) : byEntryID[sent[k]] # Nil}
           dupe == IF I # {} THEN Min(I) ELSE 0
<1>1. New(sent) = IF dupe = 0 THEN sent ELSE SubSeq(sent, 1, dupe - 1)
  BY DEF New, SelectInSeq
<1>2. Len(sent) \in Nat
  BY LenProperties
<1>3. CASE I = {}
  BY <1>1, <1>3
<1>4. CASE I # {}
  <2>1. I \in SUBSET Nat
    BY <1>2
  <2>2. \E x \in I : \A y \in I : x <= y
    BY <1>4, <2>1, LeastOf
  <2>3. Min(I) \in I /\ \A y \in I : Min(I) <= y
    BY <2>2 DEF Min
  <2>4. dupe = Min(I) /\ dupe # 0
    BY <1>2, <1>4, <2>3
  <2> HIDE DEF dupe
  <2>5. \A k \in 1..(dupe - 1) : byEntryID[sent[k]] = Nil
    BY <1>2, <2>3, <2>4
  <2> QED
    BY <1>1, <2>3, <2>4, <2>5
<1> QED
  BY <1>3, <1>4

LEMMA ActivityLogIs ==
    ASSUME CacheIsSound, NEW since \in Nat, since <= logged
    PROVE  /\ ActivityLog(since) \in Seq(Entries)
           /\ Len(ActivityLog(since)) = Least(logged - since, Limit)
           /\ \A k \in 1..Len(ActivityLog(since)) : ActivityLog(since)[k] = logged - k + 1
<1> DEFINE n == IF logged - since < Limit THEN logged - since ELSE Limit
<1>1. n \in Nat /\ n <= logged /\ logged <= MaxEvents
  BY NumbersHeld, Bounds
<1>2. \A k \in 1..n : logged - k + 1 \in Entries
  BY <1>1, NumbersHeld, Bounds DEF Entries
<1>3. ActivityLog(since) = [k \in 1..n |-> logged - k + 1]
  BY DEF ActivityLog
<1>4. n = Least(logged - since, Limit)
  BY DEF Least
<1> HIDE DEF n
<1>5. ActivityLog(since) \in Seq(Entries) /\ Len(ActivityLog(since)) = n
  BY <1>1, <1>2, <1>3, IsASeq
<1> QED
  BY <1>3, <1>4, <1>5

\* What is new of the answer to a query is all that was logged since the newest entry the ring
\* has, or as much as the ring can have.
LEMMA NewIs ==
    ASSUME CacheIsSound, NEW since \in Nat, since <= newest
    PROVE  LET new == New(ActivityLog(since))
           IN  /\ new \in Seq(Entries) /\ Len(new) \in 0..Limit
               /\ \A k \in 1..Len(new) : new[k] = logged - k + 1
               /\ \/ logged - Len(new) = newest
                  \/ Len(new) = Limit /\ logged - Limit >= newest
<1> DEFINE sent == ActivityLog(since)
           new == New(sent)
<1>1. /\ sent \in Seq(Entries) /\ Len(sent) = Least(logged - since, Limit)
      /\ \A k \in 1..Len(sent) : sent[k] = logged - k + 1
  BY NumbersHeld, ActivityLogIs
<1>2. Len(sent) \in Nat /\ logged \in Nat /\ newest \in Nat /\ newest <= logged /\ Limit \in Nat
  BY <1>1, NumbersHeld, Bounds, LenProperties
<1>3. \/ new = sent /\ \A k \in 1..Len(sent) : byEntryID[sent[k]] = Nil
      \/ \E d \in 1..Len(sent) :
            /\ byEntryID[sent[d]] # Nil
            /\ \A k \in 1..(d - 1) : byEntryID[sent[k]] = Nil
            /\ new = SubSeq(sent, 1, d - 1)
  BY <1>1, NewOf
<1> HIDE DEF sent, new
\* The newest entry held is not among those that are not held.
<1>4. ASSUME NEW m \in 0..Len(sent), \A k \in 1..m : byEntryID[sent[k]] = Nil
      PROVE  logged - m >= newest
  <2> SUFFICES ASSUME logged - m < newest PROVE FALSE
    BY <1>2
  <2>1. since < newest \/ since = newest
    BY <1>2
  <2>2. m <= logged - since
    BY <1>1, <1>2 DEF Least
  <2>3. logged - newest + 1 \in 1..m /\ newest # 0
    BY <1>2, <2>2
  <2>4. sent[logged - newest + 1] = newest
    BY <1>1, <1>2, <2>3
  <2> QED
    BY <1>4, <2>3, <2>4, IndexHas
<1>5. CASE new = sent /\ \A k \in 1..Len(sent) : byEntryID[sent[k]] = Nil
  <2>1. logged - Len(sent) >= newest
    BY <1>2, <1>4, <1>5
  <2> QED
    BY <1>1, <1>2, <1>5, <2>1 DEF Least, sent, new
<1>6. ASSUME NEW d \in 1..Len(sent), byEntryID[sent[d]] # Nil,
             \A k \in 1..(d - 1) : byEntryID[sent[k]] = Nil, new = SubSeq(sent, 1, d - 1)
      PROVE  /\ new \in Seq(Entries) /\ Len(new) \in 0..Limit
             /\ \A k \in 1..Len(new) : new[k] = logged - k + 1
             /\ logged - Len(new) = newest
  <2>1. /\ new \in Seq(Entries) /\ Len(new) = d - 1
        /\ \A k \in 1..(d - 1) : new[k] = sent[k]
    BY <1>1, <1>2, <1>6, SubSeqProperties
  <2>5. d - 1 \in 0..Len(sent)
    BY <1>2
  <2>2. logged - (d - 1) >= newest
    BY <1>4, <1>6, <2>5
  <2>3. sent[d] = logged - d + 1 /\ sent[d] \in Entries
    BY <1>1, ElementOfSeq
  <2>4. logged - d + 1 <= newest
    BY <1>6, <2>3, IndexHas
  <2> QED
    BY <1>1, <1>2, <2>1, <2>2, <2>4 DEF Least
<1> QED
  BY <1>3, <1>5, <1>6 DEF sent, new

-----------------------------------------------------------------------------
(* Placing what is new *)

\* The first n cells from one on, and the entry that comes to each.
FreshCells(c) == LET n == Len(items[c]) IN Path(NewStart(n), NewStart(n) + n - 1)
Placed(c) ==
    [i \in ToSet(FreshCells(c)) |-> items[c][((i - NewStart(Len(items[c]))) % Limit) + 1]]

LEMMA FreshIs ==
    ASSUME CacheIsSound, NEW c \in Callers, Sent(c)
    PROVE  LET n == Len(items[c])
               from == NewStart(n)
           IN  /\ from \in Cells
               /\ FreshCells(c) \in Seq(Cells) /\ Len(FreshCells(c)) = n
               /\ ToSet(FreshCells(c)) \subseteq Cells
               /\ \A k \in Cells : (from + k) % Limit \in ToSet(FreshCells(c)) <=> k < n
<1> DEFINE n == Len(items[c])
           from == NewStart(n)
           path == FreshCells(c)
<1>1. n \in 1..Limit /\ Limit \in Nat \ {0} /\ (start # -1 => start \in Cells)
  BY Bounds, NumbersHeld DEF Sent
<1>2. from \in Cells
  <2>1. CASE start = -1
    BY <2>1, Bounds DEF NewStart
  <2>2. CASE start # -1
    <3>1. start - n \in Int /\ from = (start - n) % Limit
      BY <1>1, <2>2 DEF NewStart, Cells
    <3> QED
      BY <3>1, Around
  <2> QED
    BY <2>1, <2>2
<1> HIDE DEF from, n
<1>3. from \in Int /\ from + n - 1 \in Int /\ (from + n - 1) - from = n - 1
  BY <1>1, <1>2 DEF Cells
<1>4. (n - 1) % Limit = n - 1
  BY <1>1, Around
<1>5. path = Path(from, from + n - 1)
  BY DEF FreshCells, from, n
<1>6. /\ path \in Seq(Cells) /\ Len(path) = n
      /\ \A k \in 1..n : path[k] = (from + k - 1) % Limit
  <2> DEFINE to == from + n - 1
  <2>1. to \in Int /\ to - from = n - 1 /\ path = Path(from, to)
    BY <1>3, <1>5
  <2> HIDE DEF to, path
  <2>2. /\ path \in Seq(Cells) /\ Len(path) = ((to - from) % Limit) + 1
        /\ \A k \in 1..Len(path) : path[k] = (from + k - 1) % Limit
    BY <1>3, <2>1, PathIsPath
  <2>4. (to - from) % Limit = n - 1
    BY <1>4, <2>1
  <2>5. (n - 1) + 1 = n
    BY <1>1
  <2>3. Len(path) = n
    BY <2>2, <2>4, <2>5
  <2> QED
    BY <2>2, <2>3 DEF path
<1>7. ToSet(path) = {path[k] : k \in 1..n}
  BY <1>6, LenProperties DEF ToSet
<1>8. ToSet(path) \subseteq Cells
  BY <1>6, <1>7, ElementOfSeq
<1>9. ASSUME NEW k \in Cells PROVE (from + k) % Limit \in ToSet(path) <=> k < n
  <2>1. k \in 0..(Limit - 1)
    BY DEF Cells
  <2>2. ASSUME k < n PROVE (from + k) % Limit \in ToSet(path)
    <3>1. k + 1 \in 1..n /\ from + (k + 1) - 1 = from + k
      BY <1>1, <1>3, <2>1, <2>2
    <3>2. path[k + 1] = (from + k) % Limit
      BY <1>6, <3>1
    <3> QED
      BY <1>7, <3>1, <3>2
  <2>3. ASSUME (from + k) % Limit \in ToSet(path) PROVE k < n
    <3>1. PICK j \in 1..n : (from + k) % Limit = (from + j - 1) % Limit
      BY <1>6, <1>7, <2>3
    <3>2. j - 1 \in Cells /\ from + j - 1 = from + (j - 1)
      BY <1>1, <1>3 DEF Cells
    <3>3. (((from + k) % Limit) - from) % Limit = k
      BY <1>2, Offsets
    <3>4. (((from + (j - 1)) % Limit) - from) % Limit = j - 1
      BY <1>2, <3>2, Offsets
    <3>5. k = j - 1
      BY <3>1, <3>2, <3>3, <3>4
    <3> QED
      BY <1>1, <3>5
  <2> QED
    BY <2>2, <2>3
<1> QED
  BY <1>2, <1>6, <1>8, <1>9 DEF from, n

LEMMA PlacedIs ==
    ASSUME CacheIsSound, NEW c \in Callers, Sent(c), NEW k \in Cells, k < Len(items[c])
    PROVE  Placed(c)[(NewStart(Len(items[c])) + k) % Limit] = items[c][1] - k
<1> DEFINE n == Len(items[c])
           from == NewStart(n)
           i == (from + k) % Limit
<1>1. n \in 1..Limit /\ k \in 0..(Limit - 1) /\ Limit \in Nat /\ items[c][1] \in Int
  <2>1. items[c] \in Seq(Entries) /\ Len(items[c]) \in 1..Limit
    BY DEF CacheIsSound, ActivityTypeOK, Sent
  <2>2. 1 \in 1..Len(items[c])
    BY <2>1, Bounds
  <2>3. items[c][1] \in Entries
    BY <2>1, <2>2, ElementOfSeq
  <2> QED
    BY <2>1, <2>3, Bounds DEF Cells, Entries
<1>2. from \in Cells /\ i \in ToSet(FreshCells(c))
  BY FreshIs
<1>3. (i - from) % Limit = k
  BY <1>2, Offsets
<1>4. Placed(c)[i] = items[c][((i - from) % Limit) + 1]
  BY <1>2 DEF Placed
<1>5. k + 1 \in 1..n /\ (\A j \in 1..n : items[c][j] = items[c][1] - j + 1)
  BY <1>1 DEF Sent
<1> HIDE DEF i, from, n
<1>6. Placed(c)[i] = items[c][k + 1]
  BY <1>3, <1>4
<1>7. items[c][k + 1] = items[c][1] - (k + 1) + 1
  BY <1>5
<1> QED
  BY <1>1, <1>6, <1>7 DEF i, from, n

\* What was in the cells as they are counted from the new start.
LEMMA Was ==
    ASSUME CacheIsSound, NEW c \in Callers, Sent(c), NEW k \in Cells
    PROVE  LET n == Len(items[c])
               j == IF k < n THEN Limit - n + k ELSE k - n
           IN  cache[(NewStart(n) + k) % Limit] = IF j < total THEN newest - j ELSE 0
<1> DEFINE n == Len(items[c])
           from == NewStart(n)
           j == IF k < n THEN Limit - n + k ELSE k - n
<1>1. n \in 1..Limit /\ k \in 0..(Limit - 1) /\ Limit \in Nat \ {0} /\ total \in Nat
  BY Bounds DEF Sent, Cells, CacheIsSound, ActivityTypeOK
<1>0. from \in Cells
  BY FreshIs
<1>5. start # -1 => from = (start - n) % Limit
  BY DEF NewStart
<1> HIDE DEF from, n
<1>2. j \in 0..(Limit - 1)
  BY <1>1
<1>3. ASSUME start = -1 PROVE cache[(from + k) % Limit] = IF j < total THEN newest - j ELSE 0
  <2>1. total = 0 /\ (from + k) % Limit \in Cells
    <3>1. from + k \in Int
      BY <1>0, <1>1 DEF Cells
    <3> QED
      BY <1>3, <3>1, Around DEF CacheIsSound, RingIsInOrder
  <2>2. cache[(from + k) % Limit] = 0
    BY <1>3, <2>1 DEF CacheIsSound, RingIsInOrder
  <2> QED
    BY <1>2, <2>1, <2>2
<1>4. ASSUME start # -1 PROVE cache[(from + k) % Limit] = IF j < total THEN newest - j ELSE 0
  <2>1. start \in Cells /\ from = (start - n) % Limit
    BY <1>4, <1>5, NumbersHeld
  <2>2. (from + k) % Limit = (start + j) % Limit
    BY <1>1, <2>1, Before
  <2>3. cache[(start + j) % Limit] = IF j < total THEN cache[start] - j ELSE 0
    BY <1>2, <1>4 DEF CacheIsSound, RingIsInOrder
  <2> QED
    BY <1>4, <2>2, <2>3 DEF newest
<1> QED
  BY <1>3, <1>4 DEF from, n

\* The empty ones among the first n are the last of them: the ring is left with as many entries
\* as it has and is sent, or full.
LEMMA CountIs ==
    ASSUME CacheIsSound, NEW c \in Callers, Sent(c)
    PROVE  CountNew(FreshCells(c)) = Least(total + Len(items[c]), Limit)
<1> DEFINE n == Len(items[c])
           from == NewStart(n)
           m == IF total - Limit + n > 0 THEN total - Limit + n ELSE 0
           Vacant == {i \in ToSet(FreshCells(c)) : cache[i] = 0}
           f == [k \in m..(n - 1) |-> (from + k) % Limit]
<1>1. n \in 1..Limit /\ Limit \in Nat \ {0} /\ total \in 0..Limit /\ newest \in Nat
  BY Bounds, NumbersHeld DEF Sent, CacheIsSound, ActivityTypeOK
<1>3. from \in Cells /\ ToSet(FreshCells(c)) \subseteq Cells
  BY FreshIs
<1>2. m \in 0..n /\ m..(n - 1) \subseteq Cells
  BY <1>1 DEF Cells
<1>4. ASSUME NEW k \in Cells PROVE (from + k) % Limit \in Vacant <=> k \in m..(n - 1)
  <2>1. k \in 0..(Limit - 1)
    BY DEF Cells
  <2>2. (from + k) % Limit \in ToSet(FreshCells(c)) <=> k < n
    BY FreshIs
  <2>5. k < n => cache[(from + k) % Limit] =
                    IF Limit - n + k < total THEN newest - (Limit - n + k) ELSE 0
    BY Was
  <2> HIDE DEF from, n
  <2>3. CASE k < n
    <3>1. cache[(from + k) % Limit] = IF Limit - n + k < total THEN newest - (Limit - n + k) ELSE 0
      BY <2>3, <2>5
    <3>2. Limit - n + k < total => newest - (Limit - n + k) # 0
      <4> SUFFICES ASSUME Limit - n + k < total PROVE newest - (Limit - n + k) # 0
        OBVIOUS
      <4>1. start # -1
        BY <1>1, <2>1 DEF CacheIsSound, RingIsInOrder
      <4>2. total <= newest
        BY <1>1, <4>1 DEF CacheIsSound, RingIsFull, Least
      <4> QED
        BY <1>1, <2>1, <4>2
    <3>3. cache[(from + k) % Limit] = 0 <=> ~(Limit - n + k < total)
      BY <3>1, <3>2
    <3>4. ~(Limit - n + k < total) <=> k \in m..(n - 1)
      BY <1>1, <2>1, <2>3 DEF m
    <3> QED
      BY <2>2, <2>3, <3>3, <3>4 DEF Vacant
  <2>4. CASE ~(k < n)
    BY <1>1, <2>1, <2>2, <2>4
  <2> QED
    BY <2>3, <2>4
<1> HIDE DEF from, n, m, Vacant
<1>10. m \in Int /\ n \in Int
  BY <1>1, <1>2
<1>5. f \in Bijection(m..(n - 1), Vacant)
  <2>1. f \in [m..(n - 1) -> Vacant]
    BY <1>2, <1>4
  <2>2. ASSUME NEW k \in m..(n - 1), NEW l \in m..(n - 1), f[k] = f[l] PROVE k = l
    <3>1. k \in Cells /\ l \in Cells /\ (from + k) % Limit = (from + l) % Limit
      BY <1>2, <2>2
    <3>2. (((from + k) % Limit) - from) % Limit = k /\ (((from + l) % Limit) - from) % Limit = l
      BY <1>3, <3>1, Offsets
    <3> HIDE DEF from
    <3> QED
      BY <3>1, <3>2
  <2>3. ASSUME NEW i \in Vacant PROVE \E k \in m..(n - 1) : f[k] = i
    <3>1. i \in Cells
      BY <1>3 DEF Vacant
    <3>2. (i - from) % Limit \in Cells /\ (from + ((i - from) % Limit)) % Limit = i
      BY <1>3, <3>1, Offsets
    <3> DEFINE k == (i - from) % Limit
    <3>3. k \in m..(n - 1)
      BY <1>4, <3>2
    <3>4. f[k] = i
      BY <3>2, <3>3
    <3> QED
      BY <3>3, <3>4
  <2> HIDE DEF f
  <2> QED
    BY <2>1, <2>2, <2>3 DEF Bijection, Injection, Surjection, IsInjective
<1>6. Cardinality(Vacant) = n - m
  <2>1. IsFiniteSet(m..(n - 1)) /\ Cardinality(m..(n - 1)) = n - m
    <3>1. m \in Int /\ n - 1 \in Int /\ (m > n - 1 => n - m = 0)
      BY <1>1, <1>2
    <3>2. /\ IsFiniteSet(m..(n - 1))
          /\ Cardinality(m..(n - 1)) = IF m > n - 1 THEN 0 ELSE (n - 1) - m + 1
      BY <3>1, FS_Interval
    <3> QED
      BY <1>1, <1>2, <3>1, <3>2
  <2>2. ExistsBijection(m..(n - 1), Vacant)
    BY <1>5 DEF ExistsBijection
  <2> QED
    BY <2>1, <2>2, FS_Bijection, FS_SameCardinalityBij
<1>7. CountNew(FreshCells(c)) = total + Cardinality(Vacant)
  BY DEF CountNew, Vacant
<1>8. total + (n - m) = IF total + n < Limit THEN total + n ELSE Limit
  BY <1>1 DEF m
<1> QED
  BY <1>6, <1>7, <1>8 DEF Least, n

LEMMA SentIs ==
    ASSUME CacheIsSound, NEW c \in Callers, Sent(c)
    PROVE  /\ items[c] \in Seq(Entries) /\ Len(items[c]) \in 1..Limit
           /\ items[c][1] \in Entries /\ items[c][1] <= logged /\ items[c][1] > newest
           /\ items[c][1] - Len(items[c]) >= newest /\ thisSync[c] <= items[c][1]
           /\ \/ items[c][1] - Len(items[c]) = newest
              \/ Len(items[c]) = Limit /\ items[c][1] - Limit >= newest
<1> DEFINE n == Len(items[c])
           q == items[c][1]
<1>1. items[c] \in Seq(Entries) /\ n \in 1..Limit /\ Limit \in Nat /\ newest \in Nat
      /\ thisSync[c] \in Nat
  BY Bounds, NumbersHeld DEF CacheIsSound, ActivityTypeOK, Sent
<1>2. 1 \in 1..n
  BY <1>1
<1>3. q \in Entries
  BY <1>1, <1>2, ElementOfSeq
<1>7. q \in Nat
  BY <1>3, Bounds DEF Entries
<1>4. /\ q - n = newest \/ (n = Limit /\ q - Limit >= newest)
      /\ q \in thisSync[c]..logged
  BY DEF Sent
<1> HIDE DEF n, q
<1>5. q <= logged /\ thisSync[c] <= q
  BY <1>1, <1>4, <1>7, NumbersHeld
<1>6. q > newest /\ q - n >= newest
  BY <1>1, <1>4, <1>7
<1> QED
  BY <1>1, <1>3, <1>4, <1>5, <1>6 DEF n, q

LEMMA PlaceKeepsRing ==
    ASSUME CacheIsSound, NEW c \in Callers, Sent(c), Place(c)
    PROVE  /\ start' \in Cells /\ newest' = items[c][1] /\ cache' \in [Cells -> 0..MaxEvents]
           /\ total' = Least(newest', Limit) /\ total' \in 0..Limit
           /\ RingIsInOrder' /\ IndexFindsEntries'
           /\ byEntryID' \in [Entries -> Cells \cup {Nil}]
<1> DEFINE n == Len(items[c])
           q == items[c][1]
           from == NewStart(n)
           entry == Placed(c)
<1>1. /\ start' = from /\ total' = CountNew(FreshCells(c)) /\ byEntryID' = Reindex(entry)
      /\ cache' = [i \in Cells |-> IF i \in DOMAIN entry THEN entry[i] ELSE cache[i]]
  BY DEF Place, Placed, FreshCells
<1>2. /\ n \in 1..Limit /\ q \in Entries /\ q <= logged /\ q > newest /\ q - n >= newest
      /\ q - n = newest \/ (n = Limit /\ q - Limit >= newest)
  BY SentIs
<1>19. /\ total \in 0..Limit /\ cache \in [Cells -> 0..MaxEvents]
       /\ byEntryID \in [Entries -> Cells \cup {Nil}]
  BY DEF CacheIsSound, ActivityTypeOK
<1>20. q \in Nat /\ n \in Nat
  BY <1>2, Bounds DEF Entries
<1>3. /\ Limit \in Nat \ {0} /\ newest \in Nat /\ logged \in Nat /\ logged <= MaxEvents
      /\ MaxEvents \in Nat /\ q \in Nat /\ n \in Nat /\ total \in 0..Limit
      /\ cache \in [Cells -> 0..MaxEvents] /\ byEntryID \in [Entries -> Cells \cup {Nil}]
  BY <1>19, <1>20, Bounds, NumbersHeld
<1>4. DOMAIN entry = ToSet(FreshCells(c)) /\ ToSet(FreshCells(c)) \subseteq Cells /\ from \in Cells
  BY FreshIs DEF Placed
<1>5. \A k \in Cells : /\ (from + k) % Limit \in DOMAIN entry <=> k < n
                       /\ k < n => entry[(from + k) % Limit] = q - k
  BY <1>4, FreshIs, PlacedIs
<1>6. total' = Least(total + n, Limit)
  BY <1>1, CountIs
<1>7. \A k \in Cells : ~(k < n) => cache[(from + k) % Limit] = IF k - n < total
                                                              THEN newest - (k - n) ELSE 0
  BY Was
<1>8. \A k \in Cells : (from + k) % Limit \in Cells
  <2>1. \A k \in Cells : from + k \in Int
    BY <1>4 DEF Cells
  <2> QED
    BY <2>1, Around
<1> HIDE DEF n, q, from, entry
<1>9. \A k \in Cells : cache'[(from + k) % Limit] = IF k < n THEN q - k
                                                   ELSE IF k - n < total
                                                   THEN newest - (k - n) ELSE 0
  <2> SUFFICES ASSUME NEW k \in Cells
               PROVE  cache'[(from + k) % Limit] = IF k < n THEN q - k
                                                   ELSE IF k - n < total
                                                   THEN newest - (k - n) ELSE 0
    OBVIOUS
  <2> DEFINE i == (from + k) % Limit
  <2>1. i \in Cells /\ (i \in DOMAIN entry <=> k < n) /\ (k < n => entry[i] = q - k)
    BY <1>5, <1>8
  <2>2. ~(k < n) => cache[i] = IF k - n < total THEN newest - (k - n) ELSE 0
    BY <1>7
  <2>3. cache'[i] = IF i \in DOMAIN entry THEN entry[i] ELSE cache[i]
    BY <1>1, <2>1
  <2> HIDE DEF i
  <2>4. cache'[i] = IF k < n THEN q - k ELSE IF k - n < total THEN newest - (k - n) ELSE 0
    BY <2>1, <2>2, <2>3
  <2> QED
    BY <2>4 DEF i
<1>10. cache'[from] = q
  <2>1. from \in 0..(Limit - 1) /\ from \in Int
    BY <1>4 DEF Cells
  <2>3. from % Limit = from
    BY <1>3, <2>1, Around
  <2>4. (from + 0) % Limit = from
    BY <2>1, <2>3
  <2>2. cache'[(from + 0) % Limit] = IF 0 < n THEN q - 0 ELSE IF 0 - n < total
                                                   THEN newest - (0 - n) ELSE 0
    BY <1>9, Bounds
  <2>5. 0 < n
    BY <1>2, <1>3
  <2> QED
    BY <1>3, <2>4, <2>2, <2>5
<1>11. newest' = q /\ start' \in Cells
  BY <1>1, <1>3, <1>4, <1>10 DEF newest, Cells
<1>12. total' = Least(q, Limit)
  <2>1. CASE start = -1
    <3>1. total = 0 /\ newest = 0
      BY <2>1, NumbersHeld DEF CacheIsSound, RingIsInOrder
    <3> QED
      BY <1>2, <1>3, <1>6, <3>1 DEF Least
  <2>2. CASE start # -1
    <3>1. total = Least(newest, Limit)
      BY <2>2 DEF CacheIsSound, RingIsFull
    <3> QED
      BY <1>2, <1>3, <1>6, <3>1 DEF Least
  <2> QED
    BY <2>1, <2>2
<1>13. RingIsInOrder'
  <2>1. start' # -1
    BY <1>3, <1>11 DEF Cells
  <2>2. ASSUME NEW k \in 0..(Limit - 1)
        PROVE  cache'[(start' + k) % Limit] = IF k < total' THEN cache'[start'] - k ELSE 0
    <3>1. k \in Cells
      BY DEF Cells
    <3>2. cache'[(from + k) % Limit] = IF k < n THEN q - k
                                       ELSE IF k - n < total THEN newest - (k - n) ELSE 0
      BY <1>9, <3>1
    <3>3. CASE k < n
      <4>1. k < total'
        BY <1>2, <1>3, <1>6, <3>3 DEF Least
      <4> QED
        BY <1>1, <1>10, <3>2, <3>3, <4>1
    <3>4. CASE ~(k < n)
      <4>1. n # Limit /\ q - n = newest
        BY <1>2, <1>3, <3>4
      <4>2. k < total' <=> k - n < total
        BY <1>3, <1>6, <3>4 DEF Least
      <4>3. newest - (k - n) = q - k
        BY <1>3, <4>1
      <4> QED
        BY <1>1, <1>10, <3>2, <3>4, <4>2, <4>3
    <3> QED
      BY <3>3, <3>4
  <2> QED
    BY <2>1, <2>2 DEF RingIsInOrder
\* Two cells are not given the same entry, and none an entry that the ring had.
<1>14. \A i \in DOMAIN entry : /\ entry[i] \in Entries /\ entry[i] > newest
                               /\ \A j \in DOMAIN entry : entry[i] = entry[j] => i = j
  <2>1. ASSUME NEW i \in DOMAIN entry
        PROVE  LET k == (i - from) % Limit
               IN  /\ k \in Cells /\ k < n /\ entry[i] = q - k /\ i = (from + k) % Limit
    <3>1. i \in Cells
      BY <1>4
    <3>2. (i - from) % Limit \in Cells /\ (from + ((i - from) % Limit)) % Limit = i
      BY <1>4, <3>1, Offsets
    <3> DEFINE k == (i - from) % Limit
    <3>3. k \in Cells /\ (from + k) % Limit = i
      BY <3>2
    <3> HIDE DEF k
    <3>4. k < n /\ entry[i] = q - k
      BY <1>5, <3>3
    <3> QED
      BY <3>3, <3>4 DEF k
  <2>2. ASSUME NEW i \in DOMAIN entry PROVE entry[i] \in Entries /\ entry[i] > newest
    <3>1. PICK k \in Cells : k < n /\ entry[i] = q - k
      BY <2>1
    <3>2. k \in Nat
      BY <1>3 DEF Cells
    <3> QED
      BY <1>2, <1>3, <3>1, <3>2 DEF Entries
  <2>3. ASSUME NEW i \in DOMAIN entry, NEW j \in DOMAIN entry, entry[i] = entry[j] PROVE i = j
    <3>1. PICK k \in Cells : k < n /\ entry[i] = q - k /\ i = (from + k) % Limit
      BY <2>1
    <3>2. PICK l \in Cells : l < n /\ entry[j] = q - l /\ j = (from + l) % Limit
      BY <2>1
    <3>4. k \in Int /\ l \in Int
      BY <1>3 DEF Cells
    <3>5. q - k = q - l
      BY <2>3, <3>1, <3>2
    <3>3. k = l
      BY <1>3, <3>4, <3>5
    <3> QED
      BY <3>1, <3>2, <3>3
  <2> QED
    BY <2>2, <2>3
<1>15. cache' \in [Cells -> 0..MaxEvents]
  <2>1. \A i \in DOMAIN entry : entry[i] \in 0..MaxEvents
    BY <1>3, <1>14 DEF Entries
  <2> QED
    BY <1>1, <1>3, <2>1
<1>16. ASSUME NEW e \in Entries
       PROVE  /\ byEntryID'[e] \in Cells \cup {Nil}
              /\ \A i \in Cells : byEntryID'[e] = i <=> cache'[i] = e
  <2>1. byEntryID'[e] = IF \E i \in DOMAIN entry : entry[i] = e
                        THEN CHOOSE i \in DOMAIN entry : entry[i] = e
                        ELSE IF byEntryID[e] \in DOMAIN entry THEN Nil ELSE byEntryID[e]
    BY <1>1 DEF Reindex
  <2>2. CASE \E i \in DOMAIN entry : entry[i] = e
    <3> DEFINE j == CHOOSE i \in DOMAIN entry : entry[i] = e
    <3>1. j \in DOMAIN entry /\ entry[j] = e /\ byEntryID'[e] = j
      BY <2>1, <2>2
    <3> HIDE DEF j
    <3>2. j \in Cells /\ cache'[j] = e /\ e > newest
      BY <1>1, <1>4, <1>14, <3>1
    <3>3. ASSUME NEW i \in Cells, cache'[i] = e PROVE i = j
      <4>1. CASE i \in DOMAIN entry
        <5>1. entry[i] = e
          BY <1>1, <3>3, <4>1
        <5> QED
          BY <1>14, <3>1, <4>1, <5>1
      <4>2. CASE i \notin DOMAIN entry
        <5>1. cache[i] = e
          BY <1>1, <3>3, <4>2
        <5>2. cache[i] \in Nat /\ cache[i] <= newest
          BY CellHas
        <5> QED
          BY <1>3, <3>2, <5>1, <5>2
      <4> QED
        BY <4>1, <4>2
    <3> QED
      BY <3>1, <3>2, <3>3
  <2>3. CASE ~\E i \in DOMAIN entry : entry[i] = e
    <3>1. \A i \in Cells : byEntryID[e] = i <=> cache[i] = e
      BY DEF CacheIsSound, IndexFindsEntries
    <3>2. byEntryID[e] \in Cells \cup {Nil} /\ Nil \notin Cells
      BY <1>3, Bounds
    <3>3. byEntryID'[e] = IF byEntryID[e] \in DOMAIN entry THEN Nil ELSE byEntryID[e]
      BY <2>1, <2>3
    <3>4. ASSUME NEW i \in Cells PROVE byEntryID'[e] = i <=> cache'[i] = e
      <4>1. CASE i \in DOMAIN entry
        <5>1. cache'[i] # e
          BY <1>1, <2>3, <4>1
        <5>2. byEntryID'[e] # i
          BY <3>2, <3>3, <4>1
        <5> QED
          BY <5>1, <5>2
      <4>2. CASE i \notin DOMAIN entry
        <5>1. cache'[i] = cache[i]
          BY <1>1, <4>2
        <5> QED
          BY <3>1, <3>2, <3>3, <4>2, <5>1
      <4> QED
        BY <4>1, <4>2
    <3> QED
      BY <3>2, <3>3, <3>4
  <2> QED
    BY <2>2, <2>3
<1>17. byEntryID' \in [Entries -> Cells \cup {Nil}] /\ IndexFindsEntries'
  <2>1. byEntryID' = [e \in Entries |-> byEntryID'[e]]
    BY <1>1 DEF Reindex
  <2> QED
    BY <1>16, <2>1 DEF IndexFindsEntries
<1>18. total' \in 0..Limit
  BY <1>3, <1>12 DEF Least
<1> QED
  BY <1>11, <1>12, <1>13, <1>15, <1>17, <1>18 DEF q

-----------------------------------------------------------------------------
(* Steps *)

LEMMA OneStillSyncs ==
    ASSUME OneSyncs, at \in [Callers -> Places], NEW c \in Callers, NEW place, Goto(c, place),
           \/ place \notin Syncing /\ syncing' = syncing
           \/ place \notin Syncing /\ at[c] \in Syncing
           \/ place \in Syncing /\ at[c] \in Syncing /\ syncing' = syncing
           \/ ~syncing /\ syncing' = TRUE
    PROVE  OneSyncs'
<1>1. at'[c] = place /\ \A d \in Callers : d # c => at'[d] = at[d]
  BY DEF Goto
<1> HIDE DEF Syncing
<1>2. \A d, e \in Callers : at'[d] \in Syncing /\ at'[e] \in Syncing => d = e
  BY <1>1 DEF OneSyncs
<1>3. \A d \in Callers : at'[d] \in Syncing => syncing'
  BY <1>1 DEF OneSyncs
<1> QED
  BY <1>2, <1>3 DEF OneSyncs, Syncing

LEMMA RingIsKept ==
    ASSUME CacheIsSound, UNCHANGED <<userOf, ring>>
    PROVE  /\ RingIsInOrder' /\ IndexFindsEntries' /\ RingIsFull'
           /\ newest' = newest /\ logged' = logged
<1>1. /\ userOf' = userOf /\ cache' = cache /\ start' = start /\ total' = total
      /\ byEntryID' = byEntryID
  BY DEF ring
<1>2. newest' = newest /\ logged' = logged
  BY <1>1 DEF newest, logged
<1>3. RingIsInOrder'
  BY <1>1 DEF RingIsInOrder, CacheIsSound
<1>4. IndexFindsEntries'
  BY <1>1 DEF IndexFindsEntries, CacheIsSound
<1>5. RingIsFull'
  BY <1>1, <1>2 DEF RingIsFull, CacheIsSound
<1> QED
  BY <1>2, <1>3, <1>4, <1>5

\* What a caller is about stays right while what it reads stays as it is.
LEMMA TimesOfKept ==
    ASSUME NEW d \in Callers, TimesOf(d), at'[d] = at[d], thisSync'[d] = thisSync[d],
           items'[d] = items[d], newest' = newest, logged' = logged
    PROVE  TimesOf(d)'
<1>1. Sent(d) => Sent(d)'
  BY DEF Sent
<1> QED
  BY <1>1 DEF TimesOf

LEMMA ReadsKept ==
    ASSUME ActivityTypeOK, ActivityTypeOK', NEW d \in Callers, Reads(d),
           at'[d] = at[d], looks'[d] = looks[d],
           found'[d] = found[d], \A u \in Users : Len(lists[u]) <= Len(lists'[u])
    PROVE  Reads(d)'
<1>1. \A u \in Users : Len(lists[u]) \in Nat /\ Len(lists'[u]) \in Nat
  BY LenProperties DEF ActivityTypeOK
<1>2. \A u \in Users : found[d] \in 0..Len(lists[u]) => found[d] \in 0..Len(lists'[u])
  BY <1>1
<1> QED
  BY <1>2 DEF Reads

\* A step of a caller that leaves the ring and the others alone.
LEMMA StepIsSound ==
    ASSUME CacheIsSound, NEW c \in Callers, NEW place, Goto(c, place),
           UNCHANGED <<userOf, ring>>, ActivityTypeOK', Domains',
           \A d \in Callers : d # c => /\ thisSync'[d] = thisSync[d] /\ items'[d] = items[d]
                                       /\ looks'[d] = looks[d] /\ found'[d] = found[d],
           \A u \in Users : Len(lists[u]) <= Len(lists'[u]),
           lastSync' <= newest, lastYieldingSync' <= newest,
           OneSyncs', TimesOf(c)', Reads(c)'
    PROVE  CacheIsSound'
<1>1. \A d \in Callers : d # c => at'[d] = at[d]
  BY DEF Goto, CacheIsSound, ActivityTypeOK
<1>2. /\ RingIsInOrder' /\ IndexFindsEntries' /\ RingIsFull'
      /\ newest' = newest /\ logged' = logged
  BY RingIsKept
<1>3. \A d \in Callers : TimesOf(d)'
  <2> SUFFICES ASSUME NEW d \in Callers, d # c PROVE TimesOf(d)'
    OBVIOUS
  <2>1. TimesOf(d)
    BY DEF CacheIsSound, Times
  <2>2. /\ at'[d] = at[d] /\ thisSync'[d] = thisSync[d] /\ items'[d] = items[d]
        /\ newest' = newest /\ logged' = logged
    BY <1>1, <1>2
  <2> QED
    BY <2>1, <2>2, TimesOfKept
<1>4. \A d \in Callers : Reads(d)'
  <2> SUFFICES ASSUME NEW d \in Callers, d # c PROVE Reads(d)'
    OBVIOUS
  <2>1. ActivityTypeOK /\ Reads(d)
    BY DEF CacheIsSound
  <2>2. at'[d] = at[d] /\ looks'[d] = looks[d] /\ found'[d] = found[d]
    BY <1>1
  <2> QED
    BY <2>1, <2>2, ReadsKept
<1>5. Times'
  BY <1>2, <1>3 DEF Times
<1> QED
  BY <1>2, <1>4, <1>5 DEF CacheIsSound

LEMMA LogEventIsSound ==
    ASSUME CacheIsSound, LogEvent PROVE CacheIsSound'
<1>1. PICK u \in Users : userOf' = Append(userOf, u)
  BY DEF LogEvent
<1>2. /\ logged < MaxEvents
      /\ UNCHANGED <<ring, slices, clock, syncing, at, sync, lookup, failures>>
  BY DEF LogEvent
<1>3. userOf \in Seq(Users) /\ logged \in Nat /\ newest <= logged /\ newest \in Nat
  BY NumbersHeld DEF CacheIsSound, ActivityTypeOK
<1>4. userOf' \in Seq(Users) /\ logged' = logged + 1 /\ logged' <= MaxEvents
  BY <1>1, <1>2, <1>3, Bounds, AppendProperties DEF logged
<1>5. newest' = newest
  BY <1>2 DEF newest, ring
<1>6. ActivityTypeOK' /\ Domains'
  BY <1>2, <1>4 DEF CacheIsSound, ActivityTypeOK, Domains, ring, slices, clock, sync, lookup
<1>7. RingIsInOrder' /\ IndexFindsEntries' /\ OneSyncs'
  BY <1>2 DEF CacheIsSound, RingIsInOrder, IndexFindsEntries, OneSyncs, ring
<1>8. RingIsFull'
  BY <1>2, <1>3, <1>4, <1>5 DEF CacheIsSound, RingIsFull, ring
<1>9. ASSUME NEW d \in Callers PROVE TimesOf(d)'
  <2>1. TimesOf(d)
    BY DEF CacheIsSound, Times
  <2>2. thisSync[d] \in Nat /\ at'[d] = at[d] /\ items'[d] = items[d] /\ thisSync'[d] = thisSync[d]
    BY <1>2, Bounds DEF CacheIsSound, ActivityTypeOK, sync
  <2>3. ASSUME Sent(d) PROVE Sent(d)'
    <3>1. items[d][1] \in thisSync[d]..logged'
      BY <1>3, <1>4, <2>2, <2>3 DEF Sent
    <3> QED
      BY <1>5, <2>2, <2>3, <3>1 DEF Sent
  <2>4. thisSync[d] <= logged => thisSync'[d] <= logged'
    BY <1>3, <1>4, <2>2
  <2> QED
    BY <1>5, <2>1, <2>2, <2>3, <2>4 DEF TimesOf
<1>10. Times'
  BY <1>2, <1>5, <1>9 DEF CacheIsSound, Times, clock
<1>11. \A d \in Callers : Reads(d)'
  BY <1>2 DEF CacheIsSound, Reads, slices, lookup
<1> QED
  BY <1>6, <1>7, <1>8, <1>10, <1>11 DEF CacheIsSound

LEMMA GrowOldIsSound ==
    ASSUME CacheIsSound, GrowOld PROVE CacheIsSound'
<1>1. /\ fresh' = FALSE /\ lastSync' = lastSync /\ lastYieldingSync' = lastYieldingSync
      /\ UNCHANGED <<userOf, ring, slices, syncing, at, sync, lookup, failures>>
  BY DEF GrowOld
<1>2. /\ RingIsInOrder' /\ IndexFindsEntries' /\ RingIsFull'
      /\ newest' = newest /\ logged' = logged
  BY <1>1, RingIsKept
<1>3. ActivityTypeOK' /\ Domains'
  BY <1>1, <1>2 DEF CacheIsSound, ActivityTypeOK, Domains, ring, slices, sync, lookup
<1>4. OneSyncs'
  BY <1>1 DEF CacheIsSound, OneSyncs
<1>5. \A d \in Callers : TimesOf(d)'
  <2> SUFFICES ASSUME NEW d \in Callers PROVE TimesOf(d)'
    OBVIOUS
  <2>1. /\ at'[d] = at[d] /\ thisSync'[d] = thisSync[d] /\ items'[d] = items[d]
    BY <1>1 DEF sync
  <2>2. TimesOf(d)
    BY DEF CacheIsSound, Times
  <2> QED
    BY <1>2, <2>1, <2>2, TimesOfKept
<1>6. Times'
  BY <1>1, <1>2, <1>5 DEF CacheIsSound, Times
<1>7. \A d \in Callers : Reads(d)'
  BY <1>1 DEF CacheIsSound, Reads, slices, lookup
<1> QED
  BY <1>2, <1>3, <1>4, <1>6, <1>7 DEF CacheIsSound

LEMMA StutterIsSound ==
    ASSUME CacheIsSound, UNCHANGED activityVars PROVE CacheIsSound'
<1>1. /\ fresh' = fresh /\ lastSync' = lastSync /\ lastYieldingSync' = lastYieldingSync
      /\ UNCHANGED <<userOf, ring, slices, syncing, at, sync, lookup, failures>>
  BY DEF activityVars, clock
<1>2. /\ RingIsInOrder' /\ IndexFindsEntries' /\ RingIsFull'
      /\ newest' = newest /\ logged' = logged
  BY <1>1, RingIsKept
<1>3. ActivityTypeOK' /\ Domains'
  BY <1>1, <1>2 DEF CacheIsSound, ActivityTypeOK, Domains, ring, slices, sync, lookup
<1>4. OneSyncs'
  BY <1>1 DEF CacheIsSound, OneSyncs
<1>5. \A d \in Callers : TimesOf(d)'
  <2> SUFFICES ASSUME NEW d \in Callers PROVE TimesOf(d)'
    OBVIOUS
  <2>1. /\ at'[d] = at[d] /\ thisSync'[d] = thisSync[d] /\ items'[d] = items[d]
    BY <1>1 DEF sync
  <2>2. TimesOf(d)
    BY DEF CacheIsSound, Times
  <2> QED
    BY <1>2, <2>1, <2>2, TimesOfKept
<1>6. Times'
  BY <1>1, <1>2, <1>5 DEF CacheIsSound, Times
<1>7. \A d \in Callers : Reads(d)'
  BY <1>1 DEF CacheIsSound, Reads, slices, lookup
<1> QED
  BY <1>2, <1>3, <1>4, <1>6, <1>7 DEF CacheIsSound

LEMMA CallIsSound ==
    ASSUME CacheIsSound, NEW c \in Callers, Call(c) PROVE CacheIsSound'
<1> DEFINE place == IF fresh THEN "read" ELSE "claim"
<1>1. /\ at[c] = "idle" /\ Goto(c, place) /\ result' = [result EXCEPT ![c] = {}]
      /\ UNCHANGED <<userOf, ring, slices, clock, syncing, sync, found, failures>>
  BY DEF Call
<1>2. PICK x \in Users \union 1..logged : looks' = [looks EXCEPT ![c] = x]
  BY DEF Call
<1>3. x \in Users \union Entries
  BY NumbersHeld, Bounds DEF Entries
<1>4. place \in Places /\ place \notin Syncing
  BY DEF Places, Syncing
<1> HIDE DEF place
<1>5. ActivityTypeOK' /\ Domains'
  <2>1. looks' \in [Callers -> Users \union Entries \union {Nil}]
    BY <1>2, <1>3 DEF CacheIsSound, ActivityTypeOK
  <2>2. at' \in [Callers -> Places]
    BY <1>1, <1>4 DEF CacheIsSound, ActivityTypeOK, Goto
  <2>3. DOMAIN result' = Callers /\ \A d \in Callers : result'[d] \subseteq 0..MaxEvents
    BY <1>1 DEF CacheIsSound, ActivityTypeOK, Domains
  <2>4. logged' = logged
    BY <1>1 DEF logged
  <2> QED
    BY <1>1, <2>1, <2>2, <2>3, <2>4
       DEF CacheIsSound, ActivityTypeOK, Domains, ring, slices, clock, sync
<1>6. at'[c] = place /\ looks'[c] = x
  BY <1>1, <1>2 DEF CacheIsSound, ActivityTypeOK, Goto
<1>7. OneSyncs'
  BY <1>1, <1>4, OneStillSyncs DEF CacheIsSound, ActivityTypeOK
<1>8. TimesOf(c)'
  BY <1>4, <1>6 DEF TimesOf, Syncing
<1>9. Reads(c)'
  BY <1>3, <1>6 DEF Reads, place
<1>10. lastSync' <= newest /\ lastYieldingSync' <= newest
  BY <1>1 DEF CacheIsSound, Times, clock
<1>11. \A d \in Callers : d # c => /\ thisSync'[d] = thisSync[d] /\ items'[d] = items[d]
                                   /\ looks'[d] = looks[d] /\ found'[d] = found[d]
  BY <1>1, <1>2 DEF sync, CacheIsSound, ActivityTypeOK
<1>12. \A u \in Users : Len(lists[u]) <= Len(lists'[u])
  BY <1>1, LenProperties DEF slices, CacheIsSound, ActivityTypeOK
<1> QED
  BY <1>1, <1>5, <1>7, <1>8, <1>9, <1>10, <1>11, <1>12, StepIsSound

LEMMA ClaimIsSound ==
    ASSUME CacheIsSound, NEW c \in Callers, Claim(c) PROVE CacheIsSound'
<1> DEFINE place == IF syncing THEN "spin" ELSE "query"
<1>1. /\ at[c] = "claim" /\ Goto(c, place) /\ syncing' = TRUE
      /\ thisSync' = IF syncing THEN thisSync ELSE [thisSync EXCEPT ![c] = logged]
      /\ UNCHANGED <<userOf, ring, slices, clock, items, prior, lookup, failures>>
  BY DEF Claim
<1>2. logged \in Nat /\ logged <= MaxEvents /\ logged \in 0..MaxEvents
  BY NumbersHeld, Bounds
<1>3. place \in Places /\ (syncing => place \notin Syncing) /\ (~syncing => place = "query")
  BY DEF Places, Syncing
<1> HIDE DEF place
<1>4. logged' = logged /\ newest' = newest
  BY <1>1 DEF logged, newest, ring
<1>5. ActivityTypeOK' /\ Domains'
  <2>1. thisSync' \in [Callers -> 0..MaxEvents]
    BY <1>1, <1>2 DEF CacheIsSound, ActivityTypeOK
  <2>2. at' \in [Callers -> Places]
    BY <1>1, <1>3 DEF CacheIsSound, ActivityTypeOK, Goto
  <2> QED
    BY <1>1, <1>4, <2>1, <2>2 DEF CacheIsSound, ActivityTypeOK, Domains, ring, slices, clock, lookup
<1>6. at'[c] = place /\ looks'[c] = looks[c] /\ (~syncing => thisSync'[c] = logged)
  BY <1>1 DEF CacheIsSound, ActivityTypeOK, Goto, lookup
<1>7. OneSyncs'
  <2>1. syncing \in BOOLEAN
    BY DEF CacheIsSound, ActivityTypeOK
  <2> QED
    BY <1>1, <1>3, <2>1, OneStillSyncs DEF CacheIsSound, ActivityTypeOK
<1>8. TimesOf(c)'
  BY <1>2, <1>3, <1>4, <1>6 DEF TimesOf, Syncing
<1>9. Reads(c)'
  BY <1>1, <1>3, <1>6 DEF Reads, place, CacheIsSound
<1>10. lastSync' <= newest /\ lastYieldingSync' <= newest
  BY <1>1 DEF CacheIsSound, Times, clock
<1>11. \A d \in Callers : d # c => /\ thisSync'[d] = thisSync[d] /\ items'[d] = items[d]
                                   /\ looks'[d] = looks[d] /\ found'[d] = found[d]
  BY <1>1 DEF lookup, CacheIsSound, ActivityTypeOK
<1>12. \A u \in Users : Len(lists[u]) <= Len(lists'[u])
  BY <1>1, LenProperties DEF slices, CacheIsSound, ActivityTypeOK
<1> QED
  BY <1>1, <1>5, <1>7, <1>8, <1>9, <1>10, <1>11, <1>12, StepIsSound

LEMMA QueryIsSound ==
    ASSUME CacheIsSound, NEW c \in Callers, Query(c) PROVE CacheIsSound'
<1> DEFINE new == New(ActivityLog(lastYieldingSync))
           place == IF new = <<>> THEN "finish" ELSE "wipe"
<1>1. /\ at[c] = "query" /\ Goto(c, place) /\ items' = [items EXCEPT ![c] = new]
      /\ UNCHANGED <<userOf, ring, slices, clock, syncing, thisSync, prior, lookup, failures>>
  BY DEF Query
<1>2. lastYieldingSync \in Nat /\ lastYieldingSync <= newest
  BY Bounds DEF CacheIsSound, ActivityTypeOK, Times
<1>3. /\ new \in Seq(Entries) /\ Len(new) \in 0..Limit
      /\ \A k \in 1..Len(new) : new[k] = logged - k + 1
      /\ \/ logged - Len(new) = newest
         \/ Len(new) = Limit /\ logged - Limit >= newest
  BY <1>2, NewIs
<1> HIDE DEF new
<1>4. place \in Places /\ place \in Syncing /\ (new # <<>> => place = "wipe")
      /\ (new = <<>> => place = "finish")
  BY DEF Places, Syncing
<1> HIDE DEF place
<1>5. logged' = logged /\ newest' = newest /\ logged \in Nat /\ newest \in Nat
      /\ Limit \in Nat \ {0}
  BY <1>1, NumbersHeld, Bounds DEF logged, newest, ring
<1>6. DOMAIN items = Callers
  BY DEF CacheIsSound, Domains
<1>7. /\ at'[c] = place /\ items'[c] = new
      /\ \A d \in Callers : d # c => items'[d] = items[d]
  BY <1>1, <1>6 DEF CacheIsSound, ActivityTypeOK, Goto
<1>8. ActivityTypeOK' /\ Domains'
  <2>1. \A d \in Callers : items'[d] \in Seq(Entries) /\ Len(items'[d]) <= Limit
    <3>1. Len(new) <= Limit
      BY <1>3, <1>5
    <3>2. \A d \in Callers : items[d] \in Seq(Entries) /\ Len(items[d]) <= Limit
      BY DEF CacheIsSound, ActivityTypeOK
    <3> QED
      BY <1>3, <1>7, <3>1, <3>2
  <2>2. at' \in [Callers -> Places]
    BY <1>1, <1>4 DEF CacheIsSound, ActivityTypeOK, Goto
  <2>3. DOMAIN items' = Callers
    BY <1>1, <1>6
  <2> QED
    BY <1>1, <1>5, <2>1, <2>2, <2>3
       DEF CacheIsSound, ActivityTypeOK, Domains, ring, slices, clock, lookup
<1>9. OneSyncs'
  <2>1. at[c] \in Syncing
    BY <1>1 DEF Syncing
  <2> QED
    BY <1>1, <1>4, <2>1, OneStillSyncs DEF CacheIsSound, ActivityTypeOK
<1>10. thisSync'[c] = thisSync[c] /\ thisSync[c] <= logged /\ thisSync[c] \in Nat
  BY <1>1, Bounds DEF CacheIsSound, ActivityTypeOK, Times, TimesOf
<1>11. ASSUME new = <<>> PROVE TimesOf(c)'
  <2>1. Len(new) = 0
    BY <1>11
  <2>2. logged = newest
    BY <1>3, <1>5, <2>1
  <2>3. TimesOf(c)'
    BY <1>4, <1>5, <1>7, <1>10, <1>11, <2>2 DEF TimesOf
  <2> QED
    BY <2>3
<1>12. ASSUME new # <<>> PROVE TimesOf(c)'
  <2>1. Len(new) # 0 /\ Len(new) \in Nat
    BY <1>3, <1>12, EmptySeq, LenProperties
  <2>2. Len(new) \in 1..Limit /\ 1 \in 1..Len(new)
    BY <1>3, <1>5, <2>1
  <2>3. new[1] = logged - 1 + 1
    BY <1>3, <2>2
  <2>4. new[1] = logged
    BY <1>5, <2>3
  <2>5. \A k \in 1..Len(new) : new[k] = new[1] - k + 1
    BY <1>3, <2>4
  <2>6. new[1] \in thisSync[c]..logged
    BY <1>5, <1>10, <2>4
  <2>7. \/ new[1] - Len(new) = newest
        \/ Len(new) = Limit /\ new[1] - Limit >= newest
    BY <1>3, <2>4
  <2>8. Sent(c)'
    BY <1>5, <1>7, <1>10, <2>2, <2>5, <2>6, <2>7 DEF Sent
  <2> QED
    BY <1>4, <1>7, <1>12, <2>8 DEF TimesOf
<1>13. TimesOf(c)'
  BY <1>11, <1>12
<1>14. Reads(c)'
  BY <1>1, <1>4, <1>7 DEF Reads, CacheIsSound, lookup, place
<1>15. lastSync' <= newest /\ lastYieldingSync' <= newest
  BY <1>1 DEF CacheIsSound, Times, clock
<1>16. \A d \in Callers : d # c => /\ thisSync'[d] = thisSync[d] /\ items'[d] = items[d]
                                   /\ looks'[d] = looks[d] /\ found'[d] = found[d]
  BY <1>1, <1>7 DEF lookup
<1>17. \A u \in Users : Len(lists[u]) <= Len(lists'[u])
  BY <1>1, LenProperties DEF slices, CacheIsSound, ActivityTypeOK
<1> QED
  BY <1>1, <1>8, <1>9, <1>13, <1>14, <1>15, <1>16, <1>17, StepIsSound

LEMMA QueryFailsIsSound ==
    ASSUME CacheIsSound, NEW c \in Callers, QueryFails(c) PROVE CacheIsSound'
<1>1. /\ at[c] = "query" /\ failures < MaxFailures /\ failures' = failures + 1
      /\ syncing' = FALSE /\ thisSync' = [thisSync EXCEPT ![c] = 0]
      /\ looks' = [looks EXCEPT ![c] = Nil] /\ Goto(c, "idle")
      /\ UNCHANGED <<userOf, ring, slices, clock, items, prior, found, result>>
  BY DEF QueryFails
<1>2. logged' = logged
  BY <1>1 DEF logged
<1>3. ActivityTypeOK' /\ Domains'
  <2>1. thisSync' \in [Callers -> 0..MaxEvents]
    BY <1>1, Bounds DEF CacheIsSound, ActivityTypeOK
  <2>2. at' \in [Callers -> Places]
    BY <1>1 DEF CacheIsSound, ActivityTypeOK, Goto, Places
  <2>3. looks' \in [Callers -> Users \union Entries \union {Nil}]
    BY <1>1 DEF CacheIsSound, ActivityTypeOK
  <2>4. failures' \in 0..MaxFailures
    BY <1>1, Bounds DEF CacheIsSound, ActivityTypeOK
  <2> QED
    BY <1>1, <1>2, <2>1, <2>2, <2>3, <2>4
       DEF CacheIsSound, ActivityTypeOK, Domains, ring, slices, clock
<1>4. at'[c] = "idle"
  BY <1>1 DEF CacheIsSound, ActivityTypeOK, Goto
<1>5. OneSyncs'
  BY <1>1, OneStillSyncs DEF CacheIsSound, ActivityTypeOK, Syncing
<1>6. TimesOf(c)' /\ Reads(c)'
  BY <1>4 DEF TimesOf, Reads
<1>7. lastSync' <= newest /\ lastYieldingSync' <= newest
  BY <1>1 DEF CacheIsSound, Times, clock
<1>8. \A d \in Callers : d # c => /\ thisSync'[d] = thisSync[d] /\ items'[d] = items[d]
                                  /\ looks'[d] = looks[d] /\ found'[d] = found[d]
  BY <1>1 DEF CacheIsSound, ActivityTypeOK
<1>9. \A u \in Users : Len(lists[u]) <= Len(lists'[u])
  BY <1>1, LenProperties DEF slices, CacheIsSound, ActivityTypeOK
<1> QED
  BY <1>1, <1>3, <1>5, <1>6, <1>7, <1>8, <1>9, StepIsSound

LEMMA WipeIsSound ==
    ASSUME CacheIsSound, NEW c \in Callers, Wipe(c) PROVE CacheIsSound'
<1>1. /\ at[c] = "wipe" /\ Goto(c, "place") /\ used' = [u \in Users |-> 0]
      /\ UNCHANGED <<userOf, ring, lists, clock, syncing, sync, lookup, failures>>
  BY DEF Wipe
<1>2. logged' = logged /\ newest' = newest
  BY <1>1 DEF logged, newest, ring
<1>3. at'[c] = "place" /\ items' = items /\ thisSync' = thisSync
  BY <1>1 DEF CacheIsSound, ActivityTypeOK, Goto, sync
<1>4. ActivityTypeOK' /\ Domains'
  <2>1. at' \in [Callers -> Places]
    BY <1>1 DEF CacheIsSound, ActivityTypeOK, Goto, Places
  <2>2. \A u \in Users : lists'[u] \in Seq(Cells) /\ used'[u] \in 0..Len(lists'[u])
    <3> SUFFICES ASSUME NEW u \in Users
                 PROVE  lists'[u] \in Seq(Cells) /\ used'[u] \in 0..Len(lists'[u])
      OBVIOUS
    <3>1. lists'[u] \in Seq(Cells) /\ used'[u] = 0
      BY <1>1 DEF CacheIsSound, ActivityTypeOK
    <3>2. Len(lists'[u]) \in Nat
      BY <3>1, LenProperties
    <3> QED
      BY <3>1, <3>2
  <2> QED
    BY <1>1, <1>2, <2>1, <2>2 DEF CacheIsSound, ActivityTypeOK, Domains, ring, clock, sync, lookup
<1>5. OneSyncs'
  BY <1>1, OneStillSyncs DEF CacheIsSound, ActivityTypeOK, Syncing
<1>6. TimesOf(c)'
  <2>1. Sent(c)
    BY <1>1 DEF CacheIsSound, Times, TimesOf
  <2>2. Sent(c)'
    BY <1>2, <1>3, <2>1 DEF Sent
  <2> QED
    BY <1>3, <2>2 DEF TimesOf
<1>7. Reads(c)'
  BY <1>1, <1>3 DEF CacheIsSound, Reads, lookup
<1>8. lastSync' <= newest /\ lastYieldingSync' <= newest
  BY <1>1 DEF CacheIsSound, Times, clock
<1>9. \A d \in Callers : d # c => /\ thisSync'[d] = thisSync[d] /\ items'[d] = items[d]
                                  /\ looks'[d] = looks[d] /\ found'[d] = found[d]
  BY <1>1, <1>3 DEF lookup
<1>10. \A u \in Users : Len(lists[u]) <= Len(lists'[u])
  BY <1>1, LenProperties DEF CacheIsSound, ActivityTypeOK
<1> QED
  BY <1>1, <1>4, <1>5, <1>6, <1>7, <1>8, <1>9, <1>10, StepIsSound

LEMMA RebuildIsSound ==
    ASSUME CacheIsSound, NEW c \in Callers, Rebuild(c) PROVE CacheIsSound'
<1> DEFINE path == Path(prior[c], end)
<1>1. /\ at[c] = "rebuild" /\ Goto(c, "yield") /\ Extend(path, cache)
      /\ prior' = [prior EXCEPT ![c] = -1]
      /\ UNCHANGED <<userOf, ring, clock, syncing, thisSync, items, lookup, failures>>
  BY DEF Rebuild
<1>2. logged' = logged /\ newest' = newest
  BY <1>1 DEF logged, newest, ring
<1>3. at'[c] = "yield"
  BY <1>1 DEF CacheIsSound, ActivityTypeOK, Goto
<1>4. path \in Seq(Cells)
  <2>1. prior[c] \in Int /\ end \in Int
    BY DEF CacheIsSound, ActivityTypeOK, Cells
  <2> QED
    BY <2>1, PathIsPath
<1> HIDE DEF path
<1>5. /\ \A u \in Users : lists'[u] \in Seq(Cells) /\ used'[u] \in 0..Len(lists'[u])
      /\ \A u \in Users : Len(lists[u]) <= Len(lists'[u])
  <2>1. SlicesTyped
    BY DEF CacheIsSound, ActivityTypeOK, SlicesTyped
  <2> QED
    BY <1>1, <1>4, <2>1, Extended DEF SlicesTyped
<1>6. ActivityTypeOK' /\ Domains'
  <2>1. at' \in [Callers -> Places]
    BY <1>1 DEF CacheIsSound, ActivityTypeOK, Goto, Places
  <2>2. prior' \in [Callers -> Cells \cup {-1}]
    BY <1>1 DEF CacheIsSound, ActivityTypeOK
  <2> QED
    BY <1>1, <1>2, <1>5, <2>1, <2>2 DEF CacheIsSound, ActivityTypeOK, Domains, ring, clock, lookup
<1>7. OneSyncs'
  BY <1>1, OneStillSyncs DEF CacheIsSound, ActivityTypeOK, Syncing
<1>8. TimesOf(c)'
  BY <1>1, <1>2, <1>3 DEF CacheIsSound, Times, TimesOf
<1>9. Reads(c)'
  BY <1>1, <1>3 DEF CacheIsSound, Reads, lookup
<1>10. lastSync' <= newest /\ lastYieldingSync' <= newest
  BY <1>1 DEF CacheIsSound, Times, clock
<1>11. \A d \in Callers : d # c => /\ thisSync'[d] = thisSync[d] /\ items'[d] = items[d]
                                   /\ looks'[d] = looks[d] /\ found'[d] = found[d]
  BY <1>1 DEF lookup
<1> QED
  BY <1>1, <1>5, <1>6, <1>7, <1>8, <1>9, <1>10, <1>11, StepIsSound

LEMMA FinishIsSound ==
    ASSUME CacheIsSound, NEW c \in Callers, Finish(c) PROVE CacheIsSound'
<1>1. /\ at[c] \in {"finish", "yield"} /\ Goto(c, "read") /\ lastSync' = thisSync[c]
      /\ lastYieldingSync' = IF at[c] = "yield" THEN thisSync[c] ELSE lastYieldingSync
      /\ fresh' = TRUE /\ syncing' = FALSE /\ thisSync' = [thisSync EXCEPT ![c] = 0]
      /\ UNCHANGED <<userOf, ring, slices, items, prior, lookup, failures>>
  BY DEF Finish
<1>2. logged' = logged
  BY <1>1 DEF logged
<1>3. at'[c] = "read" /\ thisSync[c] \in 0..MaxEvents /\ thisSync[c] <= newest
  BY <1>1 DEF CacheIsSound, ActivityTypeOK, Goto, Times, TimesOf
<1>4. ActivityTypeOK' /\ Domains'
  <2>1. at' \in [Callers -> Places]
    BY <1>1 DEF CacheIsSound, ActivityTypeOK, Goto, Places
  <2>2. thisSync' \in [Callers -> 0..MaxEvents]
    BY <1>1, Bounds DEF CacheIsSound, ActivityTypeOK
  <2>3. lastSync' \in {Never} \union 0..MaxEvents /\ lastYieldingSync' \in 0..MaxEvents
    BY <1>1, <1>3 DEF CacheIsSound, ActivityTypeOK
  <2> QED
    BY <1>1, <1>2, <2>1, <2>2, <2>3 DEF CacheIsSound, ActivityTypeOK, Domains, ring, slices, lookup
<1>5. OneSyncs'
  BY <1>1, OneStillSyncs DEF CacheIsSound, ActivityTypeOK, Syncing
<1>6. TimesOf(c)'
  BY <1>3 DEF TimesOf
<1>7. Reads(c)'
  BY <1>1, <1>3 DEF CacheIsSound, Reads, lookup
<1>8. lastSync' <= newest /\ lastYieldingSync' <= newest
  BY <1>1, <1>3 DEF CacheIsSound, Times
<1>9. \A d \in Callers : d # c => /\ thisSync'[d] = thisSync[d] /\ items'[d] = items[d]
                                  /\ looks'[d] = looks[d] /\ found'[d] = found[d]
  BY <1>1 DEF lookup, CacheIsSound, ActivityTypeOK
<1>10. \A u \in Users : Len(lists[u]) <= Len(lists'[u])
  BY <1>1, LenProperties DEF slices, CacheIsSound, ActivityTypeOK
<1> QED
  BY <1>1, <1>4, <1>5, <1>6, <1>7, <1>8, <1>9, <1>10, StepIsSound

LEMMA SpinIsSound ==
    ASSUME CacheIsSound, NEW c \in Callers, Spin(c) PROVE CacheIsSound'
<1>1. /\ at[c] = "spin" /\ Goto(c, "read")
      /\ UNCHANGED <<userOf, ring, slices, clock, syncing, sync, lookup, failures>>
  BY DEF Spin
<1>2. logged' = logged
  BY <1>1 DEF logged
<1>3. at'[c] = "read"
  BY <1>1 DEF CacheIsSound, ActivityTypeOK, Goto
<1>4. ActivityTypeOK' /\ Domains'
  <2>1. at' \in [Callers -> Places]
    BY <1>1 DEF CacheIsSound, ActivityTypeOK, Goto, Places
  <2> QED
    BY <1>1, <1>2, <2>1 DEF CacheIsSound, ActivityTypeOK, Domains, ring, slices, clock, sync, lookup
<1>5. OneSyncs'
  BY <1>1, OneStillSyncs DEF CacheIsSound, ActivityTypeOK, Syncing
<1>6. TimesOf(c)'
  BY <1>3 DEF TimesOf
<1>7. Reads(c)'
  BY <1>1, <1>3 DEF CacheIsSound, Reads, lookup
<1>8. lastSync' <= newest /\ lastYieldingSync' <= newest
  BY <1>1 DEF CacheIsSound, Times, clock
<1>9. \A d \in Callers : d # c => /\ thisSync'[d] = thisSync[d] /\ items'[d] = items[d]
                                  /\ looks'[d] = looks[d] /\ found'[d] = found[d]
  BY <1>1 DEF sync, lookup
<1>10. \A u \in Users : Len(lists[u]) <= Len(lists'[u])
  BY <1>1, LenProperties DEF slices, CacheIsSound, ActivityTypeOK
<1> QED
  BY <1>1, <1>4, <1>5, <1>6, <1>7, <1>8, <1>9, <1>10, StepIsSound

LEMMA ReadIndexIsSound ==
    ASSUME CacheIsSound, NEW c \in Callers, ReadIndex(c) PROVE CacheIsSound'
<1> DEFINE x == IF looks[c] \in Users THEN used[looks[c]] ELSE byEntryID[looks[c]]
<1>1. /\ at[c] = "read" /\ Goto(c, "lookup") /\ found' = [found EXCEPT ![c] = x]
      /\ UNCHANGED <<userOf, ring, slices, clock, syncing, sync, looks, result, failures>>
  BY DEF ReadIndex
<1>2. logged' = logged
  BY <1>1 DEF logged
<1>3. at'[c] = "lookup" /\ found'[c] = x /\ DOMAIN found' = Callers
  BY <1>1 DEF CacheIsSound, ActivityTypeOK, Goto, Domains
<1>4. ActivityTypeOK' /\ Domains'
  <2>1. at' \in [Callers -> Places]
    BY <1>1 DEF CacheIsSound, ActivityTypeOK, Goto, Places
  <2> QED
    BY <1>1, <1>2, <1>3, <2>1 DEF CacheIsSound, ActivityTypeOK, Domains, ring, slices, clock, sync
<1>5. OneSyncs'
  BY <1>1, OneStillSyncs DEF CacheIsSound, ActivityTypeOK, Syncing
<1>6. TimesOf(c)'
  BY <1>3 DEF TimesOf
<1>7. Reads(c)'
  <2>1. looks[c] \in Users \cup Entries
    BY <1>1 DEF CacheIsSound, Reads
  <2>2. looks[c] \in Users => x \in 0..Len(lists[looks[c]])
    BY DEF CacheIsSound, ActivityTypeOK
  <2>3. looks[c] \notin Users => x \in Cells \cup {Nil}
    BY <2>1 DEF CacheIsSound, ActivityTypeOK
  <2> QED
    BY <1>1, <1>3, <2>1, <2>2, <2>3 DEF Reads, slices
<1>8. lastSync' <= newest /\ lastYieldingSync' <= newest
  BY <1>1 DEF CacheIsSound, Times, clock
<1>9. \A d \in Callers : d # c => /\ thisSync'[d] = thisSync[d] /\ items'[d] = items[d]
                                  /\ looks'[d] = looks[d] /\ found'[d] = found[d]
  BY <1>1 DEF sync, CacheIsSound, Domains
<1>10. \A u \in Users : Len(lists[u]) <= Len(lists'[u])
  BY <1>1, LenProperties DEF slices, CacheIsSound, ActivityTypeOK
<1> QED
  BY <1>1, <1>4, <1>5, <1>6, <1>7, <1>8, <1>9, <1>10, StepIsSound

LEMMA ReadEntriesIsSound ==
    ASSUME CacheIsSound, NEW c \in Callers, ReadEntries(c) PROVE CacheIsSound'
<1> DEFINE x == IF looks[c] \in Users THEN {cache[lists[looks[c]][k]] : k \in 1..found[c]}
                ELSE IF found[c] = Nil THEN {} ELSE {cache[found[c]]}
<1>1. /\ at[c] = "lookup" /\ Goto(c, "idle") /\ result' = [result EXCEPT ![c] = x]
      /\ found' = [found EXCEPT ![c] = Nil]
      /\ UNCHANGED <<userOf, ring, slices, clock, syncing, sync, looks, failures>>
  BY DEF ReadEntries
<1>2. logged' = logged
  BY <1>1 DEF logged
<1>3. at'[c] = "idle" /\ DOMAIN found' = Callers /\ DOMAIN result' = Callers
  BY <1>1 DEF CacheIsSound, ActivityTypeOK, Goto, Domains
\* A list is not read further than it goes.
<1>11. x \subseteq 0..MaxEvents
  <2>1. cache \in [Cells -> 0..MaxEvents]
    BY DEF CacheIsSound, ActivityTypeOK
  <2>2. CASE looks[c] \in Users
    <3>1. lists[looks[c]] \in Seq(Cells) /\ found[c] \in 0..Len(lists[looks[c]])
      BY <1>1, <2>2 DEF CacheIsSound, ActivityTypeOK, Reads
    <3>2. Len(lists[looks[c]]) \in Nat
      BY <3>1, LenProperties
    <3>3. ASSUME NEW k \in 1..found[c] PROVE lists[looks[c]][k] \in Cells
      <4>1. k \in 1..Len(lists[looks[c]])
        BY <3>1, <3>2
      <4> QED
        BY <3>1, <4>1, ElementOfSeq
    <3> QED
      BY <2>1, <2>2, <3>3
  <2>3. CASE looks[c] \notin Users
    <3>1. found[c] \in Cells \cup {Nil}
      BY <1>1, <2>3 DEF CacheIsSound, Reads
    <3> QED
      BY <2>1, <2>3, <3>1
  <2> QED
    BY <2>2, <2>3
<1> HIDE DEF x
<1>4. ActivityTypeOK' /\ Domains'
  <2>1. at' \in [Callers -> Places]
    BY <1>1 DEF CacheIsSound, ActivityTypeOK, Goto, Places
  <2>2. \A d \in Callers : result'[d] \subseteq 0..MaxEvents
    BY <1>1, <1>11 DEF CacheIsSound, ActivityTypeOK, Domains
  <2> QED
    BY <1>1, <1>2, <1>3, <2>1, <2>2
       DEF CacheIsSound, ActivityTypeOK, Domains, ring, slices, clock, sync
<1>5. OneSyncs'
  BY <1>1, OneStillSyncs DEF CacheIsSound, ActivityTypeOK, Syncing
<1>6. TimesOf(c)' /\ Reads(c)'
  BY <1>3 DEF TimesOf, Reads
<1>8. lastSync' <= newest /\ lastYieldingSync' <= newest
  BY <1>1 DEF CacheIsSound, Times, clock
<1>9. \A d \in Callers : d # c => /\ thisSync'[d] = thisSync[d] /\ items'[d] = items[d]
                                  /\ looks'[d] = looks[d] /\ found'[d] = found[d]
  BY <1>1 DEF sync, CacheIsSound, Domains
<1>10. \A u \in Users : Len(lists[u]) <= Len(lists'[u])
  BY <1>1, LenProperties DEF slices, CacheIsSound, ActivityTypeOK
<1> QED
  BY <1>1, <1>4, <1>5, <1>6, <1>8, <1>9, <1>10, StepIsSound

LEMMA PlaceIsSound ==
    ASSUME CacheIsSound, NEW c \in Callers, Place(c) PROVE CacheIsSound'
<1> DEFINE place == IF start = -1 THEN "yield" ELSE "rebuild"
           n == Len(items[c])
<1>1. /\ at[c] = "place" /\ Goto(c, place) /\ Extend(FreshCells(c), cache')
      /\ end' = NewEnd(NewStart(n), n)
      /\ prior' = [prior EXCEPT ![c] = start] /\ items' = [items EXCEPT ![c] = <<>>]
      /\ UNCHANGED <<userOf, clock, syncing, thisSync, lookup, failures>>
  BY DEF Place, FreshCells
<1>2. Sent(c)
  BY <1>1 DEF CacheIsSound, Times, TimesOf
<1>3. /\ start' \in Cells /\ newest' = items[c][1] /\ cache' \in [Cells -> 0..MaxEvents]
      /\ total' = Least(newest', Limit) /\ total' \in 0..Limit
      /\ RingIsInOrder' /\ IndexFindsEntries'
      /\ byEntryID' \in [Entries -> Cells \cup {Nil}]
  BY <1>2, PlaceKeepsRing
<1>4. /\ n \in 1..Limit /\ items[c][1] <= logged /\ items[c][1] > newest
      /\ items[c][1] \in Entries /\ thisSync[c] <= items[c][1]
  BY <1>2, SentIs
<1>5. /\ logged' = logged /\ logged \in Nat /\ newest \in Nat /\ items[c][1] \in Nat
      /\ Limit \in Nat \ {0}
  BY <1>1, <1>4, NumbersHeld, Bounds DEF logged, Entries
<1> HIDE DEF n
<1>6. FreshCells(c) \in Seq(Cells)
  BY <1>2, FreshIs
<1>7. /\ \A u \in Users : lists'[u] \in Seq(Cells) /\ used'[u] \in 0..Len(lists'[u])
      /\ \A u \in Users : Len(lists[u]) <= Len(lists'[u])
  <2>1. SlicesTyped
    BY DEF CacheIsSound, ActivityTypeOK, SlicesTyped
  <2> QED
    BY <1>1, <1>6, <2>1, Extended DEF SlicesTyped
<1>8. end' \in Cells \cup {-1}
  <2>1. n - 1 \in Cells
    BY <1>4, <1>5 DEF Cells
  <2>2. end \in Cells \cup {-1} /\ end - 1 \in Int
    BY <1>5 DEF CacheIsSound, ActivityTypeOK, Cells
  <2>3. (end - 1) % Limit \in Cells
    BY <2>2, Around
  <2> QED
    BY <1>1, <2>1, <2>2, <2>3 DEF NewEnd
<1>9. place \in Places /\ place \in Syncing /\ at[c] \in Syncing /\ place \in {"yield", "rebuild"}
  BY <1>1 DEF Places, Syncing
<1> HIDE DEF place
<1>10. at' \in [Callers -> Places] /\ at'[c] = place
  BY <1>1, <1>9 DEF CacheIsSound, ActivityTypeOK, Goto
<1>11. OneSyncs'
  BY <1>1, <1>9, OneStillSyncs DEF CacheIsSound, ActivityTypeOK
<1>12. ActivityTypeOK' /\ Domains'
  <2>1. /\ DOMAIN items' = Callers
        /\ \A d \in Callers : items'[d] \in Seq(Entries) /\ Len(items'[d]) <= Limit
    <3>1. <<>> \in Seq(Entries) /\ Len(<<>>) = 0
      BY EmptySeq
    <3> QED
      BY <1>1, <1>5, <3>1 DEF CacheIsSound, ActivityTypeOK, Domains
  <2>2. prior' \in [Callers -> Cells \cup {-1}]
    BY <1>1 DEF CacheIsSound, ActivityTypeOK
  <2>3. start' \in Cells \cup {-1}
    BY <1>3
  <2> QED
    BY <1>1, <1>3, <1>5, <1>7, <1>8, <1>10, <2>1, <2>2, <2>3
       DEF CacheIsSound, ActivityTypeOK, Domains, clock, lookup
<1>13. RingIsFull'
  BY <1>3, <1>4, <1>5 DEF RingIsFull
<1>14. ASSUME NEW d \in Callers PROVE TimesOf(d)'
  <2>1. CASE d = c
    BY <1>1, <1>3, <1>4, <1>9, <1>10, <2>1 DEF TimesOf
  <2>2. CASE d # c
    <3>1. at[d] \notin Syncing
      BY <1>9, <2>2 DEF CacheIsSound, OneSyncs
    <3>2. at'[d] = at[d]
      BY <1>1, <2>2 DEF CacheIsSound, ActivityTypeOK, Goto
    <3> QED
      BY <3>1, <3>2 DEF TimesOf, Syncing
  <2> QED
    BY <2>1, <2>2
<1>15. Times'
  <2>1. /\ lastSync' = lastSync /\ lastYieldingSync' = lastYieldingSync
        /\ lastSync <= newest /\ lastYieldingSync <= newest
        /\ lastSync \in Int /\ lastYieldingSync \in Int
    BY <1>1 DEF CacheIsSound, ActivityTypeOK, Times, clock, Never
  <2>2. lastSync' <= newest' /\ lastYieldingSync' <= newest'
    BY <1>3, <1>4, <1>5, <2>1
  <2> QED
    BY <1>14, <2>2 DEF Times
<1>16. ASSUME NEW d \in Callers PROVE Reads(d)'
  <2>1. looks'[d] = looks[d] /\ found'[d] = found[d] /\ ActivityTypeOK /\ Reads(d)
    BY <1>1 DEF CacheIsSound, lookup
  <2>2. CASE d = c
    BY <1>1, <1>9, <1>10, <2>1, <2>2 DEF Reads
  <2>3. CASE d # c
    <3>1. at'[d] = at[d]
      BY <1>1, <2>3 DEF CacheIsSound, ActivityTypeOK, Goto
    <3> QED
      BY <1>7, <1>12, <2>1, <3>1, ReadsKept
  <2> QED
    BY <2>2, <2>3
<1> QED
  BY <1>3, <1>11, <1>12, <1>13, <1>15, <1>16 DEF CacheIsSound

LEMMA InitIsSound == ASSUME ActivityInit PROVE CacheIsSound
<1>1. /\ userOf = <<>> /\ cache = [i \in Cells |-> 0] /\ start = -1 /\ end = -1 /\ total = 0
      /\ byEntryID = [e \in Entries |-> Nil]
      /\ lists = [u \in Users |-> <<>>] /\ used = [u \in Users |-> 0]
      /\ lastSync = Never /\ lastYieldingSync = 0 /\ fresh = FALSE /\ syncing = FALSE
      /\ at = [c \in Callers |-> "idle"] /\ thisSync = [c \in Callers |-> 0]
      /\ items = [c \in Callers |-> <<>>] /\ prior = [c \in Callers |-> -1]
      /\ looks = [c \in Callers |-> Nil] /\ found = [c \in Callers |-> Nil]
      /\ result = [c \in Callers |-> {}] /\ failures = 0
  BY DEF ActivityInit
<1>2. <<>> \in Seq(Users) /\ <<>> \in Seq(Cells) /\ <<>> \in Seq(Entries) /\ Len(<<>>) = 0
  BY EmptySeq
<1>3. logged = 0 /\ newest = 0
  BY <1>1, <1>2 DEF logged, newest
<1>4. ActivityTypeOK
  <2>1. userOf \in Seq(Users) /\ logged <= MaxEvents
    BY <1>1, <1>2, <1>3, Bounds
  <2>2. /\ cache \in [Cells -> 0..MaxEvents] /\ total \in 0..Limit
        /\ start \in Cells \union {-1} /\ end \in Cells \union {-1}
        /\ byEntryID \in [Entries -> Cells \union {Nil}]
    BY <1>1, Bounds
  <2>3. \A u \in Users : lists[u] \in Seq(Cells) /\ used[u] \in 0..Len(lists[u])
    BY <1>1, <1>2
  <2>4. lastSync \in {Never} \union 0..MaxEvents /\ fresh \in BOOLEAN /\ syncing \in BOOLEAN
    BY <1>1
  <2>7. lastYieldingSync \in 0..MaxEvents /\ failures \in 0..MaxFailures
    BY <1>1, Bounds
  <2>5. at \in [Callers -> Places] /\ thisSync \in [Callers -> 0..MaxEvents]
        /\ prior \in [Callers -> Cells \union {-1}]
        /\ looks \in [Callers -> Users \union Entries \union {Nil}]
    BY <1>1, Bounds DEF Places
  <2>6. /\ \A c \in Callers : items[c] \in Seq(Entries) /\ Len(items[c]) <= Limit
        /\ \A c \in Callers : result[c] \subseteq 0..MaxEvents
    BY <1>1, <1>2, Bounds
  <2> QED
    BY <2>1, <2>2, <2>3, <2>4, <2>5, <2>6, <2>7 DEF ActivityTypeOK
<1>5. Domains /\ RingIsInOrder /\ OneSyncs
  BY <1>1 DEF Domains, RingIsInOrder, OneSyncs, Syncing
<1>6. IndexFindsEntries
  BY <1>1, Bounds DEF IndexFindsEntries, Entries
<1>7. RingIsFull /\ Times
  BY <1>1, <1>3 DEF RingIsFull, Times, TimesOf, Never
<1>8. \A c \in Callers : Reads(c)
  BY <1>1 DEF Reads
<1> QED
  BY <1>4, <1>5, <1>6, <1>7, <1>8 DEF CacheIsSound

LEMMA NextIsSound == ASSUME CacheIsSound, [ActivityNext]_activityVars PROVE CacheIsSound'
<1>1. CASE LogEvent
  BY <1>1, LogEventIsSound
<1>2. CASE GrowOld
  BY <1>2, GrowOldIsSound
<1>3. ASSUME NEW c \in Callers,
             \/ Call(c) \/ Claim(c) \/ Query(c) \/ QueryFails(c) \/ Wipe(c) \/ Place(c)
             \/ Rebuild(c) \/ Finish(c) \/ Spin(c) \/ ReadIndex(c) \/ ReadEntries(c)
      PROVE  CacheIsSound'
  BY <1>3, CallIsSound, ClaimIsSound, QueryIsSound, QueryFailsIsSound, WipeIsSound, PlaceIsSound,
     RebuildIsSound, FinishIsSound, SpinIsSound, ReadIndexIsSound, ReadEntriesIsSound
<1>4. CASE UNCHANGED activityVars
  BY <1>4, StutterIsSound
<1> QED
  BY <1>1, <1>2, <1>3, <1>4 DEF ActivityNext

\* The cache of the activity log stays sound, with any number of callers, users and cells: a
\* sync's bursts, duplicates and failures, shared and interleaved with reads that take no lock,
\* leave the ring in order with nothing missing up to the last sync, indexed exactly
\* (jf_activity.go).
THEOREM CacheStaysSound == ActivitySpec => []SoundCache
<1>1. CacheIsSound => SoundCache
  BY DEF CacheIsSound, SoundCache, CompleteToLastSync, Times
<1> QED
  BY <1>1, InitIsSound, NextIsSound, PTL DEF ActivitySpec

-----------------------------------------------------------------------------
(* The window *)

LEMMA WindowOf ==
    ASSUME NEW content \in [Cells -> Nat], NEW from \in Cells, NEW n \in Nat,
           n = Least(content[from], Limit),
           \A k \in 0..(Limit - 1) :
              content[(from + k) % Limit] = IF k < n THEN content[from] - k ELSE 0
    PROVE  {content[i] : i \in Cells} \ {0} = Recent!Window(content[from])
<1> DEFINE q == content[from]
<1>1. q \in Nat /\ Limit \in Nat \ {0} /\ n = Least(q, Limit)
  BY Bounds
<1>2. ASSUME NEW i \in Cells, content[i] # 0 PROVE content[i] \in Recent!Window(q)
  <2>1. PICK k \in Cells : (from + k) % Limit = i
    BY Offsets
  <2>2. k \in 0..(Limit - 1)
    BY DEF Cells
  <2>3. content[i] = IF k < n THEN q - k ELSE 0
    BY <2>1, <2>2
  <2> HIDE DEF q
  <2> QED
    BY <1>1, <1>2, <2>2, <2>3 DEF Recent!Window, Least
<1>3. ASSUME NEW e \in Recent!Window(q) PROVE \E i \in Cells : content[i] = e /\ e # 0
  <2> HIDE DEF q
  <2>1. e \in 1..q /\ q - e < Limit
    BY DEF Recent!Window
  <2> DEFINE k == q - e
  <2>2. k \in 0..(Limit - 1) /\ k < n /\ q - k = e /\ e # 0
    BY <1>1, <2>1 DEF Least
  <2> HIDE DEF k
  <2>3. content[(from + k) % Limit] = e
    BY <2>2 DEF q
  <2>4. (from + k) % Limit \in Cells
    <3>1. from + k \in Int
      BY <1>1, <2>2 DEF Cells
    <3> QED
      BY <3>1, Around
  <2> QED
    BY <2>2, <2>3, <2>4
<1> QED
  BY <1>2, <1>3

LEMMA HeldIs == ASSUME CacheIsSound PROVE held = Recent!Window(newest)
<1>1. CASE start = -1
  <2>1. \A i \in Cells : cache[i] = 0
    BY <1>1 DEF CacheIsSound, RingIsInOrder
  <2>2. held = {}
    BY <2>1 DEF held
  <2>3. newest = 0
    BY <1>1, NumbersHeld
  <2> QED
    BY <2>2, <2>3 DEF Recent!Window
<1>2. CASE start # -1
  <2>1. cache \in [Cells -> Nat]
    BY Bounds DEF CacheIsSound, ActivityTypeOK
  <2>2. start \in Cells /\ newest = cache[start] /\ total \in Nat
    BY <1>2, NumbersHeld, Bounds DEF newest, CacheIsSound, ActivityTypeOK
  <2>3. total = Least(cache[start], Limit)
    BY <1>2, <2>2 DEF CacheIsSound, RingIsFull
  <2>4. \A k \in 0..(Limit - 1) :
           cache[(start + k) % Limit] = IF k < total THEN cache[start] - k ELSE 0
    BY <1>2 DEF CacheIsSound, RingIsInOrder
  <2>5. {cache[i] : i \in Cells} \ {0} = Recent!Window(cache[start])
    BY <2>1, <2>2, <2>3, <2>4, WindowOf
  <2> QED
    BY <2>2, <2>5 DEF held
<1> QED
  BY <1>1, <1>2

LEMMA PlaceSlides ==
    ASSUME CacheIsSound, NEW c \in Callers, Place(c) PROVE Recent!Slide
<1>1. Sent(c)
  BY DEF Place, CacheIsSound, Times, TimesOf
<1> DEFINE q == items[c][1]
<1>2. /\ start' \in Cells /\ newest' = q /\ cache' \in [Cells -> 0..MaxEvents]
      /\ total' = Least(newest', Limit) /\ total' \in 0..Limit /\ RingIsInOrder'
  BY <1>1, PlaceKeepsRing
<1>3. q \in Entries /\ q <= logged /\ q > newest
  BY <1>1, SentIs
<1>4. newest \in Nat /\ logged \in Nat /\ q \in Nat /\ q \in 1..logged /\ Limit \in Nat \ {0}
  BY <1>3, NumbersHeld, Bounds DEF Entries
<1> HIDE DEF q
<1>5. start' # -1 /\ cache'[start'] = q
  <2>1. start' # -1
    BY <1>2, Bounds DEF Cells
  <2> QED
    BY <1>2, <2>1 DEF newest
<1>6. held' = Recent!Window(q)
  <2>1. cache' \in [Cells -> Nat] /\ total' \in Nat
    BY <1>2, Bounds
  <2>2. total' = Least(cache'[start'], Limit)
    BY <1>2, <1>5
  <2>3. \A k \in 0..(Limit - 1) :
           cache'[(start' + k) % Limit] = IF k < total' THEN cache'[start'] - k ELSE 0
    BY <1>2, <1>5 DEF RingIsInOrder
  <2>4. {cache'[i] : i \in Cells} \ {0} = Recent!Window(cache'[start'])
    BY <1>2, <2>1, <2>2, <2>3, WindowOf
  <2> QED
    BY <1>5, <2>4 DEF held
<1>7. held = Recent!Window(newest)
  BY HeldIs
<1>8. \A e \in held : e \in Int /\ e <= newest
  BY <1>4, <1>7 DEF Recent!Window
<1>9. Recent!Window(q) # held /\ \A e \in held : e <= q
  <2>1. q \in Recent!Window(q)
    BY <1>4 DEF Recent!Window
  <2>2. q \notin held
    BY <1>3, <1>4, <1>8
  <2>3. \A e \in held : e <= q
    BY <1>3, <1>4, <1>8
  <2> QED
    BY <2>1, <2>2, <2>3
<1>10. logged' = logged
  BY DEF Place, logged
<1> QED
  BY <1>4, <1>6, <1>9, <1>10 DEF Recent!Slide

LEMMA OthersStutter ==
    ASSUME ring' = ring, userOf' = userOf PROVE held' = held /\ logged' = logged
BY DEF ring, held, logged

\* The ring with its indexes implements the window that slides over the newest events:
\* whoever syncs, what is held is the Limit newest up to some event, and never goes back
\* (jf_activity.go, MaybeSync).
THEOREM RecentEventsImplemented == ActivitySpec => ImplementsRecentEvents
<1>1. ASSUME ActivityInit PROVE Recent!Init
  <2>1. cache = [i \in Cells |-> 0] /\ Len(userOf) = 0
    BY <1>1, EmptySeq DEF ActivityInit
  <2> QED
    BY <2>1 DEF Recent!Init, held, logged
<1>2. ASSUME CacheIsSound, [ActivityNext]_activityVars
      PROVE  [Recent!LogEvent \/ Recent!Slide]_<<logged, held>>
  <2>1. CASE LogEvent
    <3>1. logged' = logged + 1
      <4>1. PICK u \in Users : userOf' = Append(userOf, u)
        BY <2>1 DEF LogEvent
      <4>2. userOf \in Seq(Users)
        BY <1>2 DEF CacheIsSound, ActivityTypeOK
      <4> QED
        BY <4>1, <4>2, AppendProperties DEF logged
    <3>2. held' = held
      BY <2>1 DEF LogEvent, ring, held
    <3> QED
      BY <3>1, <3>2 DEF Recent!LogEvent
  <2>2. CASE GrowOld \/ UNCHANGED activityVars
    BY <2>2, OthersStutter DEF GrowOld, activityVars
  <2>3. ASSUME NEW c \in Callers, Place(c) PROVE Recent!Slide
    BY <1>2, <2>3, PlaceSlides
  <2>4. ASSUME NEW c \in Callers,
               \/ Call(c) \/ Claim(c) \/ Query(c) \/ QueryFails(c) \/ Wipe(c)
               \/ Rebuild(c) \/ Finish(c) \/ Spin(c) \/ ReadIndex(c) \/ ReadEntries(c)
        PROVE  UNCHANGED <<logged, held>>
    <3>1. ring' = ring /\ userOf' = userOf
      BY <2>4 DEF Call, Claim, Query, QueryFails, Wipe, Rebuild, Finish, Spin, ReadIndex,
                  ReadEntries
    <3> QED
      BY <3>1, OthersStutter
  <2> QED
    BY <1>2, <2>1, <2>2, <2>3, <2>4 DEF ActivityNext
<1> QED
  BY <1>1, <1>2, InitIsSound, NextIsSound, PTL DEF ActivitySpec, ImplementsRecentEvents, Recent!Spec

-----------------------------------------------------------------------------
(* The slices of users *)

Walk(from, n) == [k \in 1..n |-> (from + k - 1) % Limit]

LEMMA WalkIsSeq ==
    ASSUME NEW from \in Int, NEW n \in Nat
    PROVE  /\ Walk(from, n) \in Seq(Cells) /\ Len(Walk(from, n)) = n
           /\ \A k \in 1..n : Walk(from, n)[k] = (from + k - 1) % Limit
<1>1. \A k \in 1..n : (from + k - 1) % Limit \in Cells
  BY Around
<1>2. Walk(from, n) = [k \in 1..n |-> (from + k - 1) % Limit]
  BY DEF Walk
<1>3. Walk(from, n) \in Seq(Cells) /\ Len(Walk(from, n)) = n
  BY <1>1, <1>2, IsASeq
<1> QED
  BY <1>2, <1>3

LEMMA WalkJoins ==
    ASSUME NEW from \in Cells, NEW n \in Nat, NEW m \in Nat, n + m <= Limit
    PROVE  Walk(from, n + m) = Walk(from, n) \o Walk((from + n) % Limit, m)
<1> DEFINE next == (from + n) % Limit
           first == Walk(from, n)
           second == Walk(next, m)
           whole == Walk(from, n + m)
<1>1. Limit \in Nat \ {0} /\ from \in 0..(Limit - 1) /\ from \in Int
  BY Bounds DEF Cells
<1>2. next = IF from + n < Limit THEN from + n ELSE from + n - Limit
  BY <1>1, Around
<1>3. next \in Int
  BY <1>1, <1>2
<1>4. /\ whole \in Seq(Cells) /\ Len(whole) = n + m
      /\ \A k \in 1..(n + m) : whole[k] = (from + k - 1) % Limit
  <2> DEFINE l == n + m
  <2>1. l \in Nat
    OBVIOUS
  <2> HIDE DEF l
  <2>2. /\ Walk(from, l) \in Seq(Cells) /\ Len(Walk(from, l)) = l
        /\ \A k \in 1..l : Walk(from, l)[k] = (from + k - 1) % Limit
    BY <1>1, <2>1, WalkIsSeq
  <2> QED
    BY <2>2 DEF l
<1>5. /\ first \in Seq(Cells) /\ Len(first) = n
      /\ \A k \in 1..n : first[k] = (from + k - 1) % Limit
  BY <1>1, WalkIsSeq
<1> HIDE DEF next
<1>6. /\ second \in Seq(Cells) /\ Len(second) = m
      /\ \A k \in 1..m : second[k] = (next + k - 1) % Limit
  BY <1>3, WalkIsSeq
<1> HIDE DEF first, second, whole
<1>7. /\ first \o second \in Seq(Cells) /\ Len(first \o second) = n + m
      /\ \A k \in 1..(n + m) : (first \o second)[k] = IF k <= n THEN first[k] ELSE second[k - n]
  BY <1>5, <1>6, ConcatProperties
<1>8. ASSUME NEW k \in 1..(n + m) PROVE whole[k] = (first \o second)[k]
  <2>1. CASE k <= n
    <3>1. k \in 1..n
      BY <2>1
    <3> QED
      BY <1>4, <1>5, <1>7, <2>1, <3>1
  <2>2. CASE ~(k <= n)
    <3> DEFINE l == k - n
    <3>1. l \in 1..m /\ l \in Int
      BY <2>2
    <3>2. (first \o second)[k] = (next + l - 1) % Limit
      BY <1>6, <1>7, <2>2, <3>1
    <3>3. whole[k] = (from + k - 1) % Limit
      BY <1>4
    <3>4. from + k - 1 = from + n + l - 1
      BY <1>1
    <3> HIDE DEF l
    <3>5. CASE from + n < Limit
      <4>1. next + l - 1 = from + n + l - 1
        BY <1>1, <1>2, <3>1, <3>5
      <4> QED
        BY <3>2, <3>3, <3>4, <4>1
    <3>6. CASE ~(from + n < Limit)
      <4>1. next + l - 1 = from + n + l - 1 - Limit
        BY <1>1, <1>2, <3>1, <3>6
      <4>2. Limit <= from + n + l - 1 /\ from + n + l - 1 < 2 * Limit
        BY <1>1, <3>1, <3>6
      <4>3. (from + n + l - 1) % Limit = from + n + l - 1 - Limit
        BY <1>1, <3>1, <4>2, Around
      <4>4. (from + n + l - 1 - Limit) % Limit = from + n + l - 1 - Limit
        BY <1>1, <3>1, <4>2, Around
      <4> QED
        BY <3>2, <3>3, <3>4, <4>1, <4>3, <4>4
    <3> QED
      BY <3>5, <3>6
  <2> QED
    BY <2>1, <2>2
<1>9. whole = first \o second
  BY <1>4, <1>7, <1>8, SeqEqual
<1> QED
  BY <1>9 DEF whole, first, second, next

\* The path to just before a cell that is n further.
LEMMA PathBefore ==
    ASSUME NEW from \in Cells, NEW n \in 1..Limit, NEW to \in Cells, to = (from + n) % Limit
    PROVE  Path(from, to - 1) = Walk(from, n)
<1>1. Limit \in Nat \ {0} /\ from \in 0..(Limit - 1) /\ to \in 0..(Limit - 1)
  BY Bounds DEF Cells
<1>2. (to - 1 - from) % Limit = n - 1
  <2>1. CASE from + n < Limit
    <3>1. to = from + n
      BY <1>1, <2>1, Around
    <3>2. to - 1 - from = n - 1
      BY <1>1, <3>1
    <3> QED
      BY <1>1, <3>2, Around
  <2>2. CASE ~(from + n < Limit)
    <3>1. to = from + n - Limit
      BY <1>1, <2>2, Around
    <3>2. to - 1 - from = n - 1 - Limit
      BY <1>1, <3>1
    <3>3. (n - 1 - Limit) % Limit = n - 1
      BY <1>1, Around
    <3> QED
      BY <3>2, <3>3
  <2> QED
    BY <2>1, <2>2
<1>3. (n - 1) + 1 = n
  BY <1>1
<1>4. ((to - 1 - from) % Limit) + 1 = n
  BY <1>2, <1>3
<1> QED
  BY <1>4 DEF Path, Walk

\* The path between two cells that are n and m from where it is counted.
LEMMA PathBetween ==
    ASSUME NEW from \in Cells, NEW n \in Cells, NEW m \in Cells, n <= m
    PROVE  Path((from + n) % Limit, (from + m) % Limit) = Walk((from + n) % Limit, m - n + 1)
<1> DEFINE a == (from + n) % Limit
           b == (from + m) % Limit
<1>1. /\ Limit \in Nat \ {0} /\ from \in 0..(Limit - 1) /\ n \in 0..(Limit - 1)
      /\ m \in 0..(Limit - 1)
  BY Bounds DEF Cells
<1>2. a = IF from + n < Limit THEN from + n ELSE from + n - Limit
  BY <1>1, Around
<1>3. b = IF from + m < Limit THEN from + m ELSE from + m - Limit
  BY <1>1, Around
<1> HIDE DEF a, b
<1>4. (b - a) % Limit = m - n
  <2>1. b - a = m - n \/ b - a = m - n - Limit
    BY <1>1, <1>2, <1>3
  <2>2. (m - n) % Limit = m - n
    BY <1>1, Around
  <2>3. n # m => (m - n - Limit) % Limit = m - n
    BY <1>1, Around
  <2>4. n = m => b - a = m - n
    BY <1>1, <1>2, <1>3
  <2> QED
    BY <2>1, <2>2, <2>3, <2>4
<1> QED
  BY <1>4 DEF Path, Walk, a, b

\* Extending by what is of a path appends it to a slice.
LEMMA ExtendAppends ==
    ASSUME SlicesTyped, NEW path \in Seq(Cells), NEW content, Extend(path, content),
           NEW u \in Users
    PROVE  SubSeq(lists'[u], 1, used'[u])
             = SubSeq(lists[u], 1, used[u]) \o Picked(u, path, content, userOf)
<1> DEFINE memory == lists[u]
           n == used[u]
           cells == Picked(u, path, content, userOf)
           top == IF n + Len(cells) > Len(memory) THEN n + Len(cells) ELSE Len(memory)
           value(k) == IF k \in (n + 1)..(n + Len(cells)) THEN cells[k - n] ELSE memory[k]
<1>1. lists'[u] = Overwrite(memory, n, cells) /\ used'[u] = n + Len(cells)
  BY OfIsPicked DEF Extend
<1>2. cells \in Seq(Cells) /\ memory \in Seq(Cells) /\ n \in 0..Len(memory)
  BY PickedIsSeq DEF SlicesTyped
<1> HIDE DEF cells, memory, n
<1>3. Len(cells) \in Nat /\ Len(memory) \in Nat /\ n \in Nat /\ n <= Len(memory)
  BY <1>2, LenProperties
<1>4. lists'[u] = [k \in 1..top |-> value(k)]
  BY <1>1 DEF Overwrite
<1>5. lists'[u] \in Seq(Cells)
  BY <1>1, <1>2, OverwriteTyped
<1> DEFINE new == lists'[u]
           m == n + Len(cells)
           left == SubSeq(new, 1, m)
           old == SubSeq(memory, 1, n)
<1>6. top \in Nat /\ m <= top /\ m \in Nat
  BY <1>3
<1>7. \A k \in 1..m : new[k] = value(k)
  BY <1>4, <1>6
<1> HIDE DEF top
<1>8. \A k \in 1..m : new[k] \in Cells
  <2> SUFFICES ASSUME NEW k \in 1..m PROVE value(k) \in Cells
    BY <1>7
  <2>1. CASE k \in (n + 1)..(n + Len(cells))
    <3>1. k - n \in 1..Len(cells)
      BY <1>3, <2>1
    <3> QED
      BY <1>2, <2>1, <3>1, ElementOfSeq
  <2>2. CASE k \notin (n + 1)..(n + Len(cells))
    <3>1. k \in 1..Len(memory)
      BY <1>3, <2>2
    <3> QED
      BY <1>2, <2>2, <3>1, ElementOfSeq
  <2> QED
    BY <2>1, <2>2
<1> HIDE DEF new, m, value
<1>9. /\ left \in Seq(Cells) /\ Len(left) = m
      /\ \A k \in 1..m : left[k] = new[k]
  <2>1. /\ left \in Seq(Cells) /\ Len(left) = IF 1 <= m THEN m - 1 + 1 ELSE 0
        /\ \A k \in 1..(m - 1 + 1) : left[k] = new[1 + k - 1]
    BY <1>6, <1>8, SubSeqProperties
  <2>2. m - 1 + 1 = m /\ \A k \in 1..m : 1 + k - 1 = k
    BY <1>6
  <2>3. Len(left) = m
    BY <1>6, <2>1
  <2> QED
    BY <2>1, <2>2, <2>3
<1>10. /\ old \in Seq(Cells) /\ Len(old) = n
       /\ \A k \in 1..n : old[k] = memory[k]
  <2>0. \A k \in 1..n : memory[k] \in Cells
    <3> SUFFICES ASSUME NEW k \in 1..n PROVE memory[k] \in Cells
      OBVIOUS
    <3>1. k \in 1..Len(memory)
      BY <1>3
    <3> QED
      BY <1>2, <3>1, ElementOfSeq
  <2>1. /\ old \in Seq(Cells) /\ Len(old) = IF 1 <= n THEN n - 1 + 1 ELSE 0
        /\ \A k \in 1..(n - 1 + 1) : old[k] = memory[1 + k - 1]
    BY <1>3, <2>0, SubSeqProperties
  <2>2. n - 1 + 1 = n /\ \A k \in 1..n : 1 + k - 1 = k
    BY <1>3
  <2>3. Len(old) = n
    BY <1>3, <2>1
  <2> QED
    BY <2>1, <2>2, <2>3
<1> HIDE DEF left, old
<1>11. /\ old \o cells \in Seq(Cells) /\ Len(old \o cells) = n + Len(cells)
       /\ \A k \in 1..(n + Len(cells)) : (old \o cells)[k] = IF k <= n THEN old[k]
                                                             ELSE cells[k - n]
  BY <1>2, <1>10, ConcatProperties
<1>12. m = n + Len(cells)
  BY DEF m
<1>13. ASSUME NEW k \in 1..m PROVE left[k] = (old \o cells)[k]
  <2>1. left[k] = value(k)
    BY <1>7, <1>9
  <2>2. CASE k <= n
    <3>1. k \in 1..n /\ k \notin (n + 1)..(n + Len(cells))
      BY <1>3, <1>6, <2>2
    <3>2. value(k) = memory[k]
      BY <3>1 DEF value
    <3> QED
      BY <1>10, <1>11, <1>12, <2>1, <2>2, <3>1, <3>2
  <2>3. CASE ~(k <= n)
    <3>1. k \in (n + 1)..(n + Len(cells))
      BY <1>3, <1>12, <2>3
    <3>2. value(k) = cells[k - n]
      BY <3>1 DEF value
    <3> QED
      BY <1>11, <1>12, <2>1, <2>3, <3>2
  <2> QED
    BY <2>2, <2>3
<1>14. left = old \o cells
  BY <1>9, <1>11, <1>12, <1>13, SeqEqual
<1>15. used'[u] = m
  BY <1>1 DEF m
<1> QED
  BY <1>14, <1>15 DEF left, old, new, memory, n, cells

\* A caller that is rebuilding has what came new in the slices, and the old start it goes on from.
Rebuilding(c) ==
    /\ prior[c] \in Cells /\ start # -1
    /\ \E n \in 1..Limit :
          /\ prior[c] = (start + n) % Limit /\ (n < Limit => n < total)
          /\ \A u \in Users : SubSeq(lists[u], 1, used[u])
                                = Picked(u, Walk(start, n), cache, userOf)

SlicesSound ==
    /\ start # -1 => end \in Cells
    /\ \A c \in Callers : at[c] = "place" => \A u \in Users : used[u] = 0
    /\ \A c \in Callers : at[c] = "rebuild" => Rebuilding(c)

LEMMA InitSlices == ASSUME ActivityInit PROVE SlicesSound
BY DEF ActivityInit, SlicesSound

LEMMA QuietSlices ==
    ASSUME SlicesSound, UNCHANGED <<userOf, ring, slices>>,
           \A d \in Callers : at'[d] \in {"place", "rebuild"}
                               => at'[d] = at[d] /\ prior'[d] = prior[d]
    PROVE  SlicesSound'
<1>1. /\ start' = start /\ end' = end /\ total' = total /\ cache' = cache /\ userOf' = userOf
      /\ lists' = lists /\ used' = used
  BY DEF ring, slices
<1>2. ASSUME NEW c \in Callers, at'[c] = "rebuild" PROVE Rebuilding(c)'
  <2>1. Rebuilding(c) /\ prior'[c] = prior[c]
    BY <1>2 DEF SlicesSound
  <2> QED
    BY <1>1, <2>1 DEF Rebuilding
<1> QED
  BY <1>1, <1>2 DEF SlicesSound

\* A new event is in no cell yet, so no slice changes.
LEMMA LogEventSlices ==
    ASSUME CacheIsSound, SlicesSound, LogEvent PROVE SlicesSound'
<1>1. /\ \E x \in Users : userOf' = Append(userOf, x)
      /\ start' = start /\ end' = end /\ total' = total /\ cache' = cache
      /\ lists' = lists /\ used' = used /\ at' = at /\ prior' = prior
  BY DEF LogEvent, ring, slices, sync
<1>2. userOf \in Seq(Users) /\ cache \in [Cells -> 0..MaxEvents]
  BY DEF CacheIsSound, ActivityTypeOK
<1>3. ASSUME NEW i \in Cells, cache[i] # 0 PROVE userOf'[cache[i]] = userOf[cache[i]]
  <2>1. cache[i] \in Nat /\ cache[i] <= newest /\ newest \in Nat /\ newest <= logged
    BY CellHas, NumbersHeld
  <2>2. cache[i] \in 1..Len(userOf)
    BY <1>2, <1>3, <2>1, NumbersHeld DEF logged
  <2> QED
    BY <1>1, <1>2, <2>2, AppendProperties
<1>4. \A i \in Cells, u \in Users : Names(u, i, cache, userOf) <=> Names(u, i, cache, userOf')
  BY <1>3 DEF Names
<1>5. ASSUME NEW c \in Callers, at'[c] = "rebuild" PROVE Rebuilding(c)'
  <2>1. Rebuilding(c)
    BY <1>1, <1>5 DEF SlicesSound
  <2>2. PICK n \in 1..Limit :
          /\ prior[c] = (start + n) % Limit /\ (n < Limit => n < total)
          /\ \A u \in Users : SubSeq(lists[u], 1, used[u])
                                = Picked(u, Walk(start, n), cache, userOf)
    BY <2>1 DEF Rebuilding
  <2>3. start \in Int /\ n \in Nat
    BY <2>1, Bounds, NumbersHeld DEF Rebuilding, Cells
  <2> DEFINE path == Walk(start, n)
  <2>4. path \in Seq(Cells)
    BY <2>3, WalkIsSeq
  <2> HIDE DEF path
  <2>5. \A u \in Users : Picked(u, path, cache, userOf) = Picked(u, path, cache, userOf')
    <3> SUFFICES ASSUME NEW u \in Users
                 PROVE  Picked(u, path, cache, userOf) = Picked(u, path, cache, userOf')
      OBVIOUS
    <3>1. \A k \in 1..Len(path) : path[k] \in Cells
      BY <2>4, ElementOfSeq
    <3>2. \A k \in 1..Len(path) : Names(u, path[k], cache, userOf)
                                  <=> Names(u, path[k], cache, userOf')
      BY <1>4, <3>1
    <3> QED
      BY <2>4, <3>2, PickedSame
  <2>6. \A u \in Users : SubSeq(lists[u], 1, used[u]) = Picked(u, Walk(start, n), cache, userOf')
    BY <2>2, <2>5 DEF path
  <2> QED
    BY <1>1, <2>1, <2>2, <2>6 DEF Rebuilding
<1> QED
  BY <1>1, <1>5 DEF SlicesSound

\* Whoever else there is does not sync.
LEMMA OthersWait ==
    ASSUME CacheIsSound, NEW c \in Callers, at[c] \in Syncing, NEW d \in Callers, d # c,
           NEW place, Goto(c, place)
    PROVE  at'[d] = at[d] /\ at'[d] \notin Syncing
<1>1. at'[d] = at[d]
  BY DEF Goto, CacheIsSound, ActivityTypeOK
<1> QED
  BY <1>1 DEF CacheIsSound, OneSyncs

LEMMA WipeSlices ==
    ASSUME CacheIsSound, SlicesSound, NEW c \in Callers, Wipe(c) PROVE SlicesSound'
<1>1. /\ at[c] = "wipe" /\ Goto(c, "place") /\ used' = [u \in Users |-> 0] /\ ring' = ring
  BY DEF Wipe
<1>2. start' = start /\ end' = end
  BY <1>1 DEF ring
<1>3. at'[c] = "place" /\ \A u \in Users : used'[u] = 0
  BY <1>1 DEF Goto, CacheIsSound, ActivityTypeOK
<1>4. \A d \in Callers : d # c => at'[d] \notin Syncing
  <2>1. at[c] \in Syncing
    BY <1>1 DEF Syncing
  <2> QED
    BY <1>1, <2>1, OthersWait
<1> QED
  BY <1>2, <1>3, <1>4 DEF SlicesSound, Syncing

LEMMA RebuildSlices ==
    ASSUME CacheIsSound, SlicesSound, NEW c \in Callers, Rebuild(c) PROVE SlicesSound'
<1>1. at[c] = "rebuild" /\ Goto(c, "yield") /\ ring' = ring
  BY DEF Rebuild
<1>2. start' = start /\ end' = end
  BY <1>1 DEF ring
<1>3. at'[c] = "yield"
  BY <1>1 DEF Goto, CacheIsSound, ActivityTypeOK
<1>4. \A d \in Callers : d # c => at'[d] \notin Syncing
  <2>1. at[c] \in Syncing
    BY <1>1 DEF Syncing
  <2> QED
    BY <1>1, <2>1, OthersWait
<1> QED
  BY <1>2, <1>3, <1>4 DEF SlicesSound, Syncing

\* Placing leaves the slices with what came new, before the old start.
LEMMA PlaceSlices ==
    ASSUME CacheIsSound, SlicesSound, NEW c \in Callers, Place(c) PROVE SlicesSound'
<1> DEFINE place == IF start = -1 THEN "yield" ELSE "rebuild"
           n == Len(items[c])
           from == NewStart(n)
<1>1. /\ at[c] = "place" /\ Goto(c, place) /\ Extend(FreshCells(c), cache')
      /\ start' = from /\ end' = NewEnd(from, n)
      /\ prior' = [prior EXCEPT ![c] = start] /\ userOf' = userOf
  BY DEF Place, FreshCells
<1>2. Sent(c) /\ \A u \in Users : used[u] = 0
  BY <1>1 DEF CacheIsSound, Times, TimesOf, SlicesSound
<1>3. /\ n \in 1..Limit /\ Limit \in Nat \ {0} /\ from \in Cells
      /\ FreshCells(c) \in Seq(Cells) /\ Len(FreshCells(c)) = n
  BY <1>2, FreshIs, SentIs, Bounds
<1>4. total' = Least(newest', Limit) /\ newest' \in Nat /\ newest' - n >= newest
  <2>1. total' = Least(newest', Limit) /\ newest' = items[c][1]
    BY <1>2, PlaceKeepsRing
  <2>2. items[c][1] \in Entries /\ items[c][1] - n >= newest
    BY <1>2, SentIs
  <2> QED
    BY <2>1, <2>2, Bounds DEF Entries
<1>5. start # -1 => /\ start \in Cells /\ from = (start - n) % Limit
                    /\ newest \in Nat /\ newest >= 1 /\ end \in Cells
  BY NumbersHeld DEF NewStart, SlicesSound
<1>10. n \in 1..Limit /\ Limit \in Nat \ {0}
  BY <1>3
<1>6. FreshCells(c) = Walk(from, n)
  <2> HIDE DEF from, n
  <2> DEFINE to == from + n - 1
  <2>1. to - from = n - 1 /\ (n - 1) + 1 = n
    BY <1>3 DEF Cells
  <2>2. (n - 1) % Limit = n - 1
    BY <1>10, Around
  <2>3. FreshCells(c) = Path(from, to)
    BY DEF FreshCells, from, n
  <2> HIDE DEF to
  <2>4. ((to - from) % Limit) + 1 = n
    BY <2>1, <2>2
  <2>5. Path(from, to) = [k \in 1..(((to - from) % Limit) + 1) |-> (from + k - 1) % Limit]
    BY DEF Path
  <2>6. Path(from, to) = [k \in 1..n |-> (from + k - 1) % Limit]
    BY <2>4, <2>5
  <2> QED
    BY <2>3, <2>6 DEF Walk
<1> HIDE DEF from, n
<1>7. end' \in Cells
  <2>1. n - 1 \in Cells
    BY <1>3 DEF Cells
  <2>2. start # -1 => end - 1 \in Int
    BY <1>5 DEF Cells
  <2>3. start # -1 => (end - 1) % Limit \in Cells
    BY <2>2, Around
  <2> QED
    BY <1>1, <1>5, <2>1, <2>3 DEF NewEnd
<1>8. at'[c] = place /\ \A d \in Callers : d # c => at'[d] \notin Syncing
  <2>1. at[c] \in Syncing
    BY <1>1 DEF Syncing
  <2>2. \A d \in Callers : d # c => at'[d] \notin Syncing
    BY <1>1, <2>1, OthersWait
  <2> QED
    BY <1>1, <2>2 DEF Goto, CacheIsSound, ActivityTypeOK
<1>9. ASSUME start # -1 PROVE Rebuilding(c)'
  <2>1. prior'[c] = start /\ start \in Cells /\ start' # -1
    BY <1>1, <1>3, <1>5, <1>9, Bounds DEF CacheIsSound, ActivityTypeOK, Cells
  <2>2. start = (from + n) % Limit
    <3>1. start \in 0..(Limit - 1) /\ from = (start - n) % Limit
      BY <1>5, <1>9, <2>1 DEF Cells
    <3>2. CASE n <= start
      <4>1. from = start - n
        BY <1>10, <3>1, <3>2, Around
      <4>2. from + n = start
        BY <1>10, <3>1, <4>1
      <4> QED
        BY <1>10, <3>1, <4>2, Around
    <3>3. CASE ~(n <= start)
      <4>1. from = start - n + Limit
        BY <1>10, <3>1, <3>3, Around
      <4>2. from + n = start + Limit
        BY <1>10, <3>1, <4>1
      <4>3. (start + Limit) % Limit = start
        BY <1>10, <3>1, Around
      <4> QED
        BY <4>2, <4>3
    <3> QED
      BY <3>2, <3>3
  <2>3. n < Limit => n < total'
    BY <1>3, <1>4, <1>5, <1>9 DEF Least
  <2>4. ASSUME NEW u \in Users
        PROVE  SubSeq(lists'[u], 1, used'[u]) = Picked(u, Walk(from, n), cache', userOf)
    <3> DEFINE new == Picked(u, FreshCells(c), cache', userOf)
    <3>1. SlicesTyped
      BY DEF CacheIsSound, ActivityTypeOK, SlicesTyped
    <3>2. SubSeq(lists'[u], 1, used'[u]) = SubSeq(lists[u], 1, used[u]) \o new
      BY <1>1, <1>3, <3>1, ExtendAppends
    <3>3. SubSeq(lists[u], 1, used[u]) = <<>>
      <4>1. used[u] = 0
        BY <1>2
      <4> QED
        BY <4>1, SubSeqEmpty
    <3>4. new \in Seq(Cells)
      BY <1>3, PickedIsSeq
    <3> HIDE DEF new
    <3>5. <<>> \o new = new
      BY <3>4, ConcatEmptySeq
    <3> QED
      BY <1>6, <3>2, <3>3, <3>5 DEF new
  <2> QED
    BY <1>1, <1>3, <2>1, <2>2, <2>3, <2>4 DEF Rebuilding
<1> QED
  BY <1>7, <1>8, <1>9 DEF SlicesSound, Syncing

LEMMA NextSlices ==
    ASSUME CacheIsSound, SlicesSound, [ActivityNext]_activityVars PROVE SlicesSound'
<1>1. CASE GrowOld \/ UNCHANGED activityVars
  BY <1>1, QuietSlices DEF GrowOld, activityVars, sync
<1>2. ASSUME NEW c \in Callers,
             \/ Call(c) \/ Claim(c) \/ Query(c) \/ QueryFails(c) \/ Finish(c) \/ Spin(c)
             \/ ReadIndex(c) \/ ReadEntries(c)
      PROVE  SlicesSound'
  <2>1. UNCHANGED <<userOf, ring, slices>> /\ prior' = prior
    BY <1>2 DEF Call, Claim, Query, QueryFails, Finish, Spin, ReadIndex, ReadEntries, sync
  <2>2. PICK place : Goto(c, place) /\ place \notin {"place", "rebuild"}
    <3>1. CASE Call(c)
      BY <3>1 DEF Call
    <3>2. CASE Claim(c)
      BY <3>2 DEF Claim
    <3>3. CASE Query(c)
      BY <3>3 DEF Query
    <3>4. CASE QueryFails(c) \/ Finish(c) \/ Spin(c)
      BY <3>4 DEF QueryFails, Finish, Spin
    <3>5. CASE ReadIndex(c) \/ ReadEntries(c)
      BY <3>5 DEF ReadIndex, ReadEntries
    <3> QED
      BY <1>2, <3>1, <3>2, <3>3, <3>4, <3>5
  <2>3. \A d \in Callers : at'[d] \in {"place", "rebuild"}
                             => at'[d] = at[d] /\ prior'[d] = prior[d]
    BY <2>1, <2>2 DEF Goto, CacheIsSound, ActivityTypeOK
  <2> QED
    BY <2>1, <2>3, QuietSlices
<1>3. ASSUME NEW c \in Callers, Wipe(c) \/ Place(c) \/ Rebuild(c) PROVE SlicesSound'
  BY <1>3, WipeSlices, PlaceSlices, RebuildSlices
<1> QED
  BY <1>1, <1>2, <1>3, LogEventSlices DEF ActivityNext

\* The old entries that stay are those from the old start to the oldest, and rebuilding
\* appends them all.
LEMMA RebuildIsExact ==
    ASSUME CacheIsSound, SlicesSound, NEW c \in Callers, Rebuild(c),
           prior[c] # start, EndIsOldest
    PROVE  SlicesAreExact'
<1>1. /\ at[c] = "rebuild" /\ Extend(Path(prior[c], end), cache)
      /\ start' = start /\ cache' = cache /\ userOf' = userOf
  BY DEF Rebuild, ring
<1>2. /\ prior[c] \in Cells /\ start # -1 /\ start \in Cells /\ end \in Cells
      /\ Limit \in Nat \ {0} /\ start \in 0..(Limit - 1) /\ total \in 0..Limit
      /\ newest \in Nat /\ newest = cache[start] /\ total = Least(newest, Limit) /\ newest >= 1
  BY <1>1, Bounds, NumbersHeld
     DEF SlicesSound, Rebuilding, CacheIsSound, ActivityTypeOK, Cells, newest, RingIsFull
<1>3. PICK n \in 1..Limit :
        /\ prior[c] = (start + n) % Limit /\ (n < Limit => n < total)
        /\ \A u \in Users : SubSeq(lists[u], 1, used[u]) = Picked(u, Walk(start, n), cache, userOf)
  BY <1>1 DEF SlicesSound, Rebuilding
<1>15. start \in 0..(Limit - 1) /\ Limit \in Nat \ {0}
  BY <1>2
<1>16. (start + Limit) % Limit = start
  BY <1>15, Around
<1>4. n < Limit
  <2> SUFFICES ASSUME n = Limit PROVE FALSE
    BY <1>2
  <2> QED
    BY <1>3, <1>16
<1>5. n \in Cells /\ n < total /\ n \in Nat /\ total \in Nat /\ Limit - total \in Nat
  BY <1>2, <1>3, <1>4 DEF Cells
<1>6. end = (start + (total - 1)) % Limit
  <2>1. PICK e \in Cells : (start + e) % Limit = end
    BY <1>2, Offsets
  <2>2. e \in 0..(Limit - 1)
    BY DEF Cells
  <2>3. cache[end] = IF e < total THEN newest - e ELSE 0
    BY <1>2, <2>1, <2>2 DEF CacheIsSound, RingIsInOrder
  <2>4. cache[end] = newest - total + 1
    BY <1>2 DEF EndIsOldest
  <2>5. newest - total + 1 >= 1
    BY <1>2 DEF Least
  <2>6. e = total - 1
    BY <1>2, <2>2, <2>3, <2>4, <2>5
  <2> QED
    BY <2>1, <2>6
<1> DEFINE old == Walk(prior[c], total - n)
           new == Walk(start, n)
           filled == Walk(start, total)
           rest == Walk((start + total) % Limit, Limit - total)
           round == Walk(start, Limit)
<1>7. Path(prior[c], end) = old
  <2>1. total - 1 \in Cells /\ n <= total - 1 /\ total - 1 - n + 1 = total - n
    BY <1>2, <1>5 DEF Cells
  <2>2. Path((start + n) % Limit, (start + (total - 1)) % Limit)
          = Walk((start + n) % Limit, total - 1 - n + 1)
    BY <1>2, <1>5, <2>1, PathBetween
  <2> QED
    BY <1>3, <1>6, <2>1, <2>2
<1>8. Path(start, start - 1) = round
  <2>1. start = (start + Limit) % Limit /\ Limit \in 1..Limit /\ start \in Cells
    BY <1>2, <1>15, <1>16
  <2> QED
    BY <2>1, PathBefore
<1>9. filled = new \o old
  <2> DEFINE m == total - n
  <2>1. m \in Nat /\ n + m = total /\ n + m <= Limit
    BY <1>2, <1>5
  <2> HIDE DEF m
  <2>2. Walk(start, n + m) = Walk(start, n) \o Walk((start + n) % Limit, m)
    BY <1>2, <1>5, <2>1, WalkJoins
  <2> QED
    BY <1>3, <2>1, <2>2 DEF m
<1>10. round = filled \o rest
  <2> DEFINE m == Limit - total
  <2>1. m \in Nat /\ total + m = Limit /\ total + m <= Limit /\ total \in Nat /\ start \in Cells
    BY <1>2, <1>5
  <2> HIDE DEF m
  <2>2. Walk(start, total + m) = Walk(start, total) \o Walk((start + total) % Limit, m)
    BY <2>1, WalkJoins
  <2> QED
    BY <2>1, <2>2 DEF m
<1>11. /\ old \in Seq(Cells) /\ new \in Seq(Cells)
       /\ filled \in Seq(Cells) /\ Len(filled) = total
       /\ rest \in Seq(Cells) /\ Len(rest) = Limit - total
       /\ \A k \in 1..Limit : round[k] = (start + k - 1) % Limit
  <2>1. total - n \in Nat /\ Limit \in Nat /\ start \in Int /\ prior[c] \in Int
    BY <1>2, <1>5 DEF Cells
  <2>2. (start + total) % Limit \in Int
    <3>1. start + total \in Int
      BY <1>5, <2>1
    <3>2. (start + total) % Limit \in Cells
      BY <3>1, Around
    <3> QED
      BY <1>2, <3>2 DEF Cells
  <2>3. old \in Seq(Cells) /\ new \in Seq(Cells) /\ filled \in Seq(Cells) /\ Len(filled) = total
    BY <1>5, <2>1, WalkIsSeq
  <2>4. rest \in Seq(Cells) /\ Len(rest) = Limit - total
    BY <1>5, <2>2, WalkIsSeq
  <2>5. \A k \in 1..Limit : round[k] = (start + k - 1) % Limit
    BY <2>1, WalkIsSeq
  <2> QED
    BY <2>3, <2>4, <2>5
<1> HIDE DEF old, new, filled, rest, round
\* Past the oldest the cells are empty.
<1>12. ASSUME NEW k \in 1..Len(rest) PROVE cache[rest[k]] = 0
  <2> DEFINE j == total + k - 1
  <2>0. k \in 1..(Limit - total) /\ total \in Nat /\ Limit \in Nat
    BY <1>2, <1>5, <1>11
  <2>1. j \in 0..(Limit - 1) /\ ~(j < total) /\ total + k \in 1..Limit
    BY <2>0
  <2>2. cache[(start + j) % Limit] = 0
    BY <1>2, <2>1 DEF CacheIsSound, RingIsInOrder
  <2>3. start + (total + k) - 1 = start + j
    BY <1>2, <2>1
  <2> HIDE DEF j
  <2>4. round[total + k] = (start + j) % Limit
    BY <1>11, <2>1, <2>3
  <2>5. /\ total + k \in 1..(Len(filled) + Len(rest)) /\ ~(total + k <= total)
        /\ total + k - total = k
    <3>1. /\ total + k \in 1..(total + (Limit - total)) /\ ~(total + k <= total)
          /\ total + k - total = k
      BY <2>0
    <3> QED
      BY <1>11, <3>1
  <2>6. (filled \o rest)[total + k] = rest[k]
    BY <1>11, <2>5, ConcatProperties
  <2> QED
    BY <1>10, <2>2, <2>4, <2>6
<1>13. ASSUME NEW u \in Users
       PROVE  SubSeq(lists'[u], 1, used'[u]) = Picked(u, round, cache, userOf)
  <2>1. SlicesTyped
    BY DEF CacheIsSound, ActivityTypeOK, SlicesTyped
  <2>2. SubSeq(lists'[u], 1, used'[u])
          = SubSeq(lists[u], 1, used[u]) \o Picked(u, old, cache, userOf)
    BY <1>1, <1>7, <1>11, <2>1, ExtendAppends
  <2>3. SubSeq(lists[u], 1, used[u]) = Picked(u, new, cache, userOf)
    BY <1>3 DEF new
  <2>4. Picked(u, filled, cache, userOf)
          = Picked(u, new, cache, userOf) \o Picked(u, old, cache, userOf)
    <3>1. filled = Joined(new, old) /\ new \in Seq(Cells) /\ old \in Seq(Cells)
      BY <1>9, <1>11 DEF Joined
    <3>2. Picked(u, filled, cache, userOf)
            = Joined(Picked(u, new, cache, userOf), Picked(u, old, cache, userOf))
      BY <3>1, PickedJoins
    <3> QED
      BY <3>2 DEF Joined
  <2>5. Picked(u, round, cache, userOf)
          = Picked(u, filled, cache, userOf) \o Picked(u, rest, cache, userOf)
    <3>1. round = Joined(filled, rest) /\ filled \in Seq(Cells) /\ rest \in Seq(Cells)
      BY <1>10, <1>11 DEF Joined
    <3>2. Picked(u, round, cache, userOf)
            = Joined(Picked(u, filled, cache, userOf), Picked(u, rest, cache, userOf))
      BY <3>1, PickedJoins
    <3> QED
      BY <3>2 DEF Joined
  <2>6. Picked(u, rest, cache, userOf) = <<>>
    <3>1. \A k \in 1..Len(rest) : ~Names(u, rest[k], cache, userOf)
      BY <1>12 DEF Names
    <3> QED
      BY <1>11, <3>1, PickedNone
  <2>7. Picked(u, filled, cache, userOf) \o <<>> = Picked(u, filled, cache, userOf)
    BY <1>11, PickedIsSeq, ConcatEmptySeq
  <2> QED
    BY <2>2, <2>3, <2>4, <2>5, <2>6, <2>7
<1>14. \A u \in Users : SubSeq(lists'[u], 1, used'[u])
                          = Picked(u, Path(start', start' - 1), cache', userOf')
  BY <1>1, <1>8, <1>13
<1> QED
  BY <1>14 DEF SlicesAreExact, Of, UpTo, Grown, Names, Picked

\* A caller stops rebuilding when it has rebuilt.
LEMMA RebuildsItself ==
    ASSUME CacheIsSound, [ActivityNext]_activityVars, NEW c \in Callers,
           at[c] = "rebuild", at'[c] # "rebuild"
    PROVE  Rebuild(c)
<1>1. ~(LogEvent \/ GrowOld \/ UNCHANGED activityVars)
  BY DEF LogEvent, GrowOld, activityVars
<1>2. PICK d \in Callers :
          \/ Call(d) \/ Claim(d) \/ Query(d) \/ QueryFails(d) \/ Wipe(d) \/ Place(d)
          \/ Rebuild(d) \/ Finish(d) \/ Spin(d) \/ ReadIndex(d) \/ ReadEntries(d)
  BY <1>1 DEF ActivityNext
<1>3. \E place : Goto(d, place)
  BY <1>2 DEF Call, Claim, Query, QueryFails, Wipe, Place, Rebuild, Finish, Spin, ReadIndex,
              ReadEntries
<1>4. d = c
  BY <1>3 DEF Goto, CacheIsSound, ActivityTypeOK
<1> QED
  BY <1>2, <1>4 DEF Call, Claim, Query, QueryFails, Wipe, Place, Finish, Spin, ReadIndex,
                    ReadEntries

\* A sync that leaves an old entry in the ring, and ends the ring where the oldest one is, leaves
\* every user's slice with the cells of exactly the user's entries, newest first, whatever came in
\* and however many users there are (jf_activity.go, MaybeSync).
THEOREM SlicesFollow == ActivitySpec => SlicesFollowEnd
<1>1. ASSUME CacheIsSound, SlicesSound, [ActivityNext]_activityVars
      PROVE  [\A c \in Callers :
                (at[c] = "rebuild" /\ at'[c] # "rebuild" /\ prior[c] # start /\ EndIsOldest)
                => SlicesAreExact']_activityVars
  BY <1>1, RebuildsItself, RebuildIsExact
<1>2. CacheIsSound /\ SlicesSound /\ [ActivityNext]_activityVars => CacheIsSound' /\ SlicesSound'
  BY NextIsSound, NextSlices
<1>3. ActivityInit => CacheIsSound /\ SlicesSound
  BY InitIsSound, InitSlices
<1> QED
  BY <1>1, <1>2, <1>3, PTL DEF ActivitySpec, SlicesFollowEnd

==============================================================================
