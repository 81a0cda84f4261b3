---------------------------- MODULE Announcements ----------------------------
(***************************************************************************)
(* Announcements: those an admin sends at once, those scheduled for later, *)
(* the daemon that polls for the latter every minute, and sendByID, by     *)
(* which both reach the users, one route after the other.  A scheduled     *)
(* announcement is a record of the database: it is read, sent and marked   *)
(* in three steps, and an admin may cancel it, a user may change how they  *)
(* are reached, and the process may stop, between any two of them.         *)
(***************************************************************************)
EXTENDS Integers, Sequences, FiniteSets

CONSTANTS Users,        \* Jellyfin users
          Routes,       \* the services that are enabled, in the order they are tried
          Ids,          \* bound: the announcements ever scheduled
          MaxSent,      \* bound: deliveries to one user by one route are counted up to this
          MaxLive,      \* bound: announcements sent at once
          MaxEdits,     \* bound: changes of routes, users deleted, templates that fail
          MaxStops,     \* bound: restarts and crashes
          None

RouteSet == {Routes[n] : n \in DOMAIN Routes}

ASSUME AnnouncementsAssumption ==
    /\ IsFiniteSet(Users) /\ None \notin Ids
    /\ Routes \in Seq(RouteSet) /\ \A m, n \in DOMAIN Routes : m # n => Routes[m] # Routes[n]
    /\ MaxSent \in Nat \ {0, 1} /\ MaxLive \in Nat /\ MaxEdits \in Nat /\ MaxStops \in Nat

\* The users a request names, in its order.
Orders == {o \in UNION {[1..n -> Users] : n \in 1..Cardinality(Users)} :
             \A i, j \in DOMAIN o : i # j => o[i] # o[j]}
Named(o) == {o[n] : n \in DOMAIN o}

\* sendByID at work for the daemon, or for a request ("id" is None): the user and the
\* route it is at, whether that user had a route, and whether errs holds an error.  With
\* "each" the message is made for every user separately.  "missed" is for the properties
\* only: users one of whose routes failed, or who had none.
Dispatch == [id : Ids \cup {None}, users : Orders, each : BOOLEAN, who : Nat \ {0}, at : Nat \ {0},
             attempted : BOOLEAN, failed : BOOLEAN, missed : SUBSET Users]
Idle == [id |-> None]
Start(i, o, each) == [id |-> i, users |-> o, each |-> each, who |-> 1, at |-> 1,
                      attempted |-> FALSE, failed |-> FALSE, missed |-> {}]
States == {"none", "waiting", "due", "sent", "cancelled"}

VARIABLES routes,    \* by which each user is reached: their rows with Contact set
          gone,      \* users deleted in Jellyfin
          store,     \* the scheduled announcements
          names,     \* the users each one names
          due,       \* what the daemon's query returned and it has yet to send
          daemon,    \* its dispatch
          live,      \* the dispatch of a request
          answer,    \* what the last request was answered, and (properties) whom it missed
          sent,      \* properties only: how often each user had each announcement
          tried,     \* properties only: users whose turn came
          troubled,  \* properties only: announcements whose dispatch failed or was cut off
          lives, edits, stops

rest == <<lives, edits, stops>>
users == <<routes, gone>>
ghosts == <<sent, tried, troubled>>
vars == <<users, store, names, due, daemon, live, answer, ghosts, rest>>

Init == /\ routes \in [Users -> SUBSET RouteSet] /\ gone = {}
        /\ store = [i \in Ids |-> "none"] /\ names = [i \in Ids |-> <<>>]
        /\ due = {} /\ daemon = Idle /\ live = Idle /\ answer = [ok |-> FALSE, missed |-> {}]
        /\ sent = [i \in Ids |-> [u \in Users |-> [r \in RouteSet |-> 0]]]
        /\ tried = [i \in Ids |-> {}] /\ troubled = {}
        /\ lives = 0 /\ edits = 0 /\ stops = 0

-----------------------------------------------------------------------------
(* The records *)

\* Users are asked for, and a time that is to come.
CreateScheduledAnnouncement(i, o) ==
    /\ store[i] = "none" /\ lives = 0 /\ store' = [store EXCEPT ![i] = "waiting"]
    /\ names' = [names EXCEPT ![i] = o]
    /\ UNCHANGED <<users, due, daemon, live, answer, ghosts, rest>>

\* SendAt is reached.
SendAt(i) ==
    /\ store[i] = "waiting" /\ store' = [store EXCEPT ![i] = "due"]
    /\ UNCHANGED <<users, names, due, daemon, live, answer, ghosts, rest>>

\* Cancelled, sent or not: the record is deleted.
DeleteScheduledAnnouncement(i) ==
    /\ store[i] \in {"waiting", "due", "sent"}
    /\ store' = [store EXCEPT ![i] = "cancelled"]
    /\ UNCHANGED <<users, names, due, daemon, live, answer, ghosts, rest>>

-----------------------------------------------------------------------------
(* sendByID *)

At(d) == d # Idle /\ d.who <= Len(d.users)
User(d) == d.users[d.who]

\* The next user's turn, or the end: one who had no route is an error.
NextUser(d) ==
    [d EXCEPT !.who = @ + 1, !.at = 1, !.attempted = FALSE,
              !.failed = @ \/ ~d.attempted,
              !.missed = IF d.attempted THEN @ ELSE @ \cup {User(d)}]

\* One route of one user: read, and used if it is set; an error is kept and the next one
\* tried all the same.
\* Mutant: the first error ends it.
TryFirst(d, ok) ==
    LET set == Routes[d.at] \in routes[User(d)]
    IN IF set /\ ~ok THEN [d EXCEPT !.who = Len(d.users) + 1, !.failed = TRUE]
       ELSE [d EXCEPT !.at = @ + 1, !.attempted = @ \/ set]

Try(d, ok) ==
    LET set == Routes[d.at] \in routes[User(d)]
    IN [d EXCEPT !.at = @ + 1, !.attempted = @ \/ set, !.failed = @ \/ (set /\ ~ok),
                 !.missed = IF set /\ ~ok THEN @ \cup {User(d)} ELSE @]

Step(d, e, ok) == /\ At(d)
                  /\ e = IF d.at <= Len(Routes) THEN Try(d, ok) ELSE NextUser(d)
Count(d, ok) ==
    IF d.at <= Len(Routes) /\ ok /\ Routes[d.at] \in routes[User(d)]
    THEN sent' = [sent EXCEPT ![d.id][User(d)][Routes[d.at]] = IF @ < MaxSent THEN @ + 1 ELSE @]
    ELSE UNCHANGED sent

-----------------------------------------------------------------------------
(* The daemon: scheduledAnnounceJob *)

Query == /\ due = {} /\ daemon = Idle
         /\ due' = {i \in Ids : store[i] = "due"} /\ due' # {}
         /\ UNCHANGED <<users, store, names, daemon, live, answer, ghosts, rest>>

\* The message is made; if that fails the next one is taken.
Take(i, made) ==
    /\ i \in due /\ daemon = Idle
    /\ IF made THEN /\ daemon' = Start(i, names[i], FALSE)
                    /\ UNCHANGED <<due, edits>>
       ELSE /\ edits < MaxEdits /\ edits' = edits + 1
            /\ due' = due \ {i} /\ UNCHANGED daemon
    /\ UNCHANGED <<users, store, names, live, answer, ghosts, lives, stops>>

DaemonSends(ok) ==
    /\ Step(daemon, daemon', ok) /\ Count(daemon, ok)
    /\ tried' = IF daemon.at > Len(Routes)
                THEN [tried EXCEPT ![daemon.id] = @ \cup {User(daemon)}] ELSE tried
    /\ UNCHANGED <<users, store, names, due, live, answer, troubled, rest>>

\* The record is marked if all went well, and if it is still there.
\* Mutant: the record is written whether or not it is there.
MarkUpsert(i) == [store EXCEPT ![i] = "sent"]

\* Mutant: the record is not marked.
MarkNot(i) == store

Mark(i) == IF store[i] = "cancelled" THEN store ELSE [store EXCEPT ![i] = "sent"]

DaemonEnds ==
    /\ daemon # Idle /\ ~At(daemon)
    /\ store' = IF daemon.failed THEN store ELSE Mark(daemon.id)
    /\ troubled' = IF daemon.failed THEN troubled \cup {daemon.id} ELSE troubled
    /\ due' = due \ {daemon.id} /\ daemon' = Idle
    /\ UNCHANGED <<users, names, live, answer, sent, tried, rest>>

-----------------------------------------------------------------------------
(* Announce: at once *)

\* Bound: a request and the daemon write nothing the other reads, so a behaviour has
\* either requests or scheduled announcements.
Apart == \A i \in Ids : store[i] = "none"

Announce(o, each) ==
    /\ live = Idle /\ lives < MaxLive /\ lives' = lives + 1 /\ Apart
    /\ live' = Start(None, o, each)
    /\ UNCHANGED <<users, store, names, due, daemon, answer, ghosts, edits, stops>>

\* One who is not found in Jellyfin is left out where the message is made for each, and
\* there the first error ends it: those who come later get nothing.
AnnounceSends(ok) ==
    /\ At(live)
    /\ ~(live.each /\ live.failed)
    /\ IF live.each /\ live.at = 1 /\ User(live) \in gone
       THEN live' = [live EXCEPT !.who = @ + 1]
       ELSE Step(live, live', ok)
    /\ UNCHANGED <<users, store, names, due, daemon, answer, ghosts, rest>>

AnnounceEnds ==
    /\ live # Idle
    /\ \/ ~At(live)
       \/ live.each /\ live.failed /\ live.at = 1
    /\ answer' = [ok |-> ~live.failed, missed |-> live.missed]
    /\ live' = Idle
    /\ UNCHANGED <<users, store, names, due, daemon, ghosts, rest>>

-----------------------------------------------------------------------------
(* Users, the process *)

\* Contact methods are linked, unlinked, switched on and off.
SetContactMethods(u, rs) ==
    /\ edits < MaxEdits /\ edits' = edits + 1 /\ rs # routes[u]
    /\ routes' = [routes EXCEPT ![u] = rs]
    /\ UNCHANGED <<gone, store, names, due, daemon, live, answer, ghosts, lives, stops>>
DeleteUser(u) ==
    /\ edits < MaxEdits /\ edits' = edits + 1 /\ u \notin gone
    /\ gone' = gone \cup {u}
    /\ UNCHANGED <<routes, store, names, due, daemon, live, answer, ghosts, lives, stops>>

Restart == /\ stops < MaxStops /\ stops' = stops + 1
           /\ due' = {} /\ daemon' = Idle /\ live' = Idle
           /\ troubled' = IF daemon = Idle THEN troubled ELSE troubled \cup {daemon.id}
           /\ UNCHANGED <<users, store, names, answer, sent, tried, lives, edits>>

Job == \/ Query \/ DaemonEnds
       \/ \E i \in Ids, made \in BOOLEAN : Take(i, made)
       \/ \E ok \in BOOLEAN : DaemonSends(ok)
Next == \/ \E i \in Ids : \/ SendAt(i) \/ DeleteScheduledAnnouncement(i)
                          \/ \E o \in Orders : CreateScheduledAnnouncement(i, o)
        \/ \E o \in Orders, each \in BOOLEAN : Announce(o, each)
        \/ \E ok \in BOOLEAN : AnnounceSends(ok)
        \/ \E u \in Users : DeleteUser(u) \/ \E rs \in SUBSET RouteSet : SetContactMethods(u, rs)
        \/ Job \/ AnnounceEnds \/ Restart

Spec == Init /\ [][Next]_vars
FairSpec == Spec /\ WF_vars(Job)

-----------------------------------------------------------------------------
(* Properties *)

\* The daemon is at an announcement it has taken, and everything else holds what it is
\* declared to hold.
TypeOK ==
    /\ routes \in [Users -> SUBSET RouteSet] /\ gone \subseteq Users
    /\ store \in [Ids -> States] /\ names \in [Ids -> Orders \cup {<<>>}]
    /\ \A i \in Ids : store[i] = "none" <=> names[i] = <<>>
    /\ due \subseteq Ids /\ daemon \in Dispatch \cup {Idle} /\ live \in Dispatch \cup {Idle}
    /\ daemon # Idle => daemon.id \in due
    /\ sent \in [Ids -> [Users -> [RouteSet -> 0..MaxSent]]]
    /\ tried \in [Ids -> SUBSET Users] /\ troubled \subseteq Ids

\* A user is sent a scheduled announcement by the same route again only if an earlier
\* dispatch of it was cut off or had an error, be it another user's.
AgainOnlyAfterTrouble ==
    \A i \in Ids, u \in Users, r \in RouteSet : sent[i][u][r] > 1 => i \in troubled

\* A cancelled announcement is not brought back by the daemon, which may be sending it
\* and has yet to mark it.
CancelledStaysGone ==
    [][\A i \in Ids : store[i] = "cancelled" => store'[i] = "cancelled"]_vars

\* A request that is answered with success missed nobody: each user it named was sent the
\* message by all the routes they had in their turn, those deleted in Jellyfin apart.
SuccessMissesNobody == answer.ok => answer.missed = {}

\* Whatever fails, stops or changes meanwhile: what is repeated had failed, and what is
\* answered with success was sent.
SoundDispatch == TypeOK /\ AgainOnlyAfterTrouble /\ SuccessMissesNobody

\* In the end the turn of every user of a due announcement comes, whatever happens to
\* the messages of others, unless it is cancelled.
EveryTurnComes ==
    \A i \in Ids, u \in Users :
        store[i] = "due" /\ u \in Named(names[i]) ~> u \in tried[i] \/ store[i] = "cancelled"
=============================================================================
