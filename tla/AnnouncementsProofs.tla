------------------------- MODULE AnnouncementsProofs -------------------------
(* Theorems about Announcements: what is sent twice, and what success means. *)
EXTENDS Announcements, SequenceTheorems, FiniteSetTheorems, TLAPS

\* What a dispatch has not come to yet: the users after the one it is at, and the routes it
\* has still to try for that one.
Ahead(d, u, r) ==
    \E n \in DOMAIN d.users, m \in DOMAIN Routes :
        d.users[n] = u /\ Routes[m] = r /\ (n > d.who \/ (n = d.who /\ m >= d.at))

Sends(i) == daemon # Idle /\ daemon.id = i

\* Why nothing is sent twice without trouble: what is due was not sent at all, and a
\* dispatch comes to each user and route once.
SentOnce(i) ==
    \A u \in Users, r \in RouteSet :
        /\ sent[i][u][r] <= 1
        /\ Sends(i) /\ Ahead(daemon, u, r) => sent[i][u][r] = 0
        /\ ~Sends(i) /\ (i \in due \/ store[i] \in {"none", "waiting", "due"})
              => sent[i][u][r] = 0
Once == /\ \A i \in due : store[i] \in {"due", "cancelled"}
        /\ \A i \in Ids \ troubled : SentOnce(i)

\* Why success misses nobody: whoever is missed leaves an error.
Reported == /\ live # Idle => live.failed \/ live.missed = {}
            /\ SuccessMissesNobody

IInv == TypeOK /\ Once /\ Reported

-----------------------------------------------------------------------------
(* A dispatch *)

LEMMA OrdersAreSequences ==
    ASSUME NEW o \in Orders
    PROVE  /\ o \in Seq(Users) /\ o # <<>> /\ Len(o) \in Nat /\ DOMAIN o = 1..Len(o)
           /\ \A n \in 1..Len(o) : o[n] \in Users
           /\ \A m, n \in 1..Len(o) : m # n => o[m] # o[n]
<1>1. PICK n \in 1..Cardinality(Users) : o \in [1..n -> Users]
  BY DEF Orders
<1>2. Cardinality(Users) \in Nat
  BY AnnouncementsAssumption, FS_CardinalityType
<1>3. n \in Nat \ {0}
  BY <1>2
<1>4. o \in Seq(Users)
  BY <1>1, <1>3, SeqDef
<1>5. Len(o) \in Nat /\ DOMAIN o = 1..Len(o)
  BY <1>4, LenProperties
<1>6. Len(o) = n
  BY <1>1, <1>3, <1>5
<1>7. o # <<>>
  BY <1>3, <1>6, EmptySeq
<1> QED
  BY <1>1, <1>4, <1>5, <1>6, <1>7 DEF Orders

LEMMA RoutesAreASequence ==
    /\ Len(Routes) \in Nat /\ DOMAIN Routes = 1..Len(Routes)
    /\ \A n \in 1..Len(Routes) : Routes[n] \in RouteSet
    /\ \A m, n \in 1..Len(Routes) : m # n => Routes[m] # Routes[n]
BY AnnouncementsAssumption, LenProperties DEF RouteSet

LEMMA StartIsTyped ==
    ASSUME NEW i \in Ids \cup {None}, NEW o \in Orders, NEW each \in BOOLEAN
    PROVE  /\ Start(i, o, each) \in Dispatch /\ Start(i, o, each) # Idle
           /\ Start(i, o, each).id = i /\ Start(i, o, each).missed = {}
BY DEF Start, Dispatch, Idle

LEMMA DispatchIsNotIdle == \A d \in Dispatch : d # Idle
BY DEF Dispatch, Idle

LEMMA AtIsTyped ==
    ASSUME NEW d \in Dispatch, At(d)
    PROVE  d.who \in 1..Len(d.users) /\ d.at \in Nat \ {0} /\ User(d) \in Users
BY OrdersAreSequences DEF At, Dispatch, User

\* A step keeps what is dispatched, goes on in order, and notes an error for whom it misses.
LEMMA StepIsTyped ==
    ASSUME NEW d \in Dispatch, NEW e, NEW ok \in BOOLEAN, Step(d, e, ok)
    PROVE  /\ e \in Dispatch /\ e # Idle /\ e.id = d.id /\ e.users = d.users
           /\ IF d.at <= Len(Routes) THEN e.who = d.who /\ e.at = d.at + 1
                                     ELSE e.who = d.who + 1 /\ e.at = 1
           /\ d.failed \/ d.missed = {} => e.failed \/ e.missed = {}
<1>1. At(d) /\ d.who \in 1..Len(d.users) /\ d.at \in Nat \ {0} /\ User(d) \in Users
  BY AtIsTyped DEF Step
<1> DEFINE set == Routes[d.at] \in routes[User(d)]
           attempted == d.attempted \/ set
           failed == d.failed \/ (set /\ ~ok)
           missed == IF set /\ ~ok THEN d.missed \cup {User(d)} ELSE d.missed
<1>2. CASE d.at <= Len(Routes)
  <2>1. e = [d EXCEPT !.at = d.at + 1, !.attempted = attempted, !.failed = failed,
                      !.missed = missed]
    BY <1>2 DEF Step, Try, Dispatch
  <2>2. attempted \in BOOLEAN /\ failed \in BOOLEAN /\ missed \in SUBSET Users
    BY <1>1 DEF Dispatch
  <2>3. d.failed \/ d.missed = {} => failed \/ missed = {}
    OBVIOUS
  <2> HIDE DEF attempted, failed, missed
  <2>6. d.at + 1 \in Nat \ {0}
    BY <1>1
  <2>4. e \in Dispatch /\ e.failed = failed /\ e.missed = missed
    BY <2>1, <2>2, <2>6 DEF Dispatch
  <2>5. e.id = d.id /\ e.users = d.users /\ e.who = d.who /\ e.at = d.at + 1
    BY <2>1 DEF Dispatch
  <2> QED
    BY <1>2, <2>3, <2>4, <2>5, DispatchIsNotIdle
<1>3. CASE ~(d.at <= Len(Routes))
  <2> DEFINE late == d.failed \/ ~d.attempted
             lost == IF d.attempted THEN d.missed ELSE d.missed \cup {User(d)}
  <2>1. e = [d EXCEPT !.who = d.who + 1, !.at = 1, !.attempted = FALSE, !.failed = late,
                      !.missed = lost]
    BY <1>3 DEF Step, NextUser, Dispatch
  <2>2. late \in BOOLEAN /\ lost \in SUBSET Users
    BY <1>1 DEF Dispatch
  <2>3. d.failed \/ d.missed = {} => late \/ lost = {}
    OBVIOUS
  <2> HIDE DEF late, lost
  <2>6. d.who + 1 \in Nat \ {0} /\ 1 \in Nat \ {0} /\ FALSE \in BOOLEAN
    BY <1>1
  <2>4. e \in Dispatch /\ e.failed = late /\ e.missed = lost
    BY <2>1, <2>2, <2>6 DEF Dispatch
  <2>5. e.id = d.id /\ e.users = d.users /\ e.who = d.who + 1 /\ e.at = 1
    BY <2>1 DEF Dispatch
  <2> QED
    BY <1>3, <2>3, <2>4, <2>5, DispatchIsNotIdle
<1> QED
  BY <1>2, <1>3

\* Counting counts the user and the route the dispatch is at, or nothing.
LEMMA CountIsTyped ==
    ASSUME TypeOK, NEW d \in Dispatch, At(d), d.id \in Ids, NEW ok \in BOOLEAN, Count(d, ok)
    PROVE  /\ sent' \in [Ids -> [Users -> [RouteSet -> 0..MaxSent]]]
           /\ \A i \in Ids, u \in Users, r \in RouteSet :
                 \/ sent'[i][u][r] = sent[i][u][r]
                 \/ /\ i = d.id /\ d.at <= Len(Routes) /\ u = User(d) /\ r = Routes[d.at]
                    /\ sent'[i][u][r] = sent[i][u][r] + 1
<1>1. CASE UNCHANGED sent
  BY <1>1 DEF TypeOK
<1>2. CASE /\ d.at <= Len(Routes)
           /\ sent' = [sent EXCEPT ![d.id][User(d)][Routes[d.at]] =
                                     IF @ < MaxSent THEN @ + 1 ELSE @]
  <2>1. User(d) \in Users /\ Routes[d.at] \in RouteSet
    BY <1>2, AtIsTyped, RoutesAreASequence
  <2>2. MaxSent \in Nat
    BY AnnouncementsAssumption
  <2>3. sent \in [Ids -> [Users -> [RouteSet -> 0..MaxSent]]]
    BY DEF TypeOK
  <2> DEFINE old == sent[d.id][User(d)][Routes[d.at]]
             new == IF old < MaxSent THEN old + 1 ELSE old
  <2>4. sent' = [sent EXCEPT ![d.id][User(d)][Routes[d.at]] = new]
    BY <1>2
  <2>5. new \in 0..MaxSent /\ (new = old \/ new = old + 1)
    <3>1. old \in 0..MaxSent
      BY <2>1, <2>3
    <3> HIDE DEF old
    <3> QED
      BY <2>2, <3>1
  <2> HIDE DEF new
  <2>6. sent' \in [Ids -> [Users -> [RouteSet -> 0..MaxSent]]]
    BY <2>1, <2>3, <2>4, <2>5
  <2>7. ASSUME NEW i \in Ids, NEW u \in Users, NEW r \in RouteSet
        PROVE  sent'[i][u][r] = IF i = d.id /\ u = User(d) /\ r = Routes[d.at] THEN new
                                ELSE sent[i][u][r]
    BY <2>1, <2>3, <2>4
  <2>8. ASSUME NEW i \in Ids, NEW u \in Users, NEW r \in RouteSet
        PROVE  \/ sent'[i][u][r] = sent[i][u][r]
               \/ /\ i = d.id /\ d.at <= Len(Routes) /\ u = User(d) /\ r = Routes[d.at]
                  /\ sent'[i][u][r] = sent[i][u][r] + 1
    <3>1. CASE i = d.id /\ u = User(d) /\ r = Routes[d.at]
      <4>1. sent'[i][u][r] = new /\ sent[i][u][r] = old
        BY <2>7, <3>1
      <4> HIDE DEF old
      <4> QED
        BY <1>2, <2>5, <3>1, <4>1
    <3>2. CASE ~(i = d.id /\ u = User(d) /\ r = Routes[d.at])
      BY <2>7, <3>2
    <3> QED
      BY <3>1, <3>2
  <2> QED
    BY <2>6, <2>8
<1> QED
  BY <1>1, <1>2 DEF Count

-----------------------------------------------------------------------------
(* Types *)

LEMMA TypeStep == ASSUME TypeOK, Once, [Next]_vars PROVE TypeOK'
<1> USE DEF rest, users, ghosts
<1>0. TypeOK
  OBVIOUS
<1>1. CASE UNCHANGED vars
  BY <1>0, <1>1 DEF vars, TypeOK
<1>2. ASSUME NEW i \in Ids, SendAt(i) \/ DeleteScheduledAnnouncement(i) PROVE TypeOK'
  BY <1>0, <1>2 DEF SendAt, DeleteScheduledAnnouncement, TypeOK, States
<1>3. ASSUME NEW i \in Ids, NEW o \in Orders, CreateScheduledAnnouncement(i, o) PROVE TypeOK'
  <2>1. o # <<>>
    BY OrdersAreSequences
  <2> QED
    BY <1>0, <1>3, <2>1 DEF CreateScheduledAnnouncement, TypeOK, States
<1>4. ASSUME NEW o \in Orders, NEW each \in BOOLEAN, Announce(o, each) PROVE TypeOK'
  BY <1>0, <1>4, StartIsTyped DEF Announce, TypeOK
<1>5. ASSUME NEW ok \in BOOLEAN, AnnounceSends(ok) PROVE TypeOK'
  <2>1. live \in Dispatch
    BY <1>0, <1>5 DEF AnnounceSends, At, TypeOK
  <2>2. [live EXCEPT !.who = @ + 1] \in Dispatch
    BY <2>1 DEF Dispatch
  <2>3. live' \in Dispatch
    BY <1>5, <2>1, <2>2, StepIsTyped DEF AnnounceSends
  <2> QED
    BY <1>0, <1>5, <2>3 DEF AnnounceSends, TypeOK
<1>6. ASSUME NEW u \in Users, DeleteUser(u) PROVE TypeOK'
  BY <1>0, <1>6 DEF DeleteUser, TypeOK
<1>7. ASSUME NEW u \in Users, NEW rs \in SUBSET RouteSet, SetContactMethods(u, rs)
      PROVE TypeOK'
  BY <1>0, <1>7 DEF SetContactMethods, TypeOK
<1>8. CASE Query
  BY <1>0, <1>8 DEF Query, TypeOK
<1>9. ASSUME NEW i \in Ids, NEW made \in BOOLEAN, Once, Take(i, made) PROVE TypeOK'
  <2>1. i \in due /\ store[i] # "none"
    BY <1>9 DEF Take, Once
  <2>2. names[i] \in Orders
    BY <1>0, <2>1 DEF TypeOK
  <2> QED
    <3>1. CASE daemon' = Start(i, names[i], FALSE) /\ UNCHANGED <<due, edits>>
      <4>1. daemon' \in Dispatch /\ daemon'.id = i
        BY <2>1, <2>2, <3>1, StartIsTyped
      <4> QED
        BY <1>0, <1>9, <2>1, <3>1, <4>1 DEF Take, TypeOK
    <3>2. CASE due' = due \ {i} /\ UNCHANGED daemon
      BY <1>0, <1>9, <3>2 DEF Take, TypeOK
    <3> QED
      BY <1>9, <3>1, <3>2 DEF Take
<1>10. ASSUME NEW ok \in BOOLEAN, DaemonSends(ok) PROVE TypeOK'
  <2>1. daemon \in Dispatch /\ At(daemon) /\ daemon.id \in Ids /\ daemon.id \in due
    BY <1>0, <1>10 DEF DaemonSends, Step, At, TypeOK
  <2>2. daemon' \in Dispatch /\ daemon'.id = daemon.id
    BY <1>10, <2>1, StepIsTyped DEF DaemonSends
  <2>3. sent' \in [Ids -> [Users -> [RouteSet -> 0..MaxSent]]]
    BY <1>10, <2>1, CountIsTyped DEF DaemonSends
  <2>4. tried' \in [Ids -> SUBSET Users]
    BY <1>0, <1>10, <2>1, AtIsTyped DEF DaemonSends, TypeOK
  <2> QED
    BY <1>0, <1>10, <2>1, <2>2, <2>3, <2>4 DEF DaemonSends, TypeOK
<1>11. CASE DaemonEnds
  <2>1. daemon.id \in due /\ daemon.id \in Ids /\ store[daemon.id] # "none"
    BY <1>0, <1>11 DEF DaemonEnds, TypeOK, Once
  <2>2. store' \in [Ids -> States] /\ \A i \in Ids : store'[i] = "none" <=> store[i] = "none"
    BY <1>0, <1>11, <2>1 DEF DaemonEnds, Mark, TypeOK, States
  <2> QED
    BY <1>0, <1>11, <2>1, <2>2 DEF DaemonEnds, TypeOK
<1>12. CASE AnnounceEnds
  BY <1>0, <1>12 DEF AnnounceEnds, TypeOK
<1>13. CASE Restart
  BY <1>0, <1>13 DEF Restart, TypeOK
<1> QED
  BY <1>1, <1>2, <1>3, <1>4, <1>5, <1>6, <1>7, <1>8, <1>9, <1>10, <1>11, <1>12, <1>13
     DEF Next, Job
-----------------------------------------------------------------------------
(* Sent once *)

\* Nothing but the daemon's dispatch counts, and it leaves its other parts as they were.
LEMMA OnceStep == ASSUME TypeOK, Once, [Next]_vars PROVE Once'
<1> USE DEF rest, users, ghosts
<1>0. /\ sent \in [Ids -> [Users -> [RouteSet -> 0..MaxSent]]] /\ store \in [Ids -> States]
      /\ due \subseteq Ids /\ troubled \subseteq Ids
      /\ \A i \in due : store[i] \in {"due", "cancelled"}
      /\ \A i \in Ids \ troubled : SentOnce(i)
      /\ daemon # Idle => daemon \in Dispatch /\ daemon.id \in due
  BY DEF TypeOK, Once
<1>1. ASSUME UNCHANGED <<sent, daemon, troubled>>, due' \subseteq due,
             \A i \in Ids : store[i] \in {"sent", "cancelled"} =>
                               store'[i] \in {"sent", "cancelled"},
             \A i \in due' : store'[i] \in {"due", "cancelled"}
      PROVE  Once'
  <2>1. ASSUME NEW i \in Ids \ troubled PROVE SentOnce(i)'
    BY <1>0, <1>1, <2>1 DEF SentOnce, Sends, Ahead, States
  <2> QED
    BY <1>0, <1>1, <2>1 DEF Once
<1>2. CASE UNCHANGED vars
  BY <1>0, <1>1, <1>2 DEF vars
<1>3. ASSUME NEW i \in Ids, SendAt(i) \/ DeleteScheduledAnnouncement(i) PROVE Once'
  BY <1>0, <1>1, <1>3 DEF SendAt, DeleteScheduledAnnouncement
<1>4. ASSUME NEW i \in Ids, NEW o \in Orders, CreateScheduledAnnouncement(i, o) PROVE Once'
  BY <1>0, <1>1, <1>4 DEF CreateScheduledAnnouncement
<1>5. CASE \/ \E o \in Orders, each \in BOOLEAN : Announce(o, each)
           \/ \E ok \in BOOLEAN : AnnounceSends(ok)
           \/ \E u \in Users : DeleteUser(u) \/ \E rs \in SUBSET RouteSet : SetContactMethods(u, rs)
           \/ AnnounceEnds
  <2>1. UNCHANGED <<sent, daemon, troubled, due, store>>
    BY <1>5 DEF Announce, AnnounceSends, DeleteUser, SetContactMethods, AnnounceEnds
  <2> QED
    BY <1>0, <1>1, <2>1
<1>6. CASE Query
  <2>1. ASSUME NEW i \in Ids \ troubled PROVE SentOnce(i)'
    BY <1>0, <1>6, <2>1 DEF Query, SentOnce, Sends, Ahead
  <2> QED
    BY <1>0, <1>6, <2>1 DEF Query, Once
<1>7. ASSUME NEW i \in Ids, NEW made \in BOOLEAN, Take(i, made) PROVE Once'
  <2>1. CASE due' = due \ {i} /\ UNCHANGED daemon
    BY <1>0, <1>1, <1>7, <2>1 DEF Take
  <2>2. CASE daemon' = Start(i, names[i], FALSE) /\ UNCHANGED <<due, edits>>
    <3>1. daemon'.id = i /\ daemon' # Idle
      BY <2>2 DEF Start, Idle
    <3>2. i \in due /\ daemon = Idle /\ UNCHANGED <<store, sent, troubled>>
      BY <1>7 DEF Take
    <3>3. ASSUME NEW j \in Ids \ troubled PROVE SentOnce(j)'
      <4>1. SentOnce(j) /\ ~Sends(j) /\ (Sends(j)' => j = i) /\ (j = i => j \in due)
        BY <1>0, <3>1, <3>2, <3>3 DEF Sends
      <4> QED
        BY <2>2, <3>2, <4>1 DEF SentOnce
    <3> QED
      BY <1>0, <2>2, <3>2, <3>3 DEF Once
  <2> QED
    BY <1>7, <2>1, <2>2 DEF Take
<1>8. ASSUME NEW ok \in BOOLEAN, DaemonSends(ok) PROVE Once'
  <2> DEFINE d == daemon
  <2>1. d \in Dispatch /\ At(d) /\ d # Idle /\ d.id \in due /\ d.id \in Ids
    BY <1>0, <1>8 DEF DaemonSends, Step, At
  <2>2. UNCHANGED <<store, due, troubled>> /\ daemon' # Idle /\ daemon'.id = d.id
        /\ daemon'.users = d.users
        /\ IF d.at <= Len(Routes) THEN daemon'.who = d.who /\ daemon'.at = d.at + 1
                                  ELSE daemon'.who = d.who + 1 /\ daemon'.at = 1
    BY <1>8, <2>1, StepIsTyped DEF DaemonSends
  <2>3. \A i \in Ids, u \in Users, r \in RouteSet :
           \/ sent'[i][u][r] = sent[i][u][r]
           \/ /\ i = d.id /\ d.at <= Len(Routes) /\ u = User(d) /\ r = Routes[d.at]
              /\ sent'[i][u][r] = sent[i][u][r] + 1
    BY <1>8, <2>1, CountIsTyped DEF DaemonSends
  <2>4. ASSUME NEW u \in Users, NEW r \in RouteSet, Ahead(daemon, u, r)'
        PROVE  /\ Ahead(d, u, r)
               /\ ~(d.at <= Len(Routes) /\ u = User(d) /\ r = Routes[d.at])
    <3>1. /\ d.users \in Orders /\ d.who \in 1..Len(d.users) /\ d.at \in Nat \ {0}
          /\ DOMAIN d.users = 1..Len(d.users) /\ Len(d.users) \in Nat
          /\ \A m, n \in 1..Len(d.users) : m # n => d.users[m] # d.users[n]
      BY <2>1, AtIsTyped, OrdersAreSequences DEF Dispatch
    <3>2. PICK n \in DOMAIN d.users, m \in DOMAIN Routes :
            /\ d.users[n] = u /\ Routes[m] = r
            /\ n > daemon'.who \/ (n = daemon'.who /\ m >= daemon'.at)
      BY <2>2, <2>4 DEF Ahead
    <3>3. n > d.who \/ (n = d.who /\ m > d.at /\ d.at <= Len(Routes))
          \/ (n = d.who + 1)
      BY <2>2, <3>1, <3>2, RoutesAreASequence
    <3>4. Ahead(d, u, r)
      BY <3>1, <3>2, <3>3, RoutesAreASequence DEF Ahead
    <3>5. u = User(d) => n = d.who
      BY <3>1, <3>2 DEF User
    <3>6. d.at <= Len(Routes) /\ r = Routes[d.at] => m = d.at
      BY <3>1, <3>2, RoutesAreASequence
    <3> QED
      BY <3>1, <3>3, <3>4, <3>5, <3>6, RoutesAreASequence
  <2>5. ASSUME NEW u \in Users, NEW r \in RouteSet,
               d.at <= Len(Routes), u = User(d), r = Routes[d.at]
        PROVE  Ahead(d, u, r)
    <3>1. d.who \in DOMAIN d.users /\ d.at \in DOMAIN Routes
      BY <2>1, <2>5, AtIsTyped, OrdersAreSequences, RoutesAreASequence DEF Dispatch
    <3>2. d.who \in Nat /\ d.at \in Nat
      BY <2>1 DEF Dispatch
    <3> QED
      BY <2>5, <3>1, <3>2 DEF Ahead, User
  <2>6. ASSUME NEW i \in Ids \ troubled PROVE SentOnce(i)'
    <3>1. SentOnce(i) /\ (Sends(i) <=> i = d.id) /\ (Sends(i)' <=> i = d.id)
      BY <1>0, <2>1, <2>2, <2>6 DEF Sends
    <3>2. ASSUME NEW u \in Users, NEW r \in RouteSet
          PROVE  /\ sent'[i][u][r] <= 1
                 /\ Sends(i)' /\ Ahead(daemon, u, r)' => sent'[i][u][r] = 0
                 /\ ~Sends(i)' /\ (i \in due' \/ store'[i] \in {"none", "waiting", "due"})
                       => sent'[i][u][r] = 0
      <4>1. CASE sent'[i][u][r] = sent[i][u][r]
        BY <2>2, <2>4, <3>1, <4>1 DEF SentOnce
      <4>2. CASE /\ i = d.id /\ d.at <= Len(Routes) /\ u = User(d) /\ r = Routes[d.at]
                 /\ sent'[i][u][r] = sent[i][u][r] + 1
        <5>1. sent[i][u][r] = 0 /\ ~Ahead(daemon, u, r)'
          BY <2>4, <2>5, <3>1, <4>2 DEF SentOnce
        <5> QED
          BY <2>1, <3>1, <4>2, <5>1
      <4> QED
        BY <2>3, <4>1, <4>2
    <3> QED
      BY <3>2 DEF SentOnce
  <2> QED
    BY <1>0, <2>2, <2>6 DEF Once
<1>9. CASE DaemonEnds
  <2>1. daemon # Idle /\ daemon.id \in due /\ daemon.id \in Ids /\ daemon' = Idle
        /\ due' = due \ {daemon.id} /\ UNCHANGED sent /\ troubled \subseteq troubled'
        /\ (~(daemon.id \in troubled') => store' = Mark(daemon.id))
        /\ \A i \in Ids : i # daemon.id => store'[i] = store[i]
    BY <1>0, <1>9 DEF DaemonEnds, Mark
  <2>2. ASSUME NEW i \in Ids \ troubled' PROVE SentOnce(i)'
    <3>1. SentOnce(i) /\ ~Sends(i)'
      BY <1>0, <2>1, <2>2 DEF Sends
    <3>2. CASE i = daemon.id
      <4>1. store'[i] \in {"sent", "cancelled"} /\ i \notin due'
        BY <1>0, <2>1, <2>2, <3>2 DEF Mark
      <4> QED
        BY <2>1, <3>1, <4>1 DEF SentOnce
    <3>3. CASE i # daemon.id
      BY <2>1, <3>1, <3>3 DEF SentOnce, Sends
    <3> QED
      BY <3>2, <3>3
  <2> QED
    BY <1>0, <2>1, <2>2 DEF Once
<1>10. CASE Restart
  <2>1. ASSUME NEW i \in Ids \ troubled' PROVE SentOnce(i)'
    BY <1>0, <1>10, <2>1 DEF Restart, SentOnce, Sends
  <2> QED
    BY <1>10, <2>1 DEF Restart, Once
<1> QED
  BY <1>2, <1>3, <1>4, <1>5, <1>6, <1>7, <1>8, <1>9, <1>10 DEF Next, Job

-----------------------------------------------------------------------------
(* Success *)

LEMMA ReportedStep == ASSUME TypeOK, Reported, [Next]_vars PROVE Reported'
<1> USE DEF rest, users, ghosts
<1>0. /\ live # Idle => live \in Dispatch /\ (live.failed \/ live.missed = {})
      /\ answer.ok => answer.missed = {}
  BY DEF TypeOK, Reported, SuccessMissesNobody
<1>1. ASSUME UNCHANGED <<live, answer>> PROVE Reported'
  BY <1>0, <1>1 DEF Reported, SuccessMissesNobody
<1>2. ASSUME NEW o \in Orders, NEW each \in BOOLEAN, Announce(o, each) PROVE Reported'
  BY <1>0, <1>2, StartIsTyped DEF Announce, Reported, SuccessMissesNobody
<1>3. ASSUME NEW ok \in BOOLEAN, AnnounceSends(ok) PROVE Reported'
  <2>1. live \in Dispatch /\ (live.failed \/ live.missed = {})
    BY <1>0, <1>3 DEF AnnounceSends, At
  <2>2. ASSUME live' = [live EXCEPT !.who = @ + 1] PROVE live'.failed \/ live'.missed = {}
    BY <2>1, <2>2 DEF Dispatch
  <2>3. live'.failed \/ live'.missed = {}
    BY <1>3, <2>1, <2>2, StepIsTyped DEF AnnounceSends
  <2> QED
    BY <1>0, <1>3, <2>3 DEF AnnounceSends, Reported, SuccessMissesNobody
<1>4. CASE AnnounceEnds
  BY <1>0, <1>4 DEF AnnounceEnds, Reported, SuccessMissesNobody
<1>5. CASE Restart
  BY <1>0, <1>5 DEF Restart, Reported, SuccessMissesNobody
<1> QED
  BY <1>1, <1>2, <1>3, <1>4, <1>5 DEF Next, Job, vars, SendAt, DeleteScheduledAnnouncement,
     CreateScheduledAnnouncement, DeleteUser, SetContactMethods, Query, Take, DaemonSends,
     DaemonEnds

-----------------------------------------------------------------------------
(* Theorems *)

LEMMA Inductive == Spec => []IInv
<1>1. Init => IInv
  <2> USE DEF Init
  <2>1. ASSUME Init PROVE TypeOK
    <3>1. <<>> \notin Orders
      BY OrdersAreSequences
    <3>2. 0 \in 0..MaxSent
      BY AnnouncementsAssumption
    <3> QED
      BY <2>1, <3>1, <3>2 DEF TypeOK, States
  <2>2. ASSUME Init PROVE Once
    BY <2>2 DEF Once, SentOnce, Sends
  <2>3. Init => Reported
    BY DEF Reported, SuccessMissesNobody
  <2> QED
    BY <2>1, <2>2, <2>3 DEF IInv
<1>2. IInv /\ [Next]_vars => IInv'
  BY TypeStep, OnceStep, ReportedStep DEF IInv
<1> QED
  BY <1>1, <1>2, PTL DEF Spec

\* For any users, routes and announcements: a user has a scheduled announcement twice by the
\* same route only if an earlier dispatch had an error or was cut off, and a request that is
\* answered with success missed nobody (scheduled-announce.go:129-160, email.go sendByID).
THEOREM DispatchIsSound == Spec => []SoundDispatch
<1>1. TypeOK /\ Once => AgainOnlyAfterTrouble
  BY DEF TypeOK, Once, SentOnce, AgainOnlyAfterTrouble
<1>2. IInv => SoundDispatch
  BY <1>1 DEF IInv, Reported, SoundDispatch
<1> QED
  BY <1>2, Inductive, PTL

\* The daemon marks a record only while it is there: whatever it was about to send, it brings
\* nothing back that was cancelled (scheduled-announce.go:152-158).
THEOREM CancelledIsFinal == Spec => CancelledStaysGone
<1> DEFINE Stays == \A i \in Ids : store[i] = "cancelled" => store'[i] = "cancelled"
<1>1. ASSUME IInv, [Next]_vars PROVE [Stays]_vars
  <2>1. store \in [Ids -> States] /\ (daemon # Idle => daemon.id \in Ids)
    BY <1>1 DEF IInv, TypeOK
  <2>2. CASE DaemonEnds
    BY <2>1, <2>2 DEF DaemonEnds, Mark
  <2>3. ASSUME NEW i \in Ids, SendAt(i) \/ DeleteScheduledAnnouncement(i)
                              \/ \E o \in Orders : CreateScheduledAnnouncement(i, o)
        PROVE Stays
    BY <2>1, <2>3 DEF SendAt, DeleteScheduledAnnouncement, CreateScheduledAnnouncement
  <2> QED
    BY <1>1, <2>2, <2>3 DEF Next, Job, vars, Announce, AnnounceSends, DeleteUser,
       SetContactMethods, Query, Take, DaemonSends, AnnounceEnds, Restart
<1> QED
  BY <1>1, Inductive, PTL DEF Spec, CancelledStaysGone
=============================================================================
