---------------------------- MODULE ContactLinking ----------------------------
(***************************************************************************)
(* The contact methods of accounts: the rows that tie an account to a      *)
(* Telegram, Discord or Matrix user (a chat), the PINs by which a person   *)
(* proves that a chat is theirs, and everything that writes either: the    *)
(* bots, the signup form, the user page, the admin's accounts tab and the  *)
(* housekeeping daemon.  The PINs and the list of Discord members are in   *)
(* memory and lost at a restart; the rows are stored.  A request that      *)
(* checks, or reads, and later writes is two actions.  Of a row only the   *)
(* chat is kept: the preference and the language, which handlers change in *)
(* a copy of the row, matter to no property, that they write it back does. *)
(***************************************************************************)
EXTENDS Integers, Sequences, FiniteSets

CONSTANTS Accounts,     \* Jellyfin accounts, there at the start or made by a signup
          Existing,     \* those there at the start
          Chats,        \* people, the same on every service
          Pins,         \* bound: the PINs that are ever made
          Bots,         \* the services that are enabled
          Required,     \* those with the setting "required"
          Unique,       \* those with the setting "require_unique"
          MaxEdits,     \* bound: preferences, languages, deletions, admins' changes
          MaxRequests,  \* bound: requests between their check and their write
          MaxRestarts,  \* bound: restarts and crashes
          None

Services == {"telegram", "discord", "matrix"}
Admin == "admin"

ASSUME ContactLinkingAssumption ==
    /\ Existing \subseteq Accounts /\ Bots \subseteq Services
    /\ Required \subseteq Bots /\ Unique \subseteq Bots
    /\ MaxEdits \in Nat /\ MaxRequests \in Nat /\ MaxRestarts \in Nat
    /\ None \notin Accounts \cup Chats \cup Pins /\ Admin \notin Pins \cup {None}
    /\ Chats \cap Pins = {}

\* A DiscordUser with no ID: what a map of Go answers for a member it does not hold.
Nobody == None
\* A row, and for the properties what it was linked with: a PIN, the person who sent it
\* ("by") and the account it was made for ("jf").
Row == [chat : Chats \cup {Nobody}, pin : Pins \cup {Admin},
        by : Chats \cup {None}, jf : Accounts \cup {None}]
NoRow == [chat |-> None, pin |-> None, by |-> None, jf |-> None]
AdminsRow(c) == [chat |-> c, pin |-> Admin, by |-> None, jf |-> None]
\* A PIN: in no map yet, in tokens, in verifiedTokens, or deleted; the account it is
\* assigned to; who it stands for, and who sent it to the bot or was sent it.
PinStates == {"unused", "issued", "verified", "gone"}
Pin == [st : PinStates, bot : Bots \cup {None}, jf : Accounts \cup {None},
        chat : Chats \cup {Nobody}, by : Chats \cup {None}]
Unused == [st |-> "unused", bot |-> None, jf |-> None, chat |-> Nobody, by |-> None]
Gone == [Unused EXCEPT !.st = "gone"]

VARIABLES users,     \* the accounts Jellyfin has
          deleted,   \* those it had: an ID is not used again
          listed,    \* those in the client's list of users
          rows,      \* the tables telegram, discord and matrix, by account
          pins,      \* the bots' maps tokens and verifiedTokens, by PIN
          members,   \* Discord's map users: those it holds
          blanks,    \* those it holds as a user without ID
          forms,     \* signups that passed the checks
          links,     \* links from the user page that passed the checks
          copies,    \* rows read by a request that will write them back
          spent,     \* properties only: PINs and the accounts they linked that were unlinked
          excused,   \* properties only: chats whose check may have been overtaken
          edits, restarts

jellyfin == <<users, deleted, listed>>
memory == <<pins, members, blanks, forms, links, copies>>
history == <<spent, excused>>
vars == <<jellyfin, rows, memory, history, edits, restarts>>

Init ==
    /\ users = Existing /\ deleted = {} /\ listed = Existing
    /\ rows = [b \in Bots |-> [a \in Accounts |-> NoRow]]
    /\ pins = [p \in Pins |-> Unused]
    /\ members = {} /\ blanks = {}
    /\ forms = {} /\ links = {} /\ copies = {}
    /\ spent = {} /\ excused = {}
    /\ edits = 0 /\ restarts = 0

-----------------------------------------------------------------------------
(* What the handlers look up *)

Linked(b, a) == rows[b][a] # NoRow
\* UserExists counts the rows of a chat; a Discord user without ID is a chat like others.
UserExists(b, c) == \E a \in Accounts : Linked(b, a) /\ rows[b][a].chat = c
\* MatrixDaemon reads the settings of the section "telegram".
SettingOf(b, set) == IF b = "matrix" THEN "telegram" \in set ELSE b \in set
\* UserVerified of each bot: Matrix takes any PIN it has sent.
UserVerified(b, p) ==
    /\ pins[p].bot = b
    /\ pins[p].st \in (IF b = "matrix" THEN {"issued", "verified"} ELSE {"verified"})

\* The requests that hold a chat they have yet to write.
Holds(b, c) == \/ \E l \in links : l.bot = b /\ l.row.chat = c
               \/ \E k \in copies : k.bot = b /\ k.row.chat = c
               \/ \E f \in forms : f.used[b] # None /\ f.took[b].chat = c
Excuse(b, c) == excused' = IF Holds(b, c) THEN excused \cup {<<b, c>>} ELSE excused

\* MaxRequests is not reached.
Room == Cardinality(links) + Cardinality(copies) + Cardinality(forms) < MaxRequests

Forget(p) == [pins EXCEPT ![p] = Gone]

\* The row a PIN makes.
Made(p) == [chat |-> pins[p].chat, pin |-> p, by |-> pins[p].by, jf |-> pins[p].jf]

-----------------------------------------------------------------------------
(* PINs are made *)

Fresh == {p \in Pins : pins[p].st = "unused"}
Make(p, b, jf, c, by) ==
    /\ Fresh # {} /\ p = CHOOSE q \in Fresh : TRUE
    /\ pins' = [pins EXCEPT ![p] =
                  [st |-> "issued", bot |-> b, jf |-> jf, chat |-> c, by |-> by]]

\* The user page asks for a PIN of its own.
GetMyPIN(b, a) == /\ b # "matrix" /\ a \in users
                  /\ \E p \in Pins : Make(p, b, a, None, None)
                  /\ UNCHANGED <<jellyfin, rows, members, blanks, forms, links, copies,
                                 history, edits, restarts>>

\* A signup form is shown with a PIN of each bot; an admin asks for one of Telegram's.
NewAuthToken(b) == /\ b # "matrix"
                   /\ \E p \in Pins : Make(p, b, None, None, None)
                   /\ UNCHANGED <<jellyfin, rows, members, blanks, forms, links, copies,
                                  history, edits, restarts>>

\* A room is made for a Matrix user, and a PIN sent there.  The PIN is in the map before
\* the message is sent: if that fails nobody knows it.
SendStart(c, sent) == \E p \in Pins : Make(p, "matrix", None, c, IF sent THEN c ELSE None)

\* From a form or from the user page.
MatrixSendPIN(c, sent) ==
    /\ "matrix" \in Bots /\ SendStart(c, sent)
    /\ "matrix" \in Unique => ~UserExists("matrix", c)
    /\ UNCHANGED <<jellyfin, rows, members, blanks, forms, links, copies, history, edits, restarts>>

-----------------------------------------------------------------------------
(* The bots *)

\* /start, and /inv, which keeps the member just the same: one in the map stays as it is.
CmdStart(c) ==
    /\ "discord" \in Bots
    /\ members' = members \cup ({c} \ blanks)
    /\ UNCHANGED <<jellyfin, rows, pins, blanks, forms, links, copies, history, edits, restarts>>

\* Who a bot takes the sender to be: Discord's looks only among the members it keeps.
Sender(b, c) == IF b = "discord" /\ c \notin members THEN Nobody ELSE c

\* A PIN is sent to the bot, its ten minutes over ("late") or not.
Answer(b, c, p, late) ==
    /\ pins[p].bot = b /\ pins[p].st = "issued"
    /\ pins' = IF late THEN Forget(p)
               ELSE [pins EXCEPT ![p] = [@ EXCEPT !.st = "verified", !.chat = Sender(b, c),
                                                  !.by = c]]
    /\ UNCHANGED <<jellyfin, rows, members, blanks, forms, links, copies, history, edits, restarts>>
CommandPIN(c, p, late) == Answer("telegram", c, p, late)
CmdPIN(c, p, late) == Answer("discord", c, p, late)

\* A row is read, to be written back changed.
ReadRow(b, a, lang) ==
    /\ Room /\ Linked(b, a)
    /\ edits < MaxEdits /\ edits' = edits + 1
    /\ copies' = copies \cup {[bot |-> b, acct |-> a, row |-> rows[b][a], lang |-> lang]}

\* /lang: the first row of the chat.
CommandLang(c) ==
    \E a \in Accounts :
        /\ "telegram" \in Bots /\ ReadRow("telegram", a, TRUE)
        /\ rows["telegram"][a].chat = c
        /\ UNCHANGED <<jellyfin, rows, pins, members, blanks, forms, links, history, restarts>>

\* Discord's map of members gets that row, or a user without ID where there is none.
CmdLang(c) ==
    /\ "discord" \in Bots
    /\ \/ \E a \in Accounts :
            /\ ReadRow("discord", a, TRUE)
            /\ rows["discord"][a].chat = c
            /\ UNCHANGED <<members, blanks>>
       \/ /\ ~UserExists("discord", c)
          /\ members' = members \ {c} /\ blanks' = blanks \cup {c}
          /\ edits < MaxEdits /\ edits' = edits + 1
          /\ UNCHANGED copies
    /\ UNCHANGED <<jellyfin, rows, pins, forms, links, history, restarts>>

-----------------------------------------------------------------------------
(* The user page *)

\* A form polls for its PIN: Discord's is dropped if the user is linked already.
\* Telegram's is not, as Discord's map is asked to delete it.
VerifiedInvite(p) ==
    /\ pins[p].bot = "discord" /\ pins[p].st = "verified"
    /\ "discord" \in Unique /\ UserExists("discord", pins[p].chat)
    /\ pins' = Forget(p)
    /\ UNCHANGED <<jellyfin, rows, members, blanks, forms, links, copies, history, edits, restarts>>

\* Mutant: a verified PIN is taken whoever it is assigned to.
AssignedAny(p, a) == pins[p].st = "verified"

Assigned(p, a) == pins[p].st = "verified" /\ pins[p].jf = a

\* Mutant: require_unique is not looked at.
RefusedNever(b, c) == FALSE

Refused(b, c) == SettingOf(b, Unique) /\ UserExists(b, c)

\* The user page polls for its PIN, which is deleted whatever the answer is.
MyVerifiedInvite(p, a) ==
    LET b == pins[p].bot  c == pins[p].chat
    IN /\ Room /\ a \in users /\ b \in {"telegram", "discord"} /\ pins[p].st = "verified"
       /\ pins' = Forget(p)
       /\ IF Assigned(p, a) /\ ~Refused(b, c)
          THEN /\ links' = links \cup {[bot |-> b, acct |-> a, row |-> Made(p)]}
               /\ Excuse(b, c)
          ELSE UNCHANGED <<links, excused>>
       /\ UNCHANGED <<jellyfin, rows, members, blanks, forms, copies, spent, edits, restarts>>

\* A form asks whether a PIN of Matrix is right, which marks it; the user page links.
MatrixCheckPIN(p, c) ==
    /\ pins[p].bot = "matrix" /\ pins[p].st = "issued" /\ pins[p].chat = c /\ pins[p].by = c
    /\ pins' = [pins EXCEPT ![p].st = "verified"]
    /\ UNCHANGED <<jellyfin, rows, members, blanks, forms, links, copies, history, edits, restarts>>
MatrixCheckMyPIN(p, a) ==
    /\ pins[p].bot = "matrix" /\ pins[p].st \in {"issued", "verified"} /\ a \in users /\ Room
    /\ pins[p].by = pins[p].chat
    /\ links' = links \cup {[bot |-> "matrix", acct |-> a, row |-> Made(p)]}
    /\ UNCHANGED <<jellyfin, rows, pins, members, blanks, forms, copies, history, edits, restarts>>

\* The end of those handlers.
StoreLink(l) ==
    /\ l \in links /\ links' = links \ {l}
    /\ rows' = [rows EXCEPT ![l.bot][l.acct] = l.row]
    /\ pins' = IF l.bot = "matrix" THEN Forget(l.row.pin) ELSE pins
    /\ UNCHANGED <<jellyfin, members, blanks, forms, copies, history, edits, restarts>>

\* A request or the signup of the account has yet to write its row.
InFlight(b, a) == \/ \E r \in links \cup copies : r.bot = b /\ r.acct = a
                  \/ \E f \in forms : f.acct = a /\ f.used[b] # None

\* Unlinking by the user.  The PIN that linked the chat may still be in a map.
UnlinkMy(b, a) ==
    /\ edits < MaxEdits /\ edits' = edits + 1 /\ Linked(b, a)
    /\ rows' = [rows EXCEPT ![b][a] = NoRow]
    /\ spent' = IF InFlight(b, a) THEN spent ELSE spent \cup {<<rows[b][a].pin, a>>}
    /\ UNCHANGED <<jellyfin, memory, excused, restarts>>

\* Preferences, service after service: the row is read, and written back changed.
SetContactMethods(b, a) ==
    /\ ReadRow(b, a, FALSE)
    /\ UNCHANGED <<jellyfin, rows, pins, members, blanks, forms, links, history, restarts>>
WriteBack(k) ==
    /\ k \in copies /\ copies' = copies \ {k}
    /\ rows' = [rows EXCEPT ![k.bot][k.acct] = k.row]
    /\ IF k.lang /\ k.bot = "discord"
       THEN members' = members \cup {k.row.chat} /\ blanks' = blanks \ {k.row.chat}
       ELSE UNCHANGED <<members, blanks>>
    /\ UNCHANGED <<jellyfin, pins, forms, links, history, edits, restarts>>

-----------------------------------------------------------------------------
(* The admin's accounts tab *)

\* The admin's unlinking does what the user's does.
Unlink(b, a) == UnlinkMy(b, a)

\* A verified PIN of Telegram, whoever it is assigned to, is linked to an account.
TelegramAddUser(p, a) ==
    /\ pins[p].bot = "telegram" /\ pins[p].st = "verified" /\ a \in users
    /\ edits < MaxEdits /\ edits' = edits + 1
    /\ pins' = Forget(p)
    /\ rows' = [rows EXCEPT !["telegram"][a] = AdminsRow(pins[p].chat)]
    /\ excused' = excused \cup {<<"telegram", pins[p].chat>>}
    /\ UNCHANGED <<jellyfin, members, blanks, forms, links, copies, spent, restarts>>
\* DiscordConnect and MatrixConnect: any user of the service.
Connect(b, a, c) ==
    /\ b \in Bots \cap {"discord", "matrix"} /\ a \in users
    /\ edits < MaxEdits /\ edits' = edits + 1
    /\ rows' = [rows EXCEPT ![b][a] = AdminsRow(c)]
    /\ excused' = excused \cup {<<b, c>>}
    /\ UNCHANGED <<jellyfin, memory, spent, restarts>>

-----------------------------------------------------------------------------
(* Signups *)

\* Checks of each contact method in turn; the PINs stay verified until the account is
\* made, after a mailed confirmation it may be.
NewUserFromInvite(a, used) ==
    /\ Room /\ a \notin users \cup deleted /\ \A f \in forms : f.acct # a
    /\ \A b \in Bots : IF used[b] = None THEN ~SettingOf(b, Required)
                       ELSE UserVerified(b, used[b]) /\ ~Refused(b, pins[used[b]].chat)
    /\ \A b \in Bots : used[b] # None /\ b = "matrix" => pins[used[b]].by # None
    /\ forms' = forms \cup {[acct |-> a, used |-> used, stage |-> "checked",
                  took |-> [b \in Bots |-> IF used[b] = None THEN NoRow
                                           ELSE Made(used[b])]]}
    /\ excused' = excused \cup {x \in Bots \X (Chats \cup {Nobody}) :
                                  /\ used[x[1]] # None /\ pins[used[x[1]]].chat = x[2]
                                  /\ Holds(x[1], x[2])}
    /\ UNCHANGED <<jellyfin, rows, pins, members, blanks, links, copies, spent, edits, restarts>>

\* The account is made, or Jellyfin refuses.
CreateUser(f) ==
    /\ f \in forms /\ f.stage = "checked"
    /\ \/ /\ f.acct \notin users /\ users' = users \cup {f.acct}
          /\ forms' = (forms \ {f}) \cup {[f EXCEPT !.stage = "created"]}
       \/ forms' = forms \ {f} /\ UNCHANGED users
    /\ UNCHANGED <<deleted, listed, rows, pins, members, blanks, links, copies, history,
                   edits, restarts>>

\* PostNewUserFromInvite: each PIN is deleted and its user stored.
PostNewUserFromInvite(f) ==
    /\ f \in forms /\ f.stage = "created" /\ forms' = forms \ {f}
    /\ pins' = [p \in Pins |-> IF \E b \in Bots : f.used[b] = p
                               THEN Gone ELSE pins[p]]
    /\ rows' = [b \in Bots |->
                  IF f.used[b] = None THEN rows[b]
                  ELSE [rows[b] EXCEPT ![f.acct] = f.took[b]]]
    /\ UNCHANGED <<jellyfin, members, blanks, links, copies, history, edits, restarts>>

-----------------------------------------------------------------------------
(* Accounts, housekeeping, restarts *)

DeleteUser(a) == /\ a \in users /\ users' = users \ {a} /\ deleted' = deleted \cup {a}
                 /\ edits < MaxEdits /\ edits' = edits + 1
                 /\ UNCHANGED <<listed, rows, memory, history, restarts>>

\* The client's list is fetched again: housekeeping has it invalidated.
Sync == listed # users /\ listed' = users
        /\ UNCHANGED <<users, deleted, rows, memory, history, edits, restarts>>

\* UserByID: one who is not in the list is asked of Jellyfin.
\* Mutant: only the list is searched.
NotFoundInList(a) == a \notin listed

NotFound(a) == a \notin listed /\ a \notin users

\* clearTelegram, clearDiscord, clearMatrix: run where require_unique is set.
\* Mutant: Matrix is left out.
ClearRowButMatrix(b, a) ==
    /\ b \in Unique \ {"matrix"} /\ Linked(b, a) /\ NotFound(a)
    /\ rows' = [rows EXCEPT ![b][a] = NoRow]
    /\ UNCHANGED <<jellyfin, memory, history, edits, restarts>>

ClearRow(b, a) ==
    /\ b \in Unique /\ Linked(b, a) /\ NotFound(a)
    /\ rows' = [rows EXCEPT ![b][a] = NoRow]
    /\ UNCHANGED <<jellyfin, memory, history, edits, restarts>>

\* A restart, or a crash, between any two steps: the maps are empty, and Discord's
\* members are those with a row.
Restart ==
    /\ restarts < MaxRestarts /\ restarts' = restarts + 1
    /\ pins' = [p \in Pins |-> IF pins[p].st = "unused" THEN Unused
                               ELSE Gone]
    /\ forms' = {} /\ links' = {} /\ copies' = {}
    /\ blanks' = {}
    /\ members' = {c \in Chats : "discord" \in Bots /\ UserExists("discord", c)}
    /\ UNCHANGED <<jellyfin, rows, history, edits>>

-----------------------------------------------------------------------------
Clearing == Sync \/ \E b \in Bots, a \in Accounts : ClearRow(b, a)
Finishing == \/ \E l \in links : StoreLink(l)
             \/ \E k \in copies : WriteBack(k)
Bot(c) == \/ CmdStart(c) \/ CmdLang(c) \/ CommandLang(c)
          \/ \E p \in Pins, late \in BOOLEAN : CommandPIN(c, p, late) \/ CmdPIN(c, p, late)
Page(a) == \/ \E b \in Bots : GetMyPIN(b, a) \/ UnlinkMy(b, a) \/ SetContactMethods(b, a)
           \/ \E p \in Pins : MyVerifiedInvite(p, a) \/ MatrixCheckMyPIN(p, a)
Form == \/ \E b \in Bots : NewAuthToken(b)
        \/ \E p \in Pins : VerifiedInvite(p) \/ \E c \in Chats : MatrixCheckPIN(p, c)
        \/ \E c \in Chats, sent \in BOOLEAN : MatrixSendPIN(c, sent)
        \/ \E a \in Accounts, used \in [Bots -> Pins \cup {None}] : NewUserFromInvite(a, used)
        \/ \E f \in forms : CreateUser(f) \/ PostNewUserFromInvite(f)
AdminTab(a) == \/ DeleteUser(a)
               \/ \E p \in Pins : TelegramAddUser(p, a)
               \/ \E b \in Bots : Unlink(b, a) \/ \E c \in Chats : Connect(b, a, c)
Next == \/ \E c \in Chats : Bot(c)
        \/ \E a \in Accounts : Page(a) \/ AdminTab(a)
        \/ Form \/ Clearing \/ Finishing \/ Restart

Spec == Init /\ [][Next]_vars
Fairness == /\ WF_vars(Sync) /\ WF_vars(Finishing)
            /\ WF_vars(\E b \in Bots, a \in Accounts : ClearRow(b, a))
FairSpec == Spec /\ Fairness

-----------------------------------------------------------------------------
(* Properties *)

\* Every map, table and request in flight holds what it is declared to hold, and a
\* request in flight holds a row.
TypeOK ==
    /\ users \subseteq Accounts /\ deleted \subseteq Accounts \ users /\ listed \subseteq Accounts
    /\ rows \in [Bots -> [Accounts -> Row \cup {NoRow}]]
    /\ pins \in [Pins -> Pin] /\ members \subseteq Chats
    /\ blanks \subseteq Chats \ members
    /\ links \subseteq [bot : Bots, acct : Accounts, row : Row]
    /\ copies \subseteq [bot : Bots, acct : Accounts, row : Row, lang : BOOLEAN]
    /\ forms \subseteq [acct : Accounts, used : [Bots -> Pins \cup {None}],
                       stage : {"checked", "created"}, took : [Bots -> Row \cup {NoRow}]]
    /\ spent \subseteq (Pins \cup {Admin}) \X Accounts
    /\ excused \subseteq Bots \X (Chats \cup {Nobody})

\* A chat that a PIN linked to an account is that of the person who sent the PIN to the
\* bot, or was sent it; an account that no signup made was linked with a PIN made for
\* it.  A Discord member who never used /start since the start, or used /lang before it,
\* is linked as nobody.
LinksAreProven ==
    \A b \in Bots, a \in Accounts :
        Linked(b, a) /\ rows[b][a].pin \in Pins =>
            /\ rows[b][a].chat \in {rows[b][a].by, Nobody}
            /\ a \in Existing /\ b # "matrix" => rows[b][a].jf = a

\* What is stored and held is of its type, and every link was proven.
SoundLinks == TypeOK /\ LinksAreProven

\* With require_unique no two accounts have the same Telegram or Discord user, those
\* linked by an admin apart, and those whose checks overlapped: a check is made long
\* before the row is stored, and a preference written back late restores a row.
UniqueChats ==
    \A b \in Unique \ {"matrix"}, a1, a2 \in Accounts :
        a1 # a2 /\ Linked(b, a1) /\ Linked(b, a2) /\ rows[b][a1].chat = rows[b][a2].chat
            => <<b, rows[b][a1].chat>> \in excused

\* An unlinked chat is not linked again with the PIN that linked it, unless a request was
\* in flight when it was unlinked: a PIN is used once.
UnlinkedStays ==
    \A b \in Bots, a \in Accounts :
        ~Linked(b, a) /\ Linked(b, a)' =>
            rows'[b][a].pin = Admin \/ <<rows'[b][a].pin, a>> \notin spent

\* The row of an account that exists goes only when it is unlinked: housekeeping never
\* takes one who has just signed up for one who was deleted.
LiveRowsAreKept ==
    \A b \in Bots, a \in Accounts :
        Linked(b, a) /\ ~Linked(b, a)' /\ a \in users => Unlink(b, a)

\* No step links or unlinks a chat that nobody has just asked for, late requests apart.
LinksHaveCause == [][UnlinkedStays /\ LiveRowsAreKept]_vars

\* Where require_unique is set, the row of a deleted account is cleared in the end, by
\* whichever late request it was written, and the chat can be used again.
DeletedAreCleared ==
    []<>(\A b \in Unique, a \in Accounts : Linked(b, a) => a \in users)
=============================================================================
