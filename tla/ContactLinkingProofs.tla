------------------------- MODULE ContactLinkingProofs -------------------------
(***************************************************************************)
(* Theorems of ContactLinking for any accounts, chats, PINs, settings and  *)
(* bounds.  A row is held by the table it is stored in and by each request *)
(* that has yet to store it.  A step hardly ever has a new row held        *)
(* (HeldStep): the properties follow from what the few checks grant.       *)
(***************************************************************************)
EXTENDS ContactLinking, TLAPS

Live == {"issued", "verified"}

\* A request that has yet to write row r of account a on service b.
Requested(b, a, r) ==
    \/ \E l \in links : l.bot = b /\ l.acct = a /\ l.row = r
    \/ \E k \in copies : k.bot = b /\ k.acct = a /\ k.row = r
    \/ \E f \in forms : f.acct = a /\ f.used[b] # None /\ f.took[b] = r
Held(b, a, r) == (Linked(b, a) /\ rows[b][a] = r) \/ Requested(b, a, r)

\* What requests in flight know of the accounts and rows they are about.
RequestsSound ==
    /\ Existing \subseteq users \cup deleted
    /\ \A l \in links : l.row.pin \in Pins
    /\ \A k \in copies : k.lang => k.row.chat \in Chats
    /\ \A f \in forms :
          /\ \A b \in Bots : f.used[b] # None => f.took[b] \in Row /\ f.took[b].pin = f.used[b]
          /\ f.acct \notin Existing
          /\ f.stage = "checked" => f.acct \notin users \cup deleted
          /\ \A g \in forms : f.acct = g.acct => f = g

\* A verified PIN stands for who sent it or, on Discord, for nobody; one of Matrix for
\* who was sent it, if anyone was.
PinSound(q) ==
    /\ q.st \in Live => q.bot \in Bots
    /\ q.st = "verified" /\ q.bot # "matrix" => q.chat \in {q.by, Nobody}
    /\ q.st \in Live /\ q.bot = "matrix" => q.by \in {q.chat, None}
PinsSound == \A p \in Pins : PinSound(pins[p])

\* By the time a row is stored, and a link with Telegram or Discord made, its PIN is in no map.
PinIsGone(r) == r.pin \in Pins => pins[r.pin].st = "gone"
WrittenAreGone ==
    /\ \A b \in Bots, a \in Accounts : PinIsGone(rows[b][a])
    /\ \A k \in copies : PinIsGone(k.row)
    /\ \A l \in links : l.bot # "matrix" => PinIsGone(l.row)
    /\ \A p \in Pins, a \in Accounts : <<p, a>> \in spent => pins[p].st = "gone"

\* What is known of every row that is held: it was proven, its PIN is not another
\* service's, and has not been used up.
Proven(b, a, r) ==
    r.pin \in Pins => /\ r.chat \in {r.by, Nobody}
                      /\ a \in Existing /\ b # "matrix" => r.jf = a
PinOf(b, a, r) ==
    r.pin \in Pins => /\ pins[r.pin].st # "unused"
                      /\ pins[r.pin].st \in Live => pins[r.pin].bot = b
                      /\ <<r.pin, a>> \notin spent
HeldSound ==
    \A b \in Bots, a \in Accounts, r \in Row : Held(b, a, r) => Proven(b, a, r) /\ PinOf(b, a, r)
OneBot ==
    \A b1, b2 \in Bots, a1, a2 \in Accounts, r1, r2 \in Row :
        (Held(b1, a1, r1) /\ Held(b2, a2, r2) /\ r1.pin = r2.pin /\ r1.pin \in Pins) => b1 = b2

\* Where require_unique is looked at, one account holds a chat, or its check was overtaken.
Once ==
    \A b \in Unique \ {"matrix"}, a1, a2 \in Accounts, r1, r2 \in Row :
        Held(b, a1, r1) /\ Held(b, a2, r2) /\ r1.chat = r2.chat =>
            a1 = a2 \/ <<b, r1.chat>> \in excused

Typed == TypeOK /\ RequestsSound /\ PinsSound
IInv == Typed /\ WrittenAreGone /\ HeldSound /\ OneBot /\ Once
-----------------------------------------------------------------------------
(* Rows and PINs *)

LEMMA NoRowIsNoRow == NoRow \notin Row
BY ContactLinkingAssumption DEF NoRow, Row

LEMMA AdminsRowIsRow ==
    ASSUME NEW c \in Chats \cup {Nobody}
    PROVE  AdminsRow(c) \in Row /\ AdminsRow(c).pin = Admin /\ AdminsRow(c).chat = c
BY DEF AdminsRow, Row

LEMMA MadeIsRow ==
    ASSUME pins \in [Pins -> Pin], NEW p \in Pins
    PROVE  /\ Made(p) \in Row /\ Made(p).pin = p /\ Made(p).chat = pins[p].chat
           /\ Made(p).by = pins[p].by /\ Made(p).jf = pins[p].jf
BY DEF Made, Row, Pin

LEMMA RowWritten ==
    ASSUME rows \in [Bots -> [Accounts -> Row \cup {NoRow}]],
           NEW b \in Bots, NEW a \in Accounts, NEW r \in Row \cup {NoRow},
           rows' = [rows EXCEPT ![b][a] = r]
    PROVE  /\ rows' \in [Bots -> [Accounts -> Row \cup {NoRow}]]
           /\ \A b2 \in Bots, a2 \in Accounts :
                 rows'[b2][a2] = IF b2 = b /\ a2 = a THEN r ELSE rows[b2][a2]
OBVIOUS

LEMMA GoneIsPin == Gone \in Pin /\ Gone.st = "gone" /\ Unused \in Pin /\ Unused.st = "unused"
BY DEF Gone, Unused, Pin, PinStates

\* A step moves a PIN on or leaves it: one that is made is not made again, and one that
\* is in no map any more stays so.
Moves(q, q2) ==
    q.st # "unused" => /\ q2.st # "unused"
                       /\ q2.st \in Live => q.st \in Live /\ q2.bot = q.bot
PinsGoOn ==
    /\ pins' \in [Pins -> Pin] /\ PinsSound'
    /\ \A p \in Pins : Moves(pins[p], pins'[p])

LEMMA PinWritten ==
    ASSUME Typed, NEW p \in Pins, NEW q \in Pin, pins' = [pins EXCEPT ![p] = q],
           PinSound(q), Moves(pins[p], q)
    PROVE  PinsGoOn
BY DEF PinsGoOn, Typed, TypeOK, PinsSound, Moves

LEMMA PinForgotten ==
    ASSUME Typed, NEW p \in Pins, pins' = Forget(p)
    PROVE  PinsGoOn
BY PinWritten, GoneIsPin DEF Forget, PinSound, Moves, Live

LEMMA PinMade ==
    ASSUME Typed, NEW p \in Pins, NEW b \in Bots, NEW jf \in Accounts \cup {None},
           NEW c \in Chats \cup {None}, NEW by \in Chats \cup {None},
           b = "matrix" => by \in {c, None}, Make(p, b, jf, c, by)
    PROVE  PinsGoOn
<1> DEFINE q == [st |-> "issued", bot |-> b, jf |-> jf, chat |-> c, by |-> by]
<1>1. q \in Pin /\ PinSound(q)
  BY DEF Pin, PinStates, PinSound, Live, Nobody
<1>2. pins[p].st = "unused"
  BY DEF Make, Fresh
<1> QED
  BY <1>1, <1>2, PinWritten DEF Make, Moves

LEMMA PinsStay == ASSUME Typed, UNCHANGED pins PROVE PinsGoOn
BY DEF PinsGoOn, Typed, TypeOK, PinsSound, Moves

LEMMA PinAnswered ==
    ASSUME Typed, NEW p \in Pins, NEW b \in Bots \ {"matrix"}, NEW c \in Chats,
           NEW late \in BOOLEAN, Answer(b, c, p, late)
    PROVE  PinsGoOn
<1>0. pins[p] \in Pin /\ pins[p].bot = b /\ pins[p].st = "issued"
  BY DEF Typed, TypeOK, Answer
<1>1. CASE late
  BY <1>1, PinForgotten DEF Answer
<1>2. CASE ~late
  <2> DEFINE q == [pins[p] EXCEPT !.st = "verified", !.chat = Sender(b, c), !.by = c]
  <2>1. Sender(b, c) \in {c, Nobody} /\ Sender(b, c) \in Chats \cup {Nobody}
    BY DEF Sender
  <2>2. q \in Pin /\ q.st = "verified" /\ q.bot = b /\ q.chat \in {c, Nobody} /\ q.by = c
    BY <1>0, <2>1 DEF Pin, PinStates
  <2>3. pins' = [pins EXCEPT ![p] = q]
    BY <1>2 DEF Answer
  <2> HIDE DEF q
  <2>4. PinSound(q) /\ Moves(pins[p], q)
    BY <1>0, <2>2 DEF PinSound, Moves, Live
  <2> QED
    BY <2>2, <2>3, <2>4, PinWritten
<1> QED
  BY <1>1, <1>2

LEMMA PinsStep == ASSUME Typed, [Next]_vars PROVE PinsGoOn
<1> USE DEF memory
<1>1. ASSUME NEW c \in Chats, CmdStart(c) PROVE PinsGoOn
  BY <1>1, PinsStay DEF CmdStart
<1>2. ASSUME NEW c \in Chats, CmdLang(c) PROVE PinsGoOn
  BY <1>2, PinsStay DEF CmdLang, ReadRow
<1>3. ASSUME NEW c \in Chats, CommandLang(c) PROVE PinsGoOn
  BY <1>3, PinsStay DEF CommandLang, ReadRow
<1>4. ASSUME NEW c \in Chats, NEW p \in Pins, NEW late \in BOOLEAN,
             CommandPIN(c, p, late)
      PROVE  PinsGoOn
  <2>1. "telegram" \in Bots \ {"matrix"}
    BY <1>4 DEF CommandPIN, Answer, Typed, PinsSound, PinSound, Live
  <2> QED
    BY <1>4, <2>1, PinAnswered DEF CommandPIN
<1>5. ASSUME NEW c \in Chats, NEW p \in Pins, NEW late \in BOOLEAN,
             CmdPIN(c, p, late)
      PROVE  PinsGoOn
  <2>1. "discord" \in Bots \ {"matrix"}
    BY <1>5 DEF CmdPIN, Answer, Typed, PinsSound, PinSound, Live
  <2> QED
    BY <1>5, <2>1, PinAnswered DEF CmdPIN
<1>6. ASSUME NEW b \in Bots, NEW a \in Accounts, GetMyPIN(b, a) PROVE PinsGoOn
  BY <1>6, PinMade DEF GetMyPIN
<1>7. ASSUME NEW b \in Bots, NEW a \in Accounts, UnlinkMy(b, a) PROVE PinsGoOn
  BY <1>7, PinsStay DEF UnlinkMy
<1>8. ASSUME NEW b \in Bots, NEW a \in Accounts, SetContactMethods(b, a) PROVE PinsGoOn
  BY <1>8, PinsStay DEF SetContactMethods, ReadRow
<1>9. ASSUME NEW p \in Pins, NEW a \in Accounts, MyVerifiedInvite(p, a) PROVE PinsGoOn
  BY <1>9, PinForgotten DEF MyVerifiedInvite
<1>10. ASSUME NEW p \in Pins, NEW a \in Accounts, MatrixCheckMyPIN(p, a) PROVE PinsGoOn
  BY <1>10, PinsStay DEF MatrixCheckMyPIN
<1>11. ASSUME NEW a \in Accounts, DeleteUser(a) PROVE PinsGoOn
  BY <1>11, PinsStay DEF DeleteUser
<1>12. ASSUME NEW p \in Pins, NEW a \in Accounts, TelegramAddUser(p, a) PROVE PinsGoOn
  BY <1>12, PinForgotten DEF TelegramAddUser
<1>13. ASSUME NEW b \in Bots, NEW a \in Accounts, NEW c \in Chats,
             Connect(b, a, c)
      PROVE  PinsGoOn
  BY <1>13, PinsStay DEF Connect
<1>14. ASSUME NEW b \in Bots, NewAuthToken(b) PROVE PinsGoOn
  BY <1>14, PinMade DEF NewAuthToken
<1>15. ASSUME NEW p \in Pins, VerifiedInvite(p) PROVE PinsGoOn
  BY <1>15, PinForgotten DEF VerifiedInvite
<1>16. ASSUME NEW p \in Pins, NEW c \in Chats, MatrixCheckPIN(p, c) PROVE PinsGoOn
  <2>0. pins[p] \in Pin
    BY DEF Typed, TypeOK
  <2>1. [pins[p] EXCEPT !.st = "verified"] \in Pin
    BY <2>0 DEF Pin, PinStates
  <2>2. /\ PinSound([pins[p] EXCEPT !.st = "verified"])
        /\ Moves(pins[p], [pins[p] EXCEPT !.st = "verified"])
    BY <1>16, <2>0 DEF MatrixCheckPIN, Typed, PinsSound, PinSound, Moves, Live, Pin
  <2>3. pins' = [pins EXCEPT ![p] = [pins[p] EXCEPT !.st = "verified"]]
    BY <1>16, <2>0 DEF MatrixCheckPIN
  <2> QED
    BY <2>1, <2>2, <2>3, PinWritten
<1>17. ASSUME NEW c \in Chats, NEW sent \in BOOLEAN, MatrixSendPIN(c, sent) PROVE PinsGoOn
  BY <1>17, PinMade DEF MatrixSendPIN, SendStart
<1>18. ASSUME NEW a \in Accounts, NEW used \in [Bots -> Pins \cup {None}],
             NewUserFromInvite(a, used)
      PROVE  PinsGoOn
  BY <1>18, PinsStay DEF NewUserFromInvite
<1>19. ASSUME NEW f \in forms, CreateUser(f) PROVE PinsGoOn
  BY <1>19, PinsStay DEF CreateUser
<1>20. ASSUME NEW f \in forms, PostNewUserFromInvite(f) PROVE PinsGoOn
  BY <1>20, GoneIsPin DEF PostNewUserFromInvite, PinsGoOn, Typed, TypeOK, PinsSound, PinSound,
     Moves, Live
<1>21. ASSUME Sync PROVE PinsGoOn
  BY <1>21, PinsStay DEF Sync
<1>22. ASSUME NEW b \in Bots, NEW a \in Accounts, ClearRow(b, a) PROVE PinsGoOn
  BY <1>22, PinsStay DEF ClearRow
<1>23. ASSUME NEW l \in links, StoreLink(l) PROVE PinsGoOn
  <2>1. l.row.pin \in Pins
    BY <1>23 DEF Typed, RequestsSound
  <2> QED
    BY <1>23, <2>1, PinForgotten, PinsStay DEF StoreLink
<1>24. ASSUME NEW k \in copies, WriteBack(k) PROVE PinsGoOn
  BY <1>24, PinsStay DEF WriteBack
<1>25. ASSUME Restart PROVE PinsGoOn
  BY <1>25, GoneIsPin DEF Restart, PinsGoOn, Typed, TypeOK, PinsSound, PinSound, Moves, Live
<1>26. CASE UNCHANGED vars
  BY <1>26, PinsStay DEF vars
<1> QED
  BY <1>1, <1>2, <1>3, <1>4, <1>5, <1>6, <1>7, <1>8, <1>9, <1>10, <1>11, <1>12, <1>13,
     <1>14, <1>15, <1>16, <1>17, <1>18, <1>19, <1>20, <1>21, <1>22, <1>23, <1>24, <1>25,
     <1>26
     DEF Next, Bot, Page, AdminTab, Form, Clearing, Finishing, Unlink
-----------------------------------------------------------------------------
(* Types *)

LEMMA TypeStep == ASSUME Typed, [Next]_vars PROVE TypeOK'
<1>0. /\ users \subseteq Accounts /\ deleted \subseteq Accounts \ users /\ listed \subseteq Accounts
      /\ rows \in [Bots -> [Accounts -> Row \cup {NoRow}]]
      /\ pins \in [Pins -> Pin] /\ pins' \in [Pins -> Pin]
      /\ RequestsSound
      /\ \A p \in Pins : pins[p].st \in Live => pins[p].bot \in Bots
  BY PinsStep DEF Typed, TypeOK, PinsGoOn, PinsSound, PinSound
<1>a. \A p \in Pins : Made(p) \in Row /\ pins[p].chat \in Chats \cup {Nobody}
  BY <1>0, MadeIsRow DEF Pin
<1>b. \A b \in Bots, a \in Accounts : Linked(b, a) => rows[b][a] \in Row
  BY <1>0 DEF Linked
<1>c. ASSUME NEW b \in Bots, NEW a \in Accounts, NEW lang \in BOOLEAN, ReadRow(b, a, lang)
      PROVE  copies' \subseteq [bot : Bots, acct : Accounts, row : Row, lang : BOOLEAN]
  BY <1>b, <1>c DEF ReadRow, Typed, TypeOK
<1> USE <1>0 DEF jellyfin, memory, history, TypeOK, Typed
<1>1. ASSUME NEW c \in Chats, CmdStart(c) PROVE TypeOK'
  BY <1>1 DEF CmdStart
<1>2. ASSUME NEW c \in Chats, CmdLang(c) PROVE TypeOK'
  <2>1. copies' \subseteq [bot : Bots, acct : Accounts, row : Row, lang : BOOLEAN]
    BY <1>2, <1>c DEF CmdLang
  <2> QED
    BY <1>2, <2>1 DEF CmdLang
<1>3. ASSUME NEW c \in Chats, CommandLang(c) PROVE TypeOK'
  <2>1. copies' \subseteq [bot : Bots, acct : Accounts, row : Row, lang : BOOLEAN]
    BY <1>3, <1>c DEF CommandLang
  <2> QED
    BY <1>3, <2>1 DEF CommandLang
<1>4. ASSUME NEW c \in Chats, NEW p \in Pins, NEW late \in BOOLEAN,
             CommandPIN(c, p, late)
      PROVE  TypeOK'
  BY <1>4 DEF CommandPIN, Answer
<1>5. ASSUME NEW c \in Chats, NEW p \in Pins, NEW late \in BOOLEAN,
             CmdPIN(c, p, late)
      PROVE  TypeOK'
  BY <1>5 DEF CmdPIN, Answer
<1>6. ASSUME NEW b \in Bots, NEW a \in Accounts, GetMyPIN(b, a) PROVE TypeOK'
  BY <1>6 DEF GetMyPIN
<1>7. ASSUME NEW b \in Bots, NEW a \in Accounts, UnlinkMy(b, a) PROVE TypeOK'
  BY <1>7, <1>b, RowWritten DEF UnlinkMy, Row
<1>8. ASSUME NEW b \in Bots, NEW a \in Accounts, SetContactMethods(b, a) PROVE TypeOK'
  <2>1. copies' \subseteq [bot : Bots, acct : Accounts, row : Row, lang : BOOLEAN]
    BY <1>8, <1>c DEF SetContactMethods
  <2> QED
    BY <1>8, <2>1 DEF SetContactMethods
<1>9. ASSUME NEW p \in Pins, NEW a \in Accounts, MyVerifiedInvite(p, a) PROVE TypeOK'
  BY <1>9, <1>a DEF MyVerifiedInvite, Excuse, Live
<1>10. ASSUME NEW p \in Pins, NEW a \in Accounts, MatrixCheckMyPIN(p, a) PROVE TypeOK'
  BY <1>10, <1>a DEF MatrixCheckMyPIN, Live
<1>11. ASSUME NEW a \in Accounts, DeleteUser(a) PROVE TypeOK'
  BY <1>11 DEF DeleteUser
<1>12. ASSUME NEW p \in Pins, NEW a \in Accounts, TelegramAddUser(p, a) PROVE TypeOK'
  BY <1>12, <1>a, AdminsRowIsRow, RowWritten DEF TelegramAddUser, Live
<1>13. ASSUME NEW b \in Bots, NEW a \in Accounts, NEW c \in Chats,
             Connect(b, a, c)
      PROVE  TypeOK'
  BY <1>13, AdminsRowIsRow, RowWritten DEF Connect
<1>14. ASSUME NEW b \in Bots, NewAuthToken(b) PROVE TypeOK'
  BY <1>14 DEF NewAuthToken
<1>15. ASSUME NEW p \in Pins, VerifiedInvite(p) PROVE TypeOK'
  BY <1>15 DEF VerifiedInvite
<1>16. ASSUME NEW p \in Pins, NEW c \in Chats, MatrixCheckPIN(p, c) PROVE TypeOK'
  BY <1>16 DEF MatrixCheckPIN
<1>17. ASSUME NEW c \in Chats, NEW sent \in BOOLEAN, MatrixSendPIN(c, sent) PROVE TypeOK'
  BY <1>17 DEF MatrixSendPIN
<1>18. ASSUME NEW a \in Accounts, NEW used \in [Bots -> Pins \cup {None}],
             NewUserFromInvite(a, used)
      PROVE  TypeOK'
  <2>1. [b \in Bots |-> IF used[b] = None THEN NoRow ELSE Made(used[b])]
            \in [Bots -> Row \cup {NoRow}]
    BY <1>a
  <2> QED
    BY <1>18, <2>1 DEF NewUserFromInvite
<1>19. ASSUME NEW f \in forms, CreateUser(f) PROVE TypeOK'
  BY <1>19, SMTT(30) DEF CreateUser, RequestsSound
<1>20. ASSUME NEW f \in forms, PostNewUserFromInvite(f) PROVE TypeOK'
  BY <1>20 DEF PostNewUserFromInvite, RequestsSound
<1>21. ASSUME Sync PROVE TypeOK'
  BY <1>21 DEF Sync
<1>22. ASSUME NEW b \in Bots, NEW a \in Accounts, ClearRow(b, a) PROVE TypeOK'
  BY <1>22, RowWritten DEF ClearRow
<1>23. ASSUME NEW l \in links, StoreLink(l) PROVE TypeOK'
  BY <1>23, RowWritten DEF StoreLink
<1>24. ASSUME NEW k \in copies, WriteBack(k) PROVE TypeOK'
  <2>1. /\ k.bot \in Bots /\ k.acct \in Accounts /\ k.row \in Row
        /\ k.lang => k.row.chat \in Chats
    BY <1>24 DEF RequestsSound
  <2>2. rows' \in [Bots -> [Accounts -> Row \cup {NoRow}]]
    BY <1>24, <2>1, RowWritten DEF WriteBack
  <2>3. members' \subseteq Chats /\ blanks' \subseteq Chats \ members'
    BY <1>24, <2>1 DEF WriteBack
  <2> QED
    BY <1>24, <2>2, <2>3 DEF WriteBack
<1>25. ASSUME Restart PROVE TypeOK'
  BY <1>25 DEF Restart
<1>26. CASE UNCHANGED vars
  BY <1>26 DEF vars
<1> QED
  BY <1>1, <1>2, <1>3, <1>4, <1>5, <1>6, <1>7, <1>8, <1>9, <1>10, <1>11, <1>12, <1>13,
     <1>14, <1>15, <1>16, <1>17, <1>18, <1>19, <1>20, <1>21, <1>22, <1>23, <1>24, <1>25,
     <1>26
     DEF Next, Bot, Page, AdminTab, Form, Clearing, Finishing, Unlink
LEMMA RequestsStep == ASSUME Typed, [Next]_vars PROVE RequestsSound'
<1>0. /\ RequestsSound /\ deleted \subseteq Accounts \ users /\ pins \in [Pins -> Pin]
      /\ forms \subseteq [acct : Accounts, used : [Bots -> Pins \cup {None}],
                         stage : {"checked", "created"}, took : [Bots -> Row \cup {NoRow}]]
  BY DEF Typed, TypeOK
<1>a. \A p \in Pins : Made(p) \in Row /\ Made(p).pin = p
  BY <1>0, MadeIsRow
<1>b. None \notin Pins
  BY ContactLinkingAssumption
<1> USE <1>0 DEF jellyfin, memory, history, RequestsSound
<1>1. ASSUME NEW c \in Chats, CmdStart(c) PROVE RequestsSound'
  BY <1>1 DEF CmdStart
<1>2. ASSUME NEW c \in Chats, CmdLang(c) PROVE RequestsSound'
  BY <1>2 DEF CmdLang, ReadRow
<1>3. ASSUME NEW c \in Chats, CommandLang(c) PROVE RequestsSound'
  BY <1>3 DEF CommandLang, ReadRow
<1>4. ASSUME NEW c \in Chats, NEW p \in Pins, NEW late \in BOOLEAN,
             CommandPIN(c, p, late)
      PROVE  RequestsSound'
  BY <1>4 DEF CommandPIN, Answer
<1>5. ASSUME NEW c \in Chats, NEW p \in Pins, NEW late \in BOOLEAN,
             CmdPIN(c, p, late)
      PROVE  RequestsSound'
  BY <1>5 DEF CmdPIN, Answer
<1>6. ASSUME NEW b \in Bots, NEW a \in Accounts, GetMyPIN(b, a) PROVE RequestsSound'
  BY <1>6 DEF GetMyPIN, Make
<1>7. ASSUME NEW b \in Bots, NEW a \in Accounts, UnlinkMy(b, a) PROVE RequestsSound'
  BY <1>7 DEF UnlinkMy
<1>8. ASSUME NEW b \in Bots, NEW a \in Accounts, SetContactMethods(b, a) PROVE RequestsSound'
  BY <1>8 DEF SetContactMethods, ReadRow
<1>9. ASSUME NEW p \in Pins, NEW a \in Accounts, MyVerifiedInvite(p, a) PROVE RequestsSound'
  BY <1>9, <1>a DEF MyVerifiedInvite
<1>10. ASSUME NEW p \in Pins, NEW a \in Accounts, MatrixCheckMyPIN(p, a) PROVE RequestsSound'
  BY <1>10, <1>a DEF MatrixCheckMyPIN
<1>11. ASSUME NEW a \in Accounts, DeleteUser(a) PROVE RequestsSound'
  BY <1>11 DEF DeleteUser
<1>12. ASSUME NEW p \in Pins, NEW a \in Accounts, TelegramAddUser(p, a) PROVE RequestsSound'
  BY <1>12 DEF TelegramAddUser
<1>13. ASSUME NEW b \in Bots, NEW a \in Accounts, NEW c \in Chats,
             Connect(b, a, c)
      PROVE  RequestsSound'
  BY <1>13 DEF Connect
<1>14. ASSUME NEW b \in Bots, NewAuthToken(b) PROVE RequestsSound'
  BY <1>14 DEF NewAuthToken, Make
<1>15. ASSUME NEW p \in Pins, VerifiedInvite(p) PROVE RequestsSound'
  BY <1>15 DEF VerifiedInvite
<1>16. ASSUME NEW p \in Pins, NEW c \in Chats, MatrixCheckPIN(p, c) PROVE RequestsSound'
  BY <1>16 DEF MatrixCheckPIN
<1>17. ASSUME NEW c \in Chats, NEW sent \in BOOLEAN, MatrixSendPIN(c, sent) PROVE RequestsSound'
  BY <1>17 DEF MatrixSendPIN, SendStart, Make
<1>18. ASSUME NEW a \in Accounts, NEW used \in [Bots -> Pins \cup {None}],
             NewUserFromInvite(a, used)
      PROVE  RequestsSound'
  <2>1. /\ a \notin users \cup deleted
        /\ \A g \in forms : g.acct # a
        /\ forms' = forms \cup {[acct |-> a, used |-> used, stage |-> "checked",
               took |-> [b \in Bots |-> IF used[b] = None THEN NoRow ELSE Made(used[b])]]}
        /\ UNCHANGED <<users, deleted, links, copies>>
    BY <1>18 DEF NewUserFromInvite
  <2>2. \A b \in Bots : used[b] # None => used[b] \in Pins
    OBVIOUS
  <2> QED
    BY <1>a, <2>1, <2>2
<1>19. ASSUME NEW f \in forms, CreateUser(f) PROVE RequestsSound'
  <2>1. CASE /\ f.acct \notin users /\ users' = users \cup {f.acct}
             /\ forms' = (forms \ {f}) \cup {[f EXCEPT !.stage = "created"]}
             /\ UNCHANGED <<deleted, links, copies>>
    <3> DEFINE g == [f EXCEPT !.stage = "created"]
    <3>1. g.acct = f.acct /\ g.used = f.used /\ g.took = f.took /\ g.stage = "created"
      OBVIOUS
    <3>2. forms' = (forms \ {f}) \cup {g}
      BY <2>1
    <3> HIDE DEF g
    <3> QED
      BY <2>1, <3>1, <3>2
  <2>2. CASE forms' = forms \ {f} /\ UNCHANGED <<users, deleted, links, copies>>
    BY <2>2
  <2> QED
    BY <1>19, <2>1, <2>2 DEF CreateUser
<1>20. ASSUME NEW f \in forms, PostNewUserFromInvite(f) PROVE RequestsSound'
  BY <1>20 DEF PostNewUserFromInvite
<1>21. ASSUME Sync PROVE RequestsSound'
  BY <1>21 DEF Sync
<1>22. ASSUME NEW b \in Bots, NEW a \in Accounts, ClearRow(b, a) PROVE RequestsSound'
  BY <1>22 DEF ClearRow
<1>23. ASSUME NEW l \in links, StoreLink(l) PROVE RequestsSound'
  BY <1>23 DEF StoreLink
<1>24. ASSUME NEW k \in copies, WriteBack(k) PROVE RequestsSound'
  BY <1>24 DEF WriteBack
<1>25. ASSUME Restart PROVE RequestsSound'
  BY <1>25 DEF Restart
<1>26. CASE UNCHANGED vars
  BY <1>26 DEF vars
<1> QED
  BY <1>1, <1>2, <1>3, <1>4, <1>5, <1>6, <1>7, <1>8, <1>9, <1>10, <1>11, <1>12, <1>13,
     <1>14, <1>15, <1>16, <1>17, <1>18, <1>19, <1>20, <1>21, <1>22, <1>23, <1>24, <1>25,
     <1>26
     DEF Next, Bot, Page, AdminTab, Form, Clearing, Finishing, Unlink
-----------------------------------------------------------------------------
(* Rows that are held *)

\* What a check grants before account a may have a new row r: an admin's excuses the chat,
\* any other has a PIN that is still in a map, and no account that has the chat.
Granted(b, a, r) ==
    \/ r.pin = Admin /\ <<b, r.chat>> \in excused'
    \/ /\ r.pin \in Pins /\ pins[r.pin].st \in Live /\ pins[r.pin].bot = b
       /\ Proven(b, a, r)
       /\ b \in Unique \ {"matrix"} /\ <<b, r.chat>> \notin excused' =>
             \A a2 \in Accounts, r2 \in Row : Held(b, a2, r2) => r2.chat # r.chat

\* A step has new rows held for one account at most, each granted.
Grants ==
    \E x : \A b \in Bots, a \in Accounts, r \in Row :
              Held(b, a, r)' => Held(b, a, r) \/ (a = x /\ Granted(b, a, r))
\* A PIN is spent on an account that is unlinked and left with no row.
Spends ==
    \A p \in Pins, a \in Accounts :
        <<p, a>> \in spent' \ spent =>
            \E b \in Bots : /\ Linked(b, a) /\ rows[b][a].pin = p
                           /\ \A r \in Row : ~Held(b, a, r)'
HeldGoesOn == excused \subseteq excused' /\ Spends /\ Grants

Fewer == \A b \in Bots, a \in Accounts, r \in Row : Held(b, a, r)' => Held(b, a, r)

LEMMA NothingNew ==
    ASSUME excused \subseteq excused', UNCHANGED spent, Fewer
    PROVE  HeldGoesOn
BY DEF HeldGoesOn, Spends, Grants, Fewer

LEMMA NoneWithTheChat ==
    ASSUME NEW b \in Bots, NEW c, ~UserExists(b, c), ~Holds(b, c)
    PROVE  \A a \in Accounts, r \in Row : Held(b, a, r) => r.chat # c
BY DEF UserExists, Holds, Held, Requested

LEMMA RowIsRead ==
    ASSUME Typed, NEW b \in Bots, NEW a \in Accounts, NEW lang \in BOOLEAN, ReadRow(b, a, lang),
           UNCHANGED <<rows, links, forms, history>>
    PROVE  HeldGoesOn
BY NothingNew DEF ReadRow, Fewer, Held, Requested, Linked, history

LEMMA HeldStep == ASSUME Typed, [Next]_vars PROVE HeldGoesOn
<1>0. /\ rows \in [Bots -> [Accounts -> Row \cup {NoRow}]] /\ pins \in [Pins -> Pin]
      /\ links \subseteq [bot : Bots, acct : Accounts, row : Row]
      /\ copies \subseteq [bot : Bots, acct : Accounts, row : Row, lang : BOOLEAN]
      /\ forms \subseteq [acct : Accounts, used : [Bots -> Pins \cup {None}],
                         stage : {"checked", "created"}, took : [Bots -> Row \cup {NoRow}]]
      /\ Existing \subseteq users \cup deleted
      /\ \A p \in Pins : PinSound(pins[p])
  BY DEF Typed, TypeOK, RequestsSound, PinsSound
<1>w. ASSUME NEW b \in Bots, NEW a \in Accounts, NEW r0 \in Row, r0.pin = Admin,
             rows' = [rows EXCEPT ![b][a] = r0], excused' = excused \cup {<<b, r0.chat>>},
             UNCHANGED <<links, copies, forms, spent>>
      PROVE  HeldGoesOn
  <2>1. \A b2 \in Bots, a2 \in Accounts :
           rows'[b2][a2] = IF b2 = b /\ a2 = a THEN r0 ELSE rows[b2][a2]
    BY <1>w, <1>0, RowWritten
  <2>2. \A b2 \in Bots, a2 \in Accounts, r \in Row :
           Held(b2, a2, r)' => Held(b2, a2, r) \/ (b2 = b /\ a2 = a /\ r = r0)
    BY <1>w, <2>1 DEF Held, Requested, Linked
  <2> QED
    BY <1>w, <2>2 DEF HeldGoesOn, Spends, Grants, Granted
<1>1. ASSUME NEW c \in Chats, CmdStart(c) PROVE HeldGoesOn
  BY <1>1, NothingNew
     DEF CmdStart, memory, history, Fewer, Held, Requested, Linked
<1>2. ASSUME NEW c \in Chats, CmdLang(c) PROVE HeldGoesOn
  <2>1. UNCHANGED <<rows, links, forms, history>>
    BY <1>2 DEF CmdLang
  <2>2. CASE UNCHANGED copies
    BY <2>1, <2>2, NothingNew DEF history, Fewer, Held, Requested, Linked
  <2>3. CASE \E a \in Accounts : ReadRow("discord", a, TRUE)
    BY <1>2, <2>1, <2>3, RowIsRead DEF CmdLang
  <2> QED
    BY <1>2, <2>2, <2>3 DEF CmdLang
<1>3. ASSUME NEW c \in Chats, CommandLang(c) PROVE HeldGoesOn
  BY <1>3, RowIsRead DEF CommandLang
<1>4. ASSUME NEW c \in Chats, NEW p \in Pins, NEW late \in BOOLEAN,
             CommandPIN(c, p, late)
      PROVE  HeldGoesOn
  BY <1>4, NothingNew
     DEF CommandPIN, Answer, memory, history, Fewer, Held, Requested, Linked
<1>5. ASSUME NEW c \in Chats, NEW p \in Pins, NEW late \in BOOLEAN,
             CmdPIN(c, p, late)
      PROVE  HeldGoesOn
  BY <1>5, NothingNew
     DEF CmdPIN, Answer, memory, history, Fewer, Held, Requested, Linked
<1>6. ASSUME NEW b \in Bots, NEW a \in Accounts, GetMyPIN(b, a) PROVE HeldGoesOn
  BY <1>6, NothingNew
     DEF GetMyPIN, Make, memory, history, Fewer, Held, Requested, Linked
<1>7. ASSUME NEW b \in Bots, NEW a \in Accounts, UnlinkMy(b, a) PROVE HeldGoesOn
  <2>1. /\ \A b2 \in Bots, a2 \in Accounts :
              rows'[b2][a2] = IF b2 = b /\ a2 = a THEN NoRow ELSE rows[b2][a2]
        /\ UNCHANGED <<links, copies, forms, excused>> /\ Linked(b, a)
    BY <1>7, <1>0, RowWritten DEF UnlinkMy, memory
  <2>2. Fewer
    BY <2>1 DEF Fewer, Held, Requested, Linked
  <2>3. ~InFlight(b, a) => \A r \in Row : ~Held(b, a, r)'
    BY <2>1, NoRowIsNoRow DEF InFlight, Held, Requested, Linked
  <2>4. Spends
    BY <1>7, <2>1, <2>3 DEF UnlinkMy, Spends
  <2> QED
    BY <2>1, <2>2, <2>4 DEF HeldGoesOn, Grants, Fewer
<1>8. ASSUME NEW b \in Bots, NEW a \in Accounts, SetContactMethods(b, a) PROVE HeldGoesOn
  BY <1>8, RowIsRead DEF SetContactMethods
<1>9. ASSUME NEW p \in Pins, NEW a \in Accounts, MyVerifiedInvite(p, a) PROVE HeldGoesOn
  <2> DEFINE c == pins[p].chat
             e == pins[p].bot
  <2>1. e \in Bots /\ e # "matrix" /\ c \in {pins[p].by, Nobody} /\ pins[p].st \in Live
    BY <1>9, <1>0 DEF MyVerifiedInvite, PinSound, Live
  <2>2. CASE UNCHANGED <<links, excused>>
    BY <1>9, <2>2, NothingNew DEF MyVerifiedInvite, Fewer, Held, Requested, Linked
  <2>3. CASE /\ Assigned(p, a) /\ ~Refused(e, c) /\ Excuse(e, c)
             /\ links' = links \cup {[bot |-> e, acct |-> a, row |-> Made(p)]}
    <3>1. Proven(e, a, Made(p))
      BY <2>1, <2>3, MadeIsRow, <1>0 DEF Proven, Assigned
    <3>2. e \in Unique /\ <<e, c>> \notin excused' => ~UserExists(e, c) /\ ~Holds(e, c)
      BY <2>1, <2>3 DEF Refused, SettingOf, Excuse
    <3>3. Granted(e, a, Made(p))
      BY <2>1, <3>1, <3>2, NoneWithTheChat, MadeIsRow, <1>0 DEF Granted
    <3>4. \A b \in Bots, d \in Accounts, r \in Row :
             Held(b, d, r)' => Held(b, d, r) \/ (b = e /\ d = a /\ r = Made(p))
      BY <1>9, <2>3 DEF MyVerifiedInvite, Held, Requested, Linked
    <3>5. excused \subseteq excused' /\ UNCHANGED spent
      BY <1>9, <2>3 DEF MyVerifiedInvite, Excuse
    <3> QED
      BY <3>3, <3>4, <3>5 DEF HeldGoesOn, Spends, Grants
  <2> QED
    BY <1>9, <2>2, <2>3 DEF MyVerifiedInvite
<1>10. ASSUME NEW p \in Pins, NEW a \in Accounts, MatrixCheckMyPIN(p, a) PROVE HeldGoesOn
  <2>1. /\ "matrix" \in Bots /\ pins[p].st \in Live /\ pins[p].bot = "matrix"
        /\ pins[p].by = pins[p].chat
    BY <1>10, <1>0 DEF MatrixCheckMyPIN, PinSound, Live
  <2>2. Granted("matrix", a, Made(p))
    BY <2>1, MadeIsRow, <1>0 DEF Granted, Proven
  <2>3. \A b \in Bots, d \in Accounts, r \in Row :
           Held(b, d, r)' => Held(b, d, r) \/ (b = "matrix" /\ d = a /\ r = Made(p))
    BY <1>10 DEF MatrixCheckMyPIN, Held, Requested, Linked
  <2>4. UNCHANGED <<spent, excused>>
    BY <1>10 DEF MatrixCheckMyPIN, history
  <2> QED
    BY <2>2, <2>3, <2>4 DEF HeldGoesOn, Spends, Grants
<1>11. ASSUME NEW a \in Accounts, DeleteUser(a) PROVE HeldGoesOn
  BY <1>11, NothingNew
     DEF DeleteUser, memory, history, Fewer, Held, Requested, Linked
<1>12. ASSUME NEW p \in Pins, NEW a \in Accounts, TelegramAddUser(p, a) PROVE HeldGoesOn
  <2> DEFINE r0 == AdminsRow(pins[p].chat)
  <2>1. /\ "telegram" \in Bots /\ r0 \in Row /\ r0.pin = Admin /\ r0.chat = pins[p].chat
    BY <1>12, <1>0, AdminsRowIsRow DEF TelegramAddUser, PinSound, Live, Pin
  <2>2. rows' = [rows EXCEPT !["telegram"][a] = r0] /\ UNCHANGED <<links, copies, forms, spent>>
    BY <1>12 DEF TelegramAddUser
  <2>3. /\ excused' = excused \cup {<<"telegram", r0.chat>>}
    BY <1>12, <2>1 DEF TelegramAddUser
  <2> HIDE DEF r0
  <2> QED
    BY <2>1, <2>2, <2>3, <1>w
<1>13. ASSUME NEW b \in Bots, NEW a \in Accounts, NEW c \in Chats,
             Connect(b, a, c)
      PROVE  HeldGoesOn
  <2>1. b \in Bots /\ AdminsRow(c) \in Row /\ AdminsRow(c).pin = Admin /\ AdminsRow(c).chat = c
    BY AdminsRowIsRow
  <2>2. /\ rows' = [rows EXCEPT ![b][a] = AdminsRow(c)]
        /\ excused' = excused \cup {<<b, AdminsRow(c).chat>>}
        /\ UNCHANGED <<links, copies, forms, spent>>
    BY <1>13, <2>1 DEF Connect, memory
  <2> QED
    BY <2>1, <2>2, <1>w
<1>14. ASSUME NEW b \in Bots, NewAuthToken(b) PROVE HeldGoesOn
  BY <1>14, NothingNew
     DEF NewAuthToken, Make, memory, history, Fewer, Held, Requested, Linked
<1>15. ASSUME NEW p \in Pins, VerifiedInvite(p) PROVE HeldGoesOn
  BY <1>15, NothingNew
     DEF VerifiedInvite, memory, history, Fewer, Held, Requested, Linked
<1>16. ASSUME NEW p \in Pins, NEW c \in Chats, MatrixCheckPIN(p, c) PROVE HeldGoesOn
  BY <1>16, NothingNew
     DEF MatrixCheckPIN, memory, history, Fewer, Held, Requested, Linked
<1>17. ASSUME NEW c \in Chats, NEW sent \in BOOLEAN, MatrixSendPIN(c, sent) PROVE HeldGoesOn
  BY <1>17, NothingNew
     DEF MatrixSendPIN, SendStart, Make, memory, history, Fewer, Held, Requested, Linked
<1>18. ASSUME NEW a \in Accounts, NEW used \in [Bots -> Pins \cup {None}],
             NewUserFromInvite(a, used)
      PROVE  HeldGoesOn
  <2> DEFINE f == [acct |-> a, used |-> used, stage |-> "checked",
               took |-> [b \in Bots |-> IF used[b] = None THEN NoRow ELSE Made(used[b])]]
  <2>1. /\ forms' = forms \cup {f} /\ UNCHANGED <<rows, links, copies, spent>>
        /\ a \notin Existing /\ excused \subseteq excused'
    BY <1>18, <1>0 DEF NewUserFromInvite
  <2>2. \A b \in Bots, d \in Accounts, r \in Row :
           Held(b, d, r)' => Held(b, d, r) \/ (d = a /\ used[b] # None /\ r = Made(used[b]))
    BY <2>1 DEF Held, Requested, Linked
  <2>3. ASSUME NEW b \in Bots, used[b] # None PROVE Granted(b, a, Made(used[b]))
    <3> DEFINE p == used[b]
    <3>1. p \in Pins /\ UserVerified(b, p) /\ ~Refused(b, pins[p].chat)
          /\ (b = "matrix" => pins[p].by # None)
      BY <1>18, <2>3 DEF NewUserFromInvite
    <3>2. pins[p].st \in Live /\ pins[p].bot = b /\ (b # "matrix" => pins[p].st = "verified")
      BY <3>1 DEF UserVerified, Live
    <3>3. pins[p].chat \in {pins[p].by, Nobody}
      BY <1>0, <3>1, <3>2 DEF PinSound
    <3>4. Proven(b, a, Made(p))
      BY <2>1, <3>1, <3>3, MadeIsRow, <1>0 DEF Proven
    <3>5. <<b, pins[p].chat>> \notin excused' => ~Holds(b, pins[p].chat)
      BY <1>18, <1>0, <2>3, <3>1 DEF NewUserFromInvite, Pin
    <3>6. b \in Unique \ {"matrix"} => ~UserExists(b, pins[p].chat)
      BY <3>1 DEF Refused, SettingOf
    <3> QED
      BY <3>1, <3>2, <3>4, <3>5, <3>6, NoneWithTheChat, MadeIsRow, <1>0 DEF Granted
  <2> QED
    BY <2>1, <2>2, <2>3 DEF HeldGoesOn, Spends, Grants
<1>19. ASSUME NEW f \in forms, CreateUser(f) PROVE HeldGoesOn
  <2>1. UNCHANGED <<rows, links, copies, spent, excused>>
    BY <1>19 DEF CreateUser, history
  <2>2. CASE forms' = forms \ {f}
    BY <2>1, <2>2, NothingNew DEF Fewer, Held, Requested, Linked
  <2>3. CASE forms' = (forms \ {f}) \cup {[f EXCEPT !.stage = "created"]}
    <3> DEFINE g == [f EXCEPT !.stage = "created"]
    <3>1. g.acct = f.acct /\ g.used = f.used /\ g.took = f.took
      BY <1>0
    <3>2. forms' = (forms \ {f}) \cup {g}
      BY <2>3
    <3> HIDE DEF g
    <3> QED
      BY <2>1, <3>1, <3>2, NothingNew DEF Fewer, Held, Requested, Linked
  <2> QED
    BY <1>19, <2>2, <2>3 DEF CreateUser
<1>20. ASSUME NEW f \in forms, PostNewUserFromInvite(f) PROVE HeldGoesOn
  <2>1. /\ \A b \in Bots, d \in Accounts :
              rows'[b][d] = IF d = f.acct /\ f.used[b] # None THEN f.took[b] ELSE rows[b][d]
        /\ forms' \subseteq forms /\ UNCHANGED <<links, copies, spent, excused>>
    BY <1>20, <1>0 DEF PostNewUserFromInvite, history
  <2>2. Fewer
    BY <2>1 DEF Fewer, Held, Requested, Linked
  <2> QED
    BY <2>1, <2>2, NothingNew
<1>21. ASSUME Sync PROVE HeldGoesOn
  BY <1>21, NothingNew
     DEF Sync, memory, history, Fewer, Held, Requested, Linked
<1>22. ASSUME NEW b \in Bots, NEW a \in Accounts, ClearRow(b, a) PROVE HeldGoesOn
  <2>1. /\ \A b2 \in Bots, a2 \in Accounts :
              rows'[b2][a2] = IF b2 = b /\ a2 = a THEN NoRow ELSE rows[b2][a2]
        /\ UNCHANGED <<links, copies, forms>> /\ UNCHANGED <<spent, excused>>
    BY <1>22, <1>0, RowWritten DEF ClearRow, memory, history
  <2>2. Fewer
    BY <2>1, NoRowIsNoRow DEF Fewer, Held, Requested, Linked
  <2> QED
    BY <2>1, <2>2, NothingNew
<1>23. ASSUME NEW l \in links, StoreLink(l) PROVE HeldGoesOn
  <2>1. /\ \A b2 \in Bots, a2 \in Accounts :
              rows'[b2][a2] = IF b2 = l.bot /\ a2 = l.acct THEN l.row ELSE rows[b2][a2]
        /\ links' \subseteq links /\ UNCHANGED <<copies, forms>> /\ UNCHANGED <<spent, excused>>
    BY <1>23, <1>0, RowWritten DEF StoreLink, memory, history
  <2>2. Fewer
    BY <2>1, NoRowIsNoRow DEF Fewer, Held, Requested, Linked
  <2> QED
    BY <2>1, <2>2, NothingNew
<1>24. ASSUME NEW k \in copies, WriteBack(k) PROVE HeldGoesOn
  <2>1. /\ \A b2 \in Bots, a2 \in Accounts :
              rows'[b2][a2] = IF b2 = k.bot /\ a2 = k.acct THEN k.row ELSE rows[b2][a2]
        /\ copies' \subseteq copies /\ UNCHANGED <<links, forms>> /\ UNCHANGED <<spent, excused>>
    BY <1>24, <1>0, RowWritten DEF WriteBack, memory, history
  <2>2. Fewer
    BY <2>1, NoRowIsNoRow DEF Fewer, Held, Requested, Linked
  <2> QED
    BY <2>1, <2>2, NothingNew
<1>25. ASSUME Restart PROVE HeldGoesOn
  BY <1>25, NothingNew
     DEF Restart, memory, history, Fewer, Held, Requested, Linked
<1>26. CASE UNCHANGED vars
  BY <1>26, NothingNew DEF vars, memory, history, Fewer, Held, Requested, Linked
<1> QED
  BY <1>1, <1>2, <1>3, <1>4, <1>5, <1>6, <1>7, <1>8, <1>9, <1>10, <1>11, <1>12, <1>13,
     <1>14, <1>15, <1>16, <1>17, <1>18, <1>19, <1>20, <1>21, <1>22, <1>23, <1>24, <1>25,
     <1>26
     DEF Next, Bot, Page, AdminTab, Form, Clearing, Finishing, Unlink

\* A row whose PIN is in no map after the step.
PinGoes(r) == r.pin \in Pins => pins'[r.pin].st = "gone"

LEMMA GoneStays ==
    ASSUME PinsGoOn, Typed, NEW r, PinIsGone(r)
    PROVE  PinGoes(r)
BY DEF PinIsGone, PinGoes, PinsGoOn, Moves, Live, Typed, TypeOK, Pin, PinStates

\* The rows of the tables and those that were read, each one stored or read before, or made
\* by the step with a PIN that it forgets.
GoneStep ==
    /\ \A b \in Bots, a \in Accounts : rows'[b][a] = rows[b][a] \/ PinGoes(rows'[b][a])
    /\ \A k \in copies' : k \in copies \/ PinGoes(k.row)
    /\ \A l \in links' : l \in links \/ l.bot = "matrix" \/ PinGoes(l.row)
    /\ \A p \in Pins, a \in Accounts : <<p, a>> \in spent' => \/ <<p, a>> \in spent
                                                              \/ pins'[p].st = "gone"

LEMMA GoneTables ==
    ASSUME Typed, [Next]_vars, WrittenAreGone PROVE GoneStep
<1>0. /\ rows \in [Bots -> [Accounts -> Row \cup {NoRow}]] /\ pins \in [Pins -> Pin]
      /\ links \subseteq [bot : Bots, acct : Accounts, row : Row]
      /\ copies \subseteq [bot : Bots, acct : Accounts, row : Row, lang : BOOLEAN]
      /\ forms \subseteq [acct : Accounts, used : [Bots -> Pins \cup {None}],
                         stage : {"checked", "created"}, took : [Bots -> Row \cup {NoRow}]]
      /\ RequestsSound /\ WrittenAreGone /\ PinsGoOn
      /\ \A p \in Pins : PinSound(pins[p])
  BY PinsStep DEF Typed, TypeOK, PinsSound
<1>a. PinGoes(NoRow) /\ \A r : r.pin = Admin => PinGoes(r)
  BY ContactLinkingAssumption DEF PinGoes, NoRow
<1>b. \A b \in Bots, a \in Accounts : PinGoes(rows[b][a])
  BY <1>0, GoneStays DEF WrittenAreGone
<1>1. ASSUME NEW c \in Chats, CmdStart(c) PROVE GoneStep
  BY <1>1 DEF CmdStart, memory, history, GoneStep
<1>2. ASSUME NEW c \in Chats, CmdLang(c) PROVE GoneStep
  BY <1>2, <1>b DEF CmdLang, ReadRow, memory, history, GoneStep
<1>3. ASSUME NEW c \in Chats, CommandLang(c) PROVE GoneStep
  BY <1>3, <1>b DEF CommandLang, ReadRow, memory, history, GoneStep
<1>4. ASSUME NEW c \in Chats, NEW p \in Pins, NEW late \in BOOLEAN,
             CommandPIN(c, p, late)
      PROVE  GoneStep
  BY <1>4 DEF CommandPIN, Answer, memory, history, GoneStep
<1>5. ASSUME NEW c \in Chats, NEW p \in Pins, NEW late \in BOOLEAN,
             CmdPIN(c, p, late)
      PROVE  GoneStep
  BY <1>5 DEF CmdPIN, Answer, memory, history, GoneStep
<1>6. ASSUME NEW b \in Bots, NEW a \in Accounts, GetMyPIN(b, a) PROVE GoneStep
  BY <1>6 DEF GetMyPIN, Make, memory, history, GoneStep
<1>7. ASSUME NEW b \in Bots, NEW a \in Accounts, UnlinkMy(b, a) PROVE GoneStep
  <2>1. \A b2 \in Bots, a2 \in Accounts :
           rows'[b2][a2] = IF b2 = b /\ a2 = a THEN NoRow ELSE rows[b2][a2]
    BY <1>7, <1>0, RowWritten DEF UnlinkMy
  <2>2. UNCHANGED <<pins, links, copies>> /\ spent' \subseteq spent \cup {<<rows[b][a].pin, a>>}
    BY <1>7 DEF UnlinkMy, memory
  <2>3. PinIsGone(rows[b][a])
    BY <1>0 DEF WrittenAreGone
  <2> QED
    BY <2>1, <2>2, <2>3, <1>a DEF GoneStep, PinIsGone, PinGoes
<1>8. ASSUME NEW b \in Bots, NEW a \in Accounts, SetContactMethods(b, a) PROVE GoneStep
  BY <1>8, <1>b DEF SetContactMethods, ReadRow, memory, history, GoneStep
<1>9. ASSUME NEW p \in Pins, NEW a \in Accounts, MyVerifiedInvite(p, a) PROVE GoneStep
  <2>1. pins'[p].st = "gone" /\ Made(p).pin = p
    BY <1>9, <1>0, MadeIsRow, GoneIsPin DEF MyVerifiedInvite, Forget
  <2>2. PinGoes(Made(p))
    BY <2>1 DEF PinGoes
  <2> QED
    BY <1>9, <2>2 DEF MyVerifiedInvite, GoneStep
<1>10. ASSUME NEW p \in Pins, NEW a \in Accounts, MatrixCheckMyPIN(p, a) PROVE GoneStep
  BY <1>10 DEF MatrixCheckMyPIN, memory, history, GoneStep
<1>11. ASSUME NEW a \in Accounts, DeleteUser(a) PROVE GoneStep
  BY <1>11 DEF DeleteUser, memory, history, GoneStep
<1>12. ASSUME NEW p \in Pins, NEW a \in Accounts, TelegramAddUser(p, a) PROVE GoneStep
  <2>1. /\ AdminsRow(pins[p].chat) \in Row /\ AdminsRow(pins[p].chat).pin = Admin
        /\ "telegram" \in Bots
    BY <1>12, <1>0, AdminsRowIsRow DEF Pin, TelegramAddUser, PinSound, Live
  <2>2. \A b2 \in Bots, a2 \in Accounts :
           \/ rows'[b2][a2] = rows[b2][a2]
           \/ rows'[b2][a2] = AdminsRow(pins[p].chat)
    BY <1>12, <1>0, <2>1, RowWritten DEF TelegramAddUser
  <2> QED
    BY <1>12, <2>1, <2>2, <1>a DEF TelegramAddUser, GoneStep
<1>13. ASSUME NEW b \in Bots, NEW a \in Accounts, NEW c \in Chats,
             Connect(b, a, c)
      PROVE  GoneStep
  <2>1. AdminsRow(c) \in Row /\ AdminsRow(c).pin = Admin
    BY AdminsRowIsRow
  <2>2. \A b2 \in Bots, a2 \in Accounts :
           rows'[b2][a2] = rows[b2][a2] \/ rows'[b2][a2] = AdminsRow(c)
    BY <1>13, <1>0, <2>1, RowWritten DEF Connect
  <2> QED
    BY <1>13, <2>1, <2>2, <1>a DEF Connect, memory, GoneStep
<1>14. ASSUME NEW b \in Bots, NewAuthToken(b) PROVE GoneStep
  BY <1>14 DEF NewAuthToken, Make, memory, history, GoneStep
<1>15. ASSUME NEW p \in Pins, VerifiedInvite(p) PROVE GoneStep
  BY <1>15 DEF VerifiedInvite, memory, history, GoneStep
<1>16. ASSUME NEW p \in Pins, NEW c \in Chats, MatrixCheckPIN(p, c) PROVE GoneStep
  BY <1>16 DEF MatrixCheckPIN, memory, history, GoneStep
<1>17. ASSUME NEW c \in Chats, NEW sent \in BOOLEAN, MatrixSendPIN(c, sent) PROVE GoneStep
  BY <1>17 DEF MatrixSendPIN, SendStart, Make, memory, history, GoneStep
<1>18. ASSUME NEW a \in Accounts, NEW used \in [Bots -> Pins \cup {None}],
             NewUserFromInvite(a, used)
      PROVE  GoneStep
  BY <1>18 DEF NewUserFromInvite, memory, history, GoneStep
<1>19. ASSUME NEW f \in forms, CreateUser(f) PROVE GoneStep
  BY <1>19 DEF CreateUser, memory, history, GoneStep
<1>20. ASSUME NEW f \in forms, PostNewUserFromInvite(f) PROVE GoneStep
  <2>1. \A b \in Bots, a \in Accounts :
           \/ rows'[b][a] = rows[b][a]
           \/ f.used[b] # None /\ rows'[b][a] = f.took[b]
    BY <1>20, <1>0 DEF PostNewUserFromInvite
  <2>2. \A b \in Bots : f.used[b] # None => PinGoes(f.took[b])
    BY <1>20, <1>0, GoneIsPin DEF PostNewUserFromInvite, RequestsSound, PinGoes
  <2> QED
    BY <1>20, <2>1, <2>2 DEF PostNewUserFromInvite, history, GoneStep
<1>21. ASSUME Sync PROVE GoneStep
  BY <1>21 DEF Sync, memory, history, GoneStep
<1>22. ASSUME NEW b \in Bots, NEW a \in Accounts, ClearRow(b, a) PROVE GoneStep
  <2>1. \A b2 \in Bots, a2 \in Accounts : rows'[b2][a2] = rows[b2][a2] \/ rows'[b2][a2] = NoRow
    BY <1>22, <1>0, RowWritten DEF ClearRow
  <2> QED
    BY <1>22, <2>1, <1>a DEF ClearRow, memory, history, GoneStep
<1>23. ASSUME NEW l \in links, StoreLink(l) PROVE GoneStep
  <2>1. PinGoes(l.row)
    <3>1. CASE l.bot = "matrix"
      BY <1>23, <1>0, <3>1, GoneIsPin DEF StoreLink, Forget, PinGoes, RequestsSound
    <3>2. CASE l.bot # "matrix"
      BY <1>0, <3>2, GoneStays DEF WrittenAreGone
    <3> QED
      BY <3>1, <3>2
  <2>2. \A b2 \in Bots, a2 \in Accounts : rows'[b2][a2] = rows[b2][a2] \/ rows'[b2][a2] = l.row
    BY <1>23, <1>0, RowWritten DEF StoreLink
  <2> QED
    BY <1>23, <2>1, <2>2 DEF StoreLink, history, GoneStep
<1>24. ASSUME NEW k \in copies, WriteBack(k) PROVE GoneStep
  <2>1. PinGoes(k.row)
    BY <1>0, GoneStays DEF WrittenAreGone
  <2>2. \A b2 \in Bots, a2 \in Accounts : rows'[b2][a2] = rows[b2][a2] \/ rows'[b2][a2] = k.row
    BY <1>24, <1>0, RowWritten DEF WriteBack
  <2> QED
    BY <1>24, <2>1, <2>2 DEF WriteBack, history, GoneStep
<1>25. ASSUME Restart PROVE GoneStep
  BY <1>25 DEF Restart, memory, history, GoneStep
<1>26. CASE UNCHANGED vars
  BY <1>26 DEF vars, memory, history, GoneStep
<1> QED
  BY <1>1, <1>2, <1>3, <1>4, <1>5, <1>6, <1>7, <1>8, <1>9, <1>10, <1>11, <1>12, <1>13,
     <1>14, <1>15, <1>16, <1>17, <1>18, <1>19, <1>20, <1>21, <1>22, <1>23, <1>24, <1>25,
     <1>26
     DEF Next, Bot, Page, AdminTab, Form, Clearing, Finishing, Unlink

LEMMA WrittenStep ==
    ASSUME Typed, [Next]_vars, WrittenAreGone PROVE WrittenAreGone'
<1>1. GoneStep /\ PinsGoOn
  BY GoneTables, PinsStep
<1>2. \A b \in Bots, a \in Accounts : PinGoes(rows'[b][a])
  BY <1>1, GoneStays DEF WrittenAreGone, GoneStep
<1>3. \A k \in copies' : PinGoes(k.row)
  BY <1>1, GoneStays DEF WrittenAreGone, GoneStep
<1>4. \A l \in links' : l.bot # "matrix" => PinGoes(l.row)
  BY <1>1, GoneStays DEF WrittenAreGone, GoneStep
<1>5. \A p \in Pins : pins[p].st = "gone" => pins'[p].st = "gone"
  BY <1>1 DEF PinsGoOn, Moves, Live, Typed, TypeOK, Pin, PinStates
<1> QED
  BY <1>1, <1>2, <1>3, <1>4, <1>5 DEF WrittenAreGone, GoneStep, PinIsGone, PinGoes
-----------------------------------------------------------------------------
(* The invariant *)

LEMMA TypedStep == ASSUME Typed, [Next]_vars PROVE Typed'
BY TypeStep, RequestsStep, PinsStep DEF Typed, PinsGoOn

\* A granted row is as sound as those held before it, and no other service's.
LEMMA GrantedIsSound ==
    ASSUME IInv, [Next]_vars, NEW b \in Bots, NEW a \in Accounts, NEW r \in Row,
           Held(b, a, r)', Granted(b, a, r)
    PROVE  Proven(b, a, r) /\ PinOf(b, a, r)'
<1>1. CASE r.pin = Admin
  BY <1>1, ContactLinkingAssumption DEF Proven, PinOf
<1>2. CASE r.pin \in Pins /\ pins[r.pin].st \in Live /\ pins[r.pin].bot = b /\ Proven(b, a, r)
  <2>1. Moves(pins[r.pin], pins'[r.pin]) /\ Spends
    BY <1>2, PinsStep, HeldStep DEF IInv, PinsGoOn, HeldGoesOn
  <2>2. pins'[r.pin].st # "unused" /\ (pins'[r.pin].st \in Live => pins'[r.pin].bot = b)
    BY <1>2, <2>1 DEF Moves, Live
  <2>3. <<r.pin, a>> \notin spent
    BY <1>2 DEF IInv, WrittenAreGone, Live
  <2>4. <<r.pin, a>> \notin spent'
    BY <1>2, <2>1, <2>3 DEF Spends, IInv, WrittenAreGone, PinIsGone, Live
  <2> QED
    BY <1>2, <2>2, <2>4 DEF PinOf
<1> QED
  BY <1>1, <1>2 DEF Granted

LEMMA HeldStaysSound ==
    ASSUME IInv, [Next]_vars, NEW b \in Bots, NEW a \in Accounts, NEW r \in Row,
           Held(b, a, r)', Held(b, a, r)
    PROVE  Proven(b, a, r) /\ PinOf(b, a, r)'
<1>1. Proven(b, a, r) /\ PinOf(b, a, r) /\ Spends
  BY HeldStep DEF IInv, HeldSound, HeldGoesOn
<1>2. ASSUME r.pin \in Pins PROVE PinOf(b, a, r)'
  <2>1. Moves(pins[r.pin], pins'[r.pin])
    BY <1>2, PinsStep DEF IInv, PinsGoOn
  <2>2. pins'[r.pin].st # "unused" /\ (pins'[r.pin].st \in Live => pins'[r.pin].bot = b)
    BY <1>1, <1>2, <2>1 DEF PinOf, Moves
  <2>3. ASSUME <<r.pin, a>> \in spent' PROVE FALSE
    <3>1. PICK d \in Bots : /\ Linked(d, a) /\ rows[d][a].pin = r.pin
                           /\ \A r2 \in Row : ~Held(d, a, r2)'
      BY <1>1, <1>2, <2>3 DEF PinOf, Spends
    <3>2. rows[d][a] \in Row /\ Held(d, a, rows[d][a])
      BY <3>1 DEF Linked, Held, IInv, Typed, TypeOK
    <3>3. d = b
      BY <1>2, <3>1, <3>2 DEF IInv, OneBot
    <3> QED
      BY <3>1, <3>3
  <2> QED
    BY <2>2, <2>3 DEF PinOf
<1> QED
  BY <1>1, <1>2 DEF PinOf

LEMMA HeldSoundStep == ASSUME IInv, [Next]_vars PROVE HeldSound'
<1> SUFFICES ASSUME NEW b \in Bots, NEW a \in Accounts, NEW r \in Row, Held(b, a, r)'
             PROVE  Proven(b, a, r)' /\ PinOf(b, a, r)'
  BY DEF HeldSound
<1>1. Held(b, a, r) \/ Granted(b, a, r)
  BY HeldStep DEF IInv, HeldGoesOn, Grants
<1>2. Proven(b, a, r) /\ PinOf(b, a, r)'
  BY <1>1, GrantedIsSound, HeldStaysSound
<1> QED
  BY <1>2 DEF Proven

\* A PIN still in a map is one service's; the rows held with it are of that service.
LEMMA OneBotStep == ASSUME IInv, [Next]_vars PROVE OneBot'
<1> SUFFICES ASSUME NEW b1 \in Bots, NEW b2 \in Bots, NEW a1 \in Accounts, NEW a2 \in Accounts,
                    NEW r1 \in Row, NEW r2 \in Row, Held(b1, a1, r1)', Held(b2, a2, r2)',
                    r1.pin = r2.pin, r1.pin \in Pins
             PROVE  b1 = b2
  BY DEF OneBot
<1>1. ASSUME NEW b \in Bots, NEW a \in Accounts, NEW r \in Row, Held(b, a, r)', r.pin \in Pins
      PROVE  /\ Held(b, a, r) \/ (pins[r.pin].st \in Live /\ pins[r.pin].bot = b)
             /\ Held(b, a, r) => (pins[r.pin].st \in Live => pins[r.pin].bot = b)
  BY <1>1, HeldStep, ContactLinkingAssumption
     DEF IInv, HeldGoesOn, Grants, Granted, HeldSound, PinOf
<1> QED
  BY <1>1 DEF IInv, OneBot

LEMMA OnceStep == ASSUME IInv, [Next]_vars PROVE Once'
<1>0. excused \subseteq excused' /\ Grants
  BY HeldStep DEF IInv, HeldGoesOn
<1>1. PICK x : \A b \in Bots, a \in Accounts, r \in Row :
                 Held(b, a, r)' => Held(b, a, r) \/ (a = x /\ Granted(b, a, r))
  BY <1>0 DEF Grants
<1> SUFFICES ASSUME NEW b \in Unique \ {"matrix"}, NEW a1 \in Accounts, NEW a2 \in Accounts,
                    NEW r1 \in Row, NEW r2 \in Row, Held(b, a1, r1)', Held(b, a2, r2)',
                    r1.chat = r2.chat, <<b, r1.chat>> \notin excused'
             PROVE  a1 = a2
  BY DEF Once
<1>2. b \in Bots
  BY ContactLinkingAssumption
<1>3. CASE Held(b, a1, r1) /\ Held(b, a2, r2)
  BY <1>0, <1>3 DEF IInv, Once
<1>4. CASE Held(b, a1, r1) /\ Granted(b, a2, r2)
  BY <1>4 DEF Granted
<1>5. CASE Granted(b, a1, r1) /\ Held(b, a2, r2)
  BY <1>5 DEF Granted
<1>6. CASE a1 = x /\ a2 = x
  BY <1>6
<1> QED
  BY <1>1, <1>2, <1>3, <1>4, <1>5, <1>6

LEMMA InitHolds == Init => IInv
<1> SUFFICES ASSUME Init PROVE IInv
  OBVIOUS
<1> USE DEF Init
<1>1. \A b \in Bots, a \in Accounts : rows[b][a] = NoRow /\ ~Linked(b, a)
  BY DEF Linked
<1>2. \A b \in Bots, a \in Accounts, r \in Row : ~Held(b, a, r)
  BY <1>1 DEF Held, Requested
<1>3. TypeOK
  BY ContactLinkingAssumption, GoneIsPin DEF TypeOK, Row
<1>4. RequestsSound /\ PinsSound
  BY DEF RequestsSound, PinsSound, PinSound, Unused, Live
<1>5. WrittenAreGone
  BY <1>1, ContactLinkingAssumption DEF WrittenAreGone, PinIsGone, NoRow
<1>6. HeldSound /\ OneBot
  BY <1>2 DEF HeldSound, OneBot
<1>7. Once
  BY <1>2, ContactLinkingAssumption DEF Once
<1> QED
  BY <1>3, <1>4, <1>5, <1>6, <1>7 DEF IInv, Typed

LEMMA IInvHolds == Spec => []IInv
<1>1. IInv /\ [Next]_vars => IInv'
  <2> SUFFICES ASSUME IInv, [Next]_vars PROVE IInv'
    OBVIOUS
  <2>1. Typed' /\ WrittenAreGone'
    BY TypedStep, WrittenStep DEF IInv
  <2> QED
    BY <2>1, HeldSoundStep, OneBotStep, OnceStep DEF IInv
<1> QED
  BY <1>1, InitHolds, PTL DEF Spec

LEMMA LinkedIsHeld ==
    ASSUME TypeOK, NEW b \in Bots, NEW a \in Accounts, Linked(b, a)
    PROVE  rows[b][a] \in Row /\ Held(b, a, rows[b][a])
BY DEF TypeOK, Linked, Held

-----------------------------------------------------------------------------
(* The properties *)

\* Whatever the settings and however requests overlap, a chat that a PIN linked is that of
\* the person who proved it, or nobody's, and the account the one the PIN was made for.
THEOREM ProvenLinks == Spec => []SoundLinks
<1>1. IInv => SoundLinks
  BY LinkedIsHeld DEF IInv, Typed, HeldSound, Proven, SoundLinks, LinksAreProven
<1> QED
  BY <1>1, IInvHolds, PTL

\* With require_unique two accounts have one Telegram or Discord user only where an admin
\* or two overlapping checks let it happen.
THEOREM ChatsAreUnique == Spec => []UniqueChats
<1>1. IInv => UniqueChats
  BY LinkedIsHeld, ContactLinkingAssumption DEF IInv, Typed, Once, UniqueChats
<1> QED
  BY <1>1, IInvHolds, PTL

LEMMA UnlinkedStayUnlinked == ASSUME IInv, [Next]_vars, TypeOK' PROVE UnlinkedStays
<1> SUFFICES ASSUME NEW b \in Bots, NEW a \in Accounts, Linked(b, a)',
                    <<rows'[b][a].pin, a>> \in spent
             PROVE  rows'[b][a].pin = Admin
  BY DEF UnlinkedStays
<1>0. \A r \in Row : r = rows'[b][a] => Held(b, a, r)'
  BY DEF Linked, Held
<1>1. PICK r \in Row : r = rows'[b][a] /\ Held(b, a, r)'
  BY <1>0 DEF TypeOK, Linked
<1>2. r.pin \in Pins \cup {Admin}
  BY <1>1 DEF Row
<1>3. Held(b, a, r) \/ Granted(b, a, r)
  BY <1>1, HeldStep DEF IInv, HeldGoesOn, Grants
<1>4. ASSUME r.pin \in Pins PROVE FALSE
  BY <1>1, <1>3, <1>4, ContactLinkingAssumption
     DEF IInv, HeldSound, PinOf, Granted, WrittenAreGone, Live
<1> QED
  BY <1>1, <1>2, <1>4

LEMMA LiveRowsStay == ASSUME Typed, [Next]_vars PROVE LiveRowsAreKept
<1>0. /\ rows \in [Bots -> [Accounts -> Row \cup {NoRow}]] /\ pins \in [Pins -> Pin]
      /\ links \subseteq [bot : Bots, acct : Accounts, row : Row]
      /\ copies \subseteq [bot : Bots, acct : Accounts, row : Row, lang : BOOLEAN]
      /\ forms \subseteq [acct : Accounts, used : [Bots -> Pins \cup {None}],
                         stage : {"checked", "created"}, took : [Bots -> Row \cup {NoRow}]]
      /\ RequestsSound /\ \A p \in Pins : PinSound(pins[p])
  BY DEF Typed, TypeOK, PinsSound
<1> USE DEF LiveRowsAreKept, Linked
<1>1. ASSUME NEW c \in Chats, CmdStart(c) PROVE LiveRowsAreKept
  BY <1>1 DEF CmdStart, memory
<1>2. ASSUME NEW c \in Chats, CmdLang(c) PROVE LiveRowsAreKept
  BY <1>2 DEF CmdLang, ReadRow, memory
<1>3. ASSUME NEW c \in Chats, CommandLang(c) PROVE LiveRowsAreKept
  BY <1>3 DEF CommandLang, ReadRow, memory
<1>4. ASSUME NEW c \in Chats, NEW p \in Pins, NEW late \in BOOLEAN,
             CommandPIN(c, p, late)
      PROVE  LiveRowsAreKept
  BY <1>4 DEF CommandPIN, Answer, memory
<1>5. ASSUME NEW c \in Chats, NEW p \in Pins, NEW late \in BOOLEAN,
             CmdPIN(c, p, late)
      PROVE  LiveRowsAreKept
  BY <1>5 DEF CmdPIN, Answer, memory
<1>6. ASSUME NEW b \in Bots, NEW a \in Accounts, GetMyPIN(b, a) PROVE LiveRowsAreKept
  BY <1>6 DEF GetMyPIN, Make, memory
<1>7. ASSUME NEW b \in Bots, NEW a \in Accounts, UnlinkMy(b, a) PROVE LiveRowsAreKept
  <2>1. \A b2 \in Bots, a2 \in Accounts :
           rows'[b2][a2] = IF b2 = b /\ a2 = a THEN NoRow ELSE rows[b2][a2]
    BY <1>7, <1>0, RowWritten DEF UnlinkMy
  <2> QED
    BY <1>7, <2>1 DEF Unlink
<1>8. ASSUME NEW b \in Bots, NEW a \in Accounts, SetContactMethods(b, a) PROVE LiveRowsAreKept
  BY <1>8 DEF SetContactMethods, ReadRow, memory
<1>9. ASSUME NEW p \in Pins, NEW a \in Accounts, MyVerifiedInvite(p, a) PROVE LiveRowsAreKept
  BY <1>9 DEF MyVerifiedInvite, memory
<1>10. ASSUME NEW p \in Pins, NEW a \in Accounts, MatrixCheckMyPIN(p, a) PROVE LiveRowsAreKept
  BY <1>10 DEF MatrixCheckMyPIN, memory
<1>11. ASSUME NEW a \in Accounts, DeleteUser(a) PROVE LiveRowsAreKept
  BY <1>11 DEF DeleteUser, memory
<1>12. ASSUME NEW p \in Pins, NEW a \in Accounts, TelegramAddUser(p, a) PROVE LiveRowsAreKept
  <2>1. "telegram" \in Bots /\ a \in Accounts /\ AdminsRow(pins[p].chat) \in Row
    BY <1>12, <1>0, AdminsRowIsRow DEF TelegramAddUser, PinSound, Live, Pin
  <2>2. \A b2 \in Bots, a2 \in Accounts :
           rows'[b2][a2] = rows[b2][a2] \/ rows'[b2][a2] = AdminsRow(pins[p].chat)
    BY <1>12, <1>0, <2>1, RowWritten DEF TelegramAddUser
  <2> QED
    BY <2>1, <2>2, NoRowIsNoRow
<1>13. ASSUME NEW b \in Bots, NEW a \in Accounts, NEW c \in Chats,
             Connect(b, a, c)
      PROVE  LiveRowsAreKept
  <2>1. b \in Bots /\ a \in Accounts /\ AdminsRow(c) \in Row
    BY <1>13, <1>0, AdminsRowIsRow DEF Connect
  <2>2. \A b2 \in Bots, a2 \in Accounts :
           rows'[b2][a2] = rows[b2][a2] \/ rows'[b2][a2] = AdminsRow(c)
    BY <1>13, <1>0, <2>1, RowWritten DEF Connect
  <2> QED
    BY <2>1, <2>2, NoRowIsNoRow
<1>14. ASSUME NEW b \in Bots, NewAuthToken(b) PROVE LiveRowsAreKept
  BY <1>14 DEF NewAuthToken, Make, memory
<1>15. ASSUME NEW p \in Pins, VerifiedInvite(p) PROVE LiveRowsAreKept
  BY <1>15 DEF VerifiedInvite, memory
<1>16. ASSUME NEW p \in Pins, NEW c \in Chats, MatrixCheckPIN(p, c) PROVE LiveRowsAreKept
  BY <1>16 DEF MatrixCheckPIN, memory
<1>17. ASSUME NEW c \in Chats, NEW sent \in BOOLEAN,
             MatrixSendPIN(c, sent)
      PROVE  LiveRowsAreKept
  BY <1>17 DEF MatrixSendPIN, SendStart, Make, memory
<1>18. ASSUME NEW a \in Accounts, NEW used \in [Bots -> Pins \cup {None}],
             NewUserFromInvite(a, used)
      PROVE  LiveRowsAreKept
  BY <1>18 DEF NewUserFromInvite, memory
<1>19. ASSUME NEW f \in forms, CreateUser(f) PROVE LiveRowsAreKept
  BY <1>19 DEF CreateUser, memory
<1>20. ASSUME NEW f \in forms, PostNewUserFromInvite(f) PROVE LiveRowsAreKept
  <2>1. \A b \in Bots, a \in Accounts :
           rows'[b][a] = rows[b][a] \/ rows'[b][a] \in Row
    BY <1>20, <1>0 DEF PostNewUserFromInvite, RequestsSound
  <2> QED
    BY <2>1, NoRowIsNoRow
<1>21. ASSUME Sync PROVE LiveRowsAreKept
  BY <1>21 DEF Sync, memory
<1>22. ASSUME NEW b \in Bots, NEW a \in Accounts, ClearRow(b, a) PROVE LiveRowsAreKept
  <2>1. \A b2 \in Bots, a2 \in Accounts :
           rows'[b2][a2] = IF b2 = b /\ a2 = a THEN NoRow ELSE rows[b2][a2]
    BY <1>22, <1>0, RowWritten DEF ClearRow
  <2> QED
    BY <1>22, <2>1 DEF ClearRow, NotFound
<1>23. ASSUME NEW l \in links, StoreLink(l) PROVE LiveRowsAreKept
  <2>1. l.bot \in Bots /\ l.acct \in Accounts /\ l.row \in Row
    BY <1>23, <1>0
  <2>2. \A b2 \in Bots, a2 \in Accounts : rows'[b2][a2] = rows[b2][a2] \/ rows'[b2][a2] = l.row
    BY <1>23, <1>0, <2>1, RowWritten DEF StoreLink
  <2> QED
    BY <2>1, <2>2, NoRowIsNoRow
<1>24. ASSUME NEW k \in copies, WriteBack(k) PROVE LiveRowsAreKept
  <2>1. k.bot \in Bots /\ k.acct \in Accounts /\ k.row \in Row
    BY <1>24, <1>0
  <2>2. \A b2 \in Bots, a2 \in Accounts : rows'[b2][a2] = rows[b2][a2] \/ rows'[b2][a2] = k.row
    BY <1>24, <1>0, <2>1, RowWritten DEF WriteBack
  <2> QED
    BY <2>1, <2>2, NoRowIsNoRow
<1>25. ASSUME Restart PROVE LiveRowsAreKept
  BY <1>25 DEF Restart, memory
<1>26. CASE UNCHANGED vars
  BY <1>26 DEF vars
<1> QED
  BY <1>1, <1>2, <1>3, <1>4, <1>5, <1>6, <1>7, <1>8, <1>9, <1>10, <1>11, <1>12, <1>13,
     <1>14, <1>15, <1>16, <1>17, <1>18, <1>19, <1>20, <1>21, <1>22, <1>23, <1>24, <1>25,
     <1>26
     DEF Next, Bot, Page, AdminTab, Form, Clearing, Finishing, Unlink

\* No step links a chat with a PIN that was used up, or unlinks one of an account that
\* exists, but at the request of its user or an admin.
THEOREM LinksChangeOnRequest == Spec => LinksHaveCause
<1>1. IInv /\ IInv' /\ [Next]_vars => [UnlinkedStays /\ LiveRowsAreKept]_vars
  BY UnlinkedStayUnlinked, LiveRowsStay DEF IInv, Typed
<1> QED
  BY <1>1, IInvHolds, PTL DEF Spec, LinksHaveCause
=============================================================================
