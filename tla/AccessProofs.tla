---------------------------- MODULE AccessProofs ----------------------------
(* Theorems about Access: whose tokens are, and what is used up for good. *)
EXTENDS Access, TLAPS

\* Why a login is its own: where two were at the client both are marked, and one alone finds
\* in it what it has put there.
ClientIsOwn ==
    /\ \A q, r \in AtClient : q # r => req[q].crossed /\ req[r].crossed
    /\ \A r \in AtClient :
          /\ req[r].stage = "send" =>
                /\ client.params \in Credentials
                /\ ~req[r].crossed => client.params = req[r].given /\ ~client.authenticated
          /\ req[r].stage = "judge" =>
                (client.authenticated /\ ~req[r].crossed => req[r].got = req[r].given.user)
          /\ req[r].got \in confirmed \cup {NoUser}

TokensAreOwned ==
    /\ adminUsers \subseteq granted /\ loggedOut \subseteq invalidTokens
    /\ TokensAreConfirmed /\ OwnUnlessCrossed

\* Why a PIN is not found again: it is neither there nor to be made.
SpentAreGone == \A p \in Pins : p \in spent => pins[p] = NoPin /\ p \notin spare

IInv == TypeOK /\ ClientIsOwn /\ TokensAreOwned /\ SpentAreGone /\ BlankOnlyInTransit

-----------------------------------------------------------------------------
(* Types *)

LEMMA Kinds ==
    ASSUME TypeOK, NEW r \in Requests
    PROVE  /\ req[r] # Free /\ req[r].kind \in {"login", "user login", "change"}
                => req[r] \in Login
           /\ req[r] # Free /\ req[r].kind \in {"form", "page"} => req[r] \in Reset
           /\ req[r] \in Login => req[r] # Free
           /\ req[r] \in Reset => req[r] # Free /\ r \notin AtClient
           /\ r \in AtClient => req[r] \in Login
<1>1. req[r] \in Login \/ req[r] \in Reset \/ req[r] = Free
  BY DEF TypeOK
<1>2. req[r] \in Login => req[r].kind \in {"login", "user login", "change"}
  BY DEF Login
<1>3. req[r] \in Reset => req[r].kind \in {"form", "page"}
  BY DEF Reset
<1>4. Free.kind = "free"
  BY DEF Free
<1> QED
  BY <1>1, <1>2, <1>3, <1>4 DEF AtClient

LEMMA LoginsAreNotFree ==
    ASSUME NEW e \in Login
    PROVE  e # Free /\ e.kind \in {"login", "user login", "change"}
<1>1. e.kind \in {"login", "user login", "change"}
  BY DEF Login
<1>2. Free.kind = "free"
  BY DEF Free
<1> QED
  BY <1>1, <1>2

LEMMA TokensAreTyped ==
    ASSUME NEW id \in Users \cup {NoUser} \cup AdminIds, NEW jfid \in Users \cup {NoUser},
           NEW admin \in BOOLEAN
    PROVE  /\ CreateToken(id, jfid, admin) \subseteq Token
           /\ \A t \in CreateToken(id, jfid, admin) : t.id = id /\ t.jfid = jfid
BY DEF CreateToken, Token, BearerLife, RefreshLife

LEMMA OlderIsTyped ==
    ASSUME NEW S \in SUBSET Token
    PROVE  /\ Older(S) \subseteq Token
           /\ \A t \in Older(S) : \E s \in S : s.type = t.type /\ s.id = t.id /\ s.jfid = t.jfid
BY DEF Older, Token, RefreshLife

LEMMA EndIsTyped ==
    ASSUME TypeOK, NEW r \in Requests, End(r)
    PROVE  /\ req' \in [Requests -> Login \cup Reset \cup {Free}] /\ req'[r] = Free
           /\ \A q \in Requests : q # r => req'[q] = req[q]
           /\ AtClient' = AtClient \ {r}
BY DEF TypeOK, End, AtClient

LEMMA StagesAreTyped ==
    ASSUME NEW e \in Login, NEW s \in {"send", "judge", "set"}, NEW u \in Users \cup {NoUser}
    PROVE  /\ [e EXCEPT !.stage = s] \in Login /\ [e EXCEPT !.stage = s, !.got = u] \in Login
           /\ [e EXCEPT !.crossed = TRUE] \in Login
BY DEF Login

LEMMA ResetsAreTyped ==
    ASSUME NEW e \in Reset
    PROVE  /\ [e EXCEPT !.stage = "set"] \in Reset /\ e.of \in Users /\ e.pin \in Pins
           /\ [e EXCEPT !.stage = "set"].kind = e.kind /\ [e EXCEPT !.stage = "set"].pin = e.pin
           /\ [e EXCEPT !.stage = "set"].of = e.of /\ [e EXCEPT !.stage = "set"].stage = "set"
BY DEF Reset

LEMMA FoundIsTyped ==
    ASSUME TypeOK, NEW p \in Pins, pins[p] # NoPin, NEW kind \in {"form", "page"}
    PROVE  /\ p \notin spare /\ pins[p].of \in Users /\ pins[p].internal \in BOOLEAN
           /\ [kind |-> kind, pin |-> p, of |-> pins[p].of, internal |-> pins[p].internal,
               stage |-> IF pins[p].internal THEN "found" ELSE "set"] \in Reset
BY DEF TypeOK, InternalPWR, Reset

\* What a request at work for a PIN may not lose, in the steps that leave PINs alone.
PinsTyped ==
    /\ pins \in [Pins -> InternalPWR \cup {NoPin}]
    /\ \A p \in Pins : p \in spare => pins[p] = NoPin
FormsTyped == \A r \in Requests : req[r] # Free /\ req[r].kind = "form" => req[r].pin \notin spare

LEMMA FewerForms ==
    ASSUME TypeOK, spare' \subseteq spare,
           \A r \in Requests : \/ req'[r] = Free \/ req'[r] \in Login
                               \/ /\ req[r] \in Reset
                                  /\ req'[r].kind = req[r].kind /\ req'[r].pin = req[r].pin
    PROVE  FormsTyped'
<1>1. \A r \in Requests : req'[r] \in Login => req'[r].kind # "form"
  BY DEF Login
<1> QED
  BY <1>1, Kinds DEF FormsTyped, TypeOK

LEMMA TypeStep == ASSUME TypeOK, ClientIsOwn, TokensAreConfirmed, [Next]_vars PROVE TypeOK'
<1> USE DEF sessions, resets, watch, bounds
<1> DEFINE Reqs == Login \cup Reset \cup {Free}
<1>0. TypeOK
  OBVIOUS
<1>1. CASE UNCHANGED vars
  BY <1>0, <1>1 DEF vars, TypeOK
<1>2. ASSUME NEW t \in tokens, getTokenRefresh(t) \/ getUserTokenRefresh(t) PROVE TypeOK'
  <2>1. t.id \in Users \cup {NoUser} \cup AdminIds /\ t.jfid \in Users \cup {NoUser}
    BY <1>0 DEF TypeOK, Token
  <2>2. tokens' \subseteq Token
    BY <1>0, <1>2, <2>1, TokensAreTyped DEF getTokenRefresh, getUserTokenRefresh, UserToken, TypeOK
  <2> QED
    BY <1>0, <1>2, <2>2 DEF getTokenRefresh, getUserTokenRefresh, TypeOK
<1>3. ASSUME NEW t \in tokens, NEW bearer \in tokens, Logout(bearer, t) PROVE TypeOK'
  BY <1>0, <1>3 DEF Logout, Invalidate, TypeOK
<1>4. ASSUME NEW r \in Requests, NEW given \in Credentials,
             NEW kind \in {"login", "user login", "change"}, Authenticate(r, kind, given)
      PROVE  TypeOK'
  <2>1. ASSUME NEW q \in Requests PROVE IF q = r \/ q \in AtClient THEN req'[q] \in Login
                                                                   ELSE req'[q] = req[q]
    <3>1. CASE q = r
      BY <1>4, <3>1 DEF Authenticate, Login
    <3>2. CASE q # r /\ q \in AtClient
      BY <1>4, <3>2, Kinds, StagesAreTyped DEF Authenticate
    <3>3. CASE q # r /\ q \notin AtClient
      BY <1>4, <3>3 DEF Authenticate
    <3> QED
      BY <3>1, <3>2, <3>3
  <2>2. req' \in [Requests -> Reqs]
    <3>1. DOMAIN req' = Requests /\ req' = [q \in Requests |-> req'[q]]
      BY <1>4 DEF Authenticate
    <3>2. \A q \in Requests : req'[q] \in Reqs
      BY <1>0, <2>1 DEF TypeOK
    <3> QED
      BY <3>1, <3>2
  <2>3. FormsTyped'
    BY <1>0, <1>4, <2>1, FewerForms DEF Authenticate, TypeOK
  <2>4. client' \in [authenticated : BOOLEAN, params : Credentials \cup {NoParams}]
    BY <1>4 DEF Authenticate
  <2> QED
    BY <1>0, <1>4, <2>2, <2>3, <2>4 DEF Authenticate, TypeOK, FormsTyped
<1>5. ASSUME NEW r \in Requests, Send(r) PROVE TypeOK'
  <2>1. req[r] \in Login /\ client.params \in Credentials
    BY <1>5, Kinds DEF Send, ClientIsOwn
  <2>2. req'[r] \in Login \cup {Free} /\ req' \in [Requests -> Reqs]
        /\ \A q \in Requests : q # r => req'[q] = req[q]
    <3>1. client.params.user \in Users
      BY <2>1 DEF Credentials
    <3>2. CASE req' = [req EXCEPT ![r].stage = "judge", ![r].got = client.params.user]
      BY <1>0, <2>1, <3>1, <3>2, StagesAreTyped DEF TypeOK
    <3>3. CASE End(r)
      BY <1>0, <3>3, EndIsTyped
    <3>4. CASE req' = [req EXCEPT ![r].stage = "judge"]
      BY <1>0, <2>1, <3>4, StagesAreTyped DEF TypeOK
    <3> QED
      BY <1>5, <3>2, <3>3, <3>4 DEF Send
  <2>3. FormsTyped'
    BY <1>0, <1>5, <2>2, FewerForms DEF Send, TypeOK
  <2>4. client' \in [authenticated : BOOLEAN, params : Credentials \cup {NoParams}]
    BY <1>0, <1>5 DEF Send, TypeOK
  <2> QED
    BY <1>0, <1>5, <2>2, <2>3, <2>4 DEF Send, TypeOK, FormsTyped
<1>6. ASSUME NEW r \in Requests, getTokenLogin(r) \/ getUserTokenLogin(r) PROVE TypeOK'
  <2>1. End(r) /\ req[r].got \in Users \cup {NoUser}
    BY <1>0, <1>6, Kinds DEF getTokenLogin, getUserTokenLogin, Login
  <2>2. CreateToken(nextId, req[r].got, TRUE) \subseteq Token
        /\ CreateToken(req[r].got, req[r].got, FALSE) \subseteq Token
    <3>1. nextId \in Users \cup {NoUser} \cup AdminIds
          /\ req[r].got \in Users \cup {NoUser} \cup AdminIds
      BY <1>0, <2>1 DEF TypeOK
    <3>2. TRUE \in BOOLEAN /\ FALSE \in BOOLEAN
      OBVIOUS
    <3>3. CreateToken(nextId, req[r].got, TRUE) \subseteq Token
      BY <2>1, <3>1, <3>2, TokensAreTyped
    <3>4. CreateToken(req[r].got, req[r].got, FALSE) \subseteq Token
      BY <2>1, <3>1, <3>2, TokensAreTyped
    <3> QED
      BY <3>3, <3>4
  <2>3. nextId + 1 \in AdminIds
    BY <1>0 DEF TypeOK, AdminIds
  <2>4. tokens' \subseteq Token /\ adminUsers' \subseteq AdminIds /\ nextId' \in AdminIds
    BY <1>0, <1>6, <2>2, <2>3 DEF getTokenLogin, getUserTokenLogin, TypeOK
  <2>5. UNCHANGED spare
    BY <1>6 DEF getTokenLogin, getUserTokenLogin
  <2>6. FormsTyped'
    BY <1>0, <2>1, <2>5, EndIsTyped, FewerForms DEF TypeOK
  <2> QED
    BY <1>0, <1>6, <2>1, <2>4, <2>6, EndIsTyped DEF getTokenLogin, getUserTokenLogin, TypeOK,
       FormsTyped
<1>7. CASE LocalLogin
  BY <1>0, <1>7, TokensAreTyped DEF LocalLogin, TypeOK
<1>8. ASSUME NEW r \in Requests, ConfirmOld(r) PROVE TypeOK'
  <2>1. req[r] \in Login
    BY <1>8, Kinds DEF ConfirmOld
  <2>2. req'[r] \in Login /\ req' \in [Requests -> Reqs]
        /\ \A q \in Requests : q # r => req'[q] = req[q]
    BY <1>0, <1>8, <2>1, StagesAreTyped DEF ConfirmOld, TypeOK
  <2>3. FormsTyped'
    BY <1>0, <1>8, <2>2, FewerForms DEF ConfirmOld, TypeOK
  <2> QED
    BY <1>0, <1>8, <2>2, <2>3 DEF ConfirmOld, TypeOK, FormsTyped
<1>9. ASSUME NEW r \in Requests, ChangeMyPassword(r) PROVE TypeOK'
  <2>1. FormsTyped' /\ req' \in [Requests -> Reqs]
    BY <1>0, <1>9, EndIsTyped, FewerForms DEF ChangeMyPassword, TypeOK
  <2>2. passwords' \in [Users -> Passwords]
    BY <1>0, <1>9 DEF ChangeMyPassword, TypeOK, Passwords, Given
  <2> QED
    BY <1>0, <1>9, <2>1, <2>2 DEF ChangeMyPassword, TypeOK, FormsTyped
<1>10. ASSUME NEW r \in Requests, ResetPasswordAdmin(r) PROVE TypeOK'
  <2>1. req[r] \in Reset /\ req[r].pin \in Pins /\ req[r].of \in Users
    BY <1>10, Kinds, ResetsAreTyped DEF ResetPasswordAdmin
  <2>2. /\ req' \in [Requests -> Reqs]
        /\ \A q \in Requests : q # r => req'[q] = req[q]
        /\ req'[r] = Free \/ (req'[r].kind = req[r].kind /\ req'[r].pin = req[r].pin)
    <3>1. CASE req' = [req EXCEPT ![r].stage = "set"]
      BY <1>0, <2>1, <3>1, ResetsAreTyped DEF TypeOK
    <3>2. CASE End(r)
      BY <1>0, <3>2, EndIsTyped
    <3> QED
      BY <1>10, <3>1, <3>2 DEF ResetPasswordAdmin
  <2>3. FormsTyped'
    BY <1>0, <1>10, <2>1, <2>2, FewerForms DEF ResetPasswordAdmin, TypeOK
  <2>4. passwords' \in [Users -> Passwords]
    BY <1>0, <1>10 DEF ResetPasswordAdmin, TypeOK, Passwords
  <2>5. PinsTyped'
    BY <1>0, <1>10, <2>1 DEF ResetPasswordAdmin, TypeOK, PinsTyped, ResetSetPassword, Without
  <2> QED
    BY <1>0, <1>10, <2>2, <2>3, <2>4, <2>5 DEF ResetPasswordAdmin, TypeOK, FormsTyped, PinsTyped
<1>11. ASSUME NEW r \in Requests, SetPassword(r) PROVE TypeOK'
  <2>1. FormsTyped' /\ req' \in [Requests -> Reqs]
    BY <1>0, <1>11, EndIsTyped, FewerForms DEF SetPassword, TypeOK
  <2>2. passwords' \in [Users -> Passwords]
    BY <1>0, <1>11 DEF SetPassword, NewPassword, TypeOK, Passwords, Given
  <2> QED
    BY <1>0, <1>11, <2>1, <2>2 DEF SetPassword, TypeOK, FormsTyped
<1>12. ASSUME NEW u \in Users, NEW p \in Pins,
              SetInternalPWR(u, p) \/ JellyfinPIN(u, p)
       PROVE  TypeOK'
  <2>1. [of |-> u, left |-> PinLife, internal |-> TRUE] \in InternalPWR
        /\ [of |-> u, left |-> PinLife, internal |-> FALSE] \in InternalPWR
    BY DEF InternalPWR, PinLife
  <2> QED
    BY <1>0, <1>12, <2>1 DEF SetInternalPWR, JellyfinPIN, TypeOK
<1>13. ASSUME NEW p \in Pins, ExpiredPIN(p) PROVE TypeOK'
  BY <1>0, <1>13 DEF ExpiredPIN, Without, TypeOK
<1>14. ASSUME NEW p \in Pins, NEW r \in Requests, NEW kind \in {"form", "page"},
              FindPIN(r, kind, p)
       PROVE  TypeOK'
  <2> DEFINE found == [kind |-> kind, pin |-> p, of |-> pins[p].of,
                       internal |-> pins[p].internal,
                       stage |-> IF pins[p].internal THEN "found" ELSE "set"]
  <2>1. found \in Reset /\ p \notin spare /\ found.pin = p /\ pins[p].of \in Users
    BY <1>14, FoundIsTyped DEF FindPIN
  <2>2. req' = [req EXCEPT ![r] = found]
    BY <1>14 DEF FindPIN, Begin
  <2> HIDE DEF found
  <2>3. req' \in [Requests -> Reqs] /\ FormsTyped'
    BY <1>0, <1>14, <2>1, <2>2 DEF TypeOK, FormsTyped, FindPIN
  <2>4. PinsTyped' /\ passwords' \in [Users -> Passwords]
    BY <1>0, <1>14, <2>1 DEF FindPIN, TypeOK, PinsTyped, Without, Passwords
  <2> QED
    BY <1>0, <1>14, <2>3, <2>4 DEF FindPIN, TypeOK, FormsTyped, PinsTyped
<1>15. CASE WriteFile \/ Watch \/ monitorPolling
  BY <1>0, <1>15 DEF WriteFile, Watch, TakeEvent, validatePWR, monitorPolling, TypeOK
<1>16. ASSUME NEW u \in Users, SetAccess(u) PROVE TypeOK'
  BY <1>0, <1>16 DEF SetAccess, TypeOK
<1>17. CASE Tick
  <2>1. tokens' \subseteq Token /\ invalidTokens' \subseteq Token /\ loggedOut' \subseteq Token
    BY <1>0, <1>17, OlderIsTyped DEF Tick, TypeOK
  <2>2. ASSUME NEW p \in Pins PROVE IF pins[p] = NoPin THEN pins'[p] = NoPin
                                                       ELSE pins'[p] \in InternalPWR
    BY <1>0, <1>17 DEF Tick, TypeOK, InternalPWR, PinLife
  <2>3. PinsTyped'
    BY <1>0, <1>17, <2>2 DEF Tick, TypeOK, PinsTyped
  <2> QED
    BY <1>0, <1>17, <2>1, <2>3 DEF Tick, TypeOK, PinsTyped
<1>18. CASE Restart
  <2>1. adminUsers' \subseteq AdminIds /\ nextId' \in AdminIds
    BY <1>0, <1>18 DEF Restart, ConfiguredAdmin, TypeOK, AdminIds
  <2>2. client' \in [authenticated : BOOLEAN, params : Credentials \cup {NoParams}]
    BY <1>18 DEF Restart, NewServer
  <2>3. PinsTyped'
    BY <1>0, <1>18 DEF Restart, TypeOK, PinsTyped
  <2> QED
    BY <1>0, <1>18, <2>1, <2>2, <2>3 DEF Restart, TypeOK, PinsTyped
<1> QED
  BY <1>1, <1>2, <1>3, <1>4, <1>5, <1>6, <1>7, <1>8, <1>9, <1>10, <1>11, <1>12, <1>13,
     <1>14, <1>15, <1>16, <1>17, <1>18 DEF Next, Sessions, Resets, ResetMyPassword,
     AdminPasswordReset
-----------------------------------------------------------------------------
(* The client *)

\* A step that leaves the client alone, and those who use it as they are or away from it.
LEMMA FewerAtClient ==
    ASSUME ClientIsOwn, UNCHANGED client, confirmed \subseteq confirmed',
           AtClient' \subseteq AtClient, \A r \in AtClient' : req'[r] = req[r]
    PROVE  ClientIsOwn'
BY DEF ClientIsOwn

LEMMA ClientStep == ASSUME TypeOK, ClientIsOwn, [Next]_vars PROVE ClientIsOwn'
<1> USE DEF sessions, resets, watch, bounds
<1>0. TypeOK /\ ClientIsOwn
  OBVIOUS
<1>1. ASSUME UNCHANGED <<client, req, confirmed>> PROVE ClientIsOwn'
  <2>1. AtClient' = AtClient
    BY <1>1 DEF AtClient
  <2> QED
    BY <1>0, <1>1, <2>1, FewerAtClient
<1>2. ASSUME NEW r \in Requests, UNCHANGED <<client, confirmed>>,
             \A q \in Requests : q # r => req'[q] = req[q],
             r \in AtClient' => req'[r] = req[r]
      PROVE  ClientIsOwn'
  <2>1. AtClient' \subseteq AtClient /\ \A q \in AtClient' : req'[q] = req[q]
    BY <1>2 DEF AtClient
  <2> QED
    BY <1>0, <1>2, <2>1, FewerAtClient
<1>3. ASSUME NEW r \in Requests, UNCHANGED <<client, confirmed>>, End(r) PROVE ClientIsOwn'
  BY <1>0, <1>2, <1>3, EndIsTyped
<1>4. ASSUME NEW r \in Requests, NEW given \in Credentials,
             NEW kind \in {"login", "user login", "change"}, Authenticate(r, kind, given)
      PROVE  ClientIsOwn'
  <2>1. ASSUME NEW q \in Requests
        PROVE  /\ q = r => /\ req'[q].stage = "send" /\ req'[q].given = given
                           /\ req'[q].got = NoUser /\ req'[q].crossed = (AtClient # {})
               /\ q # r /\ q \in AtClient =>
                    /\ req'[q].crossed /\ req'[q].stage = req[q].stage
                    /\ req'[q].got = req[q].got
               /\ q # r /\ q \notin AtClient => req'[q] = req[q]
    <3>1. q \in AtClient => req[q] \in Login
      BY Kinds
    <3> QED
      BY <1>4, <3>1 DEF Authenticate, Login
  <2>2. AtClient' = AtClient \cup {r} /\ r \notin AtClient
    <3>1. r \notin AtClient
      BY <1>4 DEF Authenticate, AtClient
    <3>2. ASSUME NEW q \in Requests, q # r PROVE q \in AtClient' <=> q \in AtClient
      <4>1. CASE q \in AtClient
        <5>1. req[q] \in Login
          BY <4>1, Kinds
        <5>2. req'[q] \in Login /\ req'[q].stage \in {"send", "judge"}
          BY <1>4, <3>2, <4>1, <5>1, StagesAreTyped, <2>1 DEF Authenticate, AtClient
        <5>3. req'[q] # Free /\ req'[q].kind \in {"login", "user login", "change"}
          BY <5>2, LoginsAreNotFree
        <5> QED
          BY <4>1, <5>2, <5>3 DEF AtClient
      <4>2. CASE q \notin AtClient
        BY <2>1, <3>2, <4>2 DEF AtClient
      <4> QED
        BY <4>1, <4>2
    <3>3. r \in AtClient'
      BY <1>4 DEF Authenticate, AtClient, Free
    <3> QED
      BY <3>1, <3>2, <3>3 DEF AtClient
  <2>3. client' = [authenticated |-> FALSE, params |-> given] /\ UNCHANGED confirmed
    BY <1>4 DEF Authenticate
  <2>4. \A p, q \in AtClient' : p # q => req'[p].crossed /\ req'[q].crossed
    BY <2>1, <2>2 DEF AtClient
  <2>5. ASSUME NEW q \in AtClient'
        PROVE  /\ req'[q].stage = "send" =>
                     /\ client'.params \in Credentials
                     /\ ~req'[q].crossed => /\ client'.params = req'[q].given
                                            /\ ~client'.authenticated
               /\ req'[q].stage = "judge" =>
                     (client'.authenticated /\ ~req'[q].crossed => req'[q].got = req'[q].given.user)
               /\ req'[q].got \in confirmed' \cup {NoUser}
    <3>1. q \in Requests
      BY <2>2 DEF AtClient
    <3>2. q # r => req[q].got \in confirmed \cup {NoUser}
      BY <1>0, <2>2 DEF ClientIsOwn
    <3> QED
      BY <2>1, <2>2, <2>3, <3>1, <3>2
  <2> QED
    BY <2>4, <2>5 DEF ClientIsOwn
<1>5. ASSUME NEW r \in Requests, Send(r) PROVE ClientIsOwn'
  <2> DEFINE asked == client.params
  <2>1. r \in AtClient /\ req[r] \in Login /\ asked \in Credentials /\ asked.user \in Users
        /\ (~req[r].crossed => asked = req[r].given /\ ~client.authenticated)
    BY <1>0, <1>5, Kinds DEF Send, ClientIsOwn, Credentials
  <2>2. CASE End(r) /\ UNCHANGED <<client, confirmed>>
    BY <1>3, <2>2
  <2>3. ASSUME NEW got \in {asked.user, req[r].got}, NEW auth \in {TRUE, client.authenticated},
               \A q \in Requests : q # r => req'[q] = req[q],
               req'[r] = [req[r] EXCEPT !.stage = "judge", !.got = got],
               client' = [client EXCEPT !.authenticated = auth],
               confirmed' = confirmed \cup {asked.user} \/ UNCHANGED confirmed,
               got = asked.user => asked.user \in confirmed' \/ got = req[r].got,
               ~req[r].crossed => (auth => got = asked.user)
        PROVE  ClientIsOwn'
    <3>1. /\ req'[r] \in Login /\ req'[r].stage = "judge" /\ req'[r].got = got
          /\ req'[r].crossed = req[r].crossed /\ req'[r].given = req[r].given
      BY <2>1, <2>3 DEF Login
    <3>2. AtClient' = AtClient
      <4>1. r \in AtClient'
        BY <3>1, LoginsAreNotFree DEF AtClient
      <4> QED
        BY <2>1, <2>3, <4>1 DEF AtClient
    <3>3. client'.params = client.params /\ client'.authenticated = auth
      BY <1>0, <2>3 DEF TypeOK
    <3>4. \A p, q \in AtClient' : p # q => req'[p].crossed /\ req'[q].crossed
      BY <1>0, <2>3, <3>1, <3>2 DEF ClientIsOwn, AtClient
    <3>5. ASSUME NEW q \in AtClient', q # r
          PROVE  /\ req'[q] = req[q] /\ req[q].crossed
                 /\ req[q].got \in confirmed' \cup {NoUser}
                 /\ req[q].stage = "send" => client'.params \in Credentials
      BY <1>0, <2>1, <2>3, <3>2, <3>3, <3>5 DEF ClientIsOwn, AtClient
    <3>6. got \in confirmed' \cup {NoUser}
      BY <1>0, <2>1, <2>3 DEF ClientIsOwn
    <3>7. client'.authenticated /\ ~req'[r].crossed => req'[r].got = req'[r].given.user
      BY <2>1, <2>3, <3>1, <3>3
    <3> QED
      BY <3>1, <3>4, <3>5, <3>6, <3>7 DEF ClientIsOwn
  <2>4. CASE /\ client' = [client EXCEPT !.authenticated = TRUE]
             /\ req' = [req EXCEPT ![r].stage = "judge", ![r].got = asked.user]
             /\ confirmed' = confirmed \cup {asked.user}
    BY <1>0, <2>1, <2>3, <2>4 DEF TypeOK
  <2>5. CASE req' = [req EXCEPT ![r].stage = "judge"] /\ UNCHANGED <<client, confirmed>>
    <3>1. req'[r] = [req[r] EXCEPT !.stage = "judge", !.got = req[r].got]
          /\ \A q \in Requests : q # r => req'[q] = req[q]
      BY <1>0, <2>1, <2>5 DEF TypeOK, Login
    <3>2. client' = [client EXCEPT !.authenticated = client.authenticated]
      BY <1>0, <2>5 DEF TypeOK
    <3> QED
      BY <2>1, <2>3, <2>5, <3>1, <3>2
  <2> QED
    BY <1>5, <2>2, <2>4, <2>5 DEF Send
<1>6. ASSUME NEW r \in Requests, \/ getTokenLogin(r) \/ getUserTokenLogin(r)
                                 \/ ChangeMyPassword(r) \/ SetPassword(r)
      PROVE  ClientIsOwn'
  BY <1>3, <1>6 DEF getTokenLogin, getUserTokenLogin, ChangeMyPassword, SetPassword
<1>7. ASSUME NEW r \in Requests, ConfirmOld(r) PROVE ClientIsOwn'
  <2>1. req[r] \in Login /\ req' = [req EXCEPT ![r].stage = "set"]
    BY <1>7, Kinds DEF ConfirmOld
  <2>2. r \notin AtClient'
    BY <1>0, <2>1 DEF AtClient, TypeOK, Login
  <2> QED
    BY <1>0, <1>2, <1>7, <2>1, <2>2 DEF ConfirmOld, TypeOK
<1>8. ASSUME NEW r \in Requests, ResetPasswordAdmin(r) PROVE ClientIsOwn'
  <2>1. req[r] \in Reset /\ UNCHANGED <<client, confirmed>>
    BY <1>8, Kinds DEF ResetPasswordAdmin
  <2>2. CASE End(r)
    BY <1>3, <2>1, <2>2
  <2>3. CASE req' = [req EXCEPT ![r].stage = "set"]
    BY <1>0, <1>2, <2>1, <2>3, ResetsAreTyped DEF AtClient, TypeOK
  <2> QED
    BY <1>8, <2>2, <2>3 DEF ResetPasswordAdmin
<1>9. ASSUME NEW p \in Pins, NEW r \in Requests, NEW kind \in {"form", "page"},
             FindPIN(r, kind, p)
      PROVE  ClientIsOwn'
  <2>1. req'[r].kind = kind /\ \A q \in Requests : q # r => req'[q] = req[q]
    BY <1>0, <1>9 DEF FindPIN, Begin, TypeOK
  <2> QED
    BY <1>2, <1>9, <2>1 DEF FindPIN, AtClient
<1>10. CASE Restart
  BY <1>0, <1>10 DEF Restart, ClientIsOwn, AtClient
<1> QED
  BY <1>1, <1>4, <1>5, <1>6, <1>7, <1>8, <1>9, <1>10 DEF Next, Sessions, Resets, vars,
     getTokenRefresh, getUserTokenRefresh, Logout, LocalLogin, ResetMyPassword, JellyfinPIN,
     AdminPasswordReset, SetInternalPWR, ExpiredPIN, WriteFile, Watch, TakeEvent, validatePWR,
     monitorPolling, SetAccess, Tick
-----------------------------------------------------------------------------
(* Tokens *)

LEMMA OwnedStep ==
    ASSUME TypeOK, ClientIsOwn, TokensAreOwned, [Next]_vars PROVE TokensAreOwned'
<1> USE DEF sessions, resets, watch, bounds
<1>0. /\ adminUsers \subseteq granted /\ loggedOut \subseteq invalidTokens
      /\ \A t \in tokens : t.jfid \in confirmed \cup {NoUser}
      /\ \A g \in grants : g.got = g.asked \/ g.crossed
      /\ tokens \subseteq Token /\ nextId \in AdminIds /\ confirmed \subseteq confirmed'
  BY DEF TypeOK, TokensAreOwned, TokensAreConfirmed, OwnUnlessCrossed, Next, vars, Sessions,
     Resets, getTokenRefresh, getUserTokenRefresh, Logout, Authenticate, Send, getTokenLogin,
     getUserTokenLogin, LocalLogin, ConfirmOld, ChangeMyPassword, ResetPasswordAdmin,
     SetPassword, ResetMyPassword, JellyfinPIN, AdminPasswordReset, SetInternalPWR, ExpiredPIN,
     FindPIN, WriteFile, Watch, TakeEvent, validatePWR, monitorPolling, SetAccess, Tick, Restart
<1>1. ASSUME adminUsers' \subseteq granted', loggedOut' \subseteq invalidTokens',
             \A t \in tokens' : t \in tokens \/ t.jfid \in confirmed \cup {NoUser},
             \A g \in grants' : g \in grants \/ g.got = g.asked \/ g.crossed
      PROVE  TokensAreOwned'
  BY <1>0, <1>1 DEF TokensAreOwned, TokensAreConfirmed, OwnUnlessCrossed
<1>2. ASSUME UNCHANGED <<tokens, adminUsers, granted, invalidTokens, loggedOut, grants>>
      PROVE  TokensAreOwned'
  BY <1>0, <1>1, <1>2
<1>3. ASSUME NEW t \in tokens, getTokenRefresh(t) \/ getUserTokenRefresh(t)
      PROVE  TokensAreOwned'
  <2>1. t.id \in Users \cup {NoUser} \cup AdminIds /\ t.jfid \in Users \cup {NoUser}
    BY <1>0 DEF Token
  <2>2. \A s \in tokens' : s \in tokens \/ s.jfid = t.jfid
    <3>1. \A s \in CreateToken(t.id, t.jfid, TRUE) : s.jfid = t.jfid
      BY <2>1, TokensAreTyped
    <3>2. \A s \in CreateToken(t.jfid, t.jfid, FALSE) : s.jfid = t.jfid
      BY <2>1, TokensAreTyped
    <3>3. CASE getTokenRefresh(t)
      <4>1. tokens' = tokens \cup CreateToken(t.id, t.jfid, TRUE)
        BY <3>3 DEF getTokenRefresh
      <4> QED
        BY <3>1, <4>1
    <3>4. CASE getUserTokenRefresh(t)
      <4>1. tokens' = tokens \cup CreateToken(t.jfid, t.jfid, FALSE)
        BY <3>4 DEF getUserTokenRefresh, UserToken
      <4> QED
        BY <3>2, <4>1
    <3> QED
      BY <1>3, <3>3, <3>4
  <2> QED
    BY <1>0, <1>1, <1>3, <2>2 DEF getTokenRefresh, getUserTokenRefresh
<1>4. ASSUME NEW t \in tokens, NEW bearer \in tokens, Logout(bearer, t) PROVE TokensAreOwned'
  BY <1>0, <1>1, <1>4 DEF Logout, Invalidate
<1>5. ASSUME NEW r \in Requests, getTokenLogin(r) \/ getUserTokenLogin(r)
      PROVE  TokensAreOwned'
  <2>1. r \in AtClient /\ req[r] \in Login /\ req[r].stage = "judge"
    BY <1>5, Kinds DEF getTokenLogin, getUserTokenLogin, AtClient
  <2>2. /\ req[r].got \in Users \cup {NoUser}
        /\ req[r].got \in confirmed \cup {NoUser}
        /\ client.authenticated => req[r].got = req[r].given.user \/ req[r].crossed
    BY <2>1 DEF ClientIsOwn, Login
  <2>3. \A s \in tokens' : s \in tokens \/ s.jfid = req[r].got
    <3>1. nextId \in Users \cup {NoUser} \cup AdminIds /\ TRUE \in BOOLEAN /\ FALSE \in BOOLEAN
          /\ req[r].got \in Users \cup {NoUser} \cup AdminIds
      BY <1>0, <2>2
    <3>2. \A s \in CreateToken(nextId, req[r].got, TRUE) : s.jfid = req[r].got
      BY <2>2, <3>1, TokensAreTyped, ZenonT(60)
    <3>3. \A s \in CreateToken(req[r].got, req[r].got, FALSE) : s.jfid = req[r].got
      BY <2>2, <3>1, TokensAreTyped
    <3> QED
      BY <1>5, <3>2, <3>3 DEF getTokenLogin, getUserTokenLogin
  <2>4. \A g \in grants' : g \in grants \/ g.got = g.asked \/ g.crossed
    <3> DEFINE new == [asked |-> req[r].given.user, got |-> req[r].got,
                       crossed |-> req[r].crossed]
    <3>1. UNCHANGED grants \/ (client.authenticated /\ grants' = grants \cup {new})
      BY <1>5 DEF getTokenLogin, getUserTokenLogin, Grant, validateJellyfinCredentials
    <3>2. client.authenticated => new.got = new.asked \/ new.crossed
      BY <2>2
    <3> HIDE DEF new
    <3> QED
      BY <3>1, <3>2
  <2>5. adminUsers' \subseteq granted' /\ loggedOut' \subseteq invalidTokens'
    BY <1>0, <1>5 DEF getTokenLogin, getUserTokenLogin
  <2> QED
    BY <1>1, <2>2, <2>3, <2>4, <2>5
<1>6. CASE LocalLogin
  <2>1. PICK id \in adminUsers : tokens' = tokens \cup CreateToken(id, NoUser, TRUE)
    BY <1>6 DEF LocalLogin
  <2>2. \A s \in CreateToken(id, NoUser, TRUE) : s.jfid = NoUser
    BY TokensAreTyped DEF TypeOK
  <2> QED
    BY <1>0, <1>1, <1>6, <2>1, <2>2 DEF LocalLogin
<1>7. ASSUME NEW r \in Requests, ChangeMyPassword(r) PROVE TokensAreOwned'
  <2>1. loggedOut' \subseteq invalidTokens'
    BY <1>0, <1>7 DEF ChangeMyPassword
  <2> QED
    BY <1>0, <1>1, <1>7, <2>1 DEF ChangeMyPassword
<1>8. CASE Tick
  <2>1. \A t \in tokens' : t.jfid \in confirmed \cup {NoUser}
    BY <1>0, <1>8, OlderIsTyped DEF Tick
  <2>2. loggedOut' \subseteq invalidTokens'
    BY <1>0, <1>8 DEF Tick, Older
  <2> QED
    BY <1>0, <1>1, <1>8, <2>1, <2>2 DEF Tick
<1>9. CASE Restart
  BY <1>0, <1>1, <1>9 DEF Restart
<1> QED
  BY <1>2, <1>3, <1>4, <1>5, <1>6, <1>7, <1>8, <1>9 DEF Next, Sessions, Resets, vars,
     Authenticate, Send, ConfirmOld, ResetPasswordAdmin, SetPassword, ResetMyPassword,
     JellyfinPIN, AdminPasswordReset, SetInternalPWR, ExpiredPIN, FindPIN, WriteFile, Watch,
     TakeEvent, validatePWR, monitorPolling, SetAccess

-----------------------------------------------------------------------------
(* PINs and passwords *)

LEMMA SpentStep == ASSUME TypeOK, SpentAreGone, [Next]_vars PROVE SpentAreGone'
<1> USE DEF sessions, resets, watch, bounds
<1>0. TypeOK /\ SpentAreGone
  OBVIOUS
<1>1. CASE UNCHANGED <<pins, spare, spent>>
  BY <1>0, <1>1 DEF SpentAreGone
<1>2. ASSUME NEW u \in Users, NEW p \in Pins, SetInternalPWR(u, p) \/ JellyfinPIN(u, p)
      PROVE  SpentAreGone'
  BY <1>0, <1>2 DEF SetInternalPWR, JellyfinPIN, SpentAreGone, TypeOK
<1>3. ASSUME NEW p \in Pins,
             ExpiredPIN(p) \/ \E r \in Requests, kind \in {"form", "page"} : FindPIN(r, kind, p)
      PROVE  SpentAreGone'
  BY <1>0, <1>3 DEF ExpiredPIN, FindPIN, Without, SpentAreGone, TypeOK
<1>4. ASSUME NEW r \in Requests, ResetPasswordAdmin(r) PROVE SpentAreGone'
  <2>1. req[r] \in Reset /\ req[r].pin \in Pins /\ (req[r].kind = "form" => req[r].pin \notin spare)
    BY <1>0, <1>4, Kinds, ResetsAreTyped DEF ResetPasswordAdmin, TypeOK
  <2> QED
    BY <1>0, <1>4, <2>1 DEF ResetPasswordAdmin, ResetSetPassword, Without, SpentAreGone, TypeOK
<1>5. CASE Tick
  BY <1>0, <1>5 DEF Tick, SpentAreGone
<1>6. CASE Restart
  BY <1>0, <1>6 DEF Restart, SpentAreGone
<1> QED
  BY <1>1, <1>2, <1>3, <1>4, <1>5, <1>6 DEF Next, Sessions, Resets, vars, getTokenRefresh,
     getUserTokenRefresh, Logout, Authenticate, Send, getTokenLogin, getUserTokenLogin,
     LocalLogin, ConfirmOld, ChangeMyPassword, SetPassword, ResetMyPassword,
     AdminPasswordReset, WriteFile, Watch, TakeEvent, validatePWR, monitorPolling, SetAccess

\* A request between the two calls that set a password.
Setting(r) == req[r] \in Reset /\ req[r].stage = "set"

LEMMA BlankStep == ASSUME TypeOK, BlankOnlyInTransit, [Next]_vars PROVE BlankOnlyInTransit'
<1> USE DEF sessions, resets, watch, bounds
<1>0. TypeOK
  OBVIOUS
<1>a. \A u \in Users : passwords[u] = "blank" =>
         u \in broken \/ \E r \in Requests : Setting(r) /\ req[r].of = u
  BY Kinds DEF BlankOnlyInTransit, Setting
<1>b. ASSUME \A u \in Users : passwords'[u] = "blank" =>
                u \in broken' \/ \E r \in Requests : Setting(r)' /\ req'[r].of = u
      PROVE  BlankOnlyInTransit'
  <2>1. \A r \in Requests : Setting(r)' =>
           req'[r] # Free /\ req'[r].kind \in {"form", "page"} /\ req'[r].stage = "set"
    <3>1. Free.kind = "free"
      BY DEF Free
    <3> QED
      BY <3>1 DEF Setting, Reset
  <2> QED
    BY <1>b, <2>1 DEF BlankOnlyInTransit
<1>1. ASSUME UNCHANGED broken,
             \A u \in Users : passwords'[u] \in {passwords[u], "new", "pin"},
             \A r \in Requests : Setting(r) => req'[r] = req[r]
      PROVE  BlankOnlyInTransit'
  BY <1>a, <1>b, <1>1 DEF Setting
<1>2. ASSUME UNCHANGED <<passwords, broken, req>> PROVE BlankOnlyInTransit'
  BY <1>1, <1>2
<1>3. ASSUME NEW r \in Requests, ~Setting(r), End(r), UNCHANGED broken,
             \A u \in Users : passwords'[u] \in {passwords[u], "new", "pin"}
      PROVE  BlankOnlyInTransit'
  BY <1>0, <1>1, <1>3, EndIsTyped
<1>4. ASSUME NEW r \in Requests, NEW given \in Credentials,
             NEW kind \in {"login", "user login", "change"}, Authenticate(r, kind, given)
      PROVE  BlankOnlyInTransit'
  <2>1. \A q \in Requests : Setting(q) => q # r /\ q \notin AtClient
    BY <1>4, Kinds DEF Authenticate, Setting
  <2> QED
    BY <1>1, <1>4, <2>1 DEF Authenticate
<1>5. ASSUME NEW r \in Requests, \/ Send(r) \/ getTokenLogin(r) \/ getUserTokenLogin(r)
                                 \/ ConfirmOld(r) \/ ChangeMyPassword(r)
      PROVE  BlankOnlyInTransit'
  <2>1. ~Setting(r)
    BY <1>5 DEF Send, AtClient, getTokenLogin, getUserTokenLogin, ConfirmOld, ChangeMyPassword,
       Setting, Reset
  <2>2. \A q \in Requests : q # r => req'[q] = req[q]
    BY <1>0, <1>5, EndIsTyped DEF Send, getTokenLogin, getUserTokenLogin, ConfirmOld,
       ChangeMyPassword, TypeOK
  <2>3. UNCHANGED broken /\ \A u \in Users : passwords'[u] \in {passwords[u], "new"}
    BY <1>0, <1>5 DEF Send, getTokenLogin, getUserTokenLogin, ConfirmOld, ChangeMyPassword, TypeOK
  <2> QED
    BY <1>1, <2>1, <2>2, <2>3
<1>6. ASSUME NEW r \in Requests, ResetPasswordAdmin(r) PROVE BlankOnlyInTransit'
  <2>1. req[r] \in Reset /\ req[r].of \in Users /\ ~Setting(r) /\ UNCHANGED broken
    BY <1>6, Kinds, ResetsAreTyped DEF ResetPasswordAdmin, Setting
  <2>2. CASE End(r) /\ UNCHANGED passwords
    BY <1>3, <2>1, <2>2
  <2>3. CASE /\ req' = [req EXCEPT ![r].stage = "set"]
             /\ passwords' = [passwords EXCEPT ![req[r].of] = "blank"]
    <3>1. Setting(r)' /\ req'[r].of = req[r].of
      BY <1>0, <2>1, <2>3, ResetsAreTyped DEF Setting, TypeOK
    <3>2. \A q \in Requests : q # r => req'[q] = req[q]
      BY <1>0, <2>3 DEF TypeOK
    <3>3. \A u \in Users : u # req[r].of => passwords'[u] = passwords[u]
      BY <1>0, <2>1, <2>3 DEF TypeOK
    <3> QED
      BY <1>a, <1>b, <2>1, <3>1, <3>2, <3>3 DEF Setting
  <2> QED
    BY <1>6, <2>2, <2>3 DEF ResetPasswordAdmin
<1>7. ASSUME NEW r \in Requests, SetPassword(r) PROVE BlankOnlyInTransit'
  <2>1. req[r] \in Reset /\ req[r].of \in Users /\ \A q \in Requests : q # r => req'[q] = req[q]
    BY <1>0, <1>7, Kinds, EndIsTyped, ResetsAreTyped DEF SetPassword
  <2>2. \A q \in Requests : q # r => (Setting(q)' <=> Setting(q))
    BY <2>1 DEF Setting
  <2>3. CASE passwords' = NewPassword(r) /\ UNCHANGED broken
    <3>1. passwords'[req[r].of] # "blank"
          /\ \A u \in Users : u # req[r].of => passwords'[u] = passwords[u]
      BY <1>0, <2>1, <2>3 DEF NewPassword, TypeOK
    <3> QED
      BY <1>a, <1>b, <2>1, <2>2, <2>3, <3>1
  <2>4. CASE broken' = broken \cup {req[r].of} /\ UNCHANGED passwords
    BY <1>a, <1>b, <2>1, <2>2, <2>4
  <2> QED
    BY <1>7, <2>3, <2>4 DEF SetPassword
<1>8. ASSUME NEW p \in Pins, NEW r \in Requests, NEW kind \in {"form", "page"},
             FindPIN(r, kind, p)
      PROVE  BlankOnlyInTransit'
  <2>1. ~Setting(r)
    BY <1>8, Kinds DEF FindPIN, Begin, Setting
  <2>2. UNCHANGED broken /\ \A u \in Users : passwords'[u] \in {passwords[u], "pin"}
    BY <1>0, <1>8 DEF FindPIN, TypeOK
  <2>3. \A q \in Requests : q # r => req'[q] = req[q]
    BY <1>0, <1>8 DEF FindPIN, Begin, TypeOK
  <2> QED
    BY <1>1, <2>1, <2>2, <2>3
<1>9. CASE Restart
  <2>1. \A r \in Requests : Setting(r) => req[r].of \in broken'
    BY <1>9, Kinds DEF Restart, Setting, Reset
  <2> QED
    BY <1>a, <1>b, <1>9, <2>1 DEF Restart
<1> QED
  BY <1>2, <1>4, <1>5, <1>6, <1>7, <1>8, <1>9 DEF Next, Sessions, Resets, vars, getTokenRefresh,
     getUserTokenRefresh, Logout, LocalLogin, ResetMyPassword, JellyfinPIN, AdminPasswordReset,
     SetInternalPWR, ExpiredPIN, WriteFile, Watch, TakeEvent, validatePWR, monitorPolling,
     SetAccess, Tick
-----------------------------------------------------------------------------
(* Theorems *)

LEMMA Inductive == Spec => []IInv
<1>1. ASSUME Init PROVE IInv
  <2>1. TypeOK
    <3>1. /\ passwords \in [Users -> Passwords] /\ access \subseteq Users
          /\ req \in [Requests -> Login \cup Reset \cup {Free}]
          /\ \A r \in Requests : req[r] = Free
          /\ tokens = {} /\ invalidTokens = {} /\ loggedOut = {}
      BY <1>1, AccessAssumption DEF Init, Passwords, Given
    <3>2. client \in [authenticated : BOOLEAN, params : Credentials \cup {NoParams}]
      BY <1>1 DEF Init, NewServer
    <3>3. adminUsers \subseteq AdminIds /\ nextId \in AdminIds
      BY <1>1 DEF Init, ConfiguredAdmin, AdminIds
    <3>4. pins \in [Pins -> InternalPWR \cup {NoPin}] /\ \A p \in Pins : pins[p] = NoPin
      BY <1>1 DEF Init
    <3> QED
      BY <3>1, <3>2, <3>3, <3>4 DEF TypeOK
  <2>2. ClientIsOwn
    BY <1>1 DEF Init, ClientIsOwn, AtClient
  <2>3. TokensAreOwned
    BY <1>1 DEF Init, TokensAreOwned, TokensAreConfirmed, OwnUnlessCrossed
  <2>4. SpentAreGone
    BY <1>1 DEF Init, SpentAreGone
  <2>5. BlankOnlyInTransit
    BY <1>1 DEF Init, BlankOnlyInTransit
  <2> QED
    BY <2>1, <2>2, <2>3, <2>4, <2>5 DEF IInv
<1>2. ASSUME IInv, [Next]_vars PROVE IInv'
  <2>1. TypeOK /\ ClientIsOwn /\ TokensAreOwned /\ SpentAreGone /\ BlankOnlyInTransit
        /\ TokensAreConfirmed
    BY <1>2 DEF IInv, TokensAreOwned
  <2> QED
    BY <1>2, <2>1, TypeStep, ClientStep, OwnedStep, SpentStep, BlankStep DEF IInv
<1> QED
  BY <1>1, <1>2, PTL DEF Spec

\* For any users and any number of requests: only those let in since the start pass for
\* admins, a token acts for a user whose password was confirmed, and a login that shared the
\* client with no other acts for the one who asked (auth.go, user-auth.go, mediabrowser.go).
THEOREM SessionsAreSound == Spec => []SoundSessions
<1>1. TypeOK /\ TokensAreOwned => AdminsLoggedIn
  BY DEF TokensAreOwned, AdminsLoggedIn, authenticate
<1>2. IInv => SoundSessions
  BY <1>1 DEF IInv, TokensAreOwned, SoundSessions
<1> QED
  BY <1>2, Inductive, PTL

\* For any number of resets at once, a password is blank only between the two calls of one
\* of them, or after one was stopped there (api.go ResetSetPassword, pwreset.go).
THEOREM BlankIsBrief == Spec => []BlankOnlyInTransit
<1>1. IInv => BlankOnlyInTransit
  BY DEF IInv
<1> QED
  BY <1>1, Inductive, PTL

\* A PIN that the form has used is not found again, and who is logged out everywhere is
\* given no token by extending one (api.go ResetSetPassword, auth.go and user-auth.go).
THEOREM UsedUpIsGone == Spec => UsedUpStays
<1>1. ASSUME IInv, [Next]_vars PROVE [SpentPinsAreGone]_vars
  <2> USE DEF sessions, resets, watch, bounds
  <2>0. TypeOK /\ SpentAreGone
    BY <1>1 DEF IInv
  <2>1. ASSUME NEW r \in Requests, req[r] = Free, req'[r] # Free,
               req'[r].kind \in {"form", "page"}
        PROVE  req'[r].pin \notin spent
    <3>1. ASSUME NEW p \in Pins, NEW q \in Requests, NEW kind \in {"form", "page"},
                 FindPIN(q, kind, p)
          PROVE  req'[r].pin \notin spent
      <4>1. p \notin spent /\ (q = r => req'[r].pin = p)
        BY <2>0, <3>1 DEF FindPIN, Begin, SpentAreGone, TypeOK
      <4>2. q = r
        BY <2>0, <2>1, <3>1 DEF FindPIN, Begin, TypeOK
      <4> QED
        BY <4>1, <4>2
    <3>2. ASSUME NEW q \in Requests, NEW given \in Credentials,
                 NEW kind \in {"login", "user login", "change"}, Authenticate(q, kind, given)
          PROVE  FALSE
      <4>1. r \notin AtClient
        BY <2>1 DEF AtClient
      <4> QED
        BY <2>1, <3>2, <4>1 DEF Authenticate
    <3>3. ASSUME NEW q \in Requests,
                 \/ Send(q) \/ getTokenLogin(q) \/ getUserTokenLogin(q) \/ ConfirmOld(q)
                 \/ ChangeMyPassword(q) \/ ResetPasswordAdmin(q) \/ SetPassword(q)
          PROVE  FALSE
      <4>1. req[q] # Free
        BY <3>3 DEF Send, getTokenLogin, getUserTokenLogin, ConfirmOld, ChangeMyPassword,
           ResetPasswordAdmin, SetPassword
      <4>2. req'[r] = req[r]
        BY <2>0, <2>1, <3>3, <4>1 DEF Send, getTokenLogin, getUserTokenLogin, ConfirmOld,
           ChangeMyPassword, ResetPasswordAdmin, SetPassword, End, TypeOK
      <4> QED
        BY <2>1, <4>2
    <3> QED
      BY <1>1, <2>1, <3>1, <3>2, <3>3 DEF Next, Sessions, Resets, vars, getTokenRefresh,
         getUserTokenRefresh, Logout, LocalLogin, ResetMyPassword, JellyfinPIN,
         AdminPasswordReset, SetInternalPWR, ExpiredPIN, WriteFile, Watch, TakeEvent,
         validatePWR, monitorPolling, SetAccess, Tick, Restart
  <2> QED
    BY <2>1 DEF SpentPinsAreGone
<1>2. ASSUME IInv, [Next]_vars PROVE [LoggedOutStays]_vars
  <2> USE DEF sessions, resets, watch, bounds
  <2> SUFFICES ASSUME NEW u \in Users,
                      \A t \in tokens : t.type = "refresh" /\ t.jfid = u => t \in loggedOut,
                      req' = req, NEW t \in tokens', t.jfid = u
               PROVE  \E s \in tokens : s.type = t.type /\ s.jfid = u
    BY DEF LoggedOutStays
  <2>0. TypeOK /\ loggedOut \subseteq invalidTokens /\ u # NoUser
    BY <1>2, AccessAssumption DEF IInv, TokensAreOwned
  <2>1. ASSUME NEW o \in tokens, getTokenRefresh(o) \/ getUserTokenRefresh(o)
        PROVE  t \in tokens
    <3>1. o.id \in Users \cup {NoUser} \cup AdminIds /\ o.jfid \in Users \cup {NoUser}
      BY <2>0 DEF TypeOK, Token
    <3>2. o.jfid # u
      BY <2>0, <2>1 DEF getTokenRefresh, getUserTokenRefresh, decodeValidateRefreshCookie
    <3>3. \A s \in CreateToken(o.id, o.jfid, TRUE) : s.jfid = o.jfid
      BY <3>1, TokensAreTyped
    <3>4. \A s \in CreateToken(o.jfid, o.jfid, FALSE) : s.jfid = o.jfid
      BY <3>1, TokensAreTyped
    <3>5. CASE getTokenRefresh(o)
      <4>1. tokens' = tokens \cup CreateToken(o.id, o.jfid, TRUE)
        BY <3>5 DEF getTokenRefresh
      <4> QED
        BY <3>2, <3>3, <4>1
    <3>6. CASE getUserTokenRefresh(o)
      <4>1. tokens' = tokens \cup CreateToken(o.jfid, o.jfid, FALSE)
        BY <3>6 DEF getUserTokenRefresh, UserToken
      <4> QED
        BY <3>2, <3>4, <4>1
    <3> QED
      BY <2>1, <3>5, <3>6
  <2>2. ASSUME LocalLogin PROVE t \in tokens
    <3>1. PICK id \in adminUsers : tokens' = tokens \cup CreateToken(id, NoUser, TRUE)
      BY <2>2 DEF LocalLogin
    <3>2. \A s \in CreateToken(id, NoUser, TRUE) : s.jfid = NoUser
      BY <2>0, TokensAreTyped DEF TypeOK
    <3> QED
      BY <2>0, <3>1, <3>2
  <2>3. ASSUME NEW r \in Requests, getTokenLogin(r) \/ getUserTokenLogin(r) PROVE FALSE
    BY <2>0, <2>3, EndIsTyped DEF getTokenLogin, getUserTokenLogin
  <2>4. ASSUME Tick PROVE \E s \in tokens : s.type = t.type /\ s.jfid = u
    BY <2>0, <2>4, OlderIsTyped DEF Tick, TypeOK
  <2>5. CASE UNCHANGED tokens
    BY <2>5
  <2> QED
    BY <1>2, <2>1, <2>2, <2>3, <2>4, <2>5 DEF Next, Sessions, Resets, vars, Logout,
       Authenticate, Send, ConfirmOld, ChangeMyPassword, ResetPasswordAdmin, SetPassword,
       ResetMyPassword, JellyfinPIN, AdminPasswordReset, SetInternalPWR, ExpiredPIN, FindPIN,
       WriteFile, Watch, TakeEvent, validatePWR, monitorPolling, SetAccess, Restart
<1>3. IInv /\ [Next]_vars => [SpentPinsAreGone /\ LoggedOutStays]_vars
  BY <1>1, <1>2
<1> QED
  BY <1>3, Inductive, PTL DEF Spec, UsedUpStays
=============================================================================
