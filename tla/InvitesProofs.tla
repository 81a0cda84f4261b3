---------------------------- MODULE InvitesProofs ----------------------------
(***************************************************************************)
(* Theorems of Invites for any codes, requests, editors and limits.        *)
(* However handlers overlap and crash, the records stay sound, as every    *)
(* copy a handler may write back does (IInv).  Handlers that do not        *)
(* overlap, nor crash half-way, also keep the books exactly (Serial) and   *)
(* so implement InviteLedger.                                              *)
(***************************************************************************)
EXTENDS Invites, FiniteSetTheorems, TLAPS

\* When handlers do not overlap one of them runs at a time ...
Exclusive ==
    /\ \A r, s \in Active : r = s
    /\ \A e, f \in OpenEditors : e = f
    /\ Active # {} => OpenEditors = {} /\ ~Sweeping
    /\ OpenEditors # {} => ~Sweeping

\* ... so every copy is still the stored record when it is written back ...
Current ==
    /\ \A r \in Requests :
          /\ pc[r] \in {"checked", "keying", "loaded"} => store[code[r]] # NoInvite
          /\ pc[r] = "counting" => seen[r] = store[code[r]]
    /\ \A e \in OpenEditors : edit[e].copy = store[edit[e].code]
    /\ \A c \in Codes : sweep[c] # NoInvite => sweep[c] = store[c]

\* ... a record lists all the accounts but the one it is about to count ...
Unserved == {"idle", "checked", "keying", "awaiting", "loaded"}
Uncounted(c) == {r \in Requests : code[r] = c /\ pc[r] \in {"created", "counting"}}
Counted(c) == members[c] \ Uncounted(c)
Booked ==
    /\ \A r \in Requests : pc[r] \in Unserved => r \notin members[code[r]]
    /\ \A c \in Codes :
          /\ issued[c] = Unissued => store[c] = NoInvite /\ members[c] = {}
          /\ store[c] # NoInvite => Len(store[c].usedBy) = Cardinality(Counted(c))

\* ... and the map a request is about to store replaces no other.
Keyed ==
    /\ AwaitedKeyIsKept
    /\ \A r \in Requests : pc[r] = "keying" => code[r] \notin mapped
    /\ \A c \in Codes : c \notin mapped => keys[c] = {}

Serial == Exclusive /\ Current /\ Booked /\ Keyed

LEMMA UsedOnceIsInvite ==
    ASSUME NEW inv \in Invite, NEW r \in Requests
    PROVE  UsedOnce(inv, r) \in Invite \union {NoInvite}
<1>1. CASE inv.uses = 1
  BY <1>1 DEF UsedOnce
<1>2. CASE inv.uses # 1
  <2> DEFINE left == IF inv.uses = 0 THEN 0 ELSE inv.uses - 1
  <2>1. left \in 0..MaxUses
    BY InvitesAssumption DEF Invite
  <2>2. Append(inv.usedBy, r) \in Seq(Requests)
    BY DEF Invite
  <2>3. UsedOnce(inv, r) = [inv EXCEPT !.uses = left, !.usedBy = Append(@, r)]
    BY <1>2 DEF UsedOnce
  <2> QED
    BY <2>1, <2>2, <2>3 DEF Invite
<1> QED
  BY <1>1, <1>2

LEMMA TypeStep == IInv /\ [Next]_vars => TypeOK'
<1> SUFFICES ASSUME IInv, [Next]_vars PROVE TypeOK'
  OBVIOUS
<1>0. TypeOK /\ CopiesSound
  BY DEF IInv
<1> USE InvitesAssumption
<1>1. ASSUME NEW c \in Codes, GenerateInvite(c) PROVE TypeOK'
  BY <1>0, <1>1 DEF TypeOK, GenerateInvite, Set, jellyfin, confirm, signup, Invite
<1>2. ASSUME NEW c \in Codes, DeleteInvite(c) PROVE TypeOK'
  BY <1>0, <1>2 DEF TypeOK, DeleteInvite, Set, jellyfin, confirm, signup
<1>3. ASSUME NEW c \in Codes, SweepInvite(c) PROVE TypeOK'
  BY <1>0, <1>3 DEF TypeOK, SweepInvite, Set, jellyfin, confirm, signup
<1>4. ASSUME NEW c \in Codes, Expire(c) PROVE TypeOK'
  BY <1>0, <1>4 DEF TypeOK, Expire, jellyfin, confirm, signup
<1>5. ASSUME NEW e \in Editors, RewriteWrite(e) PROVE TypeOK'
  <2>1. edit[e].code \in Codes /\ edit[e].copy \in Invite
    BY <1>0, <1>5 DEF RewriteWrite, TypeOK, Held, Idle
  <2>2. \A x \in BOOLEAN : [edit[e].copy EXCEPT !.expires = x] \in Invite
    BY <2>1 DEF Invite
  <2>3. store' \in [Codes -> Invite \union {NoInvite}]
    <3>1. CASE UNCHANGED store
      BY <1>0, <3>1 DEF TypeOK
    <3>2. CASE \E x \in BOOLEAN : Set(edit[e].code, [edit[e].copy EXCEPT !.expires = x])
      <4>1. PICK x \in BOOLEAN :
                store' = [store EXCEPT ![edit[e].code] = [edit[e].copy EXCEPT !.expires = x]]
        BY <3>2 DEF Set
      <4>2. [edit[e].copy EXCEPT !.expires = x] \in Invite
        BY <2>2
      <4> QED
        BY <1>0, <2>1, <4>1, <4>2 DEF TypeOK
    <3> QED
      BY <1>5, <3>1, <3>2 DEF RewriteWrite
  <2> QED
    BY <1>0, <1>5, <2>3 DEF TypeOK, RewriteWrite, jellyfin, confirm, signup
<1>6. ASSUME NEW e \in Editors, NEW c \in Codes, RewriteRead(e, c) PROVE TypeOK'
  BY <1>0, <1>6 DEF TypeOK, RewriteRead, jellyfin, confirm, signup, Held
<1>7. ASSUME NEW r \in Requests, CheckInvite(r) PROVE TypeOK'
  BY <1>0, <1>7 DEF TypeOK, CheckInvite, Set, Goto, Stages, jellyfin, confirm
<1>8. ASSUME NEW r \in Requests, OpenConfirmationLink(r) PROVE TypeOK'
  BY <1>0, <1>8 DEF TypeOK, OpenConfirmationLink, Goto, Stages, jellyfin, confirm
<1>9. ASSUME NEW r \in Requests, RefuseForm(r) PROVE TypeOK'
  BY <1>0, <1>9 DEF TypeOK, RefuseForm, Goto, Stages, jellyfin, confirm
<1>10. ASSUME NEW r \in Requests, LookupKeyMap(r) PROVE TypeOK'
  BY <1>0, <1>10 DEF TypeOK, LookupKeyMap, Goto, Stages, jellyfin
<1>11. ASSUME NEW r \in Requests, StoreKeyMap(r) PROVE TypeOK'
  BY <1>0, <1>11 DEF TypeOK, StoreKeyMap, Goto, Stages, jellyfin
<1>12. ASSUME NEW r \in Requests, LoadInvite(r) PROVE TypeOK'
  BY <1>0, <1>12 DEF TypeOK, LoadInvite, Goto, Stages, jellyfin, confirm
<1>13. ASSUME NEW r \in Requests, CreateUser(r) PROVE TypeOK'
  BY <1>0, <1>13 DEF TypeOK, CreateUser, Goto, Stages, confirm
<1>14. ASSUME NEW r \in Requests, CreateFails(r) PROVE TypeOK'
  BY <1>0, <1>14 DEF TypeOK, CreateFails, Goto, Stages, jellyfin, confirm
<1>15. ASSUME NEW r \in Requests, CountRead(r) PROVE TypeOK'
  BY <1>0, <1>15 DEF TypeOK, CountRead, Set, Goto, Stages, jellyfin, confirm
<1>16. ASSUME NEW r \in Requests, CountWrite(r) PROVE TypeOK'
  <2>1. UsedOnce(seen[r], r) \in Invite \union {NoInvite}
    BY <1>0, <1>16, UsedOnceIsInvite DEF TypeOK, CopiesSound, CountWrite
  <2> QED
    BY <1>0, <1>16, <2>1 DEF TypeOK, CountWrite, Set, Goto, Stages, jellyfin, confirm
<1>17. ASSUME NEW r \in Requests, AttachDetails(r) PROVE TypeOK'
  BY <1>0, <1>17 DEF TypeOK, AttachDetails, Goto, Stages
<1>18. ASSUME SweepRead PROVE TypeOK'
  BY <1>0, <1>18 DEF TypeOK, SweepRead, jellyfin, confirm, signup
<1>19. ASSUME Restart PROVE TypeOK'
  BY <1>0, <1>19 DEF TypeOK, Restart, Stages, jellyfin, Held, Idle
<1>20. CASE UNCHANGED vars
  BY <1>0, <1>20 DEF TypeOK, vars, jellyfin, confirm, signup
<1> QED
  BY <1>1, <1>2, <1>3, <1>4, <1>5, <1>6, <1>7, <1>8, <1>9, <1>10, <1>11, <1>12,
     <1>13, <1>14, <1>15, <1>16, <1>17, <1>18, <1>19, <1>20 DEF Next, SignupStep
-----------------------------------------------------------------------------
(* Sound records stay sound as accounts are added and as uses are counted. *)

LEMMA SoundGrows ==
    ASSUME NEW inv, NEW limit, NEW A, NEW B, A \subseteq B, Sound(inv, limit, A)
    PROVE  Sound(inv, limit, B)
BY DEF Sound, Listed

LEMMA NothingIsSound ==
    ASSUME NEW limit, NEW A PROVE Sound(NoInvite, limit, A)
BY DEF Sound, Balanced, Listed

\* An edit leaves the ledger fields alone.
LEMMA EditIsSound ==
    ASSUME NEW inv \in Invite, NEW limit, NEW A, NEW x \in BOOLEAN, Sound(inv, limit, A)
    PROVE  Sound([inv EXCEPT !.expires = x], limit, A)
<1>1. /\ inv # NoInvite
      /\ [inv EXCEPT !.expires = x].uses = inv.uses
      /\ [inv EXCEPT !.expires = x].usedBy = inv.usedBy
  BY InvitesAssumption DEF Invite
<1> QED
  BY <1>1 DEF Sound, Balanced, Listed

\* Counting a use of an existing account keeps the record sound.
LEMMA UsedOnceIsSound ==
    ASSUME NEW inv \in Invite, NEW limit \in 0..MaxUses \union {Unissued},
           NEW A \in SUBSET Requests, NEW r \in A, Sound(inv, limit, A)
    PROVE  Sound(UsedOnce(inv, r), limit, A)
<1>0. inv # NoInvite /\ inv.uses \in Nat /\ inv.usedBy \in Seq(Requests)
  BY InvitesAssumption DEF Invite
<1>1. CASE inv.uses = 1
  BY <1>1, NothingIsSound DEF UsedOnce
<1>2. CASE inv.uses # 1
  <2> DEFINE left == IF inv.uses = 0 THEN 0 ELSE inv.uses - 1
             new == [inv EXCEPT !.uses = left, !.usedBy = Append(@, r)]
  <2>1. UsedOnce(inv, r) = new
    BY <1>2 DEF UsedOnce
  <2>2. new.uses = left /\ new.usedBy = Append(inv.usedBy, r)
    BY DEF Invite
  <2>3. Len(new.usedBy) = Len(inv.usedBy) + 1
    BY <1>0, <2>2
  <2>4. \A i \in 1..Len(new.usedBy) : new.usedBy[i] \in A
    <3>1. \A i \in 1..Len(inv.usedBy) : inv.usedBy[i] \in A
      BY <1>0 DEF Sound, Listed
    <3>2. \A i \in 1..Len(inv.usedBy) : Append(inv.usedBy, r)[i] = inv.usedBy[i]
      BY <1>0
    <3>3. Append(inv.usedBy, r)[Len(inv.usedBy) + 1] = r
      BY <1>0
    <3>4. Len(inv.usedBy) \in Nat
      BY <1>0
    <3> QED
      BY <2>2, <2>3, <3>1, <3>2, <3>3, <3>4
  <2>5. Balanced(new, limit)
    <3>1. Len(inv.usedBy) \in Nat
      BY <1>0
    <3>2. limit # Unissued /\ limit \in Nat
      BY <1>0, InvitesAssumption DEF Sound, Balanced, Unissued
    <3> HIDE DEF new
    <3> QED
      BY <1>0, <1>2, <2>2, <2>3, <3>1, <3>2 DEF Sound, Balanced
  <2> QED
    BY <2>1, <2>4, <2>5 DEF Sound, Listed
<1> QED
  BY <1>1, <1>2
-----------------------------------------------------------------------------
(* Every copy a handler holds stays sound. *)

\* A step that issues no code keeps every copy sound if the accounts only grow
\* and each record it leaves behind is sound for the accounts it found.
LEMMA CopiesStay ==
    /\ issued' = issued
    /\ code' = code
    /\ \A c \in Codes : members[c] \subseteq members'[c]
    /\ \A c \in Codes : SoundFor(c, store'[c]) /\ SoundFor(c, sweep'[c])
    /\ \A r \in Requests :
          /\ SoundFor(code[r], seen'[r])
          /\ pc'[r] = "counting" => seen'[r] # NoInvite
          /\ pc'[r] \in {"created", "counting"} => r \in members'[code[r]]
    /\ \A e \in Editors : edit'[e].at = "open" =>
          edit'[e].code \in Codes /\ SoundFor(edit'[e].code, edit'[e].copy)
    /\ code \in [Requests -> Codes]
    => CopiesSound'
<1> SUFFICES ASSUME
        issued' = issued, code' = code, code \in [Requests -> Codes],
        \A c \in Codes : members[c] \subseteq members'[c],
        \A c \in Codes : SoundFor(c, store'[c]) /\ SoundFor(c, sweep'[c]),
        \A r \in Requests :
            /\ SoundFor(code[r], seen'[r])
            /\ pc'[r] = "counting" => seen'[r] # NoInvite
            /\ pc'[r] \in {"created", "counting"} => r \in members'[code[r]],
        \A e \in Editors : edit'[e].at = "open" =>
            edit'[e].code \in Codes /\ SoundFor(edit'[e].code, edit'[e].copy)
    PROVE CopiesSound'
  OBVIOUS
<1>1. ASSUME NEW c \in Codes, NEW inv, Sound(inv, issued[c], members[c])
      PROVE  Sound(inv, issued'[c], members'[c])
  BY <1>1, SoundGrows
<1>2. \A c \in Codes : /\ Sound(store'[c], issued'[c], members'[c])
                       /\ Sound(sweep'[c], issued'[c], members'[c])
  BY <1>1 DEF SoundFor
<1>3. \A r \in Requests : Sound(seen'[r], issued'[code'[r]], members'[code'[r]])
  BY <1>1 DEF SoundFor
<1>4. \A e \in Editors : edit'[e].at = "open" =>
          Sound(edit'[e].copy, issued'[edit'[e].code], members'[edit'[e].code])
  BY <1>1 DEF SoundFor
<1> QED
  BY <1>2, <1>3, <1>4 DEF CopiesSound, SoundFor

LEMMA SoundStep == IInv /\ [Next]_vars => CopiesSound'
<1> SUFFICES ASSUME IInv, [Next]_vars PROVE CopiesSound'
  OBVIOUS
<1>0. TypeOK /\ CopiesSound
  BY DEF IInv
<1>a. /\ code \in [Requests -> Codes]
      /\ \A e \in Editors : edit[e].at = "open" => edit[e].code \in Codes /\ edit[e].copy \in Invite
      /\ \A c \in Codes : SoundFor(c, NoInvite)
  BY <1>0, NothingIsSound DEF TypeOK, Held, Idle, SoundFor
<1>1. ASSUME NEW c \in Codes, GenerateInvite(c) PROVE CopiesSound'
  <2>1. PICK n \in 0..MaxUses, x \in BOOLEAN :
            /\ issued' = [issued EXCEPT ![c] = n]
            /\ store' = [store EXCEPT ![c] = [uses |-> n, usedBy |-> <<>>, expires |-> x]]
    BY <1>1 DEF GenerateInvite, Set
  <2>2. Sound([uses |-> n, usedBy |-> <<>>, expires |-> x], n, members[c])
    BY <2>1, InvitesAssumption DEF Sound, Balanced, Listed, Unissued
  <2>3. /\ issued'[c] = n /\ store'[c] = [uses |-> n, usedBy |-> <<>>, expires |-> x]
        /\ \A d \in Codes : d # c => issued'[d] = issued[d] /\ store'[d] = store[d]
    BY <1>0, <2>1 DEF TypeOK
  <2>4. \A inv : SoundFor(c, inv) => inv = NoInvite
    BY <1>1 DEF GenerateInvite, SoundFor, Sound, Balanced
  <2>5. \A d \in Codes : \A inv : SoundFor(d, inv) => Sound(inv, issued'[d], members[d])
    BY <2>3, <2>4, NothingIsSound DEF SoundFor
  <2>6. /\ members' = members /\ sweep' = sweep /\ seen' = seen /\ code' = code
        /\ edit' = edit /\ pc' = pc
    BY <1>1 DEF GenerateInvite, jellyfin, signup
  <2>7. \A d \in Codes : SoundFor(d, store[d])' /\ SoundFor(d, sweep[d])'
    BY <1>0, <2>2, <2>3, <2>5, <2>6 DEF CopiesSound, SoundFor
  <2>8. \A r \in Requests : SoundFor(code[r], seen[r])'
    BY <1>0, <1>a, <2>5, <2>6 DEF CopiesSound, SoundFor
  <2>9. \A e \in Editors : edit[e].at = "open" => SoundFor(edit[e].code, edit[e].copy)'
    BY <1>0, <1>a, <2>5, <2>6 DEF CopiesSound, SoundFor
  <2> QED
    BY <1>0, <2>6, <2>7, <2>8, <2>9 DEF CopiesSound
<1>2. ASSUME NEW c \in Codes, DeleteInvite(c) PROVE CopiesSound'
  BY <1>0, <1>a, <1>2, CopiesStay DEF TypeOK, CopiesSound, DeleteInvite, Set, jellyfin,
     confirm, signup
<1>3. ASSUME NEW c \in Codes, SweepInvite(c) PROVE CopiesSound'
  BY <1>0, <1>a, <1>3, CopiesStay DEF TypeOK, CopiesSound, SweepInvite, Set, jellyfin,
     confirm, signup
<1>4. ASSUME NEW c \in Codes, Expire(c) PROVE CopiesSound'
  BY <1>0, <1>a, <1>4, CopiesStay DEF TypeOK, CopiesSound, Expire, jellyfin, confirm, signup
<1>5. ASSUME NEW e \in Editors, RewriteWrite(e) PROVE CopiesSound'
  <2>1. \A c \in Codes : SoundFor(c, store'[c])
    <3>1. CASE UNCHANGED store
      BY <1>0, <3>1 DEF CopiesSound
    <3>2. CASE \E x \in BOOLEAN : Set(edit[e].code, [edit[e].copy EXCEPT !.expires = x])
      <4>1. PICK x \in BOOLEAN :
                store' = [store EXCEPT ![edit[e].code] = [edit[e].copy EXCEPT !.expires = x]]
        BY <3>2 DEF Set
      <4>2. SoundFor(edit[e].code, [edit[e].copy EXCEPT !.expires = x])
        BY <1>0, <1>a, <1>5, EditIsSound DEF CopiesSound, SoundFor, RewriteWrite
      <4> QED
        BY <1>0, <4>1, <4>2 DEF TypeOK, CopiesSound
    <3> QED
      BY <1>5, <3>1, <3>2 DEF RewriteWrite
  <2>2. \A f \in Editors : edit'[f].at = "open" => edit'[f] = edit[f]
    BY <1>0, <1>5 DEF TypeOK, RewriteWrite, Idle
  <2> QED
    BY <1>0, <1>a, <1>5, <2>1, <2>2, CopiesStay DEF TypeOK, CopiesSound, RewriteWrite,
       jellyfin, confirm, signup
<1>6. ASSUME NEW e \in Editors, NEW c \in Codes, RewriteRead(e, c) PROVE CopiesSound'
  BY <1>0, <1>a, <1>6, CopiesStay DEF TypeOK, CopiesSound, RewriteRead, jellyfin, confirm,
     signup
<1>7. ASSUME NEW r \in Requests, CheckInvite(r) PROVE CopiesSound'
  BY <1>0, <1>a, <1>7, CopiesStay DEF TypeOK, CopiesSound, CheckInvite, Set, Goto, jellyfin,
     confirm
<1>8. ASSUME NEW r \in Requests, OpenConfirmationLink(r) PROVE CopiesSound'
  BY <1>0, <1>a, <1>8, CopiesStay DEF TypeOK, CopiesSound, OpenConfirmationLink, Goto,
     jellyfin, confirm
<1>9. ASSUME NEW r \in Requests, RefuseForm(r) PROVE CopiesSound'
  BY <1>0, <1>a, <1>9, CopiesStay DEF TypeOK, CopiesSound, RefuseForm, Goto, jellyfin, confirm
<1>10. ASSUME NEW r \in Requests, LookupKeyMap(r) PROVE CopiesSound'
  BY <1>0, <1>a, <1>10, CopiesStay DEF TypeOK, CopiesSound, LookupKeyMap, Goto, jellyfin
<1>11. ASSUME NEW r \in Requests, StoreKeyMap(r) PROVE CopiesSound'
  BY <1>0, <1>a, <1>11, CopiesStay DEF TypeOK, CopiesSound, StoreKeyMap, Goto, jellyfin
<1>12. ASSUME NEW r \in Requests, LoadInvite(r) PROVE CopiesSound'
  BY <1>0, <1>a, <1>12, CopiesStay DEF TypeOK, CopiesSound, LoadInvite, Goto, jellyfin, confirm
<1>13. ASSUME NEW r \in Requests, CreateUser(r) PROVE CopiesSound'
  BY <1>0, <1>a, <1>13, CopiesStay DEF TypeOK, CopiesSound, CreateUser, Goto, confirm
<1>14. ASSUME NEW r \in Requests, CreateFails(r) PROVE CopiesSound'
  BY <1>0, <1>a, <1>14, CopiesStay DEF TypeOK, CopiesSound, CreateFails, Goto, jellyfin, confirm
<1>15. ASSUME NEW r \in Requests, CountRead(r) PROVE CopiesSound'
  BY <1>0, <1>a, <1>15, CopiesStay DEF TypeOK, CopiesSound, CountRead, Set, Goto, jellyfin,
     confirm
<1>16. ASSUME NEW r \in Requests, CountWrite(r) PROVE CopiesSound'
  <2>1. SoundFor(code[r], UsedOnce(seen[r], r))
    BY <1>0, <1>a, <1>16, UsedOnceIsSound DEF TypeOK, CopiesSound, SoundFor, CountWrite
  <2> QED
    BY <1>0, <1>a, <1>16, <2>1, CopiesStay DEF TypeOK, CopiesSound, CountWrite, Set, Goto,
       jellyfin, confirm
<1>17. ASSUME NEW r \in Requests, AttachDetails(r) PROVE CopiesSound'
  BY <1>0, <1>a, <1>17, CopiesStay DEF TypeOK, CopiesSound, AttachDetails, Goto
<1>18. ASSUME SweepRead PROVE CopiesSound'
  BY <1>0, <1>a, <1>18, CopiesStay DEF TypeOK, CopiesSound, SweepRead, jellyfin, confirm, signup
<1>19. ASSUME Restart PROVE CopiesSound'
  BY <1>0, <1>a, <1>19, CopiesStay DEF TypeOK, CopiesSound, Restart, jellyfin, Idle
<1>20. CASE UNCHANGED vars
  BY <1>0, <1>a, <1>20, CopiesStay DEF TypeOK, CopiesSound, vars, jellyfin, confirm, signup
<1> QED
  BY <1>1, <1>2, <1>3, <1>4, <1>5, <1>6, <1>7, <1>8, <1>9, <1>10, <1>11, <1>12,
     <1>13, <1>14, <1>15, <1>16, <1>17, <1>18, <1>19, <1>20 DEF Next, SignupStep
-----------------------------------------------------------------------------
(* Theorems *)

LEMMA Inductive == Spec => []IInv
<1>1. Init => IInv
  <2>1. Init => TypeOK
    BY InvitesAssumption DEF Init, TypeOK, Stages, Idle, Unissued
  <2>2. Init => CopiesSound
    BY NothingIsSound DEF Init, CopiesSound, SoundFor, Idle
  <2> QED
    BY <2>1, <2>2 DEF IInv
<1>2. IInv /\ [Next]_vars => IInv'
  BY TypeStep, SoundStep DEF IInv
<1> QED
  BY <1>1, <1>2, PTL DEF Spec

\* RemainingUses and the length of UsedBy add up to the limit a code was issued
\* with, and UsedBy lists only accounts that Jellyfin has made, for any number of
\* overlapping handlers and restarts (api-invites.go, checkInvite; api-users.go,
\* NewUserFromInvite calls it only after the creation).
THEOREM RecordsAreSound == Spec => []SoundRecords
<1>1. IInv => LedgerBalanced
  BY DEF IInv, CopiesSound, SoundFor, Sound, LedgerBalanced
<1>2. IInv => UsedByAreMembers
  BY DEF IInv, CopiesSound, SoundFor, Sound, UsedByAreMembers
<1>3. IInv => SoundRecords
  BY <1>1, <1>2 DEF IInv, SoundRecords
<1> QED
  BY <1>3, Inductive, PTL
-----------------------------------------------------------------------------
(* One handler at a time *)

LEMMA FreeIsAlone ==
    ASSUME MaxActive = 1, TypeOK, Free
    PROVE  Active = {} /\ OpenEditors = {} /\ ~Sweeping
<1>1. IsFiniteSet(Active) /\ IsFiniteSet(OpenEditors)
  BY InvitesAssumption, FS_Subset DEF Active, OpenEditors
<1>2. Cardinality(Active) \in Nat /\ Cardinality(OpenEditors) \in Nat
  BY <1>1, FS_CardinalityType
<1>3. Cardinality(Active) = 0 /\ Cardinality(OpenEditors) = 0 /\ ~Sweeping
  BY <1>2 DEF Free
<1> QED
  BY <1>1, <1>3, FS_EmptySet

\* A handler starts only when no other runs.
LEMMA ExclusiveStep ==
    ASSUME MaxActive = 1, MaxCrashes = 0, IInv, IInv', Serial, [Next]_vars
    PROVE  Exclusive'
<1>0. TypeOK /\ CopiesSound /\ TypeOK' /\ Exclusive /\ Current /\ Booked /\ Keyed
  BY DEF IInv, Serial
<1> USE <1>0, InvitesAssumption DEF Exclusive, Active, OpenEditors, Sweeping, TypeOK,
    jellyfin, confirm, signup
<1>1. ASSUME NEW c \in Codes, GenerateInvite(c) PROVE Exclusive'
  BY <1>1 DEF GenerateInvite, Set
<1>2. ASSUME NEW c \in Codes, DeleteInvite(c) PROVE Exclusive'
  BY <1>2, FreeIsAlone DEF DeleteInvite, Set
<1>3. ASSUME NEW c \in Codes, SweepInvite(c) PROVE Exclusive'
  BY <1>3 DEF SweepInvite, Set
<1>4. ASSUME NEW c \in Codes, Expire(c) PROVE Exclusive'
  BY <1>4 DEF Expire
<1>5. ASSUME NEW e \in Editors, RewriteWrite(e) PROVE Exclusive'
  BY <1>5 DEF RewriteWrite, Set, Idle
<1>6. ASSUME NEW e \in Editors, NEW c \in Codes, RewriteRead(e, c) PROVE Exclusive'
  BY <1>6, FreeIsAlone DEF RewriteRead
<1>7. ASSUME NEW r \in Requests, CheckInvite(r) PROVE Exclusive'
  BY <1>7, FreeIsAlone DEF CheckInvite, Set, Goto
<1>8. ASSUME NEW r \in Requests, OpenConfirmationLink(r) PROVE Exclusive'
  BY <1>8, FreeIsAlone DEF OpenConfirmationLink, Goto
<1>9. ASSUME NEW r \in Requests, RefuseForm(r) PROVE Exclusive'
  BY <1>9 DEF RefuseForm, Goto
<1>10. ASSUME NEW r \in Requests, LookupKeyMap(r) PROVE Exclusive'
  BY <1>10 DEF LookupKeyMap, Goto
<1>11. ASSUME NEW r \in Requests, StoreKeyMap(r) PROVE Exclusive'
  BY <1>11 DEF StoreKeyMap, Goto
<1>12. ASSUME NEW r \in Requests, LoadInvite(r) PROVE Exclusive'
  BY <1>12 DEF LoadInvite, Goto
<1>13. ASSUME NEW r \in Requests, CreateUser(r) PROVE Exclusive'
  BY <1>13 DEF CreateUser, Goto
<1>14. ASSUME NEW r \in Requests, CreateFails(r) PROVE Exclusive'
  BY <1>14 DEF CreateFails, Goto
<1>15. ASSUME NEW r \in Requests, CountRead(r) PROVE Exclusive'
  BY <1>15 DEF CountRead, Set, Goto
<1>16. ASSUME NEW r \in Requests, CountWrite(r) PROVE Exclusive'
  BY <1>16 DEF CountWrite, Set, Goto
<1>17. ASSUME NEW r \in Requests, AttachDetails(r) PROVE Exclusive'
  BY <1>17 DEF AttachDetails, Goto
<1>18. ASSUME SweepRead PROVE Exclusive'
  BY <1>18, FreeIsAlone DEF SweepRead
<1>19. ASSUME Restart PROVE Exclusive'
  BY <1>19 DEF Restart
<1>20. CASE UNCHANGED vars
  BY <1>20 DEF vars
<1> QED
  BY <1>1, <1>2, <1>3, <1>4, <1>5, <1>6, <1>7, <1>8, <1>9, <1>10, <1>11, <1>12,
     <1>13, <1>14, <1>15, <1>16, <1>17, <1>18, <1>19, <1>20 DEF Next, SignupStep

\* While a handler holds a copy no other writes the record.
LEMMA CurrentStep ==
    ASSUME MaxActive = 1, MaxCrashes = 0, IInv, IInv', Serial, [Next]_vars
    PROVE  Current'
<1>0. TypeOK /\ CopiesSound /\ TypeOK' /\ Exclusive /\ Current /\ Booked /\ Keyed
  BY DEF IInv, Serial
<1> USE <1>0, InvitesAssumption DEF Current, Exclusive, Active, OpenEditors, Sweeping, TypeOK,
    jellyfin, confirm, signup
<1>1. ASSUME NEW c \in Codes, GenerateInvite(c) PROVE Current'
  <2>1. \A inv : SoundFor(c, inv) => inv = NoInvite
    BY <1>1 DEF GenerateInvite, SoundFor, Sound, Balanced
  <2>2. /\ \A r \in Requests : pc[r] = "counting" => code[r] # c
        /\ \A e \in OpenEditors : edit[e].code # c
        /\ store[c] = NoInvite /\ sweep[c] = NoInvite
    BY <2>1, SMTT(30) DEF CopiesSound, Held, Idle
  <2> QED
    BY <1>1, <2>2 DEF GenerateInvite, Set
<1>2. ASSUME NEW c \in Codes, DeleteInvite(c) PROVE Current'
  BY <1>2, FreeIsAlone DEF DeleteInvite, Set
<1>3. ASSUME NEW c \in Codes, SweepInvite(c) PROVE Current'
  BY <1>3 DEF SweepInvite, Set
<1>4. ASSUME NEW c \in Codes, Expire(c) PROVE Current'
  BY <1>4 DEF Expire
<1>5. ASSUME NEW e \in Editors, RewriteWrite(e) PROVE Current'
  BY <1>5 DEF RewriteWrite, Set, Idle
<1>6. ASSUME NEW e \in Editors, NEW c \in Codes, RewriteRead(e, c) PROVE Current'
  BY <1>6, FreeIsAlone DEF RewriteRead
<1>7. ASSUME NEW r \in Requests, CheckInvite(r) PROVE Current'
  BY <1>7, FreeIsAlone DEF CheckInvite, Set, Goto
<1>8. ASSUME NEW r \in Requests, OpenConfirmationLink(r) PROVE Current'
  BY <1>8, FreeIsAlone DEF OpenConfirmationLink, Goto
<1>9. ASSUME NEW r \in Requests, RefuseForm(r) PROVE Current'
  BY <1>9 DEF RefuseForm, Goto
<1>10. ASSUME NEW r \in Requests, LookupKeyMap(r) PROVE Current'
  BY <1>10 DEF LookupKeyMap, Goto
<1>11. ASSUME NEW r \in Requests, StoreKeyMap(r) PROVE Current'
  BY <1>11 DEF StoreKeyMap, Goto
<1>12. ASSUME NEW r \in Requests, LoadInvite(r) PROVE Current'
  BY <1>12 DEF LoadInvite, Goto
<1>13. ASSUME NEW r \in Requests, CreateUser(r) PROVE Current'
  BY <1>13 DEF CreateUser, Goto
<1>14. ASSUME NEW r \in Requests, CreateFails(r) PROVE Current'
  BY <1>14 DEF CreateFails, Goto
<1>15. ASSUME NEW r \in Requests, CountRead(r) PROVE Current'
  BY <1>15, SMTT(30) DEF CountRead, Set, Goto
<1>16. ASSUME NEW r \in Requests, CountWrite(r) PROVE Current'
  BY <1>16, SMTT(30) DEF CountWrite, Set, Goto
<1>17. ASSUME NEW r \in Requests, AttachDetails(r) PROVE Current'
  BY <1>17 DEF AttachDetails, Goto
<1>18. ASSUME SweepRead PROVE Current'
  BY <1>18, FreeIsAlone DEF SweepRead
<1>19. ASSUME Restart PROVE Current'
  BY <1>19 DEF Restart
<1>20. CASE UNCHANGED vars
  BY <1>20 DEF vars
<1> QED
  BY <1>1, <1>2, <1>3, <1>4, <1>5, <1>6, <1>7, <1>8, <1>9, <1>10, <1>11, <1>12,
     <1>13, <1>14, <1>15, <1>16, <1>17, <1>18, <1>19, <1>20 DEF Next, SignupStep

\* No other request comes between looking a map up and storing one.
LEMMA KeyedStep ==
    ASSUME MaxActive = 1, MaxCrashes = 0, IInv, IInv', Serial, [Next]_vars
    PROVE  Keyed'
<1>0. TypeOK /\ CopiesSound /\ TypeOK' /\ Exclusive /\ Current /\ Booked /\ Keyed
  BY DEF IInv, Serial
<1> USE <1>0, InvitesAssumption DEF Keyed, AwaitedKeyIsKept, Exclusive, Active, TypeOK,
    jellyfin, confirm, signup
<1>1. ASSUME NEW c \in Codes, GenerateInvite(c) PROVE Keyed'
  BY <1>1 DEF GenerateInvite, Set
<1>2. ASSUME NEW c \in Codes, DeleteInvite(c) PROVE Keyed'
  BY <1>2, FreeIsAlone DEF DeleteInvite, Set
<1>3. ASSUME NEW c \in Codes, SweepInvite(c) PROVE Keyed'
  BY <1>3 DEF SweepInvite, Set
<1>4. ASSUME NEW c \in Codes, Expire(c) PROVE Keyed'
  BY <1>4 DEF Expire
<1>5. ASSUME NEW e \in Editors, RewriteWrite(e) PROVE Keyed'
  BY <1>5 DEF RewriteWrite, Set, Idle
<1>6. ASSUME NEW e \in Editors, NEW c \in Codes, RewriteRead(e, c) PROVE Keyed'
  BY <1>6, FreeIsAlone DEF RewriteRead
<1>7. ASSUME NEW r \in Requests, CheckInvite(r) PROVE Keyed'
  BY <1>7, FreeIsAlone DEF CheckInvite, Set, Goto
<1>8. ASSUME NEW r \in Requests, OpenConfirmationLink(r) PROVE Keyed'
  BY <1>8, FreeIsAlone DEF OpenConfirmationLink, Goto
<1>9. ASSUME NEW r \in Requests, RefuseForm(r) PROVE Keyed'
  BY <1>9 DEF RefuseForm, Goto
<1>10. ASSUME NEW r \in Requests, LookupKeyMap(r) PROVE Keyed'
  BY <1>10 DEF LookupKeyMap, Goto
<1>11. ASSUME NEW r \in Requests, StoreKeyMap(r) PROVE Keyed'
  BY <1>11 DEF StoreKeyMap, Goto
<1>12. ASSUME NEW r \in Requests, LoadInvite(r) PROVE Keyed'
  BY <1>12 DEF LoadInvite, Goto
<1>13. ASSUME NEW r \in Requests, CreateUser(r) PROVE Keyed'
  BY <1>13 DEF CreateUser, Goto
<1>14. ASSUME NEW r \in Requests, CreateFails(r) PROVE Keyed'
  BY <1>14 DEF CreateFails, Goto
<1>15. ASSUME NEW r \in Requests, CountRead(r) PROVE Keyed'
  BY <1>15 DEF CountRead, Set, Goto
<1>16. ASSUME NEW r \in Requests, CountWrite(r) PROVE Keyed'
  BY <1>16 DEF CountWrite, Set, Goto
<1>17. ASSUME NEW r \in Requests, AttachDetails(r) PROVE Keyed'
  BY <1>17 DEF AttachDetails, Goto
<1>18. ASSUME SweepRead PROVE Keyed'
  BY <1>18, FreeIsAlone DEF SweepRead
<1>19. ASSUME Restart PROVE Keyed'
  BY <1>19 DEF Restart
<1>20. CASE UNCHANGED vars
  BY <1>20 DEF vars
<1> QED
  BY <1>1, <1>2, <1>3, <1>4, <1>5, <1>6, <1>7, <1>8, <1>9, <1>10, <1>11, <1>12,
     <1>13, <1>14, <1>15, <1>16, <1>17, <1>18, <1>19, <1>20 DEF Next, SignupStep

LEMMA CountedIsFinite ==
    ASSUME TypeOK, NEW c \in Codes
    PROVE  IsFiniteSet(Counted(c)) /\ Cardinality(Counted(c)) \in Nat
<1>1. Counted(c) \subseteq Requests
  BY DEF TypeOK, Counted
<1> QED
  BY <1>1, InvitesAssumption, FS_Subset, FS_CardinalityType

\* The books stay right where no account is made or counted and no record listed
\* more or fewer accounts than before, or came back.
LEMMA BooksStay ==
    ASSUME TypeOK, Booked,
           UNCHANGED <<issued, members, code>>,
           \A r \in Requests :
               /\ pc'[r] \in {"created", "counting"} <=> pc[r] \in {"created", "counting"}
               /\ pc'[r] \in Unserved => pc[r] \in Unserved,
           \A c \in Codes : store'[c] # NoInvite =>
               store[c] # NoInvite /\ Len(store'[c].usedBy) = Len(store[c].usedBy)
    PROVE  Booked'
<1>1. \A c \in Codes : Uncounted(c)' = Uncounted(c)
  BY DEF Uncounted
<1>2. \A c \in Codes : Counted(c)' = Counted(c)
  BY <1>1 DEF Counted
<1> QED
  BY <1>2 DEF Booked

\* An account is listed by the request that made it, before another can be made.
LEMMA BookedStep ==
    ASSUME MaxActive = 1, MaxCrashes = 0, IInv, IInv', Serial, [Next]_vars
    PROVE  Booked'
<1>0. TypeOK /\ CopiesSound /\ TypeOK' /\ Exclusive /\ Current /\ Booked /\ Keyed
  BY DEF IInv, Serial
<1> USE <1>0, InvitesAssumption DEF TypeOK, jellyfin, confirm, signup
<1>1. ASSUME NEW c \in Codes, GenerateInvite(c) PROVE Booked'
  <2>1. /\ store'[c].usedBy = <<>> /\ members'[c] = {} /\ issued'[c] # Unissued
        /\ \A d \in Codes : d # c => store'[d] = store[d] /\ issued'[d] = issued[d]
        /\ UNCHANGED <<members, code, pc>>
    BY <1>1 DEF GenerateInvite, Set, Booked, Unissued
  <2>2. Counted(c)' = {} /\ \A d \in Codes : Counted(d)' = Counted(d)
    BY <2>1 DEF Counted, Uncounted
  <2>3. Len(store'[c].usedBy) = Cardinality(Counted(c)')
    BY <2>1, <2>2, FS_EmptySet
  <2> QED
    BY <2>1, <2>2, <2>3 DEF Booked
<1>2. ASSUME NEW c \in Codes, DeleteInvite(c) PROVE Booked'
  BY <1>2, BooksStay DEF DeleteInvite, Set, Unserved
<1>3. ASSUME NEW c \in Codes, SweepInvite(c) PROVE Booked'
  BY <1>3, BooksStay DEF SweepInvite, Set, Current
<1>4. ASSUME NEW c \in Codes, Expire(c) PROVE Booked'
  BY <1>4, BooksStay DEF Expire, Unserved
<1>5. ASSUME NEW e \in Editors, RewriteWrite(e) PROVE Booked'
  <2>1. edit[e].code \in Codes /\ edit[e].copy \in Invite
    BY <1>5 DEF RewriteWrite, Held, Idle
  <2>2. store[edit[e].code] = edit[e].copy
    BY <1>5 DEF RewriteWrite, Current, OpenEditors
  <2>3. \A x \in BOOLEAN : [edit[e].copy EXCEPT !.expires = x].usedBy = edit[e].copy.usedBy
    BY <2>1 DEF Invite
  <2>4. \A c \in Codes : store'[c] # NoInvite =>
            store[c] # NoInvite /\ Len(store'[c].usedBy) = Len(store[c].usedBy)
    <3>1. CASE UNCHANGED store
      BY <3>1
    <3>2. CASE \E x \in BOOLEAN : Set(edit[e].code, [edit[e].copy EXCEPT !.expires = x])
      BY <2>1, <2>2, <2>3, <3>2 DEF Set
    <3> QED
      BY <1>5, <3>1, <3>2 DEF RewriteWrite
  <2> QED
    BY <1>5, <2>4, BooksStay DEF RewriteWrite
<1>6. ASSUME NEW e \in Editors, NEW c \in Codes, RewriteRead(e, c) PROVE Booked'
  BY <1>6, BooksStay DEF RewriteRead, Unserved
<1>7. ASSUME NEW r \in Requests, CheckInvite(r) PROVE Booked'
  BY <1>7, BooksStay DEF CheckInvite, Set, Goto, Unserved
<1>8. ASSUME NEW r \in Requests, OpenConfirmationLink(r) PROVE Booked'
  BY <1>8, BooksStay DEF OpenConfirmationLink, Goto, Unserved
<1>9. ASSUME NEW r \in Requests, RefuseForm(r) PROVE Booked'
  BY <1>9, BooksStay DEF RefuseForm, Goto, Unserved
<1>10. ASSUME NEW r \in Requests, LookupKeyMap(r) PROVE Booked'
  BY <1>10, BooksStay DEF LookupKeyMap, Goto, Unserved
<1>11. ASSUME NEW r \in Requests, StoreKeyMap(r) PROVE Booked'
  BY <1>11, BooksStay DEF StoreKeyMap, Goto, Unserved
<1>12. ASSUME NEW r \in Requests, LoadInvite(r) PROVE Booked'
  BY <1>12, BooksStay DEF LoadInvite, Goto, Unserved
<1>13. ASSUME NEW r \in Requests, CreateUser(r) PROVE Booked'
  <2>1. /\ pc[r] = "loaded" /\ pc' = [pc EXCEPT ![r] = "created"]
        /\ members' = [members EXCEPT ![code[r]] = @ \union {r}]
        /\ UNCHANGED <<store, issued, code>>
    BY <1>13 DEF CreateUser, Goto
  <2>2. r \notin members[code[r]] /\ issued[code[r]] # Unissued
    BY <2>1 DEF Booked, Current, Unserved
  <2>3. \A c \in Codes : Uncounted(c)' = IF c = code[r] THEN Uncounted(c) \union {r}
                                         ELSE Uncounted(c)
    BY <2>1 DEF Uncounted
  <2>4. \A c \in Codes : Counted(c)' = Counted(c)
    BY <2>1, <2>2, <2>3 DEF Counted
  <2>5. \A q \in Requests : pc'[q] \in Unserved => q \notin members'[code[q]]
    BY <2>1 DEF Booked, Unserved
  <2>6. \A c \in Codes : issued[c] = Unissued => members'[c] = {}
    BY <2>1, <2>2 DEF Booked
  <2> QED
    BY <2>1, <2>4, <2>5, <2>6 DEF Booked
<1>14. ASSUME NEW r \in Requests, CreateFails(r) PROVE Booked'
  BY <1>14, BooksStay DEF CreateFails, Goto, Unserved
<1>15. ASSUME NEW r \in Requests, CountRead(r) PROVE Booked'
  <2>1. pc[r] = "created" /\ UNCHANGED <<issued, members, code>>
    BY <1>15 DEF CountRead
  <2>2. CASE pc' = [pc EXCEPT ![r] = "counting"] /\ UNCHANGED store
    BY <2>1, <2>2, BooksStay DEF Unserved
  <2>3. CASE pc' = [pc EXCEPT ![r] = "posting"] /\ store' = [store EXCEPT ![code[r]] = NoInvite]
    <3>1. \A c \in Codes : c # code[r] => Uncounted(c)' = Uncounted(c)
      BY <2>1, <2>3 DEF Uncounted
    <3>2. \A c \in Codes : c # code[r] => Counted(c)' = Counted(c)
      BY <2>1, <3>1 DEF Counted
    <3> QED
      BY <2>1, <2>3, <3>2 DEF Booked, Unserved
  <2>4. \/ pc' = [pc EXCEPT ![r] = "counting"] /\ UNCHANGED store
        \/ pc' = [pc EXCEPT ![r] = "posting"] /\ store' = [store EXCEPT ![code[r]] = NoInvite]
    BY <1>15 DEF CountRead, Set, Goto
  <2> QED
    BY <2>2, <2>3, <2>4
<1>16. ASSUME NEW r \in Requests, CountWrite(r) PROVE Booked'
  <2>0. PICK c \in Codes : c = code[r]
    OBVIOUS
  <2>a. /\ pc[r] = "counting" /\ pc' = [pc EXCEPT ![r] = "posting"]
        /\ store' = [store EXCEPT ![c] = UsedOnce(seen[r], r)]
        /\ UNCHANGED <<issued, members, code>>
    BY <1>16, <2>0 DEF CountWrite, Set, Goto
  <2>b. r \in members[c] /\ seen[r] # NoInvite /\ seen[r] = store[c]
    BY <2>0, <2>a DEF Current, CopiesSound
  <2>1. /\ code[r] = c /\ pc[r] = "counting" /\ pc' = [pc EXCEPT ![r] = "posting"]
        /\ r \in members[c] /\ store[c] \in Invite /\ store[c] # NoInvite
        /\ store' = [store EXCEPT ![c] = UsedOnce(store[c], r)]
        /\ UNCHANGED <<issued, members, code>>
    BY <2>0, <2>a, <2>b
  <2>2. /\ Uncounted(c)' = Uncounted(c) \ {r}
        /\ r \in Uncounted(c)
        /\ \A d \in Codes : d # c => Uncounted(d)' = Uncounted(d)
    BY <2>1 DEF Uncounted
  <2>3. /\ Counted(c)' = Counted(c) \union {r}
        /\ r \notin Counted(c)
        /\ \A d \in Codes : d # c => Counted(d)' = Counted(d)
    BY <2>1, <2>2 DEF Counted
  <2>4. Cardinality(Counted(c)') = Cardinality(Counted(c)) + 1
    <3>1. IsFiniteSet(Counted(c))
      BY CountedIsFinite
    <3>2. Cardinality(Counted(c) \union {r}) = Cardinality(Counted(c)) + 1
      BY <2>3, <3>1, FS_AddElement
    <3> QED
      BY <2>3, <3>2
  <2>5. store'[c] # NoInvite => Len(store'[c].usedBy) = Len(store[c].usedBy) + 1
    BY <2>1 DEF UsedOnce, Invite
  <2>6. store'[c] # NoInvite => Len(store'[c].usedBy) = Cardinality(Counted(c)')
    BY <2>1, <2>4, <2>5 DEF Booked
  <2>7. \A d \in Codes : d # c /\ store'[d] # NoInvite =>
            Len(store'[d].usedBy) = Cardinality(Counted(d)')
    BY <2>1, <2>3 DEF Booked
  <2>8. \A q \in Requests : pc'[q] \in Unserved => q \notin members[code[q]]
    BY <2>1 DEF Booked, Unserved
  <2>9. \A d \in Codes : issued[d] = Unissued => store'[d] = NoInvite /\ members[d] = {}
    BY <2>1 DEF Booked
  <2> QED
    BY <2>1, <2>6, <2>7, <2>8, <2>9 DEF Booked
<1>17. ASSUME NEW r \in Requests, AttachDetails(r) PROVE Booked'
  BY <1>17, BooksStay DEF AttachDetails, Goto, Unserved
<1>18. ASSUME SweepRead PROVE Booked'
  BY <1>18, BooksStay DEF SweepRead, Unserved
<1>19. ASSUME Restart PROVE Booked'
  BY <1>19 DEF Restart
<1>20. CASE UNCHANGED vars
  BY <1>20, BooksStay DEF vars
<1> QED
  BY <1>1, <1>2, <1>3, <1>4, <1>5, <1>6, <1>7, <1>8, <1>9, <1>10, <1>11, <1>12,
     <1>13, <1>14, <1>15, <1>16, <1>17, <1>18, <1>19, <1>20 DEF Next, SignupStep
-----------------------------------------------------------------------------
(* The ledger that handlers who do not overlap keep *)

\* Codes that stay open or closed, and accounts that stay, are all a ledger shows.
LEMMA LedgerStutters ==
    ASSUME UNCHANGED <<issued, members>>,
           \A c \in Codes : store'[c] = NoInvite <=> store[c] = NoInvite
    PROVE  UNCHANGED Ledger!ledger
BY DEF Ledger!ledger

LEMMA LedgerCloses ==
    ASSUME NEW c \in Codes, store \in [Codes -> Invite \union {NoInvite}],
           UNCHANGED <<issued, members>>, issued[c] # Unissued,
           store[c] # NoInvite, store' = [store EXCEPT ![c] = NoInvite]
    PROVE  Ledger!Close(c)
BY DEF Ledger!Close

\* Each step of a handler is one of the ledger or shows nothing of it.
LEMMA LedgerStep ==
    ASSUME MaxActive = 1, MaxCrashes = 0, IInv, IInv', Serial, [Next]_vars
    PROVE  [Ledger!Next]_(Ledger!ledger)
<1>0. TypeOK /\ CopiesSound /\ TypeOK' /\ Exclusive /\ Current /\ Booked
  BY DEF IInv, Serial
<1>a. \A c \in Codes : store[c] # NoInvite => issued[c] # Unissued
  BY <1>0 DEF Booked
<1>b. ASSUME NEW c \in Codes, Ledger!Close(c) PROVE Ledger!Next
  BY <1>b DEF Ledger!Next
<1> DEFINE Step == [Ledger!Next]_(Ledger!ledger)
<1> USE <1>0, InvitesAssumption DEF TypeOK, jellyfin, confirm, signup
<1>1. ASSUME NEW c \in Codes, GenerateInvite(c) PROVE Step
  <2>1. issued[c] = Unissued /\ members' = members
    BY <1>1 DEF GenerateInvite
  <2>2. PICK n \in 0..MaxUses, x \in BOOLEAN :
            /\ issued' = [issued EXCEPT ![c] = n]
            /\ store' = [store EXCEPT ![c] = [uses |-> n, usedBy |-> <<>>, expires |-> x]]
    BY <1>1 DEF GenerateInvite, Set
  <2>3. [uses |-> n, usedBy |-> <<>>, expires |-> x] # NoInvite /\ n # Unissued
    <3>1. [uses |-> n, usedBy |-> <<>>, expires |-> x] \in Invite
      BY DEF Invite
    <3> QED
      BY <3>1 DEF Unissued
  <2>4. /\ issued'[c] # Unissued /\ store'[c] # NoInvite
        /\ \A d \in Codes : d # c => issued'[d] = issued[d] /\ store'[d] = store[d]
    BY <2>2, <2>3
  <2>5. Ledger!Issue(c)
    BY <2>1, <2>2, <2>4 DEF Ledger!Issue
  <2> QED
    BY <2>5 DEF Ledger!Next
<1>2. ASSUME NEW c \in Codes, DeleteInvite(c) PROVE Step
  BY <1>2, <1>a, <1>b, LedgerCloses DEF DeleteInvite, Set
<1>3. ASSUME NEW c \in Codes, SweepInvite(c) PROVE Step
  <2>1. store[c] = sweep[c] /\ sweep[c] # NoInvite
    BY <1>3 DEF SweepInvite, Current
  <2>2. CASE Set(c, NoInvite)
    BY <1>3, <1>a, <1>b, <2>1, <2>2, LedgerCloses DEF SweepInvite, Set
  <2>3. CASE Set(c, sweep[c]) \/ UNCHANGED store
    BY <1>3, <2>1, <2>3, LedgerStutters DEF SweepInvite, Set
  <2> QED
    BY <1>3, <2>2, <2>3 DEF SweepInvite
<1>4. ASSUME NEW c \in Codes, Expire(c) PROVE Step
  BY <1>4, LedgerStutters DEF Expire
<1>5. ASSUME NEW e \in Editors, RewriteWrite(e) PROVE Step
  <2>1. edit[e].code \in Codes /\ store[edit[e].code] \in Invite
    BY <1>5 DEF RewriteWrite, Current, OpenEditors, Held, Idle
  <2>a. edit[e].copy \in Invite /\ edit[e].copy = store[edit[e].code]
    BY <1>5 DEF RewriteWrite, Current, OpenEditors, Held, Idle
  <2>b. \A x \in BOOLEAN : [edit[e].copy EXCEPT !.expires = x] \in Invite
    BY <2>a DEF Invite
  <2>2. store'[edit[e].code] # NoInvite
    <3>1. CASE UNCHANGED store
      BY <2>1, <3>1
    <3>2. CASE \E x \in BOOLEAN : Set(edit[e].code, [edit[e].copy EXCEPT !.expires = x])
      BY <2>1, <2>b, <3>2 DEF Set
    <3> QED
      BY <1>5, <3>1, <3>2 DEF RewriteWrite
  <2>3. \A c \in Codes : c # edit[e].code => store'[c] = store[c]
    BY <1>5 DEF RewriteWrite, Set
  <2> QED
    BY <1>5, <2>1, <2>2, <2>3, LedgerStutters DEF RewriteWrite
<1>6. ASSUME NEW e \in Editors, NEW c \in Codes, RewriteRead(e, c) PROVE Step
  BY <1>6, LedgerStutters DEF RewriteRead
<1>7. ASSUME NEW r \in Requests, CheckInvite(r) PROVE Step
  <2>1. CASE UNCHANGED store
    BY <1>7, <2>1, LedgerStutters DEF CheckInvite
  <2>2. CASE store[code[r]] # NoInvite /\ Set(code[r], NoInvite)
    BY <1>7, <1>a, <1>b, <2>2, LedgerCloses DEF CheckInvite, Set
  <2> QED
    BY <1>7, <2>1, <2>2 DEF CheckInvite
<1>8. ASSUME NEW r \in Requests, OpenConfirmationLink(r) PROVE Step
  BY <1>8, LedgerStutters DEF OpenConfirmationLink
<1>9. ASSUME NEW r \in Requests, RefuseForm(r) PROVE Step
  BY <1>9, LedgerStutters DEF RefuseForm
<1>10. ASSUME NEW r \in Requests, LookupKeyMap(r) PROVE Step
  BY <1>10, LedgerStutters DEF LookupKeyMap
<1>11. ASSUME NEW r \in Requests, StoreKeyMap(r) PROVE Step
  BY <1>11, LedgerStutters DEF StoreKeyMap
<1>12. ASSUME NEW r \in Requests, LoadInvite(r) PROVE Step
  BY <1>12, LedgerStutters DEF LoadInvite
<1>13. ASSUME NEW r \in Requests, CreateUser(r) PROVE Step
  <2>0. PICK c \in Codes : c = code[r]
    OBVIOUS
  <2>1. /\ pc[r] = "loaded" /\ members' = [members EXCEPT ![c] = @ \union {r}]
        /\ UNCHANGED <<store, issued>>
    BY <1>13, <2>0 DEF CreateUser
  <2>2. store[c] # NoInvite /\ issued[c] # Unissued
    BY <1>a, <2>0, <2>1 DEF Current
  <2>3. Uncounted(c) = {}
    BY <2>1, SMTT(30) DEF Uncounted, Exclusive, Active
  <2>4. Len(store[c].usedBy) = Cardinality(members[c])
    BY <2>2, <2>3, ZenonT(60) DEF Booked, Counted
  <2>5. issued[c] = 0 \/ Cardinality(members[c]) < issued[c]
    BY <2>2, <2>4, SMTT(30) DEF CopiesSound, SoundFor, Sound, Balanced, Unissued, Invite
  <2>6. Ledger!Admit(c, r)
    <3>1. Ledger!Cardinality(members[c]) = Cardinality(members[c])
      BY DEF Ledger!Cardinality, Cardinality
    <3> QED
      BY <2>1, <2>2, <2>5, <3>1 DEF Ledger!Admit
  <2> QED
    BY <2>6 DEF Ledger!Next
<1>14. ASSUME NEW r \in Requests, CreateFails(r) PROVE Step
  BY <1>14, LedgerStutters DEF CreateFails
<1>15. ASSUME NEW r \in Requests, CountRead(r) PROVE Step
  <2>1. CASE UNCHANGED store
    BY <1>15, <2>1, LedgerStutters DEF CountRead
  <2>2. CASE store[code[r]] # NoInvite /\ Set(code[r], NoInvite)
    BY <1>15, <1>a, <1>b, <2>2, LedgerCloses DEF CountRead, Set
  <2> QED
    BY <1>15, <2>1, <2>2 DEF CountRead
<1>16. ASSUME NEW r \in Requests, CountWrite(r) PROVE Step
  <2>1. /\ seen[r] = store[code[r]] /\ seen[r] \in Invite /\ seen[r] # NoInvite
        /\ store' = [store EXCEPT ![code[r]] = UsedOnce(seen[r], r)]
        /\ UNCHANGED <<issued, members>>
    BY <1>16 DEF CountWrite, Set, Current, CopiesSound
  <2>2. CASE UsedOnce(seen[r], r) = NoInvite
    BY <1>a, <1>b, <2>1, <2>2, LedgerCloses
  <2>3. CASE UsedOnce(seen[r], r) # NoInvite
    BY <2>1, <2>3, LedgerStutters
  <2> QED
    BY <2>2, <2>3
<1>17. ASSUME NEW r \in Requests, AttachDetails(r) PROVE Step
  BY <1>17, LedgerStutters DEF AttachDetails
<1>18. ASSUME SweepRead PROVE Step
  BY <1>18, LedgerStutters DEF SweepRead
<1>19. ASSUME Restart PROVE Step
  BY <1>19 DEF Restart
<1>20. CASE UNCHANGED vars
  BY <1>20, LedgerStutters DEF vars
<1> QED
  BY <1>1, <1>2, <1>3, <1>4, <1>5, <1>6, <1>7, <1>8, <1>9, <1>10, <1>11, <1>12,
     <1>13, <1>14, <1>15, <1>16, <1>17, <1>18, <1>19, <1>20 DEF Next, SignupStep
-----------------------------------------------------------------------------
(* Theorems about handlers that do not overlap *)

LEMMA SerialHolds == ASSUME MaxActive = 1, MaxCrashes = 0 PROVE Spec => []Serial
<1>1. ASSUME Init PROVE Serial
  <2>1. Exclusive
    BY <1>1 DEF Init, Exclusive, Active, OpenEditors, Sweeping, Idle
  <2>2. Current
    BY <1>1 DEF Init, Current, OpenEditors, Idle
  <2>3. Booked
    BY <1>1 DEF Init, Booked
  <2>4. Keyed
    BY <1>1 DEF Init, Keyed, AwaitedKeyIsKept
  <2> QED
    BY <2>1, <2>2, <2>3, <2>4 DEF Serial
<1>2. ASSUME IInv, IInv', Serial, [Next]_vars PROVE Serial'
  BY <1>2, ExclusiveStep, CurrentStep, BookedStep, KeyedStep DEF Serial
<1> QED
  BY <1>1, <1>2, Inductive, PTL DEF Spec

\* Handlers that do not overlap and are not cut short keep the books: between
\* requests a stored invite lists as many uses as accounts were made through it, and
\* whoever waits for a mail has a key to confirm with (api-invites.go, checkInvite;
\* api-users.go and views.go, the two ends of a confirmation).
THEOREM BooksAreSound == ASSUME MaxActive = 1, MaxCrashes = 0 PROVE Spec => []SoundBooks
<1>1. ASSUME Serial PROVE LedgerExact
  <2>1. ASSUME Active = {}, NEW c \in Codes PROVE Counted(c) = members[c]
    BY <2>1 DEF Counted, Uncounted, Active
  <2> QED
    BY <1>1, <2>1 DEF Serial, Booked, LedgerExact
<1>2. Serial => SoundBooks
  BY <1>1 DEF Serial, Keyed, SoundBooks
<1> QED
  BY <1>2, SerialHolds, PTL

\* Such handlers implement the abstract ledger: a code is issued once, admits no more
\* accounts than its quota, and admits nobody once it is closed.
THEOREM LedgerImplemented ==
    ASSUME MaxActive = 1, MaxCrashes = 0 PROVE Spec => ImplementsLedger
<1>1. Init => Ledger!Init
  BY DEF Init, Ledger!Init, Unissued
<1>2. ASSUME IInv, IInv', Serial, [Next]_vars PROVE [Ledger!Next]_(Ledger!ledger)
  BY <1>2, LedgerStep
<1> QED
  BY <1>1, <1>2, Inductive, SerialHolds, PTL DEF Spec, ImplementsLedger, Ledger!Spec
=============================================================================
