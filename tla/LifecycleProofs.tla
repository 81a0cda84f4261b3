--------------------------- MODULE LifecycleProofs ---------------------------
(***************************************************************************)
(* Theorems about the program with the loading of translations at each     *)
(* start: first about its instances (Lifecycle), then about what is loaded *)
(* (Languages).                                                            *)
(***************************************************************************)
EXTENDS Startup, SequenceTheorems, WellFoundedInduction, TLAPS

\* Why instances are apart: once the server has been closed no request is open, none is
\* taken before the next instance serves, and the daemons that come later in Order than
\* the one being shut down are gone already.
Drained ==
    /\ main \in {"loading", "stopping", "ended"} => \A r \in Requests : request[r] = "none"
    /\ main = "stopping" => \A n \in DOMAIN Order : n > stopping => daemon[Order[n]] = "gone"

IInv == TypeOK /\ Drained

-----------------------------------------------------------------------------
(* Types *)

LEMMA SendIsTyped ==
    ASSUME TypeOK, NEW received \in [Listeners -> Nat], Send(received)
    PROVE  message' \in BOOLEAN /\ parked' \in Seq(Listeners) /\ got' \in [Listeners -> Nat]
<1>1. CASE parked # <<>> /\ parked' = Tail(parked) /\ UNCHANGED message
              /\ got' = [received EXCEPT ![Head(parked)] = @ + 1]
  <2>1. Head(parked) \in Listeners /\ Tail(parked) \in Seq(Listeners)
    BY <1>1, HeadTailProperties DEF TypeOK
  <2> QED
    BY <1>1, <2>1 DEF TypeOK
<1>2. CASE message' = TRUE /\ got' = received /\ UNCHANGED parked
  BY <1>2 DEF TypeOK
<1> QED
  BY <1>1, <1>2 DEF Send

LEMMA TypeStep == ASSUME TypeOK, [StartNext]_startVars PROVE TypeOK'
<1> USE LifecycleAssumption DEF TypeOK, jobs, channel
<1>1. ASSUME Load PROVE TypeOK'
  BY <1>1 DEF Load
<1>2. ASSUME NEW d \in Daemons, TakeTimer(d) \/ FinishJobs(d) PROVE TypeOK'
  BY <1>2 DEF TakeTimer, FinishJobs
<1>3. ASSUME NEW d \in Daemons, NEW r \in Requests, TakeTrigger(d, r) PROVE TypeOK'
  <2>1. request' \in [Requests -> {"none", "trigger", "send", "sleep"}]
    BY <1>3 DEF TakeTrigger
  <2>2. daemon' \in [Daemons -> {"select", "jobs", "answer", "gone"}]
    BY <1>3 DEF TakeTrigger
  <2>3. \A q \in Requests : IF request'[q] = "trigger" THEN target'[q] \in Daemons
                                                        ELSE target'[q] = None
    BY <1>3 DEF TakeTrigger
  <2>4. target' \in [Requests -> Daemons \cup {None}]
    BY <1>3 DEF TakeTrigger
  <2> QED
    BY <1>3, <2>1, <2>2, <2>3, <2>4 DEF TakeTrigger
<1>4. ASSUME NEW d \in Daemons, NEW r \in Requests, TriggerTask(r, d) PROVE TypeOK'
  <2>1. request' \in [Requests -> {"none", "trigger", "send", "sleep"}]
    BY <1>4 DEF TriggerTask
  <2>2. \A q \in Requests : IF request'[q] = "trigger" THEN target'[q] \in Daemons
                                                        ELSE target'[q] = None
    BY <1>4 DEF TriggerTask
  <2>3. target' \in [Requests -> Daemons \cup {None}]
    BY <1>4 DEF TriggerTask
  <2> QED
    BY <1>4, <2>1, <2>2, <2>3 DEF TriggerTask
<1>5. ASSUME NEW r \in Requests, AskRestart(r) PROVE TypeOK'
  BY <1>5 DEF AskRestart
<1>6. ASSUME NEW r \in Requests, SendRestart(r) PROVE TypeOK'
  BY <1>6, SendIsTyped DEF SendRestart
<1>7. ASSUME NEW r \in Requests, EndRestart(r) PROVE TypeOK'
  BY <1>7 DEF EndRestart
<1>8. ASSUME Interrupt PROVE TypeOK'
  BY <1>8 DEF Interrupt
<1>9. ASSUME SendQuit PROVE TypeOK'
  BY <1>9, SendIsTyped DEF SendQuit
<1>10. ASSUME NEW l \in Listeners, Listen(l) PROVE TypeOK'
  <2>1. Append(parked, l) \in Seq(Listeners)
    BY AppendProperties
  <2>2. parked' \in Seq(Listeners) /\ message' \in BOOLEAN
    BY <1>10, <2>1 DEF Listen
  <2>4. got' \in [Listeners -> Nat]
    <3>1. [got EXCEPT ![l] = @ + 1] \in [Listeners -> Nat]
      OBVIOUS
    <3> QED
      BY <1>10, <3>1 DEF Listen
  <2>3. main' \in {"starting", "up", main} /\ starting' \in Nat /\ count' \in Int
    BY <1>10 DEF Listen
  <2> QED
    BY <1>10, <2>2, <2>3, <2>4 DEF Listen
<1>11. ASSUME NEW l \in Listeners, Relay(l) PROVE TypeOK'
  <2>1. [got EXCEPT ![l] = @ - 1] \in [Listeners -> Nat]
    BY <1>11 DEF Relay
  <2>2. message' \in BOOLEAN /\ parked' \in Seq(Listeners) /\ got' \in [Listeners -> Nat]
    BY <1>11, <2>1, SendIsTyped DEF Relay
  <2> QED
    BY <1>11, <2>2 DEF Relay
<1>12. ASSUME CloseServer PROVE TypeOK'
  <2>1. Len(Order) \in Nat
    BY LenProperties
  <2> QED
    BY <1>12, <2>1 DEF CloseServer
<1>13. ASSUME GiveUpOnRequests PROVE TypeOK'
  BY <1>13 DEF GiveUpOnRequests
<1>14. ASSUME TellStop \/ AnswerStop PROVE TypeOK'
  <2>1. Len(Order) \in Nat
    BY LenProperties
  <2> QED
    BY <1>14, <2>1 DEF TellStop, AnswerStop
<1>15. ASSUME Return PROVE TypeOK'
  BY <1>15 DEF Return
<1>16. CASE UNCHANGED vars
  BY <1>16 DEF vars
<1> QED
  BY <1>1, <1>2, <1>3, <1>4, <1>5, <1>6, <1>7, <1>8, <1>9, <1>10, <1>11, <1>12, <1>13,
     <1>14, <1>15, <1>16 DEF StartNext, GoOn, Next, Run, Main, startVars

-----------------------------------------------------------------------------
(* Instances *)

LEMMA DrainedStep == ASSUME TypeOK, Drained, [StartNext]_startVars PROVE Drained'
<1> USE LifecycleAssumption DEF Drained, jobs, channel
<1>0. stopping \in 0..Len(Order) /\ Len(Order) \in Nat /\ DOMAIN Order = 1..Len(Order)
      /\ daemon \in [Daemons -> {"select", "jobs", "answer", "gone"}]
      /\ request \in [Requests -> {"none", "trigger", "send", "sleep"}]
      /\ \A n \in DOMAIN Order : Order[n] \in Daemons
  BY LenProperties DEF TypeOK, Daemons
<1>1. ASSUME Load PROVE Drained'
  BY <1>1 DEF Load
<1>2. ASSUME NEW d \in Daemons, TakeTimer(d) \/ FinishJobs(d) PROVE Drained'
  BY <1>0, <1>2 DEF TakeTimer, FinishJobs
<1>3. ASSUME NEW d \in Daemons, NEW r \in Requests, TakeTrigger(d, r) PROVE Drained'
  BY <1>0, <1>3 DEF TakeTrigger
<1>4. ASSUME NEW d \in Daemons, NEW r \in Requests, TriggerTask(r, d) PROVE Drained'
  BY <1>0, <1>4 DEF TriggerTask, Serving
<1>5. ASSUME NEW r \in Requests, AskRestart(r) PROVE Drained'
  BY <1>0, <1>5 DEF AskRestart, Serving
<1>6. ASSUME NEW r \in Requests, SendRestart(r) \/ EndRestart(r) PROVE Drained'
  BY <1>0, <1>6 DEF SendRestart, EndRestart
<1>7. ASSUME Interrupt \/ SendQuit \/ GiveUpOnRequests PROVE Drained'
  BY <1>7 DEF Interrupt, SendQuit, GiveUpOnRequests
<1>8. ASSUME NEW l \in Listeners, Listen(l) \/ Relay(l) PROVE Drained'
  BY <1>8 DEF Listen, Relay
<1>9. ASSUME CloseServer PROVE Drained'
  BY <1>0, <1>9 DEF CloseServer
<1>10. ASSUME TellStop \/ AnswerStop PROVE Drained'
  BY <1>0, <1>10 DEF TellStop, AnswerStop
<1>11. ASSUME Return PROVE Drained'
  BY <1>0, <1>11 DEF Return
<1>12. CASE UNCHANGED vars
  BY <1>12 DEF vars
<1> QED
  BY <1>1, <1>2, <1>3, <1>4, <1>5, <1>6, <1>7, <1>8, <1>9, <1>10, <1>11, <1>12
     DEF StartNext, GoOn, Next, Run, Main, startVars

LEMMA Inductive == Spec => []IInv
<1>1. StartInit => IInv
  <2>1. <<>> \in Seq(Listeners)
    BY EmptySeq
  <2>2. Len(Order) \in Nat
    BY LifecycleAssumption, LenProperties
  <2>3. StartInit => 0 \in 0..Len(Order) /\ 1 \in 1..MaxInstances /\ starting \in Nat
    BY <2>2, LifecycleAssumption DEF StartInit, Init
  <2>4. Init => [l \in Listeners |-> 0] \in [Listeners -> Nat]
    OBVIOUS
  <2>5. ASSUME StartInit PROVE TypeOK
    <3>1. /\ daemon \in [Daemons -> {"select", "jobs", "answer", "gone"}]
          /\ request \in [Requests -> {"none", "trigger", "send", "sleep"}]
          /\ target \in [Requests -> Daemons \cup {None}]
          /\ \A r \in Requests : request[r] # "trigger" /\ target[r] = None
      BY <2>5 DEF StartInit, Init
    <3>2. stopping \in 0..Len(Order) /\ instance \in 1..MaxInstances /\ starting \in Nat
      BY <2>3, <2>5 DEF StartInit, Init
    <3>3. main = "loading" /\ message = FALSE /\ count = 0 /\ QUIT = FALSE /\ signal = "none"
      BY <2>5 DEF StartInit, Init
    <3>5. parked \in Seq(Listeners)
      BY <2>1, <2>5 DEF StartInit, Init
    <3>4. got \in [Listeners -> Nat]
      BY <2>4, <2>5 DEF StartInit, Init
    <3>6. message \in BOOLEAN /\ QUIT \in BOOLEAN
      BY <3>3, Zenon
    <3>7. \A r \in Requests : IF request[r] = "trigger" THEN target[r] \in Daemons
                                                        ELSE target[r] = None
      BY <3>1
    <3> QED
      BY <3>1, <3>2, <3>3, <3>4, <3>5, <3>6, <3>7 DEF TypeOK
  <2>6. StartInit => Drained
    BY DEF StartInit, Init, Drained
  <2> QED
    BY <2>5, <2>6 DEF IInv
<1>2. IInv /\ [StartNext]_startVars => IInv'
  BY TypeStep, DrainedStep DEF IInv
<1> QED
  BY <1>1, <1>2, PTL DEF Spec

\* Every reachable state is well typed: whatever is sent, relayed and received, no more
\* is taken from RESTART than was sent to it (restart.go, main.go).
THEOREM TypeCorrect == Spec => []TypeOK
<1>1. IInv => TypeOK
  BY DEF IInv
<1> QED
  BY <1>1, Inductive, PTL

\* For any daemons and requests, no job and no request of an instance is left when the
\* next one starts or the program ends (main.go:760-800, generic-d.go Shutdown).
THEOREM InstancesDoNotOverlap == Spec => InstancesAreApart
<1> DEFINE Apart == (instance' # instance \/ main' = "ended") =>
                       /\ \A d \in Daemons : daemon[d] = "gone"
                       /\ \A r \in Requests : request[r] = "none"
<1>1. ASSUME IInv, [StartNext]_startVars PROVE [Apart]_vars
  <2> USE DEF jobs, channel
  <2>1. ASSUME Return PROVE Apart
    <3>1. \A n \in DOMAIN Order : n > 0
      BY LifecycleAssumption, LenProperties
    <3> QED
      BY <1>1, <2>1, <3>1 DEF IInv, Drained, Return, Daemons
  <2>2. ASSUME Next, ~Return PROVE instance' = instance /\ main' # "ended"
    BY <2>2, <1>1 DEF Next, Exited, Run, Main, TakeTimer, FinishJobs, TakeTrigger, TriggerTask,
       AskRestart, SendRestart, EndRestart, Interrupt, SendQuit, Listen, Relay, CloseServer,
       GiveUpOnRequests, TellStop, AnswerStop
  <2>3. ASSUME Load PROVE instance' = instance /\ main' # "ended"
    BY <2>3 DEF Load
  <2> QED
    BY <1>1, <2>1, <2>2, <2>3 DEF StartNext, GoOn, startVars
<1> QED
  BY <1>1, Inductive, PTL DEF Spec, InstancesAreApart

-----------------------------------------------------------------------------
(* Translations: what is being loaded *)

Falls(l) == File(l).fallback
Now == Directories[place.dir]
Others == {l \in Langs \ {English} : Loaded(Section, l)}

LangTyped ==
    /\ files \in FileSets
    /\ lang \in [AllSections -> [Langs -> Text \cup {NotLoaded}]]
    /\ at \in {"english", "files", "loaded", "failed", "overflow"}
    /\ at \in {"english", "files"} =>
          place \in [section : DOMAIN Sections, dir : DOMAIN Directories]
    /\ loadedLangs \subseteq Langs
    /\ stack \in Seq(Langs)
    /\ at = "english" => stack = <<>>
    \* Languages are put on the stack each as the fallback of the one below it.
    /\ at = "files" =>
          /\ Loaded(Section, English) /\ english = lang[Section][English] /\ English \in loadedLangs
          /\ \A i \in DOMAIN stack : /\ stack[i] # English /\ File(stack[i]) # NoFile
                                     /\ i > 1 => Falls(stack[i]) = stack[i - 1]

Loading == LangTyped /\ at \in {"english", "files"}

LEMMA Places ==
    ASSUME Loading
    PROVE  /\ place.section \in DOMAIN Sections /\ place.dir \in DOMAIN Directories
           /\ Section \in AllSections /\ Now \in AllDirectories
           /\ \A l \in Langs : File(l) \in LangFile \cup {NoFile}
<1>1. place.section \in DOMAIN Sections /\ place.dir \in DOMAIN Directories
  BY DEF Loading, LangTyped
<1>2. Section \in AllSections /\ Now \in AllDirectories
  BY <1>1 DEF Section, Now, AllSections, AllDirectories
<1>3. files \in [AllSections -> [AllDirectories -> [Langs -> LangFile \cup {NoFile}]]]
  BY LanguagesAssumption DEF Loading, LangTyped
<1>4. \A l \in Langs : files[Section][Now][l] \in LangFile \cup {NoFile}
  BY <1>2, <1>3
<1> QED
  BY <1>1, <1>2, <1>4 DEF File, Now

LEMMA Domains ==
    /\ DOMAIN Sections = 1..Len(Sections) /\ Len(Sections) \in Nat \ {0}
    /\ DOMAIN Directories = 1..Len(Directories) /\ Len(Directories) \in Nat \ {0}
<1>1. ASSUME NEW seq, Distinct(seq) PROVE DOMAIN seq = 1..Len(seq) /\ Len(seq) \in Nat \ {0}
  <2>1. PICK S : seq \in Seq(S)
    BY <1>1 DEF Distinct
  <2>2. DOMAIN seq = 1..Len(seq) /\ Len(seq) \in Nat
    BY <2>1, LenProperties
  <2>3. Len(seq) # 0
    BY <1>1, <2>1, EmptySeq DEF Distinct
  <2> QED
    BY <2>2, <2>3
<1> QED
  BY <1>1, LanguagesAssumption

LEMMA SourcesAreEarlier ==
    ASSUME NEW i \in DOMAIN Sections, NEW k \in DOMAIN Sources(Sections[i])
    PROVE  /\ DOMAIN Sources(Sections[i]) \subseteq Nat
           /\ \E j \in DOMAIN Sections : j < i /\ Sources(Sections[i])[k] = Sections[j]
<1> DEFINE S == {Sections[j] : j \in 1..(i - 1)}
           seq == Sources(Sections[i])
<1>1. seq \in Seq(S)
  BY LanguagesAssumption
<1>2. DOMAIN seq = 1..Len(seq) /\ Len(seq) \in Nat /\ seq \in [1..Len(seq) -> S]
  BY <1>1, LenProperties
<1>3. seq[k] \in S
  BY <1>2
<1>4. PICK j \in 1..(i - 1) : seq[k] = Sections[j]
  BY <1>3
<1>5. j \in DOMAIN Sections /\ j < i
  BY <1>4, Domains
<1> QED
  BY <1>2, <1>4, <1>5

\* A set of numbers has a least one.
Less == {ss \in Nat \X Nat : ss[1] < ss[2]}
LEMMA LessIsWellFounded == IsWellFoundedOn(Less, Nat)
BY NatLessThanWellFounded DEF OpToRel, Less
LEMMA LeastOf == ASSUME NEW S \in SUBSET Nat, S # {} PROVE \E x \in S : \A y \in S : x <= y
<1>1. PICK x \in S : \A y \in S : <<y, x>> \notin Less
  BY LessIsWellFounded, WFMin
<1>2. \A y \in Nat : y < x => <<y, x>> \in Less
  BY DEF Less
<1>3. \A y \in S : ~(y < x)
  BY <1>1, <1>2, Zenon
<1>4. \A y \in S : x <= y
  BY <1>3
<1> QED
  BY <1>4

\* A string is taken from a section loaded before that has it, if there is one.
LEMMA FromSourcesHas ==
    ASSUME Loading, NEW l \in Langs, NEW n \in Names
    PROVE  /\ FromSources(l, n) \in String
           /\ Before(Section, l, n) = {} => FromSources(l, n) = Empty
           /\ Before(Section, l, n) # {} =>
                 \E i \in Before(Section, l, n) : 
                    /\ FromSources(l, n) = lang[Sources(Section)[i]][l].strings[n]
                    /\ FromSources(l, n) # Empty
<1>0. place.section \in DOMAIN Sections
  BY Places
<1>1. CASE Before(Section, l, n) = {}
  BY <1>1 DEF FromSources, String
<1>2. CASE Before(Section, l, n) # {}
  <2> DEFINE i == CHOOSE k \in Before(Section, l, n) : \A j \in Before(Section, l, n) : k <= j
  <2>1. Before(Section, l, n) \in SUBSET Nat
    BY <1>0, SourcesAreEarlier DEF Section, Before
  <2>2. i \in Before(Section, l, n)
    BY <1>2, <2>1, LeastOf
  <2>3. Sources(Section)[i] \in AllSections
    BY <1>0, <2>2, SourcesAreEarlier DEF Section, Before, AllSections
  <2> HIDE DEF i
  <2>6. lang[Sources(Section)[i]][l] \in Text \cup {NotLoaded}
    BY <2>3 DEF Loading, LangTyped
  <2>7. lang[Sources(Section)[i]][l] # NotLoaded
    BY <2>2 DEF Before, Loaded
  <2>4. lang[Sources(Section)[i]][l] \in Text
    BY <2>6, <2>7
  <2>5. FromSources(l, n) = lang[Sources(Section)[i]][l].strings[n]
    BY <1>2 DEF FromSources, i
  <2> QED
    BY <1>2, <2>2, <2>4, <2>5 DEF Text, Before
<1> QED
  BY <1>1, <1>2

LEMMA OriginIsString ==
    ASSUME Loading, NEW l \in Langs
    PROVE  Origin(l) \in String /\ Origin(l) # Empty
BY Places, LanguagesAssumption DEF Origin, String, Now

\* What is read from a file.
LEMMA FileIsText ==
    ASSUME Loading, NEW l \in Langs, File(l) # NoFile
    PROVE  /\ Unmarshal(l) \in Text /\ Unmarshal(l).dir = Now
           /\ \A n \in Names : Unmarshal(l).strings[n] = IF n \in File(l).strings THEN Origin(l)
                                                        ELSE FromSources(l, n)
           /\ \A n \in Plurals :
                 LET entry == Unmarshal(l).plurals[n]
                 IN  /\ entry \in [known : BOOLEAN, singular : String, plural : String]
                     /\ entry.singular # Empty \/ entry.plural # Empty => entry.known
                     /\ entry.known => n \in DOMAIN File(l).plurals
                     /\ entry.known /\ File(l).plurals[n] # {} =>
                           entry.singular # Empty \/ entry.plural # Empty
<1>0. File(l) \in LangFile /\ Now \in AllDirectories
  BY Places
<1>1. /\ \A n \in Names : FromSources(l, n) \in String
      /\ Origin(l) \in String /\ Origin(l) # Empty /\ Empty \in String
  BY FromSourcesHas, OriginIsString DEF String
<1> DEFINE forms(n) == File(l).plurals[n]
           one(n) == IF n \in DOMAIN File(l).plurals /\ "singular" \in forms(n)
                     THEN Origin(l) ELSE Empty
           many(n) == IF n \in DOMAIN File(l).plurals /\ "plural" \in forms(n)
                      THEN Origin(l) ELSE Empty
           str == [n \in Names |-> IF n \in File(l).strings THEN Origin(l) ELSE FromSources(l, n)]
           plu == [n \in Plurals |-> [known |-> n \in DOMAIN File(l).plurals,
                                      singular |-> one(n), plural |-> many(n)]]
<1>2. Unmarshal(l) = [dir |-> Now, strings |-> str, plurals |-> plu]
  BY DEF Unmarshal, Now
<1>3. \A n \in Plurals : one(n) \in String /\ many(n) \in String
  BY <1>1
<1>4. str \in [Names -> String]
  BY <1>1
<1>5. plu \in [Plurals -> [known : BOOLEAN, singular : String, plural : String]]
  BY <1>3
<1>6. \A n \in DOMAIN File(l).plurals : File(l).plurals[n] \subseteq {"singular", "plural"}
  BY <1>0 DEF LangFile
<1>7. Unmarshal(l) \in Text
  BY <1>0, <1>2, <1>4, <1>5 DEF Text
<1>8. ASSUME NEW n \in Plurals
      PROVE  LET entry == Unmarshal(l).plurals[n]
             IN  /\ entry \in [known : BOOLEAN, singular : String, plural : String]
                 /\ entry.singular # Empty \/ entry.plural # Empty => entry.known
                 /\ entry.known => n \in DOMAIN File(l).plurals
                 /\ entry.known /\ File(l).plurals[n] # {} =>
                       entry.singular # Empty \/ entry.plural # Empty
  <2>1. Unmarshal(l).plurals[n] = [known |-> n \in DOMAIN File(l).plurals,
                                   singular |-> one(n), plural |-> many(n)]
    BY <1>2
  <2> DEFINE entry == Unmarshal(l).plurals[n]
  <2>2. entry.known = (n \in DOMAIN File(l).plurals) /\ entry.known \in BOOLEAN
        /\ entry.singular = one(n) /\ entry.plural = many(n)
    BY <2>1
  <2>3. entry \in [known : BOOLEAN, singular : String, plural : String]
    BY <1>3, <2>1
  <2>4. entry.singular # Empty \/ entry.plural # Empty => entry.known
    BY <2>2
  <2>5. ASSUME entry.known, File(l).plurals[n] # {}
        PROVE  entry.singular # Empty \/ entry.plural # Empty
    <3>1. "singular" \in File(l).plurals[n] \/ "plural" \in File(l).plurals[n]
      BY <1>6, <2>2, <2>5
    <3> QED
      BY <1>1, <2>2, <2>5, <3>1
  <2> HIDE DEF entry
  <2> QED
    BY <2>2, <2>3, <2>4, <2>5 DEF entry
<1>9. \A n \in Names : Unmarshal(l).strings[n] = IF n \in File(l).strings THEN Origin(l)
                                                ELSE FromSources(l, n)
  BY <1>2
<1>10. Unmarshal(l).dir = Now
  BY <1>2
<1> HIDE DEF str, plu, one, many
<1> QED
  BY <1>7, <1>8, <1>9, <1>10

\* What a language is once it is patched from its fallback.
LEMMA PatchedIs ==
    ASSUME Loading, NEW l \in Langs, NEW g \in Langs, File(l) # NoFile,
           lang[Section][g] \in Text, english \in Text
    PROVE  /\ Patched(l, g) \in Text /\ Patched(l, g).dir = Now
           /\ \A n \in Names :
                 Patched(l, g).strings[n] =
                    IF english.strings[n] # Empty /\ Unmarshal(l).strings[n] = Empty
                    THEN lang[Section][g].strings[n] ELSE Unmarshal(l).strings[n]
           /\ \A n \in Plurals :
                 Patched(l, g).plurals[n] =
                    IF english.plurals[n].known
                    THEN PatchEntry(Unmarshal(l).plurals[n], lang[Section][g].plurals[n])
                    ELSE Unmarshal(l).plurals[n]
<1> DEFINE own == Unmarshal(l)
           other == lang[Section][g]
           Entry == [known : BOOLEAN, singular : String, plural : String]
<1>1. own \in Text /\ own.dir = Now
  BY FileIsText
<1> HIDE DEF own
<1>2. Patched(l, g) = [own EXCEPT !.strings = patchLang(own.strings, other.strings),
                                  !.plurals = patchQuantityStrings(own.plurals, other.plurals)]
  BY <1>1 DEF Patched, own, Text
<1>3. /\ own.strings \in [Names -> String] /\ other.strings \in [Names -> String]
      /\ own.plurals \in [Plurals -> Entry] /\ other.plurals \in [Plurals -> Entry]
      /\ own.dir \in AllDirectories
  BY <1>1 DEF Text
<1>4. patchLang(own.strings, other.strings) \in [Names -> String]
  BY <1>3 DEF patchLang
<1>5. ASSUME NEW a \in Entry, NEW b \in Entry PROVE PatchEntry(a, b) \in Entry
  BY DEF PatchEntry
<1>6. patchQuantityStrings(own.plurals, other.plurals) \in [Plurals -> Entry]
  BY <1>3, <1>5 DEF patchQuantityStrings
<1>7. /\ Patched(l, g).dir = own.dir
      /\ Patched(l, g).strings = patchLang(own.strings, other.strings)
      /\ Patched(l, g).plurals = patchQuantityStrings(own.plurals, other.plurals)
      /\ Patched(l, g) = [dir |-> own.dir,
                          strings |-> patchLang(own.strings, other.strings),
                          plurals |-> patchQuantityStrings(own.plurals, other.plurals)]
  BY <1>1, <1>2 DEF Text
<1>8. Patched(l, g) \in Text
  BY <1>3, <1>4, <1>6, <1>7 DEF Text
<1>9. \A n \in Names : patchLang(own.strings, other.strings)[n] =
          IF english.strings[n] # Empty /\ own.strings[n] = Empty
          THEN other.strings[n] ELSE own.strings[n]
  BY DEF patchLang
<1>10. \A n \in Plurals : patchQuantityStrings(own.plurals, other.plurals)[n] =
          IF english.plurals[n].known THEN PatchEntry(own.plurals[n], other.plurals[n])
          ELSE own.plurals[n]
  BY DEF patchQuantityStrings
<1> QED
  BY <1>1, <1>7, <1>8, <1>9, <1>10 DEF own

-----------------------------------------------------------------------------
(* Translations: the types *)

\* English has a text as soon as the other files are loaded.
LEMMA EnglishIsText ==
    ASSUME Loading, at = "files" PROVE lang[Section][English] \in Text /\ english \in Text
<1>1. Section \in AllSections /\ English \in Langs
  BY Places, LanguagesAssumption
<1>2. lang[Section][English] \in Text \cup {NotLoaded}
  BY <1>1 DEF Loading, LangTyped
<1>3. Loaded(Section, English) /\ english = lang[Section][English]
  BY DEF Loading, LangTyped
<1> QED
  BY <1>2, <1>3 DEF Loaded

\* The languages on the stack.
LEMMA Stacked ==
    ASSUME Loading, at = "files", stack # <<>>
    PROVE  /\ DOMAIN stack = 1..Len(stack) /\ Len(stack) \in Nat \ {0}
           /\ Top = stack[1] /\ Top \in Langs \ {English} /\ File(Top) # NoFile
           /\ File(Top) \in LangFile /\ Fallback \in Langs \cup {NoLang} /\ Fallback = Falls(Top)
           /\ Tail(stack) \in Seq(Langs) /\ DOMAIN Tail(stack) = 1..(Len(stack) - 1)
           /\ \A i \in DOMAIN Tail(stack) : i + 1 \in DOMAIN stack /\ Tail(stack)[i] = stack[i + 1]
<1>1. stack \in Seq(Langs)
  BY DEF Loading, LangTyped
<1>2. DOMAIN stack = 1..Len(stack) /\ Len(stack) \in Nat /\ stack \in [1..Len(stack) -> Langs]
  BY <1>1, LenProperties
<1>3. Len(stack) # 0
  BY <1>1, EmptySeq
<1>4. Top = stack[1] /\ 1 \in DOMAIN stack
  BY <1>2, <1>3 DEF Top
<1>5. Top \in Langs \ {English} /\ File(Top) # NoFile
  BY <1>2, <1>4 DEF Loading, LangTyped
<1>6. File(Top) \in LangFile
  BY <1>5, Places
<1>7. Fallback \in Langs \cup {NoLang} /\ Fallback = Falls(Top)
  BY <1>6 DEF Fallback, Falls, LangFile
<1>8. /\ Tail(stack) \in Seq(Langs) /\ Len(Tail(stack)) = Len(stack) - 1
      /\ \A i \in 1..Len(Tail(stack)) : Tail(stack)[i] = stack[i + 1]
  BY <1>1, HeadTailProperties
<1>9. DOMAIN Tail(stack) = 1..(Len(stack) - 1)
  BY <1>8, LenProperties
<1> QED
  BY <1>2, <1>3, <1>4, <1>5, <1>6, <1>7, <1>8, <1>9

LEMMA LoadEnglishTyped == LangTyped /\ LoadEnglish => LangTyped'
<1> SUFFICES ASSUME LangTyped, LoadEnglish PROVE LangTyped'
  OBVIOUS
<1>1. Loading /\ at = "english" /\ stack = <<>>
  BY DEF Loading, LoadEnglish, LangTyped
<1>2. /\ place \in [section : DOMAIN Sections, dir : DOMAIN Directories]
      /\ Section \in AllSections /\ English \in Langs
  BY <1>1, Places, LanguagesAssumption DEF LangTyped
<1>3. lang' \in [AllSections -> [Langs -> Text \cup {NotLoaded}]]
  <2>1. CASE File(English) = NoFile
    BY <2>1 DEF LoadEnglish, LangTyped
  <2>2. CASE File(English) # NoFile
    <3>1. Unmarshal(English) \in Text
      BY <1>1, <1>2, <2>2, FileIsText
    <3> QED
      BY <1>2, <2>2, <3>1 DEF LoadEnglish, LangTyped
  <2> QED
    BY <2>1, <2>2
<1>4. UNCHANGED <<files, stack>> /\ stack' = <<>> /\ stack' \in Seq(Langs)
  BY <1>1 DEF LoadEnglish, LangTyped
<1>5. CASE ~LastDirectory
  <2>1. NextDirectory /\ UNCHANGED <<english, at>>
    BY <1>5 DEF LoadEnglish
  <2>2. place' \in [section : DOMAIN Sections, dir : DOMAIN Directories]
    BY <1>2, <1>5, <2>1, Domains DEF NextDirectory, LastDirectory
  <2> QED
    BY <1>1, <1>2, <1>3, <1>4, <2>1, <2>2 DEF LangTyped, NextDirectory
<1>6. CASE LastDirectory /\ lang'[Section][English] = NotLoaded
  BY <1>1, <1>3, <1>4, <1>6 DEF LangTyped, LoadEnglish
<1>7. CASE LastDirectory /\ lang'[Section][English] # NotLoaded
  <2>1. /\ english' = lang'[Section][English] /\ at' = "files"
        /\ place' = First(place.section) /\ loadedLangs' = {English}
    BY <1>7 DEF LoadEnglish
  <2>2. place' \in [section : DOMAIN Sections, dir : DOMAIN Directories] /\ Section' = Section
    BY <1>2, <2>1, Domains DEF First, Section
  <2>3. DOMAIN stack' = {}
    BY <1>4
  <2> QED
    BY <1>2, <1>3, <1>4, <1>7, <2>1, <2>2, <2>3 DEF LangTyped, Loaded
<1> QED
  BY <1>5, <1>6, <1>7

LEMMA LoadFileTyped == LangTyped /\ LoadFile => LangTyped'
<1> SUFFICES ASSUME LangTyped, LoadFile PROVE LangTyped'
  OBVIOUS
<1>1. PICK l \in Remaining : stack' = <<l>>
  BY DEF LoadFile
<1>2. UNCHANGED <<files, lang, english, at, place, loadedLangs>> /\ at = "files"
  BY DEF LoadFile
<1>3. Section' = Section /\ \A k : File(k)' = File(k)
  BY <1>2 DEF Section, File
<1>4. l \in Langs /\ l # English /\ File(l) # NoFile
  BY <1>1, <1>2 DEF Remaining, LangTyped
<1>5. stack' \in Seq(Langs) /\ DOMAIN stack' = {1} /\ stack'[1] = l
  BY <1>1, <1>4
<1>6. \A i \in DOMAIN stack' : stack'[i] # English /\ File(stack'[i]) # NoFile /\ ~(i > 1)
  BY <1>4, <1>5
<1> QED
  BY <1>2, <1>3, <1>5, <1>6 DEF LangTyped, Loaded

LEMMA BeginSectionTyped ==
    ASSUME NEW s \in Nat \ {0}, BeginSection(s), files' \in FileSets,
           (lang \in [AllSections -> [Langs -> Text \cup {NotLoaded}]])'
    PROVE  LangTyped'
<1>1. /\ place' = First(s) /\ loadedLangs' = {} /\ stack' = <<>>
      /\ at' = IF s > Len(Sections) THEN "loaded" ELSE "english"
  BY DEF BeginSection
<1>2. s \in DOMAIN Sections \/ s > Len(Sections)
  BY Domains
<1>3. at' = "english" => place' \in [section : DOMAIN Sections, dir : DOMAIN Directories]
  BY <1>1, <1>2, Domains DEF First
<1>4. stack' \in Seq(Langs)
  BY <1>1
<1> QED
  BY <1>1, <1>3, <1>4 DEF LangTyped

LEMMA FinishDirectoryTyped == LangTyped /\ FinishDirectory => LangTyped'
<1> SUFFICES ASSUME LangTyped, FinishDirectory PROVE LangTyped'
  OBVIOUS
<1>1. UNCHANGED <<files, lang>> /\ at = "files" /\ stack = <<>> /\ Loading
  BY DEF FinishDirectory, Loading
<1>2. place \in [section : DOMAIN Sections, dir : DOMAIN Directories] /\ English \in Langs
  BY <1>1, LanguagesAssumption DEF LangTyped
<1>3. CASE ~LastDirectory
  <2>1. NextDirectory /\ UNCHANGED <<english, at, stack>>
    BY <1>3 DEF FinishDirectory
  <2>2. /\ place' \in [section : DOMAIN Sections, dir : DOMAIN Directories]
        /\ Section' = Section /\ DOMAIN stack' = {}
    BY <1>1, <1>2, <1>3, <2>1, Domains DEF NextDirectory, LastDirectory, Section
  <2> QED
    BY <1>1, <1>2, <2>1, <2>2 DEF LangTyped, NextDirectory, Loaded
<1>4. CASE LastDirectory /\ NoneLoaded
  BY <1>1, <1>4 DEF LangTyped, FinishDirectory
<1>5. CASE LastDirectory /\ ~NoneLoaded
  <2>1. BeginSection(place.section + 1)
    BY <1>5 DEF FinishDirectory
  <2>2. place.section + 1 \in Nat \ {0}
    BY <1>2, Domains
  <2> QED
    BY <1>1, <2>1, <2>2, BeginSectionTyped DEF LangTyped
<1> QED
  BY <1>3, <1>4, <1>5

LEMMA LoadFallbackTyped == LangTyped /\ LoadFallback => LangTyped'
<1> SUFFICES ASSUME LangTyped, LoadFallback PROVE LangTyped'
  OBVIOUS
<1>1. /\ UNCHANGED <<files, lang, english, place, loadedLangs>>
      /\ at = "files" /\ stack # <<>> /\ Loading
  BY DEF LoadFallback, Loading
<1>2. Section' = Section /\ \A k : File(k)' = File(k)
  BY <1>1 DEF Section, File
<1>3. CASE at' = "overflow" /\ UNCHANGED stack
  BY <1>1, <1>3 DEF LangTyped
<1>4. CASE stack' = <<Fallback>> \o stack /\ UNCHANGED at
  <2>1. /\ DOMAIN stack = 1..Len(stack) /\ Len(stack) \in Nat \ {0}
        /\ Top = stack[1] /\ Fallback \in Langs \cup {NoLang} /\ Fallback = Falls(Top)
    BY <1>1, Stacked
  <2>2. /\ Fallback \in Langs /\ File(Fallback) # NoFile /\ ~Loaded(Section, Fallback)
    BY <2>1 DEF LoadFallback
  <2>3. Fallback # English
    BY <1>1, <2>2 DEF LangTyped
  <2>4. stack \in Seq(Langs) /\ <<Fallback>> \in Seq(Langs) /\ Len(<<Fallback>>) = 1
    BY <2>2 DEF LangTyped
  <2>5. /\ stack' \in Seq(Langs) /\ Len(stack') = Len(stack) + 1
        /\ \A i \in 1..(Len(stack) + 1) : stack'[i] = IF i = 1 THEN Fallback ELSE stack[i - 1]
    BY <1>4, <2>1, <2>4, ConcatProperties
  <2>6. DOMAIN stack' = 1..(Len(stack) + 1)
    BY <2>5, LenProperties
  <2>7. ASSUME NEW i \in DOMAIN stack'
        PROVE  /\ stack'[i] # English /\ File(stack'[i]) # NoFile
               /\ i > 1 => Falls(stack'[i]) = stack'[i - 1]
    <3>1. CASE i = 1
      BY <2>2, <2>3, <2>5, <2>6, <3>1
    <3>2. CASE i = 2
      <4>1. stack'[i] = stack[1] /\ stack'[i - 1] = Fallback /\ 1 \in DOMAIN stack
        BY <2>1, <2>5, <2>6, <3>2
      <4> QED
        BY <1>1, <2>1, <4>1 DEF LangTyped
    <3>3. CASE i > 2
      <4>1. stack'[i] = stack[i - 1] /\ stack'[i - 1] = stack[i - 2] /\ i - 1 \in DOMAIN stack
            /\ i - 1 > 1 /\ (i - 1) - 1 = i - 2
        BY <2>1, <2>5, <2>6, <3>3
      <4> QED
        BY <1>1, <4>1 DEF LangTyped
    <3> QED
      BY <2>6, <3>1, <3>2, <3>3
  <2>8. \A k : Falls(k)' = Falls(k)
    BY <1>2 DEF Falls
  <2> QED
    BY <1>1, <1>2, <1>4, <2>5, <2>7, <2>8 DEF LangTyped, Loaded
<1> QED
  BY <1>3, <1>4 DEF LoadFallback

\* The language a text is patched from, and what Store does.
Found == Fallback # NoLang /\ Loaded(Section, Fallback)
PatchSource == IF Found THEN Fallback ELSE English
LEMMA StoreIs ==
    ASSUME LangTyped, Store
    PROVE  /\ Loading /\ at = "files" /\ stack # <<>>
           /\ Fallback # NoLang /\ ~Found => File(Fallback) = NoFile
           /\ lang' = [lang EXCEPT ![Section][Top] = Patched(Top, PatchSource)]
           /\ loadedLangs' = loadedLangs
                 \cup (IF Len(stack) = 1 THEN {Top} ELSE {})
                 \cup (IF Found /\ Section \notin Unnoted THEN {Fallback} ELSE {})
           /\ stack' = Tail(stack) /\ UNCHANGED <<files, english, at, place>>
           /\ Section' = Section /\ Now' = Now /\ \A k : File(k)' = File(k) /\ Falls(k)' = Falls(k)
           /\ PatchSource \in Langs /\ lang[Section][PatchSource] \in Text
           /\ Patched(Top, PatchSource) \in Text
           /\ Section \in AllSections
           /\ lang'[Section][Top] = Patched(Top, PatchSource)
           /\ \A s \in AllSections, l \in Langs :
                 s # Section \/ l # Top => lang'[s][l] = lang[s][l]
<1>1. /\ Loading /\ at = "files" /\ stack # <<>>
      /\ stack' = Tail(stack) /\ UNCHANGED <<files, english, at, place>>
  BY DEF Store, Loading
<1>2. /\ Fallback # NoLang /\ ~Found => File(Fallback) = NoFile
      /\ lang' = [lang EXCEPT ![Section][Top] = Patched(Top, PatchSource)]
      /\ loadedLangs' = loadedLangs
                 \cup (IF Len(stack) = 1 THEN {Top} ELSE {})
                 \cup (IF Found /\ Section \notin Unnoted THEN {Fallback} ELSE {})
  BY DEF Store, Found, PatchSource
<1>3. Section' = Section /\ Now' = Now /\ \A k : File(k)' = File(k) /\ Falls(k)' = Falls(k)
  BY <1>1 DEF Section, Now, File, Falls
<1>4. Top \in Langs /\ File(Top) # NoFile /\ Fallback \in Langs \cup {NoLang}
  BY <1>1, Stacked
<1>5. Section \in AllSections /\ lang[Section][English] \in Text /\ english \in Text
  BY <1>1, Places, EnglishIsText
<1>6. PatchSource \in Langs /\ lang[Section][PatchSource] \in Text
  <2>1. CASE Found
    <3>1. Fallback \in Langs
      BY <1>4, <2>1 DEF Found
    <3>2. lang[Section][Fallback] \in Text \cup {NotLoaded}
      BY <1>5, <3>1 DEF LangTyped
    <3> QED
      BY <2>1, <3>1, <3>2 DEF PatchSource, Found, Loaded
  <2> QED
    BY <1>5, <2>1, LanguagesAssumption DEF PatchSource
<1>7. Patched(Top, PatchSource) \in Text
  BY <1>1, <1>4, <1>5, <1>6, PatchedIs
<1>8. /\ lang'[Section][Top] = Patched(Top, PatchSource)
      /\ \A s \in AllSections, l \in Langs :
            s # Section \/ l # Top => lang'[s][l] = lang[s][l]
  BY <1>2, <1>4, <1>5 DEF LangTyped
<1> QED
  BY <1>1, <1>2, <1>3, <1>5, <1>6, <1>7, <1>8

LEMMA StoreTyped == LangTyped /\ Store => LangTyped'
<1> SUFFICES ASSUME LangTyped, Store PROVE LangTyped'
  OBVIOUS
<1>1. /\ Loading /\ at = "files" /\ stack # <<>>
      /\ stack' = Tail(stack) /\ UNCHANGED <<files, english, at, place>>
      /\ Section' = Section /\ \A k : File(k)' = File(k) /\ Falls(k)' = Falls(k)
      /\ lang' = [lang EXCEPT ![Section][Top] = Patched(Top, PatchSource)]
      /\ Patched(Top, PatchSource) \in Text /\ Section \in AllSections
  BY StoreIs
<1>2. /\ Top \in Langs \ {English} /\ Fallback \in Langs \cup {NoLang}
      /\ Tail(stack) \in Seq(Langs)
      /\ DOMAIN Tail(stack) = 1..(Len(stack) - 1) /\ Len(stack) \in Nat
      /\ \A i \in DOMAIN Tail(stack) : i + 1 \in DOMAIN stack /\ Tail(stack)[i] = stack[i + 1]
  BY <1>1, Stacked
<1>3. lang' \in [AllSections -> [Langs -> Text \cup {NotLoaded}]]
  BY <1>1, <1>2 DEF LangTyped
<1>4. lang'[Section][English] = lang[Section][English]
  BY <1>1, <1>2, LanguagesAssumption DEF LangTyped
<1>5. loadedLangs' \subseteq Langs /\ English \in loadedLangs'
  BY <1>1, <1>2, StoreIs DEF LangTyped, Found
<1>6. ASSUME NEW i \in DOMAIN stack'
      PROVE  /\ stack'[i] # English /\ File(stack'[i]) # NoFile
             /\ i > 1 => Falls(stack'[i]) = stack'[i - 1]
  <2>1. stack'[i] = stack[i + 1] /\ i + 1 \in DOMAIN stack /\ i \in Nat \ {0}
    BY <1>1, <1>2, <1>6
  <2>2. i > 1 => stack'[i - 1] = stack[i] /\ i + 1 > 1 /\ (i + 1) - 1 = i
    <3>1. i > 1 => i - 1 \in DOMAIN Tail(stack) /\ (i - 1) + 1 = i
      BY <1>1, <1>2, <1>6
    <3> QED
      BY <1>1, <1>2, <3>1
  <2>3. i + 1 > 1 /\ (i + 1) - 1 = i
    BY <2>1
  <2> QED
    BY <1>1, <2>1, <2>2, <2>3 DEF LangTyped
<1> QED
  BY <1>1, <1>2, <1>3, <1>4, <1>5, <1>6 DEF LangTyped, Loaded

LEMMA LangTypedStep == LangTyped /\ (LoadStep \/ LoadAgain \/ UNCHANGED langVars) => LangTyped'
<1>1. LangTyped /\ UNCHANGED langVars => LangTyped'
  BY DEF LangTyped, langVars, Section, File, Loaded, Falls
<1>2. LoadAgain => LangTyped'
  <2> SUFFICES ASSUME LoadAgain PROVE LangTyped'
    OBVIOUS
  <2>1. lang' \in [AllSections -> [Langs -> Text \cup {NotLoaded}]]
    BY DEF LoadAgain, Unloaded, Nothing
  <2> QED
    BY <2>1, BeginSectionTyped DEF LoadAgain
<1> QED
  BY <1>1, <1>2, LoadEnglishTyped, LoadFileTyped, FinishDirectoryTyped, LoadFallbackTyped,
     StoreTyped DEF LoadStep

-----------------------------------------------------------------------------
(* Translations: the sections one after the other *)

Stages ==
    /\ at = "loaded" => \A i \in DOMAIN Sections : Loaded(Sections[i], English)
    /\ at \in {"english", "files"} =>
          \A i \in DOMAIN Sections :
              /\ i < place.section => Loaded(Sections[i], English)
              /\ i > place.section => \A l \in Langs : ~Loaded(Sections[i], l)
    /\ at = "english" => Others = {}

LEMMA NumbersOfSections ==
    ASSUME Loading, NEW i \in DOMAIN Sections
    PROVE  /\ Sections[i] \in AllSections /\ (i # place.section => Sections[i] # Section)
           /\ i = place.section => Sections[i] = Section
           /\ i \in Nat /\ place.section \in Nat
BY Places, Domains, LanguagesAssumption DEF Distinct, Section, AllSections

\* What a step leaves as it is.
LEMMA OnlyThisSection ==
    ASSUME LangTyped, LoadStep
    PROVE  /\ Loading /\ files' = files
           /\ \A s \in AllSections \ {Section} : lang'[s] = lang[s]
           /\ at # "english" => lang'[Section][English] = lang[Section][English]
<1>1. LoadEnglish => /\ Loading /\ files' = files /\ at = "english"
                     /\ \A s \in AllSections \ {Section} : lang'[s] = lang[s]
  BY DEF LoadEnglish, Loading, LangTyped
<1>2. LoadFile \/ FinishDirectory \/ LoadFallback => Loading /\ UNCHANGED <<files, lang>>
  BY DEF LoadFile, FinishDirectory, LoadFallback, Loading
<1>3. ASSUME Store PROVE /\ Loading /\ files' = files
                         /\ \A s \in AllSections \ {Section} : lang'[s] = lang[s]
                         /\ lang'[Section][English] = lang[Section][English]
  <2>1. /\ Loading /\ at = "files" /\ stack # <<>> /\ files' = files
        /\ lang' = [lang EXCEPT ![Section][Top] = Patched(Top, PatchSource)]
        /\ Section \in AllSections
        /\ \A s \in AllSections, l \in Langs : s # Section \/ l # Top => lang'[s][l] = lang[s][l]
    BY <1>3, StoreIs
  <2>2. Top # English
    BY <2>1, Stacked
  <2> QED
    BY <2>1, <2>2, LanguagesAssumption DEF LangTyped
<1> QED
  BY <1>1, <1>2, <1>3 DEF LoadStep

\* The place after a step: the same, the next directory, the first one again or another section.
LEMMA SectionAfter ==
    ASSUME LangTyped, LoadStep, ~FinishDirectory \/ ~LastDirectory
    PROVE  /\ place'.section = place.section /\ Section' = Section
           /\ at' # "loaded" /\ (at = "files" => at' # "english")
<1>1. place \in [section : DOMAIN Sections, dir : DOMAIN Directories] /\ at \in {"english", "files"}
  BY OnlyThisSection DEF Loading, LangTyped
<1>2. LoadEnglish => place'.section = place.section /\ at' # "loaded" /\ at = "english"
  BY <1>1 DEF LoadEnglish, NextDirectory, First
<1>3. LoadFile \/ LoadFallback \/ Store => place' = place /\ at' \in {"files", "overflow"}
  BY DEF LoadFile, LoadFallback, Store
<1>4. FinishDirectory /\ ~LastDirectory => place'.section = place.section /\ at' = "files"
  BY <1>1 DEF FinishDirectory, NextDirectory
<1> QED
  BY <1>1, <1>2, <1>3, <1>4 DEF LoadStep, Section

LEMMA NextSection ==
    ASSUME LangTyped, FinishDirectory, LastDirectory, at' \in {"english", "files", "loaded"}
    PROVE  /\ BeginSection(place.section + 1) /\ UNCHANGED <<files, lang>> /\ ~NoneLoaded
           /\ at = "files" /\ stack = <<>> /\ Loading /\ Remaining = {}
           /\ place'.section = place.section + 1 /\ place'.dir = 1
           /\ at' = "loaded" => place.section = Len(Sections)
           /\ at' # "loaded" => at' = "english" /\ place.section + 1 \in DOMAIN Sections
<1>1. /\ BeginSection(place.section + 1) /\ UNCHANGED <<files, lang>>
      /\ at = "files" /\ stack = <<>> /\ Loading /\ ~NoneLoaded /\ Remaining = {}
  BY DEF FinishDirectory, Loading
<1>2. /\ place' = First(place.section + 1)
      /\ at' = IF place.section + 1 > Len(Sections) THEN "loaded" ELSE "english"
  BY <1>1 DEF BeginSection
<1>3. place.section \in 1..Len(Sections)
  BY <1>1, Places, Domains
<1> QED
  BY <1>1, <1>2, <1>3, Domains DEF First

LEMMA StagesStep == LangTyped /\ LangTyped' /\ Stages /\ LoadStep => Stages'
<1> SUFFICES ASSUME LangTyped, LangTyped', Stages, LoadStep PROVE Stages'
  OBVIOUS
<1>1. /\ Loading /\ files' = files /\ English \in Langs
      /\ \A s \in AllSections \ {Section} : lang'[s] = lang[s]
      /\ at # "english" => lang'[Section][English] = lang[Section][English]
  BY OnlyThisSection, LanguagesAssumption
<1>2. CASE ~FinishDirectory \/ ~LastDirectory
  <2>1. /\ place'.section = place.section /\ Section' = Section
        /\ at' # "loaded" /\ (at = "files" => at' # "english")
    BY <1>2, SectionAfter
  <2>2. ASSUME NEW i \in DOMAIN Sections, at' \in {"english", "files"}
        PROVE  /\ i < place.section => Loaded(Sections[i], English)'
               /\ i > place.section => \A l \in Langs : ~Loaded(Sections[i], l)'
    BY <1>1, NumbersOfSections DEF Stages, Loaded, Loading
  <2>3. at' = "english" => Others' = {}
    <3> SUFFICES ASSUME at' = "english", NEW l \in Langs \ {English} PROVE ~Loaded(Section, l)'
      BY DEF Others
    <3>1. at = "english" /\ LoadEnglish
      BY <1>1, <2>1 DEF Loading, LoadStep, LoadFile, FinishDirectory, LoadFallback, Store
    <3>2. lang'[Section][l] = lang[Section][l]
      BY <1>1, <3>1, Places DEF LoadEnglish, LangTyped
    <3> QED
      BY <2>1, <3>1, <3>2 DEF Stages, Others, Loaded
  <2> QED
    BY <2>1, <2>2, <2>3 DEF Stages
<1>3. CASE FinishDirectory /\ LastDirectory /\ at' \in {"english", "files", "loaded"}
  <2>1. /\ UNCHANGED lang /\ at = "files" /\ Loading
        /\ place'.section = place.section + 1
        /\ at' = "loaded" => place.section = Len(Sections)
        /\ at' # "loaded" => at' = "english" /\ place.section + 1 \in DOMAIN Sections
    BY <1>3, NextSection
  <2>2. Loaded(Section, English)
    BY <2>1 DEF LangTyped
  <2>3. ASSUME NEW i \in DOMAIN Sections
        PROVE  /\ i < place.section + 1 => Loaded(Sections[i], English)'
               /\ i > place.section => \A l \in Langs : ~Loaded(Sections[i], l)'
    BY <1>1, <2>1, <2>2, NumbersOfSections DEF Stages, Loaded
  <2>4. at' = "loaded" => \A i \in DOMAIN Sections : i < place.section + 1
    BY <2>1, Domains
  <2>5. at' = "english" => Others' = {}
    <3>1. at' = "english" => Section' = Sections[place.section + 1]
      BY <2>1 DEF Section
    <3>2. at' = "english" => place.section + 1 \in DOMAIN Sections
                            /\ place.section + 1 > place.section
      BY <2>1, Places, Domains
    <3>3. ASSUME at' = "english", NEW l \in Langs
          PROVE  lang'[Sections[place.section + 1]][l] = NotLoaded
      BY <2>3, <3>2, <3>3 DEF Loaded
    <3> QED
      BY <3>1, <3>3 DEF Others, Loaded
  <2>6. \A i \in DOMAIN Sections : (i > place.section + 1 => i > place.section) /\ i \in Nat
    BY <2>1, Places, Domains
  <2>7. at' = "english" => at' # "files" /\ at' # "loaded"
    OBVIOUS
  <2> QED
    BY <2>1, <2>3, <2>4, <2>5, <2>6 DEF Stages
<1>4. CASE at' \notin {"english", "files", "loaded"}
  BY <1>4 DEF Stages
<1> QED
  BY <1>2, <1>3, <1>4

-----------------------------------------------------------------------------
(* Translations: nothing is missing *)

\* English does not have the singular of an entry that is not there.
KnownForms ==
    \A n \in Plurals : lang[Section][English].plurals[n].singular # Empty =>
                       lang[Section][English].plurals[n].known

AllComplete(s) == \A l \in Langs : Loaded(s, l) => Complete(s, l)

CompleteSoFar ==
    /\ at = "loaded" => \A i \in DOMAIN Sections : AllComplete(Sections[i])
    /\ at \in {"english", "files"} =>
          /\ \A i \in DOMAIN Sections : i < place.section => AllComplete(Sections[i])
          /\ Loaded(Section, English) => KnownForms
    /\ at = "files" => AllComplete(Section)

LEMMA CompleteKept ==
    ASSUME NEW s, files' = files, lang'[s] = lang[s]
    PROVE  /\ AllComplete(s)' = AllComplete(s)
           /\ \A l \in Langs : Complete(s, l)' = Complete(s, l)
BY DEF AllComplete, Complete, Loaded, BothForms, NoForm, HasFile

LEMMA EnglishComplete == ASSUME NEW s PROVE Complete(s, English)
BY DEF Complete

\* Patching from a complete language makes a language complete.
LEMMA PatchedComplete ==
    ASSUME LangTyped, Store, KnownForms, Complete(Section, PatchSource), NEW l, l = Top
    PROVE  Complete(Section, l)'
<1>1. /\ Loading /\ at = "files" /\ stack # <<>> /\ UNCHANGED <<files, english, at, place>>
      /\ Section' = Section /\ PatchSource \in Langs /\ lang[Section][PatchSource] \in Text
      /\ Section \in AllSections
      /\ lang'[Section][Top] = Patched(Top, PatchSource)
      /\ \A s \in AllSections, k \in Langs : s # Section \/ k # Top => lang'[s][k] = lang[s][k]
  BY StoreIs
<1>2. /\ Top \in Langs \ {English} /\ File(Top) # NoFile /\ English \in Langs
      /\ place.dir \in DOMAIN Directories
      /\ english \in Text /\ english = lang[Section][English]
  BY <1>1, Stacked, Places, EnglishIsText, LanguagesAssumption DEF LangTyped
<1>3. lang'[Section][English] = english
  BY <1>1, <1>2
<1> DEFINE own == Unmarshal(Top)
           other == lang[Section][PatchSource]
           new == Patched(Top, PatchSource)
<1>4. /\ own \in Text
      /\ \A n \in Plurals :
            /\ own.plurals[n] \in [known : BOOLEAN, singular : String, plural : String]
            /\ own.plurals[n].known => n \in DOMAIN File(Top).plurals
            /\ own.plurals[n].known /\ File(Top).plurals[n] # {} =>
                  own.plurals[n].singular # Empty \/ own.plurals[n].plural # Empty
  BY <1>1, <1>2, FileIsText
<1>5. /\ \A n \in Names : new.strings[n] = IF english.strings[n] # Empty /\ own.strings[n] = Empty
                                          THEN other.strings[n] ELSE own.strings[n]
      /\ \A n \in Plurals : new.plurals[n] = IF english.plurals[n].known
                                            THEN PatchEntry(own.plurals[n], other.plurals[n])
                                            ELSE own.plurals[n]
  BY <1>1, <1>2, PatchedIs
<1> HIDE DEF own, other, new
<1>6. ASSUME NEW n \in Names, english.strings[n] # Empty PROVE new.strings[n] # Empty
  BY <1>2, <1>5, <1>6 DEF Complete, other
<1>7. ASSUME NEW n \in Plurals, BothForms(Section, English, n), ~NoForm(Section, n)
      PROVE  new.plurals[n].singular # Empty /\ new.plurals[n].plural # Empty
  <2>1. english.plurals[n].known
    BY <1>2, <1>7 DEF KnownForms, BothForms
  <2>2. other.plurals[n].singular # Empty /\ other.plurals[n].plural # Empty
    BY <1>7 DEF Complete, BothForms, other
  <2>3. n \in DOMAIN File(Top).plurals => File(Top).plurals[n] # {}
    BY <1>2, <1>7 DEF NoForm, HasFile, File
  <2>4. own.plurals[n].known => own.plurals[n].singular # Empty \/ own.plurals[n].plural # Empty
    BY <1>4, <2>3
  <2>5. new.plurals[n] = PatchEntry(own.plurals[n], other.plurals[n])
    BY <1>5, <2>1
  <2>6. own.plurals[n] \in [known : BOOLEAN, singular : String, plural : String]
    BY <1>4
  <2> QED
    BY <2>2, <2>4, <2>5, <2>6 DEF PatchEntry
<1>8. lang'[Section][l] = new
  BY <1>1 DEF new
<1>9. \A n \in Names : lang'[Section][English].strings[n] # Empty =>
                            lang'[Section][l].strings[n] # Empty
  BY <1>3, <1>6, <1>8
<1>10. ASSUME NEW n \in Plurals, lang'[Section][English].plurals[n].singular # Empty,
              lang'[Section][English].plurals[n].plural # Empty, ~NoForm(Section, n)
       PROVE  /\ lang'[Section][l].plurals[n].singular # Empty
              /\ lang'[Section][l].plurals[n].plural # Empty
  <2>1. BothForms(Section, English, n)
    BY <1>2, <1>3, <1>10 DEF BothForms
  <2> QED
    BY <1>7, <1>8, <1>10, <2>1
<1> QED
  BY <1>1, <1>9, <1>10 DEF Complete, BothForms, NoForm, HasFile

LEMMA StoreComplete ==
    ASSUME LangTyped, Store, KnownForms, AllComplete(Section)
    PROVE  AllComplete(Section)'
<1>1. /\ Loading /\ at = "files" /\ stack # <<>> /\ UNCHANGED files /\ Section' = Section
      /\ PatchSource \in Langs /\ lang[Section][PatchSource] \in Text
      /\ Section \in AllSections
      /\ \A s \in AllSections, k \in Langs : s # Section \/ k # Top => lang'[s][k] = lang[s][k]
  BY StoreIs
<1>2. Top \in Langs \ {English} /\ English \in Langs
  BY <1>1, Stacked, LanguagesAssumption
<1>3. lang[Section][PatchSource] # NotLoaded
  BY <1>1, LanguagesAssumption
<1>4. Complete(Section, PatchSource)
  BY <1>1, <1>3 DEF AllComplete, Loaded
<1>5. ASSUME NEW l \in Langs, Loaded(Section, l)' PROVE Complete(Section, l)'
  <2>1. CASE l = Top
    BY <1>4, <2>1, PatchedComplete
  <2>2. CASE l # Top
    <3>1. /\ lang'[Section][l] = lang[Section][l]
          /\ lang'[Section][English] = lang[Section][English]
      BY <1>1, <1>2, <2>2
    <3>2. Complete(Section, l)
      BY <1>1, <1>5, <3>1 DEF AllComplete, Loaded
    <3> QED
      BY <1>1, <3>1, <3>2 DEF Complete, BothForms, NoForm, HasFile
  <2> QED
    BY <2>1, <2>2
<1> QED
  BY <1>5 DEF AllComplete

\* Where English comes from a file, it has the singular only of an entry that is there.
LEMMA LoadEnglishForms ==
    ASSUME LangTyped, LoadEnglish, Loaded(Section, English) => KnownForms,
           Section' = Section, Loaded(Section, English)'
    PROVE  KnownForms'
<1>1. Loading /\ English \in Langs /\ Section \in AllSections
  BY OnlyThisSection, Places, LanguagesAssumption DEF LoadStep
<1>2. CASE File(English) = NoFile
  BY <1>2 DEF LoadEnglish, KnownForms, Loaded
<1>3. CASE File(English) # NoFile
  <2>1. lang'[Section][English] = Unmarshal(English)
    BY <1>1, <1>3 DEF LoadEnglish, LangTyped
  <2>2. \A n \in Plurals : Unmarshal(English).plurals[n].singular # Empty =>
                            Unmarshal(English).plurals[n].known
    BY <1>1, <1>3, FileIsText
  <2> QED
    BY <2>1, <2>2 DEF KnownForms
<1> QED
  BY <1>2, <1>3

LEMMA CompleteSoFarStep ==
    LangTyped /\ Stages /\ CompleteSoFar /\ LoadStep => CompleteSoFar'
<1> SUFFICES ASSUME LangTyped, Stages, CompleteSoFar, LoadStep PROVE CompleteSoFar'
  OBVIOUS
<1>1. /\ Loading /\ files' = files
      /\ \A s \in AllSections \ {Section} : lang'[s] = lang[s]
      /\ at # "english" => lang'[Section][English] = lang[Section][English]
  BY OnlyThisSection
<1>2. ASSUME NEW i \in DOMAIN Sections, i < place.section PROVE AllComplete(Sections[i])'
  <2>1. AllComplete(Sections[i])
    BY <1>1, <1>2 DEF CompleteSoFar, Loading
  <2>2. lang'[Sections[i]] = lang[Sections[i]]
    BY <1>1, <1>2, NumbersOfSections
  <2> QED
    BY <1>1, <2>1, <2>2, CompleteKept
<1>3. CASE ~FinishDirectory \/ ~LastDirectory
  <2>1. /\ place'.section = place.section /\ Section' = Section
        /\ at' # "loaded" /\ (at = "files" => at' # "english")
    BY <1>3, SectionAfter
  <2>2. at' \in {"english", "files"} /\ Loaded(Section, English)' => KnownForms'
    <3>1. CASE LoadEnglish
      <4>1. at = "english"
        BY <3>1 DEF LoadEnglish
      <4> QED
        BY <2>1, <3>1, <4>1, LoadEnglishForms DEF CompleteSoFar
    <3>2. CASE ~LoadEnglish
      <4>1. at = "files"
        BY <3>2 DEF LoadStep, LoadFile, FinishDirectory, LoadFallback, Store
      <4> QED
        BY <1>1, <2>1, <4>1 DEF CompleteSoFar, KnownForms, Loaded
    <3> QED
      BY <3>1, <3>2
  <2>3. at' = "files" => AllComplete(Section)'
    <3>1. CASE LoadEnglish
      <4>1. at = "english" /\ \A l \in Langs \ {English} : lang'[Section][l] = lang[Section][l]
        BY <1>1, <3>1, Places DEF LoadEnglish, LangTyped
      <4>2. \A l \in Langs \ {English} : ~Loaded(Section, l)'
        BY <2>1, <4>1 DEF Stages, Others, Loaded
      <4>3. Complete(Section, English)'
        BY DEF Complete
      <4> QED
        BY <4>2, <4>3 DEF AllComplete
    <3>2. CASE LoadFile \/ FinishDirectory \/ LoadFallback
      <4>1. UNCHANGED <<files, lang>> /\ at = "files"
        BY <3>2 DEF LoadFile, FinishDirectory, LoadFallback
      <4> QED
        BY <2>1, <4>1 DEF CompleteSoFar, AllComplete, Complete, Loaded, BothForms, NoForm, HasFile
    <3>3. CASE Store
      <4>1. at = "files" /\ Loaded(Section, English)
        BY <3>3 DEF Store, LangTyped
      <4> QED
        BY <3>3, <4>1, StoreComplete DEF CompleteSoFar
    <3> QED
      BY <3>1, <3>2, <3>3 DEF LoadStep
  <2> QED
    BY <1>2, <2>1, <2>2, <2>3 DEF CompleteSoFar
<1>4. CASE FinishDirectory /\ LastDirectory /\ at' \in {"english", "files", "loaded"}
  <2>1. /\ UNCHANGED <<files, lang>> /\ at = "files"
        /\ place'.section = place.section + 1
        /\ at' = "loaded" => place.section = Len(Sections)
        /\ at' # "loaded" => at' = "english" /\ place.section + 1 \in DOMAIN Sections
    BY <1>4, NextSection
  <2>2. ASSUME NEW i \in DOMAIN Sections, i < place.section + 1
        PROVE  AllComplete(Sections[i])'
    <3>1. CASE i < place.section
      BY <1>2, <3>1
    <3>2. CASE i = place.section
      <4>1. AllComplete(Sections[i])
        BY <2>1, <3>2 DEF CompleteSoFar, Section
      <4> QED
        BY <2>1, <4>1, CompleteKept
    <3> QED
      BY <1>1, <2>2, <3>1, <3>2, NumbersOfSections
  <2>3. at' = "loaded" => \A i \in DOMAIN Sections : i < place.section + 1
    BY <1>1, <2>1, Places, Domains
  <2>4. at' = "english" => ~Loaded(Section, English)'
    <3>1. ASSUME at' = "english" PROVE lang[Sections[place.section + 1]][English] = NotLoaded
      <4>1. place.section + 1 > place.section /\ place.section + 1 \in DOMAIN Sections
        BY <1>1, <2>1, <3>1, Places, Domains
      <4> QED
        BY <1>1, <4>1, LanguagesAssumption DEF Stages, Loaded, Loading
    <3> QED
      BY <2>1, <3>1 DEF Loaded, Section
  <2> QED
    BY <2>1, <2>2, <2>3, <2>4 DEF CompleteSoFar
<1>5. CASE at' \notin {"english", "files", "loaded"}
  BY <1>5 DEF CompleteSoFar
<1> QED
  BY <1>3, <1>4, <1>5

-----------------------------------------------------------------------------
(* Translations: which file a text is from *)

Settled(s) ==
    \A l \in Langs : /\ Loaded(s, l) /\ l # English => \A n \in Names : Nearest(s, l, n)
                     /\ LastWins(s, l)

\* Every language so far is from a file, and its strings are where they are looked for.
NearestSoFar ==
    \A l \in Others : /\ \A n \in Names : Nearest(Section, l, n)
                      /\ From(Section, l) # NoFile
                      /\ \E i \in 1..place.dir : lang[Section][l].dir = Directories[i]

\* A language is not stored before what it falls back on.
FallbackFirst ==
    \A l \in Others : lang[Section][l].dir = Now /\ Falls(l) # NoLang =>
                          Loaded(Section, Falls(l)) \/ File(Falls(l)) = NoFile

\* If a language of the program's is loaded once more it comes out the same.
SameAgain ==
    place.dir = 1 => \A l \in Others : /\ lang[Section][l] = Patched(l, FallbackOf(Section, l))
                                       /\ ~InCircle(Section, l)

\* In the admin's directory a fallback is noted, so that it is not stored once more.
FallbackNoted ==
    place.dir > 1 /\ Section \notin Unnoted =>
        \A l \in Others :
            /\ lang[Section][l].dir = Now /\ ~InCircle(Section, l)
            /\ Falls(l) # NoLang /\ Loaded(Section, Falls(l))
            => Falls(l) \in loadedLangs /\ \A i \in DOMAIN stack : stack[i] # Falls(l)

LastSoFar ==
    /\ HasFile(Section, Len(Directories), English) =>
           lang[Section][English].dir = Directories[Len(Directories)]
    /\ place.dir = Len(Directories) => \A l \in loadedLangs : LastWins(Section, l)

SettledSoFar ==
    /\ at = "loaded" => \A i \in DOMAIN Sections : Settled(Sections[i])
    /\ at \in {"english", "files"} =>
           \A i \in DOMAIN Sections : i < place.section => Settled(Sections[i])
    /\ at = "files" => /\ NearestSoFar /\ FallbackFirst /\ SameAgain
                       /\ FallbackNoted /\ LastSoFar

\* What is taken from sections before does not change any more.
LEMMA BeforeKept ==
    ASSUME LangTyped, LoadStep, NEW i \in DOMAIN Sections, i <= place.section,
           NEW s, s = Sections[i]
    PROVE  /\ \A k \in DOMAIN Sources(s) : lang'[Sources(s)[k]] = lang[Sources(s)[k]]
           /\ \A l, n : Before(s, l, n)' = Before(s, l, n)
<1>1. Loading /\ \A z \in AllSections \ {Section} : lang'[z] = lang[z]
  BY OnlyThisSection
<1>2. ASSUME NEW k \in DOMAIN Sources(s) PROVE lang'[Sources(s)[k]] = lang[Sources(s)[k]]
  <2>1. PICK j \in DOMAIN Sections : j < i /\ Sources(s)[k] = Sections[j]
    BY SourcesAreEarlier
  <2>2. Sections[j] \in AllSections \ {Section}
    BY <1>1, <2>1, NumbersOfSections
  <2> QED
    BY <1>1, <2>1, <2>2
<1> QED
  BY <1>2 DEF Before, Loaded

\* Where a string is looked for, if neither the language nor its fallback changes.
LEMMA NearestKept ==
    ASSUME LangTyped, LoadStep, NEW i \in DOMAIN Sections, i <= place.section,
           NEW s, s = Sections[i], NEW l \in Langs, NEW n \in Names,
           lang'[s][l] = lang[s][l], lang'[s][English] = lang[s][English],
           FallbackOf(s, l)' = FallbackOf(s, l),
           NEW g, g = FallbackOf(s, l), lang'[s][g] = lang[s][g], Nearest(s, l, n)
    PROVE  Nearest(s, l, n)'
<1>1. files' = files /\ From(s, l)' = From(s, l)
  BY OnlyThisSection DEF From
<1>2. /\ Before(s, l, n)' = Before(s, l, n)
      /\ \A k \in Before(s, l, n) : lang'[Sources(s)[k]] = lang[Sources(s)[k]]
  <2>1. /\ \A k \in DOMAIN Sources(s) : lang'[Sources(s)[k]] = lang[Sources(s)[k]]
        /\ \A ll, nn : Before(s, ll, nn)' = Before(s, ll, nn)
    BY BeforeKept, SMTT(30)
  <2>2. Before(s, l, n) \subseteq DOMAIN Sources(s)
    BY DEF Before
  <2> QED
    BY <2>1, <2>2
<1>3. Overtaken(s, l, g)' = Overtaken(s, l, g)
  BY <1>1 DEF Overtaken, InCircle
<1>4. Overtaken(s, l, FallbackOf(s, l)) = Overtaken(s, l, g)
      /\ lang[s][FallbackOf(s, l)] = lang[s][g]
  OBVIOUS
<1>5. Overtaken(s, l, FallbackOf(s, l))' = Overtaken(s, l, g)'
      /\ lang'[s][FallbackOf(s, l)'] = lang'[s][g]
  BY DEF Overtaken
<1> QED
  BY <1>1, <1>2, <1>3, <1>4, <1>5 DEF Nearest

LEMMA SettledKept ==
    ASSUME NEW s, files' = files, lang'[s] = lang[s],
           \A k \in DOMAIN Sources(s) : lang'[Sources(s)[k]] = lang[Sources(s)[k]],
           Settled(s)
    PROVE  Settled(s)'
<1>1. \A l \in Langs : /\ From(s, l)' = From(s, l) /\ FallbackOf(s, l)' = FallbackOf(s, l)
                       /\ Loaded(s, l)' = Loaded(s, l)
  BY DEF From, FallbackOf, Loaded
<1>2. \A l, g : Overtaken(s, l, g)' = Overtaken(s, l, g)
  BY DEF Overtaken, InCircle
<1>3. \A l, n : Before(s, l, n)' = Before(s, l, n)
  BY DEF Before, Loaded
<1>4. ASSUME NEW l \in Langs, NEW n \in Names, Nearest(s, l, n) PROVE Nearest(s, l, n)'
  <2>1. Overtaken(s, l, FallbackOf(s, l))' = Overtaken(s, l, FallbackOf(s, l))
    BY <1>1, <1>2 DEF Overtaken
  <2>2. \A k \in Before(s, l, n) : lang'[Sources(s)[k]] = lang[Sources(s)[k]]
    BY DEF Before
  <2> QED
    BY <1>1, <1>3, <1>4, <2>1, <2>2 DEF Nearest
<1>5. \A l \in Langs : LastWins(s, l)' = LastWins(s, l)
  BY DEF LastWins, HasFile
<1> QED
  BY <1>1, <1>4, <1>5 DEF Settled

\* Patching comes out the same as long as the fallback stays as it is.
LEMMA PatchedKept ==
    ASSUME LangTyped, LoadStep, UNCHANGED <<place, english>>, NEW l \in Langs, NEW g \in Langs,
           lang'[Section][g] = lang[Section][g]
    PROVE  Patched(l, g)' = Patched(l, g)
<1>1. /\ files' = files /\ Section' = Section /\ File(l)' = File(l)
      /\ Origin(l)' = Origin(l) /\ Loading
  BY OnlyThisSection DEF Section, File, Origin
<1>2. /\ \A k \in DOMAIN Sources(Section) : lang'[Sources(Section)[k]] = lang[Sources(Section)[k]]
      /\ \A n : Before(Section, l, n)' = Before(Section, l, n)
  <2>1. /\ place.section \in DOMAIN Sections /\ place.section <= place.section
        /\ Section = Sections[place.section]
    BY <1>1, Places, Domains DEF Section
  <2>2. \A s : s = Section =>
            /\ \A k \in DOMAIN Sources(s) : lang'[Sources(s)[k]] = lang[Sources(s)[k]]
            /\ \A n : Before(s, l, n)' = Before(s, l, n)
    BY <2>1, BeforeKept
  <2> QED
    BY <1>1, <2>2 DEF Before, Loaded
<1>3. ASSUME NEW n PROVE FromSources(l, n)' = FromSources(l, n)
  <2> DEFINE before == Before(Section, l, n)
             i == CHOOSE k \in before : \A j \in before : k <= j
  <2>1. before' = before
    BY <1>2
  <2>2. before \in SUBSET Nat /\ before \subseteq DOMAIN Sources(Section)
    BY <1>1, Places, SourcesAreEarlier DEF Section, Before
  <2>3. before # {} => i \in before
    BY <2>2, LeastOf
  <2>4. FromSources(l, n) = IF before = {} THEN Empty ELSE lang[Sources(Section)[i]][l].strings[n]
    BY DEF FromSources
  <2> HIDE DEF before
  <2>5. i' = i
    BY <2>1
  <2>6. FromSources(l, n)' = IF before = {} THEN Empty
                             ELSE lang'[Sources(Section)[i]][l].strings[n]
    BY <1>1, <2>1, <2>5 DEF FromSources, before
  <2> HIDE DEF i
  <2>7. before # {} => lang'[Sources(Section)[i]] = lang[Sources(Section)[i]]
    BY <1>2, <2>2, <2>3
  <2> QED
    BY <2>4, <2>6, <2>7
<1>4. Unmarshal(l)' = Unmarshal(l)
  BY <1>1, <1>3 DEF Unmarshal
<1>5. \A to, from : /\ patchLang(to, from)' = patchLang(to, from)
                    /\ patchQuantityStrings(to, from)' = patchQuantityStrings(to, from)
  BY DEF patchLang, patchQuantityStrings, PatchEntry
<1> QED
  BY <1>1, <1>4, <1>5 DEF Patched, patchLang, patchQuantityStrings

\* What Store does, by the names of the section, the directory, the language that is stored
\* and the one it is patched from.
Stored(s, d, t, g) == s = Section /\ d = Now /\ t = Top /\ g = PatchSource

LEMMA StoreHere ==
    ASSUME LangTyped, Store, NEW s, NEW d, NEW t, NEW g, Stored(s, d, t, g)
    PROVE  /\ s \in AllSections /\ d \in AllDirectories /\ t \in Langs \ {English} /\ g \in Langs
           /\ place.section \in DOMAIN Sections /\ s = Sections[place.section]
           /\ place.dir \in DOMAIN Directories /\ d = Directories[place.dir]
           /\ Section' = s /\ Now' = d /\ at = "files" /\ UNCHANGED <<files, english, at, place>>
           /\ \A k : File(k) = files[s][d][k] /\ Falls(k) = files[s][d][k].fallback
           /\ \A k : File(k)' = File(k) /\ Falls(k)' = Falls(k)
           /\ File(t) # NoFile /\ Falls(t) \in Langs \cup {NoLang}
           /\ lang'[s][t] = Patched(t, g) /\ lang'[s][t].dir = d /\ Loaded(s, t)'
           /\ \A k \in Langs \ {t} : lang'[s][k] = lang[s][k] /\ Loaded(s, k)' = Loaded(s, k)
           /\ g = IF Falls(t) # NoLang /\ Loaded(s, Falls(t)) THEN Falls(t) ELSE English
           /\ Falls(t) # NoLang /\ ~Loaded(s, Falls(t)) => File(Falls(t)) = NoFile
           /\ From(s, t)' = File(t) /\ FallbackOf(s, t)' = g
           /\ Loading /\ LoadStep
<1>1. /\ Loading /\ at = "files" /\ stack # <<>> /\ LoadStep
      /\ Fallback # NoLang /\ ~Found => File(Fallback) = NoFile
      /\ UNCHANGED <<files, english, at, place>>
      /\ Section' = s /\ Now' = d /\ \A k : File(k)' = File(k) /\ Falls(k)' = Falls(k)
      /\ g \in Langs /\ lang[s][g] \in Text
      /\ Patched(t, g) \in Text /\ s \in AllSections
      /\ lang'[s][t] = Patched(t, g)
      /\ \A z \in AllSections, l \in Langs : z # s \/ l # t => lang'[z][l] = lang[z][l]
  BY StoreIs DEF Stored, LoadStep
<1>2. /\ t \in Langs \ {English} /\ File(t) # NoFile
      /\ Fallback \in Langs \cup {NoLang} /\ Fallback = Falls(t)
  BY <1>1, Stacked DEF Stored
<1>3. /\ d \in AllDirectories /\ place.section \in DOMAIN Sections /\ s = Sections[place.section]
      /\ place.dir \in DOMAIN Directories /\ d = Directories[place.dir]
      /\ \A k : File(k) = files[s][d][k] /\ Falls(k) = files[s][d][k].fallback
  BY <1>1, Places DEF Stored, Section, Now, File, Falls
<1>4. english \in Text
  BY <1>1, EnglishIsText
<1>5. lang'[s][t].dir = d
  BY <1>1, <1>2, <1>4, PatchedIs DEF Stored
<1>6. Loaded(s, t)'
  BY <1>1, LanguagesAssumption DEF Loaded
<1>7. \A k \in Langs \ {t} : lang'[s][k] = lang[s][k] /\ Loaded(s, k)' = Loaded(s, k)
  BY <1>1 DEF Loaded
<1>8. /\ g = IF Falls(t) # NoLang /\ Loaded(s, Falls(t)) THEN Falls(t) ELSE English
      /\ Falls(t) # NoLang /\ ~Loaded(s, Falls(t)) => File(Falls(t)) = NoFile
  BY <1>1, <1>2 DEF Stored, PatchSource, Found
<1>9. From(s, t)' = File(t)
  BY <1>1, <1>3, <1>5 DEF From
<1>10. FallbackOf(s, t)' = g
  <2>1. FallbackOf(s, t)' = IF Falls(t) # NoLang /\ lang'[s][Falls(t)] # NotLoaded
                            THEN Falls(t) ELSE English
    BY <1>9 DEF FallbackOf, Falls, Loaded
  <2>2. CASE Falls(t) = NoLang
    BY <1>8, <2>1, <2>2
  <2>3. CASE Falls(t) = t
    <3>1. Loaded(s, t)
      BY <1>2, <1>8, <2>3, LanguagesAssumption
    <3> QED
      BY <1>2, <1>6, <1>8, <2>1, <2>3, <3>1, LanguagesAssumption DEF Loaded
  <2>4. CASE Falls(t) # NoLang /\ Falls(t) # t
    <3>1. Falls(t) \in Langs \ {t}
      BY <1>2, <2>4
    <3>2. lang'[s][Falls(t)] = lang[s][Falls(t)]
      BY <1>7, <3>1
    <3> QED
      BY <1>8, <2>1, <2>4, <3>2 DEF Loaded
  <2> QED
    BY <2>2, <2>3, <2>4
<1> QED
  BY <1>1, <1>2, <1>3, <1>5, <1>6, <1>7, <1>8, <1>9, <1>10

\* Directories are told apart by their numbers.
LEMMA NumbersOfDirectories ==
    ASSUME NEW i \in DOMAIN Directories, NEW j \in DOMAIN Directories,
           Directories[i] = Directories[j]
    PROVE  i = j
BY LanguagesAssumption DEF Distinct

\* What a language falls back on, here or in a directory before.
LEMMA FallbackIsLang ==
    ASSUME Loading, NearestSoFar, NEW l \in Others
    PROVE  /\ From(Section, l).fallback \in Langs \cup {NoLang}
           /\ FallbackOf(Section, l) \in Langs
<1>1. l \in Langs /\ English \in Langs /\ From(Section, l) # NoFile
  BY LanguagesAssumption DEF Others, NearestSoFar
<1>2. PICK i \in 1..place.dir : lang[Section][l].dir = Directories[i]
  BY DEF NearestSoFar
<1>3. i \in DOMAIN Directories /\ Section \in AllSections
  BY <1>2, Places, Domains
<1>4. lang[Section][l].dir \in AllDirectories
  BY <1>2, <1>3 DEF AllDirectories
<1>5. From(Section, l) \in LangFile \cup {NoFile}
  BY <1>1, <1>3, <1>4, LanguagesAssumption DEF Loading, LangTyped, From
<1>6. From(Section, l).fallback \in Langs \cup {NoLang}
  BY <1>1, <1>5 DEF LangFile
<1> QED
  BY <1>1, <1>6 DEF FallbackOf

\* In the program's directory a language that is stored once more stays as it was.
LEMMA StoredAgain ==
    ASSUME LangTyped, Store, NEW s, NEW d, NEW t, NEW g, Stored(s, d, t, g),
           NearestSoFar, SameAgain, place.dir = 1, Loaded(s, t)
    PROVE  lang' = lang
<1>1. /\ s \in AllSections /\ t \in Langs \ {English} /\ d = Directories[1] /\ s = Section
      /\ \A k : File(k) = files[s][d][k] /\ Falls(k) = files[s][d][k].fallback
      /\ g = IF Falls(t) # NoLang /\ Loaded(s, Falls(t)) THEN Falls(t) ELSE English
  BY StoreHere DEF Stored
<1>2. t \in Others
  BY <1>1 DEF Others
<1>3. lang[s][t] = Patched(t, FallbackOf(s, t)) /\ lang[s][t].dir = d
  BY <1>1, <1>2 DEF NearestSoFar, SameAgain
<1>4. FallbackOf(s, t) = g
  BY <1>1, <1>3 DEF FallbackOf, From
<1>5. lang' = [lang EXCEPT ![s][t] = Patched(t, g)]
  BY StoreIs DEF Stored
<1>6. lang' = [lang EXCEPT ![s][t] = lang[s][t]]
  BY <1>3, <1>4, <1>5
<1> QED
  BY <1>1, <1>6 DEF LangTyped

\* A language that fell back on the one that is stored now was loaded from elsewhere, or does
\* not count.
LEMMA StoredLate ==
    ASSUME LangTyped, Store, NEW s, NEW d, NEW t, NEW g, Stored(s, d, t, g),
           NearestSoFar, FallbackFirst, SameAgain, FallbackNoted,
           NEW k \in Others, k # t, From(s, k).fallback = t, lang' # lang
    PROVE  /\ place.dir > 1
           /\ lang[s][k].dir = d /\ s \notin Unnoted => InCircle(s, k)
<1>1. /\ s \in AllSections /\ t \in Langs \ {English} /\ d = Directories[place.dir] /\ s = Section
      /\ place.dir \in DOMAIN Directories /\ d = Now
      /\ \A l : File(l) = files[s][d][l] /\ Falls(l) = files[s][d][l].fallback
      /\ File(t) # NoFile /\ Loading /\ at = "files" /\ t # NoLang
  BY StoreHere, LanguagesAssumption DEF Stored
<1>2. ASSUME lang[s][k].dir = d
      PROVE  Falls(k) = t /\ Loaded(s, t)
  BY <1>1, <1>2 DEF FallbackFirst, From
<1>3. place.dir # 1
  <2> SUFFICES ASSUME place.dir = 1 PROVE FALSE
    OBVIOUS
  <2>1. lang[s][k].dir = d
    <3>1. PICK i \in 1..place.dir : lang[s][k].dir = Directories[i]
      BY <1>1 DEF NearestSoFar
    <3>2. i = 1
      BY <3>1
    <3> QED
      BY <1>1, <3>1, <3>2
  <2> QED
    BY <1>2, <2>1, StoredAgain
<1>4. place.dir > 1
  BY <1>1, <1>3, Domains
<1>5. stack[1] = t /\ 1 \in DOMAIN stack
  <2>1. stack # <<>>
    BY DEF Store
  <2> QED
    BY <1>1, <2>1, Stacked DEF Stored
<1>6. ASSUME lang[s][k].dir = d, s \notin Unnoted, ~InCircle(s, k) PROVE FALSE
  BY <1>1, <1>2, <1>4, <1>5, <1>6 DEF FallbackNoted
<1> QED
  BY <1>4, <1>6

LEMMA StoreNearest ==
    ASSUME LangTyped, Store, NearestSoFar, FallbackFirst, SameAgain, FallbackNoted
    PROVE  NearestSoFar'
<1> PICK s, d, t, g : Stored(s, d, t, g)
  BY DEF Stored
<1>1. /\ s \in AllSections /\ t \in Langs \ {English} /\ g \in Langs /\ d \in AllDirectories
      /\ place.section \in DOMAIN Sections /\ s = Sections[place.section] /\ s = Section
      /\ place.dir \in DOMAIN Directories /\ d = Directories[place.dir] /\ d = Now
      /\ Section' = s /\ UNCHANGED <<files, english, at, place>> /\ at = "files"
      /\ \A k : File(k) = files[s][d][k] /\ Falls(k) = files[s][d][k].fallback
      /\ File(t) # NoFile
      /\ lang'[s][t] = Patched(t, g) /\ lang'[s][t].dir = d
      /\ \A k \in Langs \ {t} : lang'[s][k] = lang[s][k] /\ Loaded(s, k)' = Loaded(s, k)
      /\ From(s, t)' = File(t) /\ FallbackOf(s, t)' = g
      /\ Loading /\ LoadStep /\ English \in Langs \ {t} /\ place.section <= place.section
  BY StoreHere, Places, Domains, LanguagesAssumption DEF Stored
<1>2. /\ english = lang[s][English] /\ lang'[s][English] = lang[s][English]
      /\ english \in Text /\ lang[s][g] \in Text
  BY <1>1, StoreIs, EnglishIsText DEF LangTyped, Stored
<1>3. /\ \A k \in DOMAIN Sources(s) : lang'[Sources(s)[k]] = lang[Sources(s)[k]]
      /\ \A l, n : Before(s, l, n)' = Before(s, l, n)
  <2>1. place.section \in DOMAIN Sections /\ place.section <= place.section /\ LoadStep
        /\ s = Sections[place.section]
    BY <1>1
  <2> QED
    BY <2>1, BeforeKept
<1>4. ASSUME NEW n \in Names PROVE Nearest(s, t, n)'
  <2>1. /\ lang'[s][t].strings[n] = IF english.strings[n] # Empty /\ Unmarshal(t).strings[n] = Empty
                                    THEN lang[s][g].strings[n] ELSE Unmarshal(t).strings[n]
        /\ Unmarshal(t).strings[n] = IF n \in File(t).strings THEN Origin(t) ELSE FromSources(t, n)
    BY <1>1, <1>2, PatchedIs, FileIsText
  <2>2. Origin(t) # Empty /\ Origin(t) = [section |-> s, dir |-> d, lang |-> t]
    BY <1>1, OriginIsString DEF Origin, Now
  <2>3. CASE n \in File(t).strings
    BY <1>1, <2>1, <2>2, <2>3 DEF Nearest
  <2>4. CASE n \notin File(t).strings /\ Before(s, t, n) # {}
    <3>1. PICK i \in Before(s, t, n) : /\ FromSources(t, n) = lang[Sources(s)[i]][t].strings[n]
                                      /\ FromSources(t, n) # Empty
      BY <1>1, <2>4, FromSourcesHas
    <3>2. lang'[Sources(s)[i]] = lang[Sources(s)[i]]
      BY <1>3, <3>1 DEF Before
    <3>3. lang'[s][t].strings[n] = lang'[Sources(s)[i]][t].strings[n]
      BY <2>1, <2>4, <3>1, <3>2
    <3> QED
      BY <1>1, <1>3, <2>4, <3>1, <3>3 DEF Nearest
  <2>5. CASE n \notin File(t).strings /\ Before(s, t, n) = {}
    <3>1. FromSources(t, n) = Empty
      BY <1>1, <2>5, FromSourcesHas
    <3>2. CASE english.strings[n] = Empty
      BY <1>1, <1>2, <1>3, <2>5, <3>2 DEF Nearest
    <3>3. CASE english.strings[n] # Empty /\ g = t
      BY <1>1, <1>3, <2>5, <3>3 DEF Nearest
    <3>4. CASE english.strings[n] # Empty /\ g # t
      <4>1. lang'[s][t].strings[n] = lang'[s][g].strings[n]
        BY <1>1, <2>1, <2>5, <3>1, <3>4
      <4> QED
        BY <1>1, <1>3, <2>5, <4>1 DEF Nearest
    <3> QED
      BY <3>2, <3>3, <3>4
  <2> QED
    BY <2>3, <2>4, <2>5
<1>5. ASSUME NEW k \in Others, k # t, NEW n \in Names PROVE Nearest(s, k, n)'
  <2>1. /\ k \in Langs \ {t} /\ Nearest(s, k, n) /\ lang'[s][k] = lang[s][k]
        /\ From(s, k)' = From(s, k)
    BY <1>1, <1>5 DEF NearestSoFar, Others, From
  <2>2. CASE lang' = lang
    <3>1. FallbackOf(s, k)' = FallbackOf(s, k)
      BY <2>1, <2>2 DEF FallbackOf, Loaded
    <3> QED
      BY <1>1, <2>1, <2>2, <3>1, NearestKept
  <2>3. CASE From(s, k).fallback # t
    <3>1. FallbackOf(s, k) \in Langs \ {t} /\ FallbackOf(s, k)' = FallbackOf(s, k)
      <4>1. From(s, k).fallback # NoLang => From(s, k).fallback \in Langs
        BY <1>1, <1>5, FallbackIsLang
      <4>2. From(s, k).fallback # NoLang =>
              Loaded(s, From(s, k).fallback)' = Loaded(s, From(s, k).fallback)
        BY <1>1, <2>1, <2>3, <4>1 DEF Loaded
      <4> QED
        BY <1>1, <2>1, <2>3, <4>1, <4>2 DEF FallbackOf
    <3>2. lang'[s][FallbackOf(s, k)] = lang[s][FallbackOf(s, k)]
      BY <1>1, <3>1
    <3> QED
      BY <1>1, <1>2, <2>1, <3>1, <3>2, NearestKept
  <2>4. CASE From(s, k).fallback = t /\ lang' # lang
    <3>1. place.dir > 1 /\ (lang[s][k].dir = d /\ s \notin Unnoted => InCircle(s, k))
      BY <1>5, <2>4, StoredLate
    <3>2. FallbackOf(s, k)' = t
      BY <1>1, <2>1, <2>4, StoreHere, LanguagesAssumption DEF FallbackOf, Loaded
    <3>3. d # Directories[1]
      <4>1. 1 \in DOMAIN Directories /\ place.dir # 1
        BY <3>1, Domains
      <4> QED
        BY <1>1, <4>1, NumbersOfDirectories
    <3>4. InCircle(s, k)' = InCircle(s, k)
      BY <1>1, <2>1 DEF InCircle
    <3>5. Overtaken(s, k, t)'
      BY <1>1, <2>1, <3>1, <3>3, <3>4 DEF Overtaken
    <3>6. \A i \in Before(s, k, n) : lang'[Sources(s)[i]] = lang[Sources(s)[i]]
      BY <1>3 DEF Before
    <3> QED
      BY <1>1, <1>3, <2>1, <3>2, <3>5, <3>6 DEF Nearest
  <2> QED
    BY <2>2, <2>3, <2>4
<1>6. Others' \subseteq Others \cup {t} /\ \A k \in Others : k \in Langs
  BY <1>1 DEF Others
<1>7. From(s, t)' # NoFile /\ \E i \in 1..place.dir : lang'[s][t].dir = Directories[i]
  <2>1. place.dir \in 1..place.dir
    BY <1>1, Domains
  <2> QED
    BY <1>1, <2>1
<1>8. ASSUME NEW k \in Others, k # t
      PROVE  From(s, k)' # NoFile /\ \E i \in 1..place.dir : lang'[s][k].dir = Directories[i]
  BY <1>1, <1>6, <1>8 DEF NearestSoFar, From
<1> QED
  BY <1>1, <1>4, <1>5, <1>6, <1>7, <1>8 DEF NearestSoFar

LEMMA FallsIsLang ==
    ASSUME Loading, NEW k \in Langs, File(k) # NoFile PROVE Falls(k) \in Langs \cup {NoLang}
BY Places DEF Falls, LangFile

\* What a language of this directory falls back on.
LEMMA OtherFalls ==
    ASSUME Loading, NearestSoFar, NEW k \in Others, lang[Section][k].dir = Now
    PROVE  File(k) # NoFile /\ Falls(k) \in Langs \cup {NoLang}
<1>1. File(k) # NoFile /\ k \in Langs
  BY DEF NearestSoFar, From, File, Now, Others
<1> QED
  BY <1>1, FallsIsLang

LEMMA StoreFallbackFirst ==
    ASSUME LangTyped, Store, NearestSoFar, FallbackFirst
    PROVE  FallbackFirst'
<1> PICK s, d, t, g : Stored(s, d, t, g)
  BY DEF Stored
<1>1. /\ t \in Langs \ {English} /\ s = Section /\ d = Now /\ Section' = s /\ Now' = d
      /\ \A k : File(k)' = File(k) /\ Falls(k)' = Falls(k)
      /\ \A k \in Langs \ {t} : lang'[s][k] = lang[s][k] /\ Loaded(s, k)' = Loaded(s, k)
      /\ Falls(t) # NoLang /\ ~Loaded(s, Falls(t)) => File(Falls(t)) = NoFile
      /\ Loaded(s, t)' /\ Loading /\ Falls(t) \in Langs \cup {NoLang}
  BY StoreHere DEF Stored
<1>2. ASSUME NEW k \in Langs, Loaded(s, k) \/ File(k) = NoFile
      PROVE  lang'[s][k] # NotLoaded \/ File(k) = NoFile
  BY <1>1, <1>2 DEF Loaded
<1>3. ASSUME NEW k \in Others', lang'[s][k].dir = d, Falls(k) # NoLang
      PROVE  lang'[s][Falls(k)] # NotLoaded \/ File(Falls(k)) = NoFile
  <2>1. CASE k = t
    <3>1. Falls(t) \in Langs
      BY <1>1, <1>3, <2>1
    <3>2. Loaded(s, Falls(t)) \/ File(Falls(t)) = NoFile
      BY <1>1, <1>3, <2>1
    <3> QED
      BY <1>2, <2>1, <3>1, <3>2
  <2>2. CASE k # t
    <3>1. k \in Others /\ lang[s][k].dir = d
      BY <1>1, <1>3, <2>2 DEF Others
    <3>2. Falls(k) \in Langs
      BY <1>1, <1>3, <3>1, OtherFalls
    <3>3. Loaded(s, Falls(k)) \/ File(Falls(k)) = NoFile
      BY <1>1, <1>3, <3>1 DEF FallbackFirst
    <3> QED
      BY <1>2, <3>2, <3>3
  <2> QED
    BY <2>1, <2>2
<1> QED
  BY <1>1, <1>3 DEF FallbackFirst, Loaded

LEMMA StoreSameAgain ==
    ASSUME LangTyped, Store, NearestSoFar, FallbackFirst, SameAgain, FallbackNoted
    PROVE  SameAgain'
<1> PICK s, d, t, g : Stored(s, d, t, g)
  BY DEF Stored
<1>1. /\ s \in AllSections /\ t \in Langs \ {English} /\ g \in Langs /\ English \in Langs \ {t}
      /\ place.section \in DOMAIN Sections /\ s = Sections[place.section] /\ s = Section
      /\ d = Directories[place.dir] /\ d = Now
      /\ Section' = s /\ UNCHANGED <<files, english, at, place>> /\ at = "files"
      /\ \A k : File(k) = files[s][d][k] /\ Falls(k) = files[s][d][k].fallback
      /\ File(t) # NoFile /\ Falls(t) \in Langs \cup {NoLang}
      /\ lang'[s][t] = Patched(t, g) /\ lang'[s][t].dir = d
      /\ \A k \in Langs \ {t} : lang'[s][k] = lang[s][k] /\ Loaded(s, k)' = Loaded(s, k)
      /\ g = IF Falls(t) # NoLang /\ Loaded(s, Falls(t)) THEN Falls(t) ELSE English
      /\ Falls(t) # NoLang /\ ~Loaded(s, Falls(t)) => File(Falls(t)) = NoFile
      /\ From(s, t)' = File(t) /\ FallbackOf(s, t)' = g
      /\ Loading /\ LoadStep
  BY StoreHere, LanguagesAssumption DEF Stored
<1> SUFFICES ASSUME place.dir = 1, NEW l \in Others'
             PROVE  /\ lang'[s][l] = Patched(l, FallbackOf(s, l))'
                    /\ ~InCircle(s, l)'
  BY <1>1 DEF SameAgain
<1>0. l \in Langs
  BY DEF Others
<1>2. ASSUME NEW k \in Others
      PROVE  /\ k \in Langs \ {English} /\ Loaded(s, k)
             /\ lang[s][k].dir = d /\ lang[s][k] = Patched(k, FallbackOf(s, k))
             /\ ~InCircle(s, k) /\ File(k) # NoFile /\ From(s, k) = File(k)
             /\ Falls(k) \in Langs \cup {NoLang}
  <2>1. PICK i \in 1..place.dir : lang[s][k].dir = Directories[i]
    BY <1>1 DEF NearestSoFar
  <2>2. i = 1
    BY <2>1
  <2>3. lang[s][k].dir = d
    BY <1>1, <2>1, <2>2
  <2> QED
    BY <1>1, <2>3, OtherFalls DEF SameAgain, From, Others
<1>3. CASE lang' = lang
  <2>1. Others' = Others
    BY <1>1, <1>3 DEF Others, Loaded
  <2>2. FallbackOf(s, l)' = FallbackOf(s, l) /\ InCircle(s, l)' = InCircle(s, l)
    BY <1>1, <1>3 DEF FallbackOf, From, Loaded, InCircle
  <2>3. FallbackOf(s, l) \in Langs
    BY <1>1, <1>2, <2>1 DEF FallbackOf
  <2>4. \A k \in Langs : Patched(l, k)' = Patched(l, k)
    BY <1>0, <1>1, <1>3, PatchedKept
  <2> QED
    BY <1>2, <1>3, <2>1, <2>2, <2>3, <2>4
<1>4. CASE lang' # lang
  <2>1. ~Loaded(s, t)
    BY <1>1, <1>4, StoredAgain
  <2>2. g # t
    BY <1>1, <2>1, LanguagesAssumption
  <2>3. CASE l = t
    <3>1. lang'[s][g] = lang[s][g]
      BY <1>1, <2>2
    <3>2. Patched(t, g)' = Patched(t, g)
      BY <1>1, <3>1, PatchedKept
    <3>3. ~InCircle(s, t)'
      <4> SUFFICES ASSUME NEW circle \in SUBSET (Langs \ {English}), t \in circle,
                          \A k \in circle : /\ files[s][d][k] # NoFile
                                            /\ files[s][d][k].fallback \in circle
                   PROVE  FALSE
        BY <1>1 DEF InCircle
      <4>1. Falls(t) \in circle /\ Falls(t) # NoLang /\ File(Falls(t)) # NoFile
        BY <1>1, LanguagesAssumption
      <4>2. Falls(t) \in Others
        BY <1>1, <4>1 DEF Others
      <4>3. InCircle(s, Falls(t))
        BY <1>2, <4>1, <4>2 DEF InCircle
      <4> QED
        BY <1>2, <4>2, <4>3
    <3> QED
      BY <1>1, <2>3, <3>2, <3>3
  <2>4. CASE l # t
    <3>1. l \in Others
      BY <1>1, <2>4 DEF Others
    <3>2. lang'[s][l] = lang[s][l] /\ InCircle(s, l)' = InCircle(s, l) /\ From(s, l)' = From(s, l)
      <4>1. lang'[s][l] = lang[s][l] /\ files' = files
        BY <1>1, <1>2, <2>4, <3>1
      <4> QED
        BY <4>1 DEF InCircle, From
    <3>3. From(s, l).fallback # t
      <4> SUFFICES ASSUME From(s, l).fallback = t PROVE FALSE
        OBVIOUS
      <4>1. place.dir > 1
        BY <1>4, <2>4, <3>1, StoredLate
      <4> QED
        BY <4>1
    <3>4. /\ FallbackOf(s, l) \in Langs \ {t}
          /\ FallbackOf(s, l)' = FallbackOf(s, l)
      <4>1. From(s, l).fallback \in (Langs \ {t}) \cup {NoLang}
        BY <1>1, <1>2, <3>1, <3>3 DEF Falls
      <4> QED
        BY <1>1, <3>2, <4>1 DEF FallbackOf
    <3>5. lang'[s][FallbackOf(s, l)] = lang[s][FallbackOf(s, l)]
      BY <1>1, <3>4
    <3>6. ASSUME NEW k \in Langs, lang'[s][k] = lang[s][k] PROVE Patched(l, k)' = Patched(l, k)
      BY <1>0, <1>1, <3>6, PatchedKept
    <3> QED
      BY <1>2, <3>1, <3>2, <3>4, <3>5, <3>6
  <2> QED
    BY <2>3, <2>4
<1> QED
  BY <1>3, <1>4

\* The languages on the stack from one up to its fallback are a circle.
LEMMA StackedCircle ==
    ASSUME Loading, at = "files", stack # <<>>, NEW j \in DOMAIN stack, stack[j] = Falls(Top)
    PROVE  \E circle \in SUBSET (Langs \ {English}) :
               /\ Top \in circle
               /\ \A k \in circle : File(k) # NoFile /\ Falls(k) \in circle
<1> DEFINE circle == {stack[i] : i \in 1..j}
<1>1. /\ DOMAIN stack = 1..Len(stack) /\ Len(stack) \in Nat \ {0} /\ Top = stack[1]
      /\ stack \in [1..Len(stack) -> Langs]
  BY Stacked, LenProperties DEF Loading, LangTyped
<1>2. \A i \in 1..j : i \in DOMAIN stack
  BY <1>1
<1>3. \A i \in 1..j : /\ stack[i] \in Langs /\ stack[i] # English /\ File(stack[i]) # NoFile
                      /\ i > 1 => Falls(stack[i]) = stack[i - 1]
  BY <1>1, <1>2 DEF Loading, LangTyped
<1>4. circle \in SUBSET (Langs \ {English}) /\ Top \in circle
  BY <1>1, <1>3
<1>5. ASSUME NEW i \in 1..j PROVE Falls(stack[i]) \in circle
  <2>1. CASE i = 1
    BY <1>1, <2>1
  <2>2. CASE i > 1
    <3>1. i - 1 \in 1..j
      BY <1>1, <2>2
    <3> QED
      BY <1>3, <2>2, <3>1
  <2> QED
    BY <2>1, <2>2
<1>6. \A k \in circle : File(k) # NoFile /\ Falls(k) \in circle
  BY <1>3, <1>5
<1> QED
  BY <1>4, <1>6

LEMMA StoreFallbackNoted ==
    ASSUME LangTyped, Store, NearestSoFar, FallbackFirst, FallbackNoted
    PROVE  FallbackNoted'
<1> PICK s, d, t, g : Stored(s, d, t, g)
  BY DEF Stored
<1>1. /\ s \in AllSections /\ t \in Langs \ {English} /\ s = Section /\ d = Now /\ t = Top
      /\ Section' = s /\ Now' = d /\ UNCHANGED <<files, english, at, place>> /\ at = "files"
      /\ \A k : File(k) = files[s][d][k] /\ Falls(k) = files[s][d][k].fallback
      /\ \A k : File(k)' = File(k) /\ Falls(k)' = Falls(k)
      /\ File(t) # NoFile /\ Falls(t) \in Langs \cup {NoLang}
      /\ lang'[s][t].dir = d
      /\ \A k \in Langs \ {t} : lang'[s][k] = lang[s][k] /\ Loaded(s, k)' = Loaded(s, k)
      /\ Loading
  BY StoreHere DEF Stored
<1>2. /\ stack # <<>> /\ stack' = Tail(stack)
      /\ loadedLangs \subseteq loadedLangs'
      /\ Fallback = Falls(t)
      /\ s \notin Unnoted /\ Falls(t) # NoLang /\ Loaded(s, Falls(t)) => Falls(t) \in loadedLangs'
  BY <1>1, StoreIs, Stacked DEF Found
<1>3. /\ DOMAIN stack = 1..Len(stack) /\ Len(stack) \in Nat \ {0} /\ t = stack[1]
      /\ \A i \in DOMAIN stack' : i + 1 \in DOMAIN stack /\ stack'[i] = stack[i + 1]
  BY <1>1, <1>2, Stacked
<1> SUFFICES ASSUME place.dir > 1, s \notin Unnoted, NEW k \in Others', lang'[s][k].dir = d,
                    ~InCircle(s, k)', Falls(k) # NoLang, Loaded(s, Falls(k))'
             PROVE  Falls(k) \in loadedLangs' /\ \A i \in DOMAIN stack' : stack'[i] # Falls(k)
  BY <1>1 DEF FallbackNoted
<1>4. CASE k = t
  <2>1. Falls(t) # t
    <3> SUFFICES ASSUME Falls(t) = t PROVE InCircle(s, t)'
      BY <1>4
    <3>1. {t} \in SUBSET (Langs \ {English}) /\ t \in {t}
      BY <1>1
    <3>2. files[s][d][t] # NoFile /\ files[s][d][t].fallback = t
      BY <1>1
    <3>3. \A c \in {t} : files[s][d][c] # NoFile /\ files[s][d][c].fallback \in {t}
      BY <3>2
    <3> QED
      BY <1>1, <3>1, <3>3, ZenonT(60) DEF InCircle
  <2>2. Loaded(s, Falls(t)) /\ Falls(t) \in loadedLangs'
    BY <1>1, <1>2, <1>4, <2>1
  <2>3. ASSUME NEW i \in DOMAIN stack', stack'[i] = Falls(t) PROVE FALSE
    <3>1. i + 1 \in DOMAIN stack /\ stack[i + 1] = Falls(t)
      BY <1>3, <2>3
    <3>2. PICK circle \in SUBSET (Langs \ {English}) :
               /\ t \in circle
               /\ \A c \in circle : File(c) # NoFile /\ Falls(c) \in circle
      BY <1>1, <1>2, <3>1, StackedCircle
    <3>3. InCircle(s, t)'
      BY <1>1, <3>2 DEF InCircle
    <3> QED
      BY <1>4, <3>3
  <2> QED
    BY <1>4, <2>2, <2>3
<1>5. CASE k # t
  <2>1. k \in Others /\ lang'[s][k] = lang[s][k] /\ InCircle(s, k)' = InCircle(s, k)
    BY <1>1, <1>5 DEF Others, InCircle
  <2>2. Falls(k) \in Langs
    BY <1>1, <2>1, OtherFalls
  <2>3. Loaded(s, Falls(k))
    <3>1. Loaded(s, Falls(k)) \/ File(Falls(k)) = NoFile
      BY <1>1, <2>1 DEF FallbackFirst
    <3> QED
      BY <1>1, <2>2, <3>1
  <2>4. Falls(k) \in loadedLangs /\ \A i \in DOMAIN stack : stack[i] # Falls(k)
    BY <1>1, <2>1, <2>3 DEF FallbackNoted
  <2> QED
    BY <1>2, <1>3, <2>4
<1> QED
  BY <1>4, <1>5

LEMMA StoreLast ==
    ASSUME LangTyped, Store, LastSoFar
    PROVE  LastSoFar'
<1> PICK s, d, t, g : Stored(s, d, t, g)
  BY DEF Stored
<1>1. /\ s \in AllSections /\ t \in Langs \ {English} /\ s = Section /\ t = Top
      /\ d = Directories[place.dir]
      /\ Section' = s /\ UNCHANGED <<files, at, place>> /\ at = "files" /\ Loading
      /\ \A k : File(k) = files[s][d][k] /\ Falls(k) = files[s][d][k].fallback
      /\ File(t) # NoFile /\ lang'[s][t].dir = d /\ English \in Langs \ {t}
      /\ \A k \in Langs \ {t} : lang'[s][k] = lang[s][k]
  BY StoreHere, LanguagesAssumption DEF Stored
<1>2. /\ stack # <<>> /\ Fallback = Falls(t)
      /\ \A k \in loadedLangs' : k \in loadedLangs \/ k = t \/ (k = Falls(t) /\ s \notin Unnoted)
  BY <1>1, StoreIs, Stacked
<1>3. ASSUME place.dir = Len(Directories), NEW k \in loadedLangs' PROVE LastWins(s, k)'
  <2>1. CASE k = t
    BY <1>1, <1>3, <2>1 DEF LastWins
  <2>2. CASE k # t /\ k = Falls(t) /\ s \notin Unnoted
    BY <1>1, <1>3, <2>2 DEF LastWins, HasFile
  <2>3. CASE k # t /\ k \in loadedLangs
    <3>1. LastWins(s, k) /\ lang'[s][k] = lang[s][k]
      BY <1>1, <1>3, <2>3 DEF LastSoFar, Loading, LangTyped
    <3> QED
      BY <1>1, <3>1 DEF LastWins, HasFile
  <2> QED
    BY <1>2, <2>1, <2>2, <2>3
<1> QED
  BY <1>1, <1>3 DEF LastSoFar, HasFile

LEMMA LoadEnglishSettles ==
    ASSUME LangTyped, LangTyped', Stages, LoadEnglish, at' = "files"
    PROVE  NearestSoFar' /\ FallbackFirst' /\ SameAgain' /\ FallbackNoted' /\ LastSoFar'
<1>1. /\ Loading /\ Section' = Section /\ files' = files /\ at = "english"
      /\ Section \in AllSections /\ English \in Langs
      /\ place.dir \in DOMAIN Directories /\ Now = Directories[place.dir]
  BY OnlyThisSection, SectionAfter, Places, LanguagesAssumption
     DEF LoadStep, LoadEnglish, Now, FinishDirectory
<1>2. /\ LastDirectory /\ place'.dir = 1 /\ loadedLangs' = {English}
      /\ lang' = IF File(English) = NoFile THEN lang
                 ELSE [lang EXCEPT ![Section][English] = Unmarshal(English)]
  BY <1>1 DEF LoadEnglish, First
<1>3. Others' = {}
  BY <1>1, <1>2 DEF Stages, Others, Loaded, LangTyped
<1>4. HasFile(Section, Len(Directories), English)' =>
          lang'[Section][English].dir = Directories[Len(Directories)]
  <2> SUFFICES ASSUME HasFile(Section, Len(Directories), English)
               PROVE  lang'[Section][English].dir = Directories[Len(Directories)]
    BY <1>1 DEF HasFile
  <2>1. File(English) # NoFile
    BY <1>2 DEF HasFile, File, LastDirectory
  <2>2. lang'[Section][English] = Unmarshal(English)
    BY <1>1, <1>2, <2>1 DEF LangTyped
  <2>3. Unmarshal(English).dir = Directories[Len(Directories)]
    BY <1>1, <1>2, <2>1, FileIsText DEF LastDirectory
  <2> QED
    BY <2>2, <2>3
<1>5. \A l \in loadedLangs' : LastWins(Section, l)'
  BY <1>1, <1>2, <1>4 DEF LastWins
<1> QED
  BY <1>1, <1>3, <1>4, <1>5 DEF NearestSoFar, FallbackFirst, SameAgain, FallbackNoted, LastSoFar

\* The languages are the same ones, and so is what they are patched from.
LEMMA SameLangs ==
    ASSUME UNCHANGED <<files, lang, english>>, place'.section = place.section
    PROVE  /\ Section' = Section /\ Others' = Others
           /\ \A l : /\ \A n : Nearest(Section, l, n)' = Nearest(Section, l, n)
                     /\ From(Section, l)' = From(Section, l)
                     /\ LastWins(Section, l)' = LastWins(Section, l)
                     /\ InCircle(Section, l)' = InCircle(Section, l)
                     /\ Loaded(Section, l)' = Loaded(Section, l)
                     /\ FallbackOf(Section, l)' = FallbackOf(Section, l)
                     /\ \A i : HasFile(Section, i, l)' = HasFile(Section, i, l)
<1>1. Section' = Section
  BY DEF Section
<1>2. \A l : /\ From(Section, l)' = From(Section, l)
             /\ InCircle(Section, l)' = InCircle(Section, l)
             /\ Loaded(Section, l)' = Loaded(Section, l)
             /\ LastWins(Section, l)' = LastWins(Section, l)
             /\ \A i : HasFile(Section, i, l)' = HasFile(Section, i, l)
             /\ \A n : Before(Section, l, n)' = Before(Section, l, n)
  BY <1>1 DEF From, InCircle, Loaded, LastWins, HasFile, Before
<1>3. \A l : FallbackOf(Section, l)' = FallbackOf(Section, l)
  BY <1>1 DEF FallbackOf, From, Loaded
<1>4. ASSUME NEW l, NEW n PROVE Nearest(Section, l, n)' = Nearest(Section, l, n)
  <2>1. Overtaken(Section, l, FallbackOf(Section, l))' =
        Overtaken(Section, l, FallbackOf(Section, l))
    BY <1>1, <1>2, <1>3 DEF Overtaken
  <2> QED
    BY <1>1, <1>2, <1>3, <2>1 DEF Nearest
<1> QED
  BY <1>1, <1>2, <1>3, <1>4 DEF Others

\* Only the place in the directory and the stack change.
LEMMA LoadFileSettles ==
    ASSUME LangTyped, LoadFile \/ LoadFallback, at' = "files",
           NearestSoFar, FallbackFirst, SameAgain, FallbackNoted, LastSoFar
    PROVE  NearestSoFar' /\ FallbackFirst' /\ SameAgain' /\ FallbackNoted' /\ LastSoFar'
<1>1. /\ UNCHANGED <<files, lang, english, at, place, loadedLangs>> /\ at = "files" /\ Loading
  BY DEF LoadFile, LoadFallback, Loading
<1>2. /\ Section' = Section /\ Others' = Others /\ Now' = Now
      /\ \A l : File(l)' = File(l) /\ Falls(l)' = Falls(l)
      /\ \A l : /\ \A n : Nearest(Section, l, n)' = Nearest(Section, l, n)
                /\ From(Section, l)' = From(Section, l)
                /\ LastWins(Section, l)' = LastWins(Section, l)
                /\ InCircle(Section, l)' = InCircle(Section, l)
                /\ Loaded(Section, l)' = Loaded(Section, l)
                /\ FallbackOf(Section, l)' = FallbackOf(Section, l)
                /\ \A i : HasFile(Section, i, l)' = HasFile(Section, i, l)
  BY <1>1, SameLangs DEF Now, File, Falls, Section
<1>3. NearestSoFar' /\ LastSoFar'
  BY <1>1, <1>2 DEF NearestSoFar, LastSoFar
<1>4. FallbackFirst'
  BY <1>1, <1>2 DEF FallbackFirst, Loaded, File
<1>5. SameAgain'
  <2>1. ASSUME NEW l \in Langs, NEW g \in Langs PROVE Patched(l, g)' = Patched(l, g)
    BY <1>1, PatchedKept DEF LoadStep
  <2>2. \A l \in Others : l \in Langs /\ FallbackOf(Section, l) \in Langs
    BY <1>1, FallbackIsLang DEF Others
  <2> QED
    BY <1>1, <1>2, <2>1, <2>2 DEF SameAgain
<1>6. FallbackNoted'
  <2> SUFFICES ASSUME place.dir > 1, Section \notin Unnoted, NEW k \in Others,
                      lang[Section][k].dir = Now, ~InCircle(Section, k),
                      Falls(k) # NoLang, Loaded(Section, Falls(k)),
                      NEW i \in DOMAIN stack'
               PROVE  Falls(k) \in loadedLangs /\ stack'[i] # Falls(k)
    BY <1>1, <1>2 DEF FallbackNoted, Loaded
  <2>1. Falls(k) \in loadedLangs /\ \A j \in DOMAIN stack : stack[j] # Falls(k)
    BY DEF FallbackNoted
  <2>2. CASE LoadFile
    <3>1. PICK l \in Remaining : stack' = <<l>>
      BY <2>2 DEF LoadFile
    <3>2. i = 1 /\ stack'[i] = l
      BY <3>1
    <3> QED
      BY <2>1, <3>1, <3>2 DEF Remaining
  <2>3. CASE LoadFallback
    <3>1. /\ DOMAIN stack = 1..Len(stack) /\ Len(stack) \in Nat \ {0}
          /\ Fallback \in Langs \cup {NoLang}
      BY <1>1, <2>3, Stacked DEF LoadFallback
    <3>2. stack' = <<Fallback>> \o stack /\ Fallback # NoLang /\ ~Loaded(Section, Fallback)
      BY <2>3 DEF LoadFallback
    <3>3. stack \in Seq(Langs) /\ <<Fallback>> \in Seq(Langs) /\ Len(<<Fallback>>) = 1
      BY <3>1, <3>2 DEF LangTyped
    <3>4. /\ stack' \in Seq(Langs) /\ Len(stack') = Len(stack) + 1
          /\ \A j \in 1..(Len(stack) + 1) : stack'[j] = IF j = 1 THEN Fallback ELSE stack[j - 1]
      BY <3>1, <3>2, <3>3, ConcatProperties
    <3>5. i \in 1..(Len(stack) + 1)
      BY <3>4, LenProperties
    <3>6. CASE i = 1
      BY <2>1, <3>2, <3>4, <3>5, <3>6
    <3>7. CASE i # 1
      <4>1. i - 1 \in DOMAIN stack /\ stack'[i] = stack[i - 1]
        BY <3>1, <3>4, <3>5, <3>7
      <4> QED
        BY <2>1, <4>1
    <3> QED
      BY <3>6, <3>7
  <2> QED
    BY <2>2, <2>3
<1> QED
  BY <1>3, <1>4, <1>5, <1>6

LEMMA FinishDirectorySettles ==
    ASSUME LangTyped, FinishDirectory, ~LastDirectory,
           NearestSoFar, FallbackFirst, SameAgain, FallbackNoted, LastSoFar
    PROVE  NearestSoFar' /\ FallbackFirst' /\ SameAgain' /\ FallbackNoted' /\ LastSoFar'
<1>1. /\ UNCHANGED <<files, lang, english>> /\ at = "files" /\ Loading
      /\ place' = [place EXCEPT !.dir = @ + 1] /\ loadedLangs' = {English}
      /\ place \in [section : DOMAIN Sections, dir : DOMAIN Directories]
  BY DEF FinishDirectory, Loading, NextDirectory, LangTyped
<1>2. /\ place'.section = place.section /\ place'.dir = place.dir + 1
      /\ place.dir \in Nat \ {0} /\ place'.dir \in DOMAIN Directories /\ place'.dir > 1
  BY <1>1, Domains DEF LastDirectory
<1>3. /\ Section' = Section /\ Others' = Others
      /\ \A l : /\ \A n : Nearest(Section, l, n)' = Nearest(Section, l, n)
                /\ From(Section, l)' = From(Section, l)
                /\ LastWins(Section, l)' = LastWins(Section, l)
                /\ \A i : HasFile(Section, i, l)' = HasFile(Section, i, l)
  BY <1>1, <1>2, SameLangs
<1>4. \A l \in Others : lang[Section][l].dir # Now'
  <2> SUFFICES ASSUME NEW l \in Others, lang[Section][l].dir = Now' PROVE FALSE
    OBVIOUS
  <2>1. PICK i \in 1..place.dir : lang[Section][l].dir = Directories[i]
    BY DEF NearestSoFar
  <2>2. i \in DOMAIN Directories /\ i # place'.dir
    BY <1>1, <1>2, <2>1, Domains
  <2> QED
    BY <1>2, <2>1, <2>2, NumbersOfDirectories DEF Now
<1>5. NearestSoFar'
  <2>1. \A i \in 1..place.dir : i \in 1..(place.dir + 1)
    BY <1>2
  <2> QED
    BY <1>1, <1>2, <1>3, <2>1 DEF NearestSoFar
<1>6. FallbackFirst' /\ FallbackNoted'
  BY <1>1, <1>3, <1>4 DEF FallbackFirst, FallbackNoted
<1>7. SameAgain'
  BY <1>2 DEF SameAgain
<1>8. LastSoFar'
  <2>1. LastWins(Section, English)
    BY DEF LastSoFar, LastWins
  <2> QED
    BY <1>1, <1>3, <2>1 DEF LastSoFar
<1> QED
  BY <1>5, <1>6, <1>7, <1>8

LEMMA SectionSettles ==
    ASSUME LangTyped, FinishDirectory, LastDirectory, NearestSoFar, LastSoFar
    PROVE  Settled(Section)
<1>1. place.dir = Len(Directories) /\ Remaining = {} /\ at = "files"
  BY DEF LastDirectory, FinishDirectory
<1>2. ASSUME NEW l \in Langs, ~LastWins(Section, l) PROVE FALSE
  <2>1. HasFile(Section, Len(Directories), l)
    BY <1>2 DEF LastWins
  <2>2. l \in loadedLangs
    BY <1>1, <2>1 DEF Remaining, File, HasFile
  <2> QED
    BY <1>1, <1>2, <2>2 DEF LastSoFar
<1> QED
  BY <1>2 DEF Settled, NearestSoFar, Others

LEMMA SettledSoFarStep ==
    LangTyped /\ LangTyped' /\ Stages /\ SettledSoFar /\ LoadStep => SettledSoFar'
<1> SUFFICES ASSUME LangTyped, LangTyped', Stages, SettledSoFar, LoadStep PROVE SettledSoFar'
  OBVIOUS
<1>1. Loading /\ files' = files /\ \A s \in AllSections \ {Section} : lang'[s] = lang[s]
  BY OnlyThisSection
<1>2. ASSUME NEW i \in DOMAIN Sections, i < place.section PROVE Settled(Sections[i])'
  <2>1. Settled(Sections[i])
    BY <1>1, <1>2 DEF SettledSoFar, Loading
  <2>2. lang'[Sections[i]] = lang[Sections[i]]
    BY <1>1, <1>2, NumbersOfSections
  <2>3. \A s : s = Sections[i] =>
               \A k \in DOMAIN Sources(s) : lang'[Sources(s)[k]] = lang[Sources(s)[k]]
    <3>1. i <= place.section
      BY <1>1, <1>2, NumbersOfSections
    <3> QED
      BY <3>1, BeforeKept
  <2>4. \A s : s = Sections[i] => Settled(s)'
    BY <1>1, <2>1, <2>2, <2>3, SettledKept
  <2> QED
    BY <2>4
<1>3. CASE ~FinishDirectory \/ ~LastDirectory
  <2>1. /\ place'.section = place.section /\ Section' = Section
        /\ at' # "loaded" /\ (at = "files" => at' # "english")
    BY <1>3, SectionAfter
  <2>2. ASSUME at' = "files"
        PROVE  NearestSoFar' /\ FallbackFirst' /\ SameAgain' /\ FallbackNoted' /\ LastSoFar'
    <3>1. CASE LoadEnglish
      BY <2>2, <3>1, LoadEnglishSettles
    <3>2. CASE ~LoadEnglish
      <4>1. at = "files" /\ (Store \/ FinishDirectory \/ LoadFile \/ LoadFallback)
        BY <3>2 DEF LoadStep, LoadFile, FinishDirectory, LoadFallback, Store
      <4>2. NearestSoFar /\ FallbackFirst /\ SameAgain /\ FallbackNoted /\ LastSoFar
        BY <4>1 DEF SettledSoFar
      <4> QED
        BY <1>3, <2>2, <4>1, <4>2, LoadFileSettles, FinishDirectorySettles, StoreNearest,
           StoreFallbackFirst, StoreSameAgain, StoreFallbackNoted, StoreLast
    <3> QED
      BY <3>1, <3>2
  <2> QED
    BY <1>2, <2>1, <2>2 DEF SettledSoFar
<1>4. CASE FinishDirectory /\ LastDirectory /\ at' \in {"english", "files", "loaded"}
  <2>1. /\ UNCHANGED <<files, lang>> /\ at = "files"
        /\ place'.section = place.section + 1
        /\ at' = "loaded" => place.section = Len(Sections)
        /\ at' # "loaded" => at' = "english"
    BY <1>4, NextSection
  <2>2. ASSUME NEW i \in DOMAIN Sections, i < place.section + 1
        PROVE  Settled(Sections[i])'
    <3>1. CASE i < place.section
      BY <1>2, <3>1
    <3>2. CASE i = place.section
      <4>1. Settled(Sections[i])
        BY <1>4, <2>1, <3>2, SectionSettles DEF SettledSoFar, Section
      <4> QED
        BY <2>1, <4>1, SettledKept
    <3> QED
      BY <1>1, <2>2, <3>1, <3>2, NumbersOfSections
  <2>3. at' = "loaded" => \A i \in DOMAIN Sections : i < place.section + 1
    BY <1>1, <2>1, Places, Domains
  <2> QED
    BY <2>1, <2>2, <2>3 DEF SettledSoFar
<1>5. CASE at' \notin {"english", "files", "loaded"}
  BY <1>5 DEF SettledSoFar
<1> QED
  BY <1>3, <1>4, <1>5

\* start(): translations are loaded once more by the next instance.
LEMMA LoadAgainStages ==
    ASSUME LoadAgain PROVE Stages' /\ CompleteSoFar' /\ SettledSoFar'
<1>1. /\ at' \in {"english", "loaded"} /\ place' = First(1)
      /\ \A s \in AllSections, l \in Langs : lang'[s][l] = NotLoaded
      /\ at' = "english"
  BY Domains DEF LoadAgain, BeginSection, Unloaded, Nothing
<1>2. /\ \A i \in DOMAIN Sections : Sections[i] \in AllSections /\ ~(i < 1)
      /\ Section' \in AllSections /\ English \in Langs
  BY <1>1, Domains, LanguagesAssumption DEF AllSections, Section, First
<1>3. \A l \in Langs : ~Loaded(Section, l)'
  BY <1>1, <1>2 DEF Loaded
<1>4. \A i \in DOMAIN Sections, l \in Langs : ~Loaded(Sections[i], l)'
  BY <1>1, <1>2 DEF Loaded
<1> QED
  BY <1>1, <1>2, <1>3, <1>4 DEF Stages, CompleteSoFar, SettledSoFar, Others, First

LangInv == LangTyped /\ Stages /\ CompleteSoFar /\ SettledSoFar

LEMMA LoadInitSound == LoadInit => LangInv
<1> SUFFICES ASSUME LoadInit PROVE LangInv
  OBVIOUS
<1>1. /\ at = "english" /\ place = First(1) /\ stack = <<>> /\ loadedLangs = {}
      /\ files \in FileSets /\ lang = Unloaded
      /\ \A s \in AllSections, l \in Langs : lang[s][l] = NotLoaded
  BY DEF LoadInit, Unloaded, Nothing
<1>2. /\ \A i \in DOMAIN Sections : Sections[i] \in AllSections /\ ~(i < 1)
      /\ Section \in AllSections /\ English \in Langs
      /\ place \in [section : DOMAIN Sections, dir : DOMAIN Directories]
  BY <1>1, Domains, LanguagesAssumption DEF AllSections, Section, First
<1>3. LangTyped
  <2>1. lang \in [AllSections -> [Langs -> Text \cup {NotLoaded}]]
    BY <1>1 DEF Unloaded, Nothing
  <2>2. stack \in Seq(Langs)
    BY <1>1
  <2> QED
    BY <1>1, <1>2, <2>1, <2>2 DEF LangTyped
<1>4. Stages /\ CompleteSoFar /\ SettledSoFar
  BY <1>1, <1>2 DEF Stages, CompleteSoFar, SettledSoFar, Others, Loaded, First
<1> QED
  BY <1>3, <1>4 DEF LangInv

LEMMA LangInvStep == LangInv /\ [StartNext]_startVars => LangInv'
<1>1. LangInv /\ Load => LangInv'
  BY LangTypedStep, StagesStep, CompleteSoFarStep, SettledSoFarStep DEF Load, LangInv
<1>2. LangInv /\ LoadAgain => LangInv'
  BY LangTypedStep, LoadAgainStages DEF LangInv
<1>3. LangInv /\ UNCHANGED langVars => LangInv'
  <2> SUFFICES ASSUME LangInv, UNCHANGED langVars PROVE LangInv'
    OBVIOUS
  <2>1. LangTyped'
    BY LangTypedStep DEF LangInv
  <2>2. Stages'
    BY DEF LangInv, langVars, Stages, Others, Loaded, Section
  <2>3. CompleteSoFar'
    <3>1. /\ at' = at /\ place' = place /\ Section' = Section /\ KnownForms' = KnownForms
          /\ Loaded(Section, English)' = Loaded(Section, English)
      BY DEF langVars, KnownForms, Loaded, Section
    <3>2. \A s : AllComplete(s)' = AllComplete(s)
      BY CompleteKept DEF langVars
    <3>3. AllComplete(Section)' = AllComplete(Section)
      BY <3>1, <3>2 DEF langVars, AllComplete, Complete, Loaded, BothForms, NoForm, HasFile
    <3> QED
      BY <3>1, <3>2, <3>3 DEF LangInv, CompleteSoFar
  <2>4. SettledSoFar'
    <3>1. /\ UNCHANGED <<files, lang, english, place, at, stack, loadedLangs>>
          /\ Section' = Section /\ Now' = Now /\ Others' = Others
          /\ \A l : File(l)' = File(l) /\ Falls(l)' = Falls(l)
          /\ \A l : /\ \A n : Nearest(Section, l, n)' = Nearest(Section, l, n)
                    /\ From(Section, l)' = From(Section, l)
                    /\ LastWins(Section, l)' = LastWins(Section, l)
                    /\ InCircle(Section, l)' = InCircle(Section, l)
                    /\ Loaded(Section, l)' = Loaded(Section, l)
                    /\ FallbackOf(Section, l)' = FallbackOf(Section, l)
                    /\ \A i : HasFile(Section, i, l)' = HasFile(Section, i, l)
      BY SameLangs DEF langVars, Section, Now, File, Falls
    <3>2. \A l, g : Patched(l, g)' = Patched(l, g)
      BY <3>1 DEF Patched, Unmarshal, File, Section, FromSources, Before, Loaded, Origin,
                  patchLang, patchQuantityStrings
    <3>3. \A s : Settled(s) => Settled(s)'
      BY <3>1, SettledKept
    <3>4. SettledSoFar
      BY DEF LangInv
    <3> QED
      BY <3>1, <3>2, <3>3, <3>4
         DEF SettledSoFar, NearestSoFar, FallbackFirst, SameAgain, FallbackNoted, LastSoFar
  <2> QED
    BY <2>1, <2>2, <2>3, <2>4 DEF LangInv
<1> QED
  BY <1>1, <1>2, <1>3 DEF StartNext, GoOn, startVars

(* Whatever the files are, a language that can be chosen when the program serves has every  *)
(* string that English has (loadLang, patchLang and patchQuantityStrings of storage.go).    *)
THEOREM LoadedLanguagesAreComplete == Spec => []LanguagesAreComplete
<1>1. LangInv => LanguagesAreComplete
  BY DEF LangInv, CompleteSoFar, AllComplete, LanguagesAreComplete, AllSections
<1> QED
  BY <1>1, LoadInitSound, LangInvStep, PTL DEF Spec, StartInit

(* Which file a text is from does not depend on the order in which the files are loaded,    *)
(* but for what Overtaken and LastWins name (loadLangs and loadLang of storage.go).         *)
THEOREM FilesTakeTheirPlace == Spec => []FilesTakePrecedence
<1>1. LangInv => FilesTakePrecedence
  BY DEF LangInv, SettledSoFar, Settled, FilesTakePrecedence, AllSections
<1> QED
  BY <1>1, LoadInitSound, LangInvStep, PTL DEF Spec, StartInit
=============================================================================
