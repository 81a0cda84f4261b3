------------------------------ MODULE Languages ------------------------------
(***************************************************************************)
(* Loading the translations (storage.go): one section after the other,     *)
(* each from the directories of files in their order.  English is loaded   *)
(* first; what another language's file does not have is taken from         *)
(* sections loaded before, and then from the language it falls back on,    *)
(* which is loaded on the way.                                             *)
(***************************************************************************)
EXTENDS Naturals, Sequences

CONSTANTS Langs, English,
          Sections,         \* in the order they are loaded
          Sources(_),       \* of a section: those whose strings it takes first
          Unnoted,          \* the section that does not note a fallback as loaded
          Names, Plurals,   \* of strings, and of strings with a singular and a plural
          Directories,      \* the program's, and the one the admin may have
          FileSets,         \* what the files may be: by section, directory and language
          NoFile, NoLang, NotLoaded, Empty

AllSections == {Sections[i] : i \in DOMAIN Sections}
AllDirectories == {Directories[i] : i \in DOMAIN Directories}

\* A file, where a string with a number may have one form, both or an entry with neither.
LangFile ==
    [fallback : Langs \cup {NoLang}, strings : SUBSET Names,
     plurals : UNION {[known -> SUBSET {"singular", "plural"}] : known \in SUBSET Plurals}]

\* A string is known by the file it comes from.  A language once loaded is a Text.
String == [section : AllSections, dir : AllDirectories, lang : Langs] \cup {Empty}
Text == [dir : AllDirectories, strings : [Names -> String],
         plurals : [Plurals -> [known : BOOLEAN, singular : String, plural : String]]]

Distinct(seq) == /\ seq # <<>> /\ seq \in Seq({seq[i] : i \in DOMAIN seq})
                 /\ \A i, j \in DOMAIN seq : seq[i] = seq[j] => i = j

ASSUME LanguagesAssumption ==
    /\ English \in Langs /\ NoLang \notin Langs
    /\ Distinct(Sections) /\ Distinct(Directories) /\ Unnoted \subseteq AllSections
    /\ \A i \in DOMAIN Sections : Sources(Sections[i]) \in Seq({Sections[j] : j \in 1..(i - 1)})
    /\ FileSets \subseteq [AllSections -> [AllDirectories -> [Langs -> LangFile \cup {NoFile}]]]
    /\ Empty \notin [section : AllSections, dir : AllDirectories, lang : Langs]
    /\ NotLoaded \notin Text

VARIABLES files,
          lang,     \* what is loaded, by section
          english,  \* the English of the section that is being loaded
          at,       \* "english", "files", "loaded", "failed" or "overflow"
          place,    \* the number of the section and of the directory
          loadedLangs, \* what is not to be loaded from the directory again
          stack     \* the languages whose files are being loaded, each for the one below it

langVars == <<files, lang, english, at, place, loadedLangs, stack>>

Section == Sections[place.section]
File(l) == files[Section][Directories[place.dir]][l]
Loaded(s, l) == lang[s][l] # NotLoaded

Origin(l) == [section |-> Section, dir |-> Directories[place.dir], lang |-> l]

\* patchCommonStrings and the like: in the same language, from sections loaded before.
Before(s, l, n) == {i \in DOMAIN Sources(s) : /\ Loaded(Sources(s)[i], l)
                                             /\ lang[Sources(s)[i]][l].strings[n] # Empty}
FromSources(l, n) ==
    IF Before(Section, l, n) = {} THEN Empty
    ELSE LET i == CHOOSE k \in Before(Section, l, n) : \A j \in Before(Section, l, n) : k <= j
         IN  lang[Sources(Section)[i]][l].strings[n]

Unmarshal(l) ==
    [dir |-> Directories[place.dir],
     strings |-> [n \in Names |-> IF n \in File(l).strings THEN Origin(l) ELSE FromSources(l, n)],
     plurals |-> [n \in Plurals |->
        [known |-> n \in DOMAIN File(l).plurals,
         singular |-> IF n \in DOMAIN File(l).plurals /\ "singular" \in File(l).plurals[n]
                      THEN Origin(l) ELSE Empty,
         plural |-> IF n \in DOMAIN File(l).plurals /\ "plural" \in File(l).plurals[n]
                    THEN Origin(l) ELSE Empty]]]

\* English only says which strings there are: they are taken from the fallback as it is.
patchLang(to, from) ==
    [n \in Names |-> IF english.strings[n] # Empty /\ to[n] = Empty THEN from[n] ELSE to[n]]

\* Of an entry that has neither form only the singular is taken.
PatchEntry(to, from) ==
    IF ~to.known THEN from
    ELSE IF to.singular = Empty THEN [to EXCEPT !.singular = from.singular]
    ELSE IF to.plural = Empty THEN [to EXCEPT !.plural = from.plural] ELSE to

patchQuantityStrings(to, from) ==
    [n \in Plurals |-> IF english.plurals[n].known THEN PatchEntry(to[n], from[n]) ELSE to[n]]

\* Mutant: it is forgotten that the fallback may not be there.
PatchedIfFound(l, fallback) ==
    IF File(l).fallback \notin {NoLang, fallback} THEN Unmarshal(l)
    ELSE [Unmarshal(l) EXCEPT !.strings = patchLang(@, lang[Section][fallback].strings),
                              !.plurals = patchQuantityStrings(@, lang[Section][fallback].plurals)]

\* Mutant: what is missing is always in English.
PatchedFromEnglish(l, fallback) ==
    [Unmarshal(l) EXCEPT !.strings = patchLang(@, english.strings),
                         !.plurals = patchQuantityStrings(@, english.plurals)]

Patched(l, fallback) ==
    [Unmarshal(l) EXCEPT !.strings = patchLang(@, lang[Section][fallback].strings),
                         !.plurals = patchQuantityStrings(@, lang[Section][fallback].plurals)]

(***************************************************************************)
(* Steps.                                                                  *)
(***************************************************************************)
Nothing == [l \in Langs |-> NotLoaded]
First(s) == [section |-> s, dir |-> 1]
LastDirectory == place.dir = Len(Directories)
BeginSection(s) ==
    /\ place' = First(s) /\ loadedLangs' = {} /\ stack' = <<>> /\ english' = NotLoaded
    /\ at' = IF s > Len(Sections) THEN "loaded" ELSE "english"

NextDirectory == place' = [place EXCEPT !.dir = @ + 1] /\ loadedLangs' = {English}

\* English of a later directory is instead of that of an earlier one.
LoadEnglish ==
    /\ at = "english"
    /\ lang' = IF File(English) = NoFile THEN lang
               ELSE [lang EXCEPT ![Section][English] = Unmarshal(English)]
    /\ IF ~LastDirectory THEN NextDirectory /\ UNCHANGED <<english, at>>
       ELSE IF lang'[Section][English] = NotLoaded
       THEN at' = "failed" /\ UNCHANGED <<english, place, loadedLangs>>
       ELSE /\ english' = lang'[Section][English]
            /\ at' = "files" /\ place' = First(place.section) /\ loadedLangs' = {English}
    /\ UNCHANGED <<files, stack>>

Remaining == {l \in Langs \ loadedLangs : File(l) # NoFile}
LoadFile ==
    /\ at = "files" /\ stack = <<>>
    /\ \E l \in Remaining : stack' = <<l>>
    /\ UNCHANGED <<files, lang, english, at, place, loadedLangs>>

\* With no other language than English the error that is left is that of looking for
\* English in the last directory.
NoneLoaded == File(English) = NoFile /\ \A l \in Langs \ {English} : ~Loaded(Section, l)
FinishDirectory ==
    /\ at = "files" /\ stack = <<>> /\ Remaining = {}
    /\ IF ~LastDirectory THEN NextDirectory /\ UNCHANGED <<english, at, stack>>
       ELSE IF NoneLoaded
       THEN at' = "failed" /\ UNCHANGED <<english, place, loadedLangs, stack>>
       ELSE BeginSection(place.section + 1)
    /\ UNCHANGED <<files, lang>>

Top == Head(stack)
Fallback == File(Top).fallback

\* The fallback is loaded first, if it was not yet; a circle of them does not end.
LoadFallback ==
    /\ at = "files" /\ stack # <<>>
    /\ Fallback # NoLang /\ ~Loaded(Section, Fallback) /\ File(Fallback) # NoFile
    /\ IF Fallback \in {stack[i] : i \in DOMAIN stack}
       THEN at' = "overflow" /\ UNCHANGED stack
       ELSE stack' = <<Fallback>> \o stack /\ UNCHANGED at
    /\ UNCHANGED <<files, lang, english, place, loadedLangs>>

\* A fallback counts as loaded from this directory, wherever it was loaded from: the
\* messages about passwords are loaded without noting this.
Store ==
    /\ at = "files" /\ stack # <<>>
    /\ LET found == Fallback # NoLang /\ Loaded(Section, Fallback)
       IN  /\ Fallback # NoLang /\ ~found => File(Fallback) = NoFile
           /\ lang' = [lang EXCEPT ![Section][Top] =
                                   Patched(Top, IF found THEN Fallback ELSE English)]
           /\ loadedLangs' = loadedLangs
                 \cup (IF Len(stack) = 1 THEN {Top} ELSE {})
                 \cup (IF found /\ Section \notin Unnoted THEN {Fallback} ELSE {})
    /\ stack' = Tail(stack)
    /\ UNCHANGED <<files, english, at, place>>

Unloaded == [s \in AllSections |-> Nothing]
LoadInit ==
    /\ files \in FileSets /\ lang = Unloaded
    /\ english = NotLoaded /\ at = "english" /\ place = First(1)
    /\ loadedLangs = {} /\ stack = <<>>

\* At the next start of the program the files may be others.
LoadAgain == files' \in FileSets /\ lang' = Unloaded /\ BeginSection(1)

LoadStep == LoadEnglish \/ LoadFile \/ FinishDirectory \/ LoadFallback \/ Store

(***************************************************************************)
(* Properties.                                                             *)
(***************************************************************************)
HasFile(s, i, l) == files[s][Directories[i]][l] # NoFile
\* The file a language was loaded from, and what it falls back on.
From(s, l) == files[s][lang[s][l].dir][l]
FallbackOf(s, l) == IF From(s, l).fallback # NoLang /\ Loaded(s, From(s, l).fallback)
                    THEN From(s, l).fallback ELSE English
NoForm(s, n) == \E i \in DOMAIN Directories, l \in Langs :
    /\ HasFile(s, i, l)
    /\ n \in DOMAIN files[s][Directories[i]][l].plurals
    /\ files[s][Directories[i]][l].plurals[n] = {}

\* A language has every string that English has, and both forms of one that depends on a
\* number, unless a file has an entry with neither.
BothForms(s, l, n) == lang[s][l].plurals[n].singular # Empty /\ lang[s][l].plurals[n].plural # Empty
Complete(s, l) ==
    /\ \A n \in Names : lang[s][English].strings[n] # Empty => lang[s][l].strings[n] # Empty
    /\ \A n \in Plurals : BothForms(s, English, n) /\ ~NoForm(s, n) => BothForms(s, l, n)

\* A language that can be chosen is complete.
LanguagesAreComplete ==
    at = "loaded" => \A s \in AllSections : \A l \in {k \in Langs : Loaded(s, k)} : Complete(s, l)

\* Languages of a directory fall back on one another in a circle.
InCircle(s, l) ==
    \E circle \in SUBSET (Langs \ {English}) :
        /\ l \in circle
        /\ \A k \in circle : /\ files[s][lang[s][l].dir][k] # NoFile
                            /\ files[s][lang[s][l].dir][k].fallback \in circle
\* The admin's file of a language came after it was fallen back on.
Overtaken(s, l, fallback) ==
    /\ lang[s][fallback].dir # Directories[1]
    /\ lang[s][fallback].dir # lang[s][l].dir \/ s \in Unnoted \/ InCircle(s, l)

\* A string is looked for in the language's own file, in the sections loaded before and, if
\* English has it, in the fallback as this is in the end.
Nearest(s, l, n) ==
    LET value == lang[s][l].strings[n]
    IN  IF n \in From(s, l).strings
        THEN value = [section |-> s, dir |-> lang[s][l].dir, lang |-> l]
        ELSE IF Before(s, l, n) # {}
        THEN \E i \in Before(s, l, n) : value = lang[Sources(s)[i]][l].strings[n]
        ELSE \/ value = lang[s][FallbackOf(s, l)].strings[n]
             \/ lang[s][English].strings[n] = Empty
             \/ Overtaken(s, l, FallbackOf(s, l))

\* A file of the admin's is used instead of the program's, unless another one of the same
\* directory falls back on its language, where this is noted.
LastWins(s, l) ==
    LET last == Len(Directories)
    IN  HasFile(s, last, l) =>
            \/ lang[s][l].dir = Directories[last]
            \/ /\ s \notin Unnoted
               /\ \E k \in Langs : /\ HasFile(s, last, k)
                                   /\ files[s][Directories[last]][k].fallback = l

\* Which file a text is from does not depend on the order in which files are loaded, unless
\* the admin's directory brings the fallback of a language of the program's, or has a
\* circle, or it is a message about passwords.
FilesTakePrecedence ==
    at = "loaded" =>
        \A s \in AllSections : \A l \in Langs :
            /\ Loaded(s, l) /\ l # English => \A n \in Names : Nearest(s, l, n)
            /\ LastWins(s, l)
=============================================================================
