---------------------------- MODULE MCLifecycle ----------------------------
(* Instances of Lifecycle with Languages for TLC. *)
EXTENDS Startup, TLC

TwoDaemons == <<"housekeeping", "users">>

CONSTANTS en, fr, be
ThreeSections == <<"common", "user", "pwr">>
CommonFirst(s) == IF s = "user" THEN <<"common">> ELSE <<>>
Both == <<"lang", "files">>

F(fallback, strings, plurals) ==
    [fallback |-> fallback, strings |-> strings, plurals |-> plurals]
NoEntry == [n \in {} |-> {}]
Forms(forms) == [n \in {"p"} |-> forms]
By(inEn, inFr, inBe) == en :> inEn @@ fr :> inFr @@ be :> inBe

EnglishFile == F(NoLang, {"a", "b"}, Forms({"singular", "plural"}))
French == {NoFile, F(NoLang, {"b"}, Forms({"singular"})), F(be, {}, NoEntry)}
Belgian == {F(NoLang, {}, NoEntry), F(fr, {}, NoEntry), F(fr, {"b"}, Forms({"plural"}))}
Custom(e, f, b) ==
    By(IF e THEN F(NoLang, {"b"}, NoEntry) ELSE NoFile,
       IF f THEN F(NoLang, {"b"}, NoEntry) ELSE NoFile, IF b THEN F(fr, {}, Forms({})) ELSE NoFile)
UserFiles ==
    {[lang |-> By(EnglishFile, x, y), files |-> Custom(FALSE, FALSE, FALSE)] :
        x \in French, y \in Belgian} \cup
    {[lang |-> By(EnglishFile, F(NoLang, {"b"}, Forms({"singular"})), F(fr, {}, NoEntry)),
      files |-> Custom(e, f, b)] : e \in BOOLEAN, f \in BOOLEAN, b \in BOOLEAN} \cup
    {[lang |-> By(EnglishFile, F(NoLang, {"b"}, NoEntry), NoFile),
      files |-> By(NoFile, F(be, {"b"}, NoEntry), F(fr, {}, NoEntry))]}
CommonFiles ==
    {[lang |-> By(F(NoLang, {"a"}, NoEntry), x, F(fr, {}, NoEntry)),
      files |-> By(NoFile, NoFile, NoFile)] : x \in {NoFile, F(NoLang, {"a"}, NoEntry)}}
OnlyEnglish(again) ==
    [lang |-> By(EnglishFile, NoFile, NoFile),
     files |-> By(IF again THEN EnglishFile ELSE NoFile, NoFile, NoFile)]
PwrFiles ==
    {OnlyEnglish(FALSE)} \cup
    {[lang |-> By(EnglishFile, F(NoLang, {"b"}, NoEntry), b),
      files |-> By(NoFile, F(be, {"b"}, NoEntry), F(f, {}, NoEntry))] :
        b \in {NoFile, F(NoLang, {"b"}, NoEntry)}, f \in {NoLang, fr}}
SomeFiles ==
    {[common |-> c, user |-> u, pwr |-> OnlyEnglish(TRUE)] :
        c \in CommonFiles, u \in UserFiles} \cup
    {[common |-> OnlyEnglish(TRUE), user |-> OnlyEnglish(TRUE), pwr |-> p] : p \in PwrFiles}
=============================================================================
