------------------------------ MODULE MCQueries ------------------------------
(* Instances of Queries for TLC. *)
EXTENDS Queries

CONSTANTS u, r  \* a user, and who referred him

Account(id, name, email, admin, expiry, words) ==
    [id |-> id, name |-> name, email |-> email, admin |-> admin, expiry |-> expiry,
     words |-> words]
Accounts3 == <<Account(1, 2, 0, FALSE, 3, {}), Account(2, 1, 1, TRUE, 0, {0}),
               Account(3, 3, 1, FALSE, 4, {0})>>

Query(class, field, operator, value) ==
    [class |-> class, field |-> field, operator |-> operator, value |-> value]
Request(terms, queries, field, ascending) ==
    [terms |-> terms, queries |-> queries, field |-> field, ascending |-> ascending]
OnDay(day) == [day |-> day, hour |-> NotGiven, offset |-> 0]
SomeUserRequests ==
    {Request({}, {}, "name", up) : up \in BOOLEAN} \cup
    {Request({}, {}, field, up) : field \in {"email", "admin"}, up \in BOOLEAN} \cup
    {Request({0}, {}, "name", TRUE),
     Request({}, {Query("bool", "email", 0, TRUE)}, "email", TRUE),
     Request({}, {Query("string", "email", -1, 1)}, "name", TRUE),
     Request({}, {Query("bool", "admin", 0, FALSE)}, "admin", TRUE),
     Request({}, {Query("date", "expiry", 1, OnDay(1))}, "expiry", TRUE)}

CreationOf(user, source) ==
    [type |-> "accountCreation", by |-> "user", user |-> user, source |-> source]
DeletionOf(user) ==
    [type |-> "accountDeletion", by |-> "daemon", user |-> user, source |-> NotGiven]
TwoKinds == {CreationOf(u, r), DeletionOf(u)}

ReferredByR ==
    {Query("bool", "accountCreation", 0, TRUE), Query("string", "mentionedUsers", 0, u),
     Query("string", "actor", 0, "user"), Query("text", "referrer", 0, r),
     Query("date", "time", 1, OnDay(1))}
SomeLogRequests ==
    {Request({}, {}, "time", FALSE), Request({u}, ReferredByR, "time", TRUE)}
=============================================================================
