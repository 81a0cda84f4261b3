---------------------------- MODULE RecentEvents ----------------------------
(***************************************************************************)
(* What the activity cache promises its readers: a window on the newest    *)
(* events of Jellyfin's log.  The window is a run of consecutive events,   *)
(* at most Limit of them, and only ever slides towards newer ones.         *)
(***************************************************************************)
EXTENDS Integers

CONSTANTS Limit

VARIABLES logged,   \* how many events Jellyfin has logged, numbered from 1
          held      \* the events the cache holds

Window(newest) == {e \in 1..newest : newest - e < Limit}

Init == logged = 0 /\ held = {}

LogEvent == logged' = logged + 1 /\ UNCHANGED held

Slide ==
    /\ \E newest \in 1..logged : Window(newest) # held /\ held' = Window(newest)
                                  /\ \A e \in held : e <= newest
    /\ UNCHANGED logged

Spec == Init /\ [][LogEvent \/ Slide]_<<logged, held>>
=============================================================================
