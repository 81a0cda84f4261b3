------------------------------- MODULE Startup -------------------------------
(* Each start of the program loads the translations before it goes on. *)
EXTENDS Lifecycle, Languages

startVars == <<vars, langVars>>

StartInit == Init /\ LoadInit

\* start(): an error is fatal, and so is running out of stack.
Load ==
    /\ main = "loading"
    /\ LoadStep
    /\ main' = IF at' = "loaded" THEN "starting"
               ELSE IF at' \in {"failed", "overflow"} THEN "crashed" ELSE main
    /\ UNCHANGED <<stopping, jobs, channel, starting, QUIT, signal, instance>>

GoOn == Next /\ IF instance' # instance THEN LoadAgain ELSE UNCHANGED langVars

StartNext == Load \/ GoOn
Spec == StartInit /\ [][StartNext]_startVars
FairSpec == Spec /\ Fairness /\ WF_startVars(Load)

\* Every start comes to serving or to an end, whatever the files are.
StartsServe == main = "loading" ~> (main = "up" \/ Exited)

\* Nothing that was begun hangs: every start serves or ends, a trigger returns, a restart is
\* not lost and an interrupt ends the program.
NothingHangs == StartsServe /\ TriggersReturn /\ RestartIsServed /\ InterruptEnds
=============================================================================
