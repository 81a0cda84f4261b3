------------------------------ MODULE Lifecycle ------------------------------
(***************************************************************************)
(* Starting, restarting and stopping the program (main.go, api.go) with    *)
(* its background daemons (generic-d.go, tasks.go).  main runs start()     *)
(* again and again; an instance of it starts the daemons, serves requests, *)
(* waits for a message on RESTART, closes the server and then shuts the    *)
(* daemons down in reverse order.  The watcher of password resets waits on *)
(* RESTART too, so a listener passes the message on while others listen.   *)
(***************************************************************************)
EXTENDS Integers, Sequences

CONSTANTS Order,            \* the daemons in the order they are started
          TriggerRequests,  \* requests that run a daemon's jobs now
          RestartRequests,  \* requests that restart the program
          WatchResets,      \* whether the watcher of password resets is on
          AskedWhenReady,   \* assumed or not: nothing is asked before all listen
          MaxInstances,     \* bound: instances started
          None

ASSUME LifecycleAssumption ==
    /\ Order \in Seq(STRING) /\ WatchResets \in BOOLEAN /\ AskedWhenReady \in BOOLEAN
    /\ MaxInstances \in Nat \ {0}
    /\ TriggerRequests \intersect RestartRequests = {}

Daemons == {Order[i] : i \in DOMAIN Order}
Requests == TriggerRequests \union RestartRequests
Listeners == {"main", "watcher"}

VARIABLES main,      \* where start() is
          stopping,  \* the place in Order of the daemon being shut down
          daemon,    \* where each daemon is
          request,   \* where each request is
          target,    \* the daemon a request triggers
          message,   \* whether RESTART, of capacity one, holds a message
          parked,    \* those blocked receiving from RESTART, first come first
          got,       \* how many of each kind received and did not yet go on
          count,     \* RESTARTLISTENERCOUNT
          starting,  \* watchers on their way to waitForRestart
          QUIT,
          signal,    \* the goroutine that handles an interrupt
          instance   \* how many instances were started

channel == <<message, parked, got, count>>
jobs == <<daemon, request, target>>
vars == <<main, stopping, jobs, channel, starting, QUIT, signal, instance>>

Serving == main \in {"starting", "up"}
MayAsk == AskedWhenReady => main = "up" /\ starting = 0

\* Sending to RESTART: to whoever has waited longest, or into the buffer; it
\* blocks while there is neither.
Send(received) ==
    \/ /\ parked # <<>>
       /\ parked' = Tail(parked)
       /\ got' = [received EXCEPT ![Head(parked)] = @ + 1]
       /\ UNCHANGED message
    \/ /\ parked = <<>> /\ ~message
       /\ message' = TRUE
       /\ got' = received
       /\ UNCHANGED parked

Init ==
    /\ main = "loading" /\ stopping = 0
    /\ daemon = [d \in Daemons |-> "select"]
    /\ request = [r \in Requests |-> "none"] /\ target = [r \in Requests |-> None]
    /\ message = FALSE /\ parked = <<>> /\ got = [l \in Listeners |-> 0] /\ count = 0
    /\ starting = IF WatchResets THEN 1 ELSE 0
    /\ QUIT = FALSE /\ signal = "none"
    /\ instance = 1
-----------------------------------------------------------------------------
(* The daemons *)

\* POST /tasks/...: the handler is blocked in Trigger until the daemon listens.
TriggerTask(r, d) ==
    /\ r \in TriggerRequests /\ request[r] = "none"
    /\ Serving
    /\ request' = [request EXCEPT ![r] = "trigger"]
    /\ target' = [target EXCEPT ![r] = d]
    /\ UNCHANGED <<main, stopping, daemon, channel, starting, QUIT, signal, instance>>

\* run: the select takes a trigger or the timer, and the jobs follow.
TakeTrigger(d, r) ==
    /\ daemon[d] = "select"
    /\ request[r] = "trigger" /\ target[r] = d
    /\ daemon' = [daemon EXCEPT ![d] = "jobs"]
    /\ request' = [request EXCEPT ![r] = "none"]
    /\ target' = [target EXCEPT ![r] = None]
    /\ UNCHANGED <<main, stopping, channel, starting, QUIT, signal, instance>>

TakeTimer(d) ==
    /\ daemon[d] = "select" /\ main # "loading"
    /\ daemon' = [daemon EXCEPT ![d] = "jobs"]
    /\ UNCHANGED <<main, stopping, request, target, channel, starting, QUIT, signal, instance>>

FinishJobs(d) ==
    /\ daemon[d] = "jobs"
    /\ daemon' = [daemon EXCEPT ![d] = "select"]
    /\ UNCHANGED <<main, stopping, request, target, channel, starting, QUIT, signal, instance>>
-----------------------------------------------------------------------------
(* RESTART *)

\* POST /restart, then the handler sleeps a second.
AskRestart(r) ==
    /\ r \in RestartRequests /\ request[r] = "none"
    /\ Serving /\ MayAsk /\ instance < MaxInstances
    /\ request' = [request EXCEPT ![r] = "send"]
    /\ UNCHANGED <<main, stopping, daemon, target, channel, starting, QUIT, signal, instance>>

SendRestart(r) ==
    /\ request[r] = "send"
    /\ Send(got)
    /\ request' = [request EXCEPT ![r] = "sleep"]
    /\ UNCHANGED <<main, stopping, daemon, target, count, starting, QUIT, signal, instance>>

\* Timing assumed: a second is enough for main to get to listening and for whoever
\* received a message to go on.
EndRestart(r) ==
    /\ request[r] = "sleep"
    /\ main \notin {"loading", "starting"} /\ \A l \in Listeners : got[l] = 0
    /\ request' = [request EXCEPT ![r] = "none"]
    /\ UNCHANGED <<main, stopping, daemon, target, channel, starting, QUIT, signal, instance>>

\* An interrupt: shutdown().
Interrupt ==
    /\ signal = "none" /\ MayAsk
    /\ QUIT' = TRUE
    /\ signal' = "send"
    /\ UNCHANGED <<main, stopping, jobs, channel, starting, instance>>

SendQuit ==
    /\ signal = "send"
    /\ Send(got)
    /\ signal' = "sent"
    /\ UNCHANGED <<main, stopping, jobs, count, starting, QUIT, instance>>

\* waitForRestart, from its start to blocking on RESTART ...
Listen(l) ==
    /\ IF l = "main" THEN main = "starting" /\ main' = "up" /\ UNCHANGED starting
                     ELSE starting > 0 /\ starting' = starting - 1 /\ UNCHANGED main
    /\ count' = count + 1
    /\ IF message THEN message' = FALSE /\ got' = [got EXCEPT ![l] = @ + 1] /\ UNCHANGED parked
                  ELSE parked' = Append(parked, l) /\ UNCHANGED <<message, got>>
    /\ UNCHANGED <<stopping, jobs, QUIT, signal, instance>>

\* Mutant: the message is not passed on.
RelayNever(l) ==
    /\ got[l] > 0
    /\ count' = count - 1
    /\ got' = [got EXCEPT ![l] = @ - 1]
    /\ main' = IF l = "main" THEN "closing" ELSE main
    /\ UNCHANGED <<stopping, jobs, message, parked, starting, QUIT, signal, instance>>

\* ... and from the receipt of a message to its return.
Relay(l) ==
    /\ got[l] > 0
    /\ count' = count - 1
    /\ LET received == [got EXCEPT ![l] = @ - 1]
       IN  IF count' > 0 THEN Send(received) ELSE got' = received /\ UNCHANGED <<message, parked>>
    /\ main' = IF l = "main" THEN "closing" ELSE main
    /\ UNCHANGED <<stopping, jobs, starting, QUIT, signal, instance>>
-----------------------------------------------------------------------------
(* Stopping an instance *)

\* SRV.Shutdown returns once every request has.
CloseServer ==
    /\ main = "closing"
    /\ \A r \in Requests : request[r] = "none"
    /\ main' = "stopping" /\ stopping' = Len(Order)
    /\ UNCHANGED <<jobs, channel, starting, QUIT, signal, instance>>

Blocked(r) ==
    \/ request[r] = "trigger" /\ daemon[target[r]] # "select"
    \/ request[r] = "send" /\ message /\ parked = <<>>

\* After five seconds it gives up on requests still blocked, and Fatalf exits.  A
\* handler that sleeps for its second has returned by then.
GiveUpOnRequests ==
    /\ main = "closing"
    /\ \E r \in Requests : Blocked(r)
    /\ main' = "crashed"
    /\ UNCHANGED <<stopping, jobs, channel, starting, QUIT, signal, instance>>

\* Mutant: Shutdown does not wait for jobs that run.
TellStopUnheard ==
    /\ main = "stopping" /\ stopping > 0
    /\ daemon[Order[stopping]] \in {"select", "jobs"}
    /\ stopping' = stopping - 1
    /\ daemon' = IF daemon[Order[stopping]] = "jobs" THEN daemon
                 ELSE [daemon EXCEPT ![Order[stopping]] = "gone"]
    /\ UNCHANGED <<main, request, target, channel, starting, QUIT, signal, instance>>

\* Shutdown: a message to the daemon's select, and its answer.
TellStop ==
    /\ main = "stopping" /\ stopping > 0
    /\ daemon[Order[stopping]] = "select"
    /\ daemon' = [daemon EXCEPT ![Order[stopping]] = "answer"]
    /\ UNCHANGED <<main, stopping, request, target, channel, starting, QUIT, signal, instance>>

AnswerStop ==
    /\ main = "stopping" /\ stopping > 0
    /\ daemon[Order[stopping]] = "answer"
    /\ daemon' = [daemon EXCEPT ![Order[stopping]] = "gone"]
    /\ stopping' = stopping - 1
    /\ UNCHANGED <<main, request, target, channel, starting, QUIT, signal, instance>>

\* start() returns: main ends the program or calls it again.
Return ==
    /\ main = "stopping" /\ stopping = 0
    /\ IF QUIT
       THEN main' = "ended" /\ UNCHANGED <<daemon, count, starting, instance>>
       ELSE /\ instance < MaxInstances
            /\ main' = "loading"
            /\ daemon' = [d \in Daemons |-> "select"]
            /\ count' = 0
            /\ starting' = IF WatchResets THEN starting + 1 ELSE starting
            /\ instance' = instance + 1
    /\ UNCHANGED <<stopping, request, target, message, parked, got, QUIT, signal>>

Exited == main \in {"crashed", "ended"}

Main == CloseServer \/ TellStop \/ AnswerStop \/ Return

Run(d) == FinishJobs(d) \/ \E r \in Requests : TakeTrigger(d, r)

Next ==
    /\ ~Exited
    /\ \/ \E d \in Daemons : TakeTimer(d) \/ Run(d) \/ \E r \in Requests : TriggerTask(r, d)
       \/ \E r \in Requests : AskRestart(r) \/ SendRestart(r) \/ EndRestart(r)
       \/ Interrupt \/ SendQuit
       \/ \E l \in Listeners : Listen(l) \/ Relay(l)
       \/ Main \/ GiveUpOnRequests

\* Every goroutine that can go on does; jobs end; and a select that can take a
\* message again and again does not take its timer every time.
Fairness ==
    /\ \A d \in Daemons : WF_vars(~Exited /\ FinishJobs(d))
    /\ \A d \in Daemons, r \in Requests : SF_vars(~Exited /\ TakeTrigger(d, r))
    /\ \A r \in Requests : WF_vars(~Exited /\ SendRestart(r)) /\ WF_vars(~Exited /\ EndRestart(r))
    /\ WF_vars(~Exited /\ SendQuit)
    /\ \A l \in Listeners : WF_vars(~Exited /\ Listen(l)) /\ WF_vars(~Exited /\ Relay(l))
    /\ WF_vars(~Exited /\ (CloseServer \/ AnswerStop \/ Return)) /\ SF_vars(~Exited /\ TellStop)
-----------------------------------------------------------------------------
(* Properties *)

\* Every variable stays in its type, and a request that triggers names a daemon.
TypeOK ==
    /\ main \in {"loading", "starting", "up", "closing", "stopping", "crashed", "ended"}
    /\ stopping \in 0..Len(Order)
    /\ daemon \in [Daemons -> {"select", "jobs", "answer", "gone"}]
    /\ request \in [Requests -> {"none", "trigger", "send", "sleep"}]
    /\ target \in [Requests -> Daemons \cup {None}]
    /\ \A r \in Requests : IF request[r] = "trigger" THEN target[r] \in Daemons
                                                     ELSE target[r] = None
    /\ message \in BOOLEAN /\ parked \in Seq(Listeners)
    /\ got \in [Listeners -> Nat] /\ count \in Int /\ starting \in Nat
    /\ QUIT \in BOOLEAN /\ signal \in {"none", "send", "sent"}
    /\ instance \in 1..MaxInstances

\* No job of an instance runs on, and no request of it is open, when the next
\* instance starts or the program ends: the daemons share their files.
InstancesAreApart ==
    [][(instance' # instance \/ main' = "ended") =>
          /\ \A d \in Daemons : daemon[d] = "gone"
          /\ \A r \in Requests : request[r] = "none"]_vars

\* A request that triggers a daemon returns, unless the program exits first: the
\* daemon comes back to its select from its jobs and takes triggers there.
TriggersReturn ==
    \A r \in TriggerRequests : request[r] = "trigger" ~> (request[r] = "none" \/ Exited)

\* A restart that was sent is not lost: the instance it was sent to ends.
RestartIsServed ==
    \A r \in RestartRequests, i \in 1..MaxInstances :
        (request[r] = "sleep" /\ instance = i) ~> (instance > i \/ Exited)

\* An interrupt ends the program.
InterruptEnds == signal = "sent" ~> Exited
=============================================================================
