----------------------------- MODULE Bootstrap -----------------------------
(***************************************************************************)
(* The lifecycle manager of the Go services (common/gopkg/bootstrap):      *)
(* RunSignal starts the registered components one after the other, serves  *)
(* the health probe, waits for a signal or for a component that exits, and *)
(* stops the components in reverse order.  A daemon component runs a       *)
(* supervisor goroutine that builds, runs and restarts a worker.           *)
(*                                                                         *)
(* Components are numbered in the order RunSignal sorts them, by stage and *)
(* name.  Daemon and Server are the ones with a goroutine and a Done       *)
(* channel; the others (clients, otel) only have Start and Stop.           *)
(* Backoff durations and the wording of errors are left out.               *)
(***************************************************************************)
EXTENDS Integers

CONSTANTS
    N,              \* the number of registered components
    Daemon, Server, \* which of them are daemons, which are HTTP or gRPC servers
    MaxRestarts,    \* WithDaemonMaxRestarts; negative: no limit
    MaxBuilds       \* bound: calls of Build per daemon

Component == 1..N
Watched == Daemon \cup Server

ASSUME NAssumption == N \in Nat
ASSUME KindAssumption == Daemon \subseteq Component /\ Server \subseteq Component \ Daemon
ASSUME RestartAssumption == MaxRestarts \in Int /\ MaxBuilds \in Nat

VARIABLES
    phase,          \* where RunSignal is
    at,             \* the component it starts or stops next
    up,             \* the components started and not stopped
    health,         \* the health probe answers
    stopAt, held,   \* inside the Stop of a daemon: the next call, the worker it read
    signalled,      \* a shutdown signal has arrived
    runCtx,         \* the context given to Run is cancelled
    sup,            \* sup[d]: where the supervisor of d is
    cancelled,      \* cancelled[d]: Stop has cancelled the daemon's context
    worker,         \* worker[d]: the worker stored last, 0 for none
    attempts,       \* attempts[d]: calls of Build, which number the workers
    restarts,       \* restarts[d]: restartCount
    failed,         \* failed[d]: the error handed to the restart policy is not nil
    asked,          \* asked[d]: the worker whose Stop was called last, 0 for none
    done,           \* done[c]: the contents of the Done channel
    watcher,        \* watcher[c]: the goroutine of monitorExitWatchers
    exitCh          \* serverExit holds an error

runVars == <<phase, at, up, health, stopAt, held>>
supVars == <<sup, worker, attempts, restarts, failed>>
vars == <<runVars, signalled, runCtx, supVars, cancelled, asked, done, watcher, exitCh>>

BootstrapTypeOK ==
    /\ phase \in {"starting", "running", "stopHealth", "stopping", "returned"}
    /\ at \in 0..(N + 1)
    /\ up \subseteq Component
    /\ health \in BOOLEAN
    /\ stopAt \in {"read", "cancel", "worker", "wait"}
    /\ held \in Nat
    /\ signalled \in BOOLEAN /\ runCtx \in BOOLEAN /\ exitCh \in BOOLEAN
    /\ sup \in [Daemon -> {"none", "check", "build", "store", "run", "policy", "sleep", "exited"}]
    /\ cancelled \in [Daemon -> BOOLEAN]
    /\ worker \in [Daemon -> Nat]
    /\ attempts \in [Daemon -> Nat]
    /\ restarts \in [Daemon -> Nat]
    /\ failed \in [Daemon -> BOOLEAN]
    /\ asked \in [Daemon -> Nat]
    /\ done \in [Watched -> {"empty", "nil", "err"}]
    /\ watcher \in [Watched -> {"none", "watch", "report", "ended"}]

Init ==
    /\ phase = "starting" /\ at = 1 /\ up = {} /\ health = FALSE
    /\ stopAt = "read" /\ held = 0
    /\ signalled = FALSE /\ runCtx = FALSE /\ exitCh = FALSE
    /\ sup = [d \in Daemon |-> "none"]
    /\ cancelled = [d \in Daemon |-> FALSE]
    /\ worker = [d \in Daemon |-> 0]
    /\ attempts = [d \in Daemon |-> 0]
    /\ restarts = [d \in Daemon |-> 0]
    /\ failed = [d \in Daemon |-> FALSE]
    /\ asked = [d \in Daemon |-> 0]
    /\ done = [c \in Watched |-> "empty"]
    /\ watcher = [c \in Watched |-> "none"]

\* daemonCtx.Err() != nil: Stop has cancelled it, or the context it derives from.
Cancelled(d) == cancelled[d] \/ runCtx

---------------------------------------------------------------------------
(* RunSignal: start *)

\* c.Start(ctx) of the next component; a daemon's starts the supervisor.
StartComponent ==
    /\ phase = "starting" /\ at <= N
    /\ up' = up \cup {at}
    /\ at' = at + 1
    /\ sup' = IF at \in Daemon THEN [sup EXCEPT ![at] = "check"] ELSE sup
    /\ UNCHANGED <<phase, health, stopAt, held, signalled, runCtx, worker, attempts, restarts, failed,
                   cancelled, asked, done, watcher, exitCh>>

\* Its Start fails: what was started is rolled back.  Daemons and servers only
\* start a goroutine, which cannot fail.
StartFails ==
    /\ phase = "starting" /\ at \in Component \ Watched
    /\ phase' = "stopping"
    /\ at' = at - 1
    /\ UNCHANGED <<up, health, stopAt, held, signalled, runCtx, supVars, cancelled, asked, done, watcher,
                   exitCh>>

\* The health server starts after every component; the watchers after that.
StartHealth ==
    /\ phase = "starting" /\ at = N + 1
    /\ phase' = "running"
    /\ health' = TRUE
    /\ watcher' = [c \in Watched |-> "watch"]
    /\ UNCHANGED <<at, up, stopAt, held, signalled, runCtx, supVars, cancelled, asked, done, exitCh>>

\* The probe's port is taken.
HealthFails ==
    /\ phase = "starting" /\ at = N + 1
    /\ phase' = "stopping"
    /\ at' = N
    /\ UNCHANGED <<up, health, stopAt, held, signalled, runCtx, supVars, cancelled, asked, done, watcher,
                   exitCh>>

---------------------------------------------------------------------------
(* RunSignal: wait, then shutdown *)

Signal ==
    /\ phase = "running" /\ ~signalled
    /\ signalled' = TRUE
    /\ UNCHANGED <<runVars, runCtx, supVars, cancelled, asked, done, watcher, exitCh>>

\* The caller of Run cancels its context.
CancelRun ==
    /\ phase # "returned" /\ ~runCtx
    /\ runCtx' = TRUE
    /\ UNCHANGED <<runVars, signalled, supVars, cancelled, asked, done, watcher, exitCh>>

\* [mutant] The health server is stopped with the process, not before.
WaitForTriggerKeepsHealth ==
    /\ phase = "running"
    /\ signalled \/ runCtx \/ exitCh
    /\ phase' = "stopping"
    /\ at' = N
    /\ UNCHANGED <<up, health, stopAt, held, signalled, runCtx, supVars, cancelled, asked, done, watcher,
                   exitCh>>

WaitForTrigger ==
    /\ phase = "running"
    /\ signalled \/ runCtx \/ exitCh
    /\ phase' = "stopHealth"
    /\ UNCHANGED <<at, up, health, stopAt, held, signalled, runCtx, supVars, cancelled, asked, done,
                   watcher, exitCh>>

StopHealth ==
    /\ phase = "stopHealth"
    /\ health' = FALSE
    /\ phase' = "stopping"
    /\ at' = N
    /\ UNCHANGED <<up, stopAt, held, signalled, runCtx, supVars, cancelled, asked, done, watcher, exitCh>>

\* The loop of shutdown, for a client or a server.  An error or a panic of Stop
\* is collected and the loop goes on; a server that still served closes its
\* listener, and its goroutine sends nil.
StopComponent ==
    /\ phase = "stopping" /\ at > 0 /\ at \notin Daemon
    /\ up' = up \ {at}
    /\ at' = at - 1
    /\ done' = IF at \in Server /\ done[at] = "empty" /\ watcher[at] \in {"none", "watch"}
               THEN [done EXCEPT ![at] = "nil"] ELSE done
    /\ UNCHANGED <<phase, health, stopAt, held, signalled, runCtx, supVars, cancelled, asked, watcher,
                   exitCh>>

\* Stop of a daemon: the mutex is held only while the fields are read.
StopRead ==
    /\ phase = "stopping" /\ at \in Daemon /\ stopAt = "read"
    /\ held' = worker[at]
    /\ stopAt' = "cancel"
    /\ UNCHANGED <<phase, at, up, health, signalled, runCtx, supVars, cancelled, asked, done, watcher,
                   exitCh>>

StopCancel ==
    /\ phase = "stopping" /\ at \in Daemon /\ stopAt = "cancel"
    /\ cancelled' = [cancelled EXCEPT ![at] = TRUE]
    /\ stopAt' = "worker"
    /\ UNCHANGED <<phase, at, up, health, held, signalled, runCtx, supVars, asked, done, watcher, exitCh>>

\* worker.Stop, if there was a worker when the fields were read.
StopWorker ==
    /\ phase = "stopping" /\ at \in Daemon /\ stopAt = "worker"
    /\ asked' = IF held = 0 THEN asked ELSE [asked EXCEPT ![at] = held]
    /\ stopAt' = "wait"
    /\ UNCHANGED <<phase, at, up, health, held, signalled, runCtx, supVars, cancelled, done, watcher,
                   exitCh>>

\* [mutant] Stop returns without wg.Wait.
StopWithoutWait ==
    /\ phase = "stopping" /\ at \in Daemon /\ stopAt = "wait"
    /\ up' = up \ {at}
    /\ at' = at - 1
    /\ stopAt' = "read" /\ held' = 0
    /\ UNCHANGED <<phase, health, signalled, runCtx, supVars, cancelled, asked, done, watcher, exitCh>>

\* wg.Wait, which has no deadline.
StopWait ==
    /\ phase = "stopping" /\ at \in Daemon /\ stopAt = "wait"
    /\ sup[at] = "exited"
    /\ up' = up \ {at}
    /\ at' = at - 1
    /\ stopAt' = "read" /\ held' = 0
    /\ UNCHANGED <<phase, health, signalled, runCtx, supVars, cancelled, asked, done, watcher, exitCh>>

\* worker.Stop panics: shutdown recovers the panic and goes on with the next
\* component, past wg.Wait.
StopPanics ==
    /\ phase = "stopping" /\ at \in Daemon /\ stopAt = "worker"
    /\ held # 0
    /\ up' = up \ {at}
    /\ at' = at - 1
    /\ stopAt' = "read" /\ held' = 0
    /\ UNCHANGED <<phase, health, signalled, runCtx, supVars, cancelled, asked, done, watcher, exitCh>>

ShutdownReturns ==
    /\ phase = "stopping" /\ at = 0
    /\ phase' = "returned"
    /\ UNCHANGED <<at, up, health, stopAt, held, signalled, runCtx, supVars, cancelled, asked, done,
                   watcher, exitCh>>

---------------------------------------------------------------------------
(* The supervisor of a daemon *)

Alive == phase # "returned"

\* The head of the loop of supervise.
SuperviseCheck(d) ==
    /\ Alive /\ sup[d] = "check"
    /\ sup' = [sup EXCEPT ![d] = IF Cancelled(d) THEN "exited" ELSE "build"]
    /\ UNCHANGED <<runVars, signalled, runCtx, worker, attempts, restarts, failed, cancelled, asked, done,
                   watcher, exitCh>>

\* buildWorker: a worker, or an error (a panic is recovered as one).
BuildWorker(d) ==
    /\ Alive /\ sup[d] = "build"
    /\ attempts[d] < MaxBuilds
    /\ attempts' = [attempts EXCEPT ![d] = @ + 1]
    /\ \/ sup' = [sup EXCEPT ![d] = "store"] /\ UNCHANGED failed
       \/ sup' = [sup EXCEPT ![d] = "policy"] /\ failed' = [failed EXCEPT ![d] = TRUE]
    /\ UNCHANGED <<runVars, signalled, runCtx, worker, restarts, cancelled, asked, done, watcher, exitCh>>

StoreWorker(d) ==
    /\ Alive /\ sup[d] = "store"
    /\ worker' = [worker EXCEPT ![d] = attempts[d]]
    /\ sup' = [sup EXCEPT ![d] = "run"]
    /\ UNCHANGED <<runVars, signalled, runCtx, attempts, restarts, failed, cancelled, asked, done, watcher,
                   exitCh>>

\* worker.Start returns, with nil, an error or a recovered panic; the shutdown
\* context is looked at before the policy.
WorkerReturns(d) ==
    /\ Alive /\ sup[d] = "run"
    /\ IF Cancelled(d)
       THEN sup' = [sup EXCEPT ![d] = "exited"] /\ UNCHANGED failed
       ELSE /\ sup' = [sup EXCEPT ![d] = "policy"]
            /\ \E f \in BOOLEAN : failed' = [failed EXCEPT ![d] = f]
    /\ UNCHANGED <<runVars, signalled, runCtx, worker, attempts, restarts, cancelled, asked, done, watcher,
                   exitCh>>

\* [mutant] As if the counter were compared before it is incremented.
restartsExhaustedLate(n) == MaxRestarts >= 0 /\ n - 1 > MaxRestarts

restartsExhausted(n) == MaxRestarts >= 0 /\ n > MaxRestarts

\* applyRestartPolicy, DaemonStop: the worker is done, or the classifier lets its
\* error go.
PolicyStop(d) ==
    /\ Alive /\ sup[d] = "policy"
    /\ sup' = [sup EXCEPT ![d] = "exited"]
    /\ UNCHANGED <<runVars, signalled, runCtx, worker, attempts, restarts, failed, cancelled, asked, done,
                   watcher, exitCh>>

\* reportFatal: the error goes to the Done channel, as it is.
reportFatal(d) == done' = [done EXCEPT ![d] = IF failed[d] THEN "err" ELSE "nil"]

\* applyRestartPolicy, DaemonRestart: back off, or report once the limit is passed.
\* A configured classifier may also restart a worker that returned nil.
PolicyRestart(d) ==
    /\ Alive /\ sup[d] = "policy"
    /\ restarts' = [restarts EXCEPT ![d] = @ + 1]
    /\ IF restartsExhausted(restarts[d] + 1)
       THEN sup' = [sup EXCEPT ![d] = "exited"] /\ reportFatal(d)
       ELSE sup' = [sup EXCEPT ![d] = "sleep"] /\ UNCHANGED done
    /\ UNCHANGED <<runVars, signalled, runCtx, worker, attempts, failed, cancelled, asked, watcher, exitCh>>

\* applyRestartPolicy, DaemonFatal: a configured classifier gives up.
PolicyFatal(d) ==
    /\ Alive /\ sup[d] = "policy"
    /\ sup' = [sup EXCEPT ![d] = "exited"]
    /\ reportFatal(d)
    /\ UNCHANGED <<runVars, signalled, runCtx, worker, attempts, restarts, failed, cancelled, asked, watcher,
                   exitCh>>

\* sleepBackoff: the select takes the timer or the cancelled context.
SleepBackoff(d) ==
    /\ Alive /\ sup[d] = "sleep"
    /\ \/ sup' = [sup EXCEPT ![d] = "check"]
       \/ Cancelled(d) /\ sup' = [sup EXCEPT ![d] = "exited"]
    /\ UNCHANGED <<runVars, signalled, runCtx, worker, attempts, restarts, failed, cancelled, asked, done,
                   watcher, exitCh>>

---------------------------------------------------------------------------
(* Servers and watchers *)

\* ListenAndServe or Serve of a started server returns an error by itself.
ServerExits(c) ==
    /\ Alive /\ c \in up /\ done[c] = "empty" /\ watcher[c] \in {"none", "watch"}
    /\ done' = [done EXCEPT ![c] = "err"]
    /\ UNCHANGED <<runVars, signalled, runCtx, supVars, cancelled, asked, watcher, exitCh>>

\* [mutant] The watcher does not tell an error from a clean exit.
WatchDropsError(c) ==
    /\ Alive /\ watcher[c] = "watch" /\ done[c] # "empty"
    /\ watcher' = [watcher EXCEPT ![c] = "ended"]
    /\ done' = [done EXCEPT ![c] = "empty"]
    /\ UNCHANGED <<runVars, signalled, runCtx, supVars, cancelled, asked, exitCh>>

Watch(c) ==
    /\ Alive /\ watcher[c] = "watch" /\ done[c] # "empty"
    /\ watcher' = [watcher EXCEPT ![c] = IF done[c] = "err" THEN "report" ELSE "ended"]
    /\ done' = [done EXCEPT ![c] = "empty"]
    /\ UNCHANGED <<runVars, signalled, runCtx, supVars, cancelled, asked, exitCh>>

\* The send on serverExit, dropped if one error is there already.
Report(c) ==
    /\ Alive /\ watcher[c] = "report"
    /\ exitCh' = TRUE
    /\ watcher' = [watcher EXCEPT ![c] = "ended"]
    /\ UNCHANGED <<runVars, signalled, runCtx, supVars, cancelled, asked, done>>
---------------------------------------------------------------------------

RunStep ==
    \/ StartComponent
    \/ StartHealth
    \/ WaitForTrigger
    \/ StopHealth
    \/ StopComponent
    \/ StopRead
    \/ StopCancel
    \/ StopWorker
    \/ StopWait
    \/ ShutdownReturns

\* What the supervisor does by itself, whatever the worker does.
SuperviseStep(d) ==
    \/ SuperviseCheck(d)
    \/ BuildWorker(d)
    \/ StoreWorker(d)
    \/ PolicyStop(d)
    \/ PolicyRestart(d)
    \/ PolicyFatal(d)
    \/ SleepBackoff(d)

\* The process is gone.
Exited == phase = "returned" /\ UNCHANGED vars

Next ==
    \/ RunStep
    \/ StartFails
    \/ HealthFails
    \/ Signal
    \/ CancelRun
    \/ \E d \in Daemon : SuperviseStep(d) \/ WorkerReturns(d)
    \/ \E c \in Server : ServerExits(c)
    \/ \E c \in Watched : Watch(c) \/ Report(c)
    \/ Exited

Spec == Init /\ [][Next]_vars

\* Goroutines that can run do; a worker may run for ever.
GoroutineFairness ==
    /\ WF_vars(RunStep)
    /\ \A d \in Daemon : WF_vars(SuperviseStep(d))
    /\ \A c \in Watched : WF_vars(Watch(c) \/ Report(c))

StubbornSpec == Spec /\ GoroutineFairness

\* The contract of Worker: Start returns once its context is cancelled.
FairSpec == StubbornSpec /\ \A d \in Daemon : WF_vars(Cancelled(d) /\ WorkerReturns(d))

\* The same, with workers whose Stop may panic.
PanicSpec == Init /\ [][Next \/ StopPanics]_vars

---------------------------------------------------------------------------
(* Properties *)

\* The health probe answers only while every component has been started and the
\* Stop of none has been called.
HealthMeansUp == health => up = Component /\ phase \in {"running", "stopHealth"}

\* A worker's goroutine runs only between the Start and the Stop of its daemon,
\* and while every component that was started before it, such as the database
\* client it uses, is still up.
WorkerHasDependencies ==
    \A d \in Daemon : sup[d] \notin {"none", "exited"} => 1..d \subseteq up

\* MaxRestarts restarts and no more: one build, then one per restart, and the
\* limit is reported exactly when all of them are used up.
RestartLimit ==
    MaxRestarts >= 0 =>
        \A d \in Daemon :
            /\ attempts[d] <= MaxRestarts + 1
            /\ restarts[d] > MaxRestarts => attempts[d] = MaxRestarts + 1 /\ sup[d] = "exited"

\* A daemon whose Stop has returned has called Stop of its current worker.
StopReachesWorker ==
    \A d \in Daemon : sup[d] # "none" /\ d \notin up => asked[d] = worker[d]

\* A fatal error of a daemon or a server ends the process, also one reported
\* while other components are still being started.
FatalEndsProcess == \A c \in Watched : done[c] = "err" ~> phase = "returned"

\* A shutdown, once asked for, ends.
ShutdownEnds == signalled \/ runCtx ~> phase = "returned"

---------------------------------------------------------------------------
(* The inductive invariant *)

\* The components that are up are those before the one RunSignal is at.
UpPrefix ==
    /\ phase = "starting" => at \in 1..(N + 1) /\ up = 1..(at - 1)
    /\ phase \in {"running", "stopHealth"} => up = Component
    /\ phase \in {"stopping", "returned"} => at \in 0..N /\ up = 1..at
    /\ phase = "returned" => at = 0

SupervisorsUp ==
    \A d \in Daemon :
        /\ sup[d] \notin {"none", "exited"} => d \in up
        /\ phase = "starting" /\ d \notin up => sup[d] = "none"

\* Builds and restarts are counted alike.
Counts ==
    \A d \in Daemon :
        /\ sup[d] = "none" => attempts[d] = 0 /\ restarts[d] = 0
        /\ sup[d] \in {"check", "build", "sleep"} =>
               attempts[d] = restarts[d] /\ ~restartsExhausted(restarts[d])
        /\ sup[d] \in {"store", "run", "policy"} =>
               attempts[d] = restarts[d] + 1 /\ ~restartsExhausted(restarts[d])
        /\ sup[d] = "exited" =>
               \/ attempts[d] \in {restarts[d], restarts[d] + 1} /\ ~restartsExhausted(restarts[d])
               \/ attempts[d] = restarts[d] /\ restarts[d] = MaxRestarts + 1

BootstrapInv ==
    /\ BootstrapTypeOK
    /\ UpPrefix
    /\ health => phase \in {"running", "stopHealth"}
    /\ SupervisorsUp
    /\ Counts

\* The process ends when it must: on a fatal error of a daemon or a server, also
\* one reported during the start of the others, and on a signal.
ProcessEnds == FatalEndsProcess /\ ShutdownEnds
===========================================================================
