-------------------------- MODULE BootstrapProofs --------------------------
(***************************************************************************)
(* Proofs about the lifecycle manager, for any number and kind of          *)
(* components and any restart limit.                                       *)
(***************************************************************************)
EXTENDS Bootstrap, TLAPS

LEMMA InitInv == Init => BootstrapInv
<1>. SUFFICES ASSUME Init PROVE BootstrapInv
  OBVIOUS
<1>1. BootstrapTypeOK
  <2>1. at \in 0..(N + 1) /\ held \in Nat
    BY NAssumption DEF Init
  <2>. QED
    BY <2>1 DEF Init, BootstrapTypeOK
<1>2. UpPrefix
  BY NAssumption DEF Init, UpPrefix
<1>3. SupervisorsUp
  BY DEF Init, SupervisorsUp
<1>4. Counts
  BY DEF Init, Counts
<1>. QED
  BY <1>1, <1>2, <1>3, <1>4 DEF BootstrapInv, Init

---------------------------------------------------------------------------
(* The steps of RunSignal *)

\* A step that leaves the supervisors alone preserves what is counted.
LEMMA CountsFrame ==
    ASSUME Counts, UNCHANGED <<sup, attempts, restarts>>
    PROVE  Counts'
  BY DEF Counts

\* The start of a component.
LEMMA StartComponentInv ==
    ASSUME BootstrapInv, StartComponent
    PROVE  BootstrapInv'
<1>0. BootstrapTypeOK /\ at \in Component /\ up = 1..(at - 1) /\ at \in Nat
  BY NAssumption DEF BootstrapInv, UpPrefix, StartComponent, Component
<1>1. sup' \in [Daemon -> {"none", "check", "build", "store", "run", "policy", "sleep", "exited"}]
  BY <1>0 DEF BootstrapTypeOK, StartComponent
<1>2. at' = at + 1 /\ at' \in 1..(N + 1) /\ up' = 1..at
  BY <1>0, NAssumption DEF StartComponent, Component
<1>3. up' \subseteq Component
  BY <1>0, <1>2, NAssumption DEF Component
<1>4. BootstrapTypeOK'
  BY <1>0, <1>1, <1>2, <1>3, NAssumption DEF BootstrapTypeOK, StartComponent
<1>5. UpPrefix'
  BY <1>0, <1>2 DEF UpPrefix, StartComponent
<1>6. SupervisorsUp'
  BY <1>0 DEF BootstrapInv, SupervisorsUp, StartComponent, BootstrapTypeOK
<1>7. Counts'
  <2>1. CASE at \notin Daemon
    BY <2>1 DEF BootstrapInv, Counts, StartComponent
  <2>2. CASE at \in Daemon
    <3>1. at \notin up
      BY <1>0
    <3>2. sup[at] = "none"
      BY <2>2, <3>1 DEF BootstrapInv, SupervisorsUp, StartComponent
    <3>3. attempts[at] = 0 /\ restarts[at] = 0
      BY <2>2, <3>2 DEF BootstrapInv, Counts
    <3>4. ~restartsExhausted(0)
      BY RestartAssumption DEF restartsExhausted
    <3>5. \A d \in Daemon : sup'[d] = IF d = at THEN "check" ELSE sup[d]
      BY <1>0, <2>2 DEF StartComponent, BootstrapTypeOK
    <3>6. UNCHANGED <<attempts, restarts>>
      BY DEF StartComponent
    <3>. QED
      BY <3>3, <3>4, <3>5, <3>6 DEF BootstrapInv, Counts
  <2>. QED
    BY <2>1, <2>2
<1>. QED
  BY <1>4, <1>5, <1>6, <1>7 DEF BootstrapInv, StartComponent

\* The other steps of RunSignal leave the supervisors alone.  What is left to show
\* is that the components that are up are still a prefix, and that a supervisor
\* whose daemon goes down has exited.
LEMMA RunFrame ==
    ASSUME BootstrapInv, UNCHANGED <<sup, attempts, restarts>>,
           BootstrapTypeOK', UpPrefix',
           phase' # "starting",
           health' => phase' \in {"running", "stopHealth"},
           \A d \in Daemon : d \in up /\ d \notin up' => sup[d] = "exited"
    PROVE  BootstrapInv'
<1>1. SupervisorsUp'
  BY DEF BootstrapInv, SupervisorsUp
<1>2. Counts'
  BY CountsFrame DEF BootstrapInv
<1>. QED
  BY <1>1, <1>2 DEF BootstrapInv

LEMMA RunStepInv ==
    ASSUME BootstrapInv,
           \/ StartFails \/ StartHealth \/ HealthFails \/ WaitForTrigger \/ StopHealth
           \/ StopRead \/ StopCancel \/ StopWorker \/ ShutdownReturns
    PROVE  BootstrapInv'
<1>0. BootstrapTypeOK
  BY DEF BootstrapInv
<1>1. UNCHANGED <<up, sup, worker, attempts, restarts, failed, signalled, runCtx, exitCh>>
  BY DEF StartFails, StartHealth, HealthFails, WaitForTrigger, StopHealth, StopRead, StopCancel,
     StopWorker, ShutdownReturns, supVars
<1>2. /\ phase' \in {"running", "stopHealth", "stopping", "returned"}
      /\ health' \in BOOLEAN
      /\ health' => phase' \in {"running", "stopHealth"}
  <2>0. health \in BOOLEAN /\ (health => phase \in {"running", "stopHealth"})
    BY <1>0 DEF BootstrapInv, BootstrapTypeOK
  <2>1. CASE StartFails \/ HealthFails
    BY <2>0, <2>1 DEF StartFails, HealthFails
  <2>2. CASE StartHealth \/ StopHealth
    BY <2>2 DEF StartHealth, StopHealth
  <2>3. CASE WaitForTrigger \/ ShutdownReturns
    BY <2>0, <2>3 DEF WaitForTrigger, ShutdownReturns
  <2>4. CASE StopRead \/ StopCancel \/ StopWorker
    BY <2>0, <2>4 DEF StopRead, StopCancel, StopWorker
  <2>. QED
    BY <2>1, <2>2, <2>3, <2>4
<1>9. stopAt' \in {"read", "cancel", "worker", "wait"}
  BY <1>0 DEF BootstrapTypeOK, StartFails, StartHealth, HealthFails, WaitForTrigger,
     StopHealth, StopRead, StopCancel, StopWorker, ShutdownReturns
<1>3. at' \in 0..(N + 1)
  BY <1>0, NAssumption DEF BootstrapTypeOK, StartFails, StartHealth, HealthFails, WaitForTrigger,
     StopHealth, StopRead, StopCancel, StopWorker, ShutdownReturns, Component
<1>4. held' \in Nat
  BY <1>0 DEF BootstrapTypeOK, StartFails, StartHealth, HealthFails, WaitForTrigger,
     StopHealth, StopRead, StopCancel, StopWorker, ShutdownReturns
<1>5. cancelled' \in [Daemon -> BOOLEAN] /\ asked' \in [Daemon -> Nat]
  BY <1>0 DEF BootstrapTypeOK, StartFails, StartHealth, HealthFails, WaitForTrigger,
     StopHealth, StopRead, StopCancel, StopWorker, ShutdownReturns
<1>6. /\ done' \in [Watched -> {"empty", "nil", "err"}]
      /\ watcher' \in [Watched -> {"none", "watch", "report", "ended"}]
  BY <1>0 DEF BootstrapTypeOK, StartFails, StartHealth, HealthFails, WaitForTrigger,
     StopHealth, StopRead, StopCancel, StopWorker, ShutdownReturns
<1>7. BootstrapTypeOK'
  BY <1>0, <1>1, <1>2, <1>3, <1>4, <1>5, <1>6, <1>9 DEF BootstrapTypeOK
<1>8. UpPrefix'
  <2>1. CASE StartFails
    BY <1>1, <2>1, NAssumption DEF BootstrapInv, UpPrefix, StartFails, Component
  <2>2. CASE StartHealth \/ HealthFails
    BY <1>1, <2>2, NAssumption DEF BootstrapInv, UpPrefix, StartHealth, HealthFails, Component
  <2>3. CASE WaitForTrigger \/ StopHealth
    BY <1>1, <2>3, NAssumption DEF BootstrapInv, UpPrefix, WaitForTrigger, StopHealth, Component
  <2>4. CASE StopRead \/ StopCancel \/ StopWorker
    BY <1>1, <2>4 DEF BootstrapInv, UpPrefix, StopRead, StopCancel, StopWorker
  <2>5. CASE ShutdownReturns
    BY <1>1, <2>5 DEF BootstrapInv, UpPrefix, ShutdownReturns
  <2>. QED
    BY <2>1, <2>2, <2>3, <2>4, <2>5
<1>. QED
  BY <1>1, <1>2, <1>7, <1>8, RunFrame

\* The component RunSignal is at goes down.
LEMMA StopInv ==
    ASSUME BootstrapInv, StopComponent \/ StopWait
    PROVE  BootstrapInv'
<1>0. BootstrapTypeOK /\ phase = "stopping" /\ at \in 1..N /\ up = 1..at
  BY KindAssumption, NAssumption DEF BootstrapInv, UpPrefix, StopComponent, StopWait, Component
<1>1. UNCHANGED <<phase, health, sup, worker, attempts, restarts, failed, signalled, runCtx, exitCh,
                  cancelled, asked, watcher>>
  BY DEF StopComponent, StopWait, supVars
<1>2. at' = at - 1 /\ up' = up \ {at}
  BY DEF StopComponent, StopWait
<1>3. at' \in 0..N /\ up' = 1..at' /\ up' \subseteq Component
  BY <1>0, <1>2, NAssumption DEF Component
<1>4. at' \in 0..(N + 1)
  BY <1>3, NAssumption
<1>5. stopAt' \in {"read", "cancel", "worker", "wait"} /\ held' \in Nat
  BY <1>0 DEF StopComponent, StopWait, BootstrapTypeOK
<1>6. done' \in [Watched -> {"empty", "nil", "err"}]
  BY <1>0 DEF StopComponent, StopWait, BootstrapTypeOK
<1>7. BootstrapTypeOK'
  BY <1>0, <1>1, <1>3, <1>4, <1>5, <1>6 DEF BootstrapTypeOK
<1>8. UpPrefix'
  BY <1>0, <1>1, <1>3 DEF UpPrefix
<1>9. \A d \in Daemon : d \in up /\ d \notin up' => sup[d] = "exited"
  BY <1>2 DEF StopComponent, StopWait
<1>. QED
  BY <1>0, <1>1, <1>7, <1>8, <1>9, RunFrame DEF BootstrapInv

---------------------------------------------------------------------------
(* Signals, servers and watchers *)

LEMMA OtherInv ==
    ASSUME BootstrapInv,
           \/ Signal \/ CancelRun
           \/ \E c \in Server : ServerExits(c)
           \/ \E c \in Watched : Watch(c) \/ Report(c)
           \/ UNCHANGED vars
    PROVE  BootstrapInv'
<1>0. BootstrapTypeOK
  BY DEF BootstrapInv
<1>1. UNCHANGED <<phase, at, up, health, stopAt, held, sup, worker, attempts, restarts, failed,
                  cancelled, asked>>
  BY DEF Signal, CancelRun, ServerExits, Watch, Report, vars, runVars, supVars
<1>2. signalled' \in BOOLEAN /\ runCtx' \in BOOLEAN /\ exitCh' \in BOOLEAN
  BY <1>0 DEF BootstrapTypeOK, Signal, CancelRun, ServerExits, Watch, Report, vars
<1>3. /\ done' \in [Watched -> {"empty", "nil", "err"}]
      /\ watcher' \in [Watched -> {"none", "watch", "report", "ended"}]
  BY <1>0 DEF BootstrapTypeOK, Signal, CancelRun, ServerExits, Watch, Report, vars
<1>4. BootstrapTypeOK'
  BY <1>0, <1>1, <1>2, <1>3 DEF BootstrapTypeOK
<1>5. UpPrefix' /\ SupervisorsUp' /\ Counts'
  BY <1>1 DEF BootstrapInv, UpPrefix, SupervisorsUp, Counts
<1>. QED
  BY <1>1, <1>4, <1>5 DEF BootstrapInv

---------------------------------------------------------------------------
(* The supervisors *)

\* A step of a supervisor that is active leaves it active, or lets it exit, and
\* moves its counters together.
LEMMA SuperviseInv ==
    ASSUME BootstrapInv,
           NEW d \in Daemon,
           SuperviseStep(d) \/ WorkerReturns(d)
    PROVE  BootstrapInv'
<1>0. BootstrapTypeOK /\ d \in Watched
  BY DEF BootstrapInv, Watched
<1>1. UNCHANGED <<phase, at, up, health, stopAt, held, signalled, runCtx, cancelled, asked, watcher, exitCh>>
  BY DEF SuperviseStep, SuperviseCheck, BuildWorker, StoreWorker, WorkerReturns, PolicyStop,
     PolicyRestart, PolicyFatal, SleepBackoff, runVars
<1>2. sup[d] \notin {"none", "exited"}
  BY DEF SuperviseStep, SuperviseCheck, BuildWorker, StoreWorker, WorkerReturns, PolicyStop,
     PolicyRestart, PolicyFatal, SleepBackoff
<1>3. \E q \in {"check", "build", "store", "run", "policy", "sleep", "exited"} :
          sup' = [sup EXCEPT ![d] = q]
  BY DEF SuperviseStep, SuperviseCheck, BuildWorker, StoreWorker, WorkerReturns, PolicyStop,
     PolicyRestart, PolicyFatal, SleepBackoff
<1>4. \E n \in Nat : attempts' = [attempts EXCEPT ![d] = n]
  <2>1. attempts = [attempts EXCEPT ![d] = attempts[d]] /\ attempts[d] \in Nat
    BY <1>0 DEF BootstrapTypeOK
  <2>2. attempts' = attempts \/ attempts' = [attempts EXCEPT ![d] = attempts[d] + 1]
    BY DEF SuperviseStep, SuperviseCheck, BuildWorker, StoreWorker, WorkerReturns, PolicyStop,
       PolicyRestart, PolicyFatal, SleepBackoff
  <2>. QED
    BY <2>1, <2>2
<1>5. \E n \in Nat : restarts' = [restarts EXCEPT ![d] = n]
  <2>1. restarts = [restarts EXCEPT ![d] = restarts[d]] /\ restarts[d] \in Nat
    BY <1>0 DEF BootstrapTypeOK
  <2>2. restarts' = restarts \/ restarts' = [restarts EXCEPT ![d] = restarts[d] + 1]
    BY DEF SuperviseStep, SuperviseCheck, BuildWorker, StoreWorker, WorkerReturns, PolicyStop,
       PolicyRestart, PolicyFatal, SleepBackoff
  <2>. QED
    BY <2>1, <2>2
<1>6. BootstrapTypeOK'
  <2>1. worker' \in [Daemon -> Nat]
    BY <1>0 DEF SuperviseStep, SuperviseCheck, BuildWorker, StoreWorker, WorkerReturns, PolicyStop,
       PolicyRestart, PolicyFatal, SleepBackoff, BootstrapTypeOK
  <2>2. failed' \in [Daemon -> BOOLEAN]
    BY <1>0 DEF SuperviseStep, SuperviseCheck, BuildWorker, StoreWorker, WorkerReturns, PolicyStop,
       PolicyRestart, PolicyFatal, SleepBackoff, BootstrapTypeOK
  <2>3. done' \in [Watched -> {"empty", "nil", "err"}]
    BY <1>0 DEF SuperviseStep, SuperviseCheck, BuildWorker, StoreWorker, WorkerReturns, PolicyStop,
       PolicyRestart, PolicyFatal, SleepBackoff, BootstrapTypeOK, reportFatal
  <2>4. sup' \in [Daemon -> {"none", "check", "build", "store", "run", "policy", "sleep", "exited"}]
    BY <1>0, <1>3 DEF BootstrapTypeOK
  <2>5. attempts' \in [Daemon -> Nat] /\ restarts' \in [Daemon -> Nat]
    BY <1>0, <1>4, <1>5 DEF BootstrapTypeOK
  <2>. QED
    BY <1>0, <1>1, <2>1, <2>2, <2>3, <2>4, <2>5 DEF BootstrapTypeOK
<1>7. UpPrefix'
  BY <1>1 DEF BootstrapInv, UpPrefix
<1>8. SupervisorsUp'
  <2>1. d \in up
    BY <1>2 DEF BootstrapInv, SupervisorsUp
  <2>2. \A e \in Daemon : e # d => sup'[e] = sup[e]
    BY <1>0, <1>3 DEF BootstrapTypeOK
  <2>. QED
    BY <1>1, <2>1, <2>2 DEF BootstrapInv, SupervisorsUp
<1>9. Counts'
  <2>1. \A e \in Daemon : e # d => sup'[e] = sup[e] /\ attempts'[e] = attempts[e] /\ restarts'[e] = restarts[e]
    BY <1>0, <1>3, <1>4, <1>5 DEF BootstrapTypeOK
  <2>2. attempts[d] \in Nat /\ restarts[d] \in Nat
    BY <1>0 DEF BootstrapTypeOK
  <2>3. /\ sup[d] \in {"check", "build", "sleep"} =>
               attempts[d] = restarts[d] /\ ~restartsExhausted(restarts[d])
        /\ sup[d] \in {"store", "run", "policy"} =>
               attempts[d] = restarts[d] + 1 /\ ~restartsExhausted(restarts[d])
    BY DEF BootstrapInv, Counts
  <2> DEFINE P == /\ sup'[d] = "none" => attempts'[d] = 0 /\ restarts'[d] = 0
                  /\ sup'[d] \in {"check", "build", "sleep"} =>
                         attempts'[d] = restarts'[d] /\ ~restartsExhausted(restarts'[d])
                  /\ sup'[d] \in {"store", "run", "policy"} =>
                         attempts'[d] = restarts'[d] + 1 /\ ~restartsExhausted(restarts'[d])
                  /\ sup'[d] = "exited" =>
                         \/ attempts'[d] \in {restarts'[d], restarts'[d] + 1} /\ ~restartsExhausted(restarts'[d])
                         \/ attempts'[d] = restarts'[d] /\ restarts'[d] = MaxRestarts + 1
  <2>4. P
    <3>1. CASE SuperviseCheck(d)
      BY <1>0, <2>3, <3>1 DEF SuperviseCheck, BootstrapTypeOK
    <3>2. CASE BuildWorker(d)
      <4>1. /\ sup[d] = "build" /\ attempts'[d] = attempts[d] + 1 /\ restarts'[d] = restarts[d]
            /\ sup'[d] \in {"store", "policy"}
        BY <1>0, <3>2 DEF BuildWorker, BootstrapTypeOK
      <4>. QED
        BY <2>2, <2>3, <4>1
    <3>3. CASE StoreWorker(d)
      BY <1>0, <2>3, <3>3 DEF StoreWorker, BootstrapTypeOK
    <3>4. CASE WorkerReturns(d)
      <4>1. sup[d] = "run" /\ sup'[d] \in {"exited", "policy"} /\ UNCHANGED <<attempts, restarts>>
        BY <1>0, <3>4 DEF WorkerReturns, BootstrapTypeOK
      <4>. QED
        BY <2>3, <4>1
    <3>5. CASE PolicyStop(d) \/ PolicyFatal(d)
      BY <1>0, <2>3, <3>5 DEF PolicyStop, PolicyFatal, BootstrapTypeOK
    <3>6. CASE PolicyRestart(d)
      <4>1. /\ sup[d] = "policy" /\ attempts'[d] = attempts[d] /\ restarts'[d] = restarts[d] + 1
            /\ sup'[d] = IF restartsExhausted(restarts[d] + 1) THEN "exited" ELSE "sleep"
        BY <1>0, <3>6 DEF PolicyRestart, BootstrapTypeOK
      <4>2. restartsExhausted(restarts[d] + 1) /\ ~restartsExhausted(restarts[d])
              => restarts[d] + 1 = MaxRestarts + 1
        BY <2>2, RestartAssumption DEF restartsExhausted
      <4>. QED
        BY <2>2, <2>3, <4>1, <4>2
    <3>7. CASE SleepBackoff(d)
      <4>1. sup[d] = "sleep" /\ sup'[d] \in {"exited", "check"} /\ UNCHANGED <<attempts, restarts>>
        BY <1>0, <3>7 DEF SleepBackoff, BootstrapTypeOK
      <4>. QED
        BY <2>3, <4>1
    <3>. QED
      BY <3>1, <3>2, <3>3, <3>4, <3>5, <3>6, <3>7 DEF SuperviseStep
  <2>. QED
    BY <2>1, <2>4 DEF BootstrapInv, Counts
<1>. QED
  BY <1>1, <1>6, <1>7, <1>8, <1>9 DEF BootstrapInv

---------------------------------------------------------------------------

LEMMA NextInv == BootstrapInv /\ [Next]_vars => BootstrapInv'
<1>. SUFFICES ASSUME BootstrapInv, [Next]_vars PROVE BootstrapInv'
  OBVIOUS
<1>1. CASE RunStep
  BY <1>1, StartComponentInv, RunStepInv, StopInv DEF RunStep
<1>2. CASE StartFails \/ HealthFails
  BY <1>2, RunStepInv
<1>3. CASE \E d \in Daemon : SuperviseStep(d) \/ WorkerReturns(d)
  BY <1>3, SuperviseInv
<1>4. CASE \/ Signal \/ CancelRun
           \/ \E c \in Server : ServerExits(c)
           \/ \E c \in Watched : Watch(c) \/ Report(c)
           \/ Exited \/ UNCHANGED vars
  BY <1>4, OtherInv DEF Exited
<1>. QED
  BY <1>1, <1>2, <1>3, <1>4 DEF Next

LEMMA Invariance == Spec => []BootstrapInv
  BY InitInv, NextInv, PTL DEF Spec

\* While RunSignal serves the health probe every component is up and the Stop of
\* none has been called, however many components there are.
THEOREM HealthIsTruthful == Spec => [](BootstrapTypeOK /\ HealthMeansUp)
<1>1. BootstrapInv => BootstrapTypeOK /\ HealthMeansUp
  BY DEF BootstrapInv, UpPrefix, HealthMeansUp
<1>. QED
  BY <1>1, Invariance, PTL

\* No supervisor goroutine, and so no worker, outlives a component that was
\* started before its daemon: the wg.Wait at the end of Stop and the reverse
\* order of shutdown together see to it.
THEOREM DependenciesOutliveWorkers == Spec => []WorkerHasDependencies
<1>1. BootstrapInv => WorkerHasDependencies
  <2>. SUFFICES ASSUME BootstrapInv, NEW d \in Daemon, sup[d] \notin {"none", "exited"}
                PROVE  1..d \subseteq up
    BY DEF WorkerHasDependencies
  <2>1. d \in up /\ d \in 1..N
    BY KindAssumption DEF BootstrapInv, SupervisorsUp, Component
  <2>2. \E k \in Int : up = 1..k
    <3>1. CASE phase = "starting"
      BY <3>1, NAssumption DEF BootstrapInv, UpPrefix
    <3>2. CASE phase \in {"running", "stopHealth"}
      BY <3>2, NAssumption DEF BootstrapInv, UpPrefix, Component
    <3>3. CASE phase \in {"stopping", "returned"}
      BY <3>3, NAssumption DEF BootstrapInv, UpPrefix
    <3>. QED
      BY <3>1, <3>2, <3>3 DEF BootstrapInv, BootstrapTypeOK
  <2>. QED
    BY <2>1, <2>2, NAssumption
<1>. QED
  BY <1>1, Invariance, PTL

\* A daemon builds its worker once and then at most MaxRestarts times, for every
\* limit, and reports the limit only when all restarts are used up.
THEOREM RestartsBounded == Spec => []RestartLimit
<1>1. BootstrapInv => RestartLimit
  <2>. SUFFICES ASSUME BootstrapInv, MaxRestarts >= 0, NEW d \in Daemon
                PROVE  /\ attempts[d] <= MaxRestarts + 1
                       /\ restarts[d] > MaxRestarts => attempts[d] = MaxRestarts + 1 /\ sup[d] = "exited"
    BY DEF RestartLimit
  <2>1. /\ attempts[d] \in Nat /\ restarts[d] \in Nat
        /\ sup[d] \in {"none", "check", "build", "store", "run", "policy", "sleep", "exited"}
    BY DEF BootstrapInv, BootstrapTypeOK
  <2>2. CASE sup[d] = "none"
    BY <2>1, <2>2, RestartAssumption DEF BootstrapInv, Counts
  <2>3. CASE sup[d] \in {"check", "build", "sleep"}
    BY <2>1, <2>3, RestartAssumption DEF BootstrapInv, Counts, restartsExhausted
  <2>4. CASE sup[d] \in {"store", "run", "policy"}
    BY <2>1, <2>4, RestartAssumption DEF BootstrapInv, Counts, restartsExhausted
  <2>5. CASE sup[d] = "exited"
    BY <2>1, <2>5, RestartAssumption DEF BootstrapInv, Counts, restartsExhausted
  <2>. QED
    BY <2>1, <2>2, <2>3, <2>4, <2>5
<1>. QED
  BY <1>1, Invariance, PTL
============================================================================
