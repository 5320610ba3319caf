# TLA+ models of dominion

`dominion` is a monorepo: a deployment control plane (`projects/infra/deploy`), a
game-agent system (`projects/game`), the Go and TypeScript libraries they share
(`common/gopkg`, `common/js`) and tools (`tools`). These models are about the
parts in which state, failure and concurrency meet: the deploy service, the
lifecycle manager the Go services run under, and, on the TypeScript side, the
agent service with its team loops, the desktop bridge and the game behind it,
long-term memory, the gRPC clients, and the web client that shows all of it.

Paths below are relative to the repository root (`src/`).

## 1. Inventory

### 1.1 Deploy service (`projects/infra/deploy`)

One process (the Kubernetes Deployment has `replicas: 1` and strategy
`Recreate`, so two processes do not overlap) serves a gRPC API and runs one
worker.

| Part | State | Operations | Hard because |
|---|---|---|---|
| queue, `domain/queue.go` | `items`, `followUps`, `inFlight`, channel `pendingCh`, goroutines that sleep (`EnqueueAfter`) or wait to send | `Enqueue`, `EnqueueAfter`, `Dequeue`, `Complete` | tokens are sent outside the mutex; items are merged per environment; late timers |
| worker, `domain/worker.go` | the item in hand, its retry count | `Run`, `maybeRequeue` | what an error does to the item; `Complete` is not deferred |
| reconciler, `service/reconcile.go` | the document it loaded | `ProcessOne`, `MarkRetryExhausted` | every write is conditional on a snapshot that may be stale |
| commands, `service/command.go` | one request each | `Create`, `Update`, `Delete` | Get, write and enqueue are three steps |
| store, `storage/mongo.go` | documents | `Create`, `UpdateDesired`, `TransitionStatus`, `Delete`, `ListNeedingReconcile` | preconditions on generation and state only; ambiguous errors |
| runtime, `runtime/k8s` | workloads in the cluster | `ApplyResources`, `CheckRollout`, `Delete` | fails halfway; the rollout state belongs to what is applied, not to what is asked about |
| recovery, `domain/recovery.go`, `app/worker.go` | none | `Recover` at every build of the worker | runs beside requests, on a queue that may not be empty |
| lifecycle, `domain/state.go`, `domain/environment.go` | states and allowed transitions | `CanTransition` | the reconciler does not consult it |

What makes it correct: no accepted change is forgotten, whatever crashes or is
merged; what the stored status says is true of the cluster; a deletion is final
and leaves nothing behind; every command is eventually dealt with.

### 1.2 Lifecycle manager (`common/gopkg/bootstrap`)

| Part | State | Operations | Hard because |
|---|---|---|---|
| `bootstrap.go` | the components in order of stage and name, those started, the health server | `RunSignal`, `shutdown`, `monitorExitWatchers` | rollback of a failed start with daemons at work; watchers start last; signal, cancellation and exits race |
| daemon, `daemon.go` | context, current worker, restart count, Done channel | `Start`, `Stop`, `supervise`, `applyRestartPolicy` | `Stop` and the supervisor share the worker; `wg.Wait` has no deadline |
| servers, `http.go`, `grpc.go` | listener, Done channel | `Start`, `Stop` | exit by themselves at any time |
| health, `health.go` | the probe's listener | `Start`, `Stop` | must nest inside the life of the components |

What makes it correct: the probe answers only while everything is up; a worker
never outlives what it uses; the restart limit is exact; a fatal error and a
signal end the process.

### 1.3 Agent service (`projects/game/agent_v2`, `common/js/dsh-plugins`)

A session has a team of agents. The host materializes it, passes what the user
sends to the scene's orchestration, and writes every turn to the streams that
are attached.

| Part | State | Operations | Hard because |
|---|---|---|---|
| team host, `agent_v2/src/session.ts`, `server.ts` | registry of teams, streams per team, chain of materializations, marks of turns | `UpdateTeam`, `Send`, `Cancel`, `GetTeamMember`, `DeletePreset`, shutdown | every handler awaits in the middle while others run; teardown emits events of its own |
| history, `agent_v2/src/history.ts` | merged sequence, member views, the turn being collected | one handler per agent event | settles a call after the message that made it |
| minesweeper loop, `saolei/loop` | activity graph, pump, inboxes, held input, landed user messages | `submit`, `cancel`, `dispose`, the pump's steps | the pump decides, after an await, on state others changed |
| broadcast, `team/src/team.ts` | what each member has been handed | relay, reconcile, drain | a live relay and the rebuilt one overlap |
| sts2 loop, `sts2/loop` | steered, held and abort-held input, frozen flag | `submit`, `cancel`, `dispose` | cancel captures what the agent may have claimed |

What makes it correct: what is said is read exactly once or kept for a replay;
one team and one driven member at a time; a stream shows how each turn ended,
and ends.

### 1.4 Desktop bridge and game (`desktop-bridge`, `saolei/game`, `saolei/hooks`, `projects/game/pkg/saolei-board`)

| Part | State | Operations | Hard because |
|---|---|---|---|
| bridge | the registered stream, its heartbeat, dispatches awaiting a receipt | connect, `dispatch`, `handleResult`, `disconnect`, timeout, abort | takeover with a late close; receipts after their timeout |
| game runtime | recognized board, log, statistics, end of the game | `saolei_init`, `saolei_operate`, `saolei_query` | fails in the middle of a batch; the desktop's window moves on without it |
| board recognition | the picture and the board derived from it | classification, compatibility checks, win and loss | counter and cells must agree |
| hooks | scripts in order | `saolei_hook`, run on a board change | one failing announcement |

What makes it correct: what the player is told is what happened on the desktop.

### 1.5 Memory (`common/js/memory`, web `MemoryView`, `WikiView`)

Tools of the agents and views of the web user read and write the same
collections through unary RPCs, with no transaction: page walks, preflight of a
batch against a working copy, writes one by one; an answer may be lost. The views
keep a selection, a chain of page tokens and one form while list answers overtake
each other. Correct: answers tell what was written, an undisturbed batch equals its
operations one by one, the view shows the selected preset's current page.

### 1.6 gRPC clients (`common/js/resolver`, `common/js/grpc/resolver`, `dsh-plugins/grpc-runtime`)

A pool of channels, one per target, each with a resolver that asks the deploy
service on a timer and on request, overlapping; reports go through `setImmediate`.
grpc-js destroys the resolver of a channel that goes idle. Correct: a channel gets its
own target's addresses only, is never told there are none, and ends up with those
listed while it has not gone idle; a destroyed resolver comes to rest.

### 1.7 Web chat (`projects/game/web/frontend/src`)

`store/chat.ts` folds the frames of all attached streams, each with a lag of its
own, and the answers of two list calls into one state. Correct: what it shows as
recorded is what the server recorded, once, and nothing is lost or shown as running
for ever.

### 1.8 Not modelled

| Component | Why |
|---|---|
| `common/gopkg/solver`, `common/gopkg/grpc/solver` | Go counterparts of the resolvers; the TypeScript ones are modelled |
| `common/js/bootstrap` | counterpart of the Go lifecycle manager, which is modelled |
| `projects/game/proxy`, `projects/game/session` | a connection manager with a refresh loop; sessions over a store: next in the plan |
| `projects/game/memory` | CRUD over a store; in `MemoryService` as the service its clients see |
| `projects/game/gateway`, `desktop`, `fake-*`; views of sessions and presets | HTTP edge, input devices, presentation, test doubles; the desktop application is the other end of its stream in `Desktop` |
| presets, composition of plugins, model providers | configuration set up once |
| deploy gRPC handler, `tools`, library wrappers, `experimental`, `third_party`, `specs` | conversion, commands, I/O, not part of the running system |

## 2. Modules

| Module | What it is |
|---|---|
| `DeployQueue` | the queue. `items`, `followUps`, `inFlight` and `pendingCh` are the fields of `Queue`; `senders[e]` counts goroutines that have not sent their token; `timers` those asleep in `EnqueueAfter`. A critical section is one action. |
| `DeployService` | extends `DeployQueue` with documents, cluster, requests, worker, recovery and failures. |
| `EnvironmentLifecycle` | abstract specification: how a stored environment may change. `DeployService` implements it by the mapping `View`. |
| `Bootstrap` | the lifecycle manager with its daemons, servers and watchers. |
| `SceneOrchestration` | abstract specification: the contract of `agent_v2/src/orchestration.ts` as the results each operation may have on the snapshot the host reads. |
| `SaoleiLoop`, `Sts2Loop` | the two orchestrations; each is shown to keep the contract (`ImplementsScene`). |
| `TeamHost` | the host, over any orchestration that keeps the contract. |
| `TurnHistory`, `ChatStore`, `Chat` | the server's record of turns, the client's reducer, and both joined by streams and list calls. |
| `MemoryService`, `MemoryTools`, `MemoryViews`, `Memory` | the service as its clients see it, the tools, the views, all together. |
| `DesktopBridge`, `SaoleiBoard`, `SaoleiVision`, `SaoleiHooks`, `SaoleiGame`, `Desktop` | the bridge, the rules and the window, the recognition, the hooks, the runtime, and the desktop application that closes the loop. |
| `EndpointLookup`, `GrpcClient` | what a target resolves to, and the pool, channels and resolvers over time. |
| `DeployServiceProofs`, `BootstrapProofs`, `SaoleiLoopProofs`, `Sts2LoopProofs`, `TeamHostProofs`, `GrpcClientProofs`, `DesktopProofs` | TLAPS proofs; `SceneOrchestration` holds the lemmas the two loops and the host share. |
| `MC*` | values for TLC: desired states, requests, calls, batches, listings. |

### `DeployService`

* A document keeps `generation`, `status.desired`, `status.state`,
  `status.observed_generation`, the desired state and `status.services`.
  Messages, timestamps and etags are left out. A desired state is a function
  from workload names to versions; that is all the properties tell apart.
* The worker is a program counter `pc` between calls: an action is one store read,
  one conditional write, one runtime call or one critical section; what was read
  before is in `snap`, `rollout` or `cl[c]`.
* `UpdateDesired`, `Matches` and `TransitionStatus` are the filters and `$set`
  of `storage/mongo.go`: an update leaves the status alone; a transition writes
  the observed generation only if it is not zero, the services always.
* `Plan` is the switch of `ProcessOne`, `processPresent` and `processAbsent`;
  `StatusToWrite` lists the arguments of the calls of `TransitionStatus`.
* What `ProcessOne` returns is the `Outcome`: stop (Terminal), an error that is
  counted, an error that is dropped, or a requeue now, after 1ns or after the
  poll interval. The worker calls `Complete` before it looks at it.
* `cluster[e]` maps the workloads under an environment's label to the version
  last applied. A failed apply leaves a part of the new workloads and prunes
  nothing, or applied all and pruned a part (`PartlyApplied`); a failed delete
  leaves a part (`PartlyDeleted`).
* `CheckRollout` fails if a workload of the loaded desired state does not
  exist; otherwise Kubernetes may report any state for each (a StatefulSet never
  `failed`). The report is about what runs, not about what was asked for.
* A store error may come after the server made the write (`LostWrite`,
  `CommandWriteFault`). An error of `Recover` makes the supervisor build again,
  which is a stuttering step here.
* `WorkerPanic` is a panic inside `ProcessOne`: the supervisor rebuilds the
  worker on the same queue, with `inFlight` and the timers as they were. `Crash`
  is the exit of the process: queue, timers and requests are gone.
* `overtaken` is a history variable that only properties read.

### `Bootstrap`

* Components are numbers in the order of `sort.SliceStable`; `Daemon` and
  `Server` say what they are. `phase` and `at` are the place of `RunSignal` in its
  two loops, `up` the components between their Start and their Stop.
* `stopAt` and `held` are the program counter and the local variable of a
  daemon's `Stop`: read the fields under the mutex, cancel, call the worker's
  `Stop`, wait. The supervisor of the daemon runs in between.
* `sup[d]` is the place of the supervisor: at the context check, building,
  storing the worker, running it, in the restart policy, asleep, gone. Workers are
  numbered by the call of `Build` that made them.
* The classifier is configurable, so any of its decisions is possible for any
  error, nil included; `reportFatal` passes the error on as it is.
* `done[c]` is the channel of capacity one, `watcher[c]` the goroutine that reads
  it, `exitCh` the channel `RunSignal` waits on.
* Left out: `Register` and a second `Run`, which only return errors; a signal
  before `NotifyContext`, which kills the process; durations.

### The TypeScript modules

Node.js and the browser run one callback at a time and all promise reactions
before the next one. An action is one handler up to its next real await (an RPC,
a turn, a timer). Where a handler's continuation is an action of its own, a guard
(`Settled`, `Calm`, `Quiet`) keeps every other action out until it has run.

* `SaoleiLoop`: `flow` is the activity graph's state in `flow.ts`, `pump` the
  place of `runPump`, `turn`, `inbox`, `hold`, `held`, `abort` a member's fields in
  `agent-member.ts`, `units` what was said and `drained` what `team.ts` has handed to
  whom. The agent is a library, modelled by what the member relies on: a turn
  claims its whole inbox when it starts and at a step boundary, does not end well
  while user input waits, and loses the inbox when it is cancelled. Injecting an
  announcement into a running turn may throw, for each receiver (`Announce`); the
  warning swallows it and the pending list keeps the broadcast. `seen`, `replayed`,
  `abandoned`, `missed` and `cancelAsked` are history variables; `abandoned` holds what
  was given up unread: batches cancelled before their claim, and held sets displaced
  by a fresh broadcast.
* `Sts2Loop`: `steered`, `held`, `abortHeld`, `abortRequested`, `frozen` and
  `lastTurnFailure` are fields of `MainAgentDriver`. `dispose()` during the awaits of
  `materialize` is left out: the host disposes only what it has published.
* `TeamHost`: a generation is an entry of the registry; `chain` and `job` are the
  promise chain of materializations with a program counter per await; `latched`,
  `failure` and `mark` are the turn state of a member's collector. The orchestration's
  snapshot `scene[g]` moves by `SceneOrchestration` alone.
* `TurnHistory` and `ChatStore` are pure: a record and an event give the next
  record and the frames; a state and a frame give the next state. `Chat` holds one
  pipe per stream, and per list call the requests under way and the answers that have
  not landed, which land in any order; a backfill is asked for whether or not an
  earlier one is still out. The server has a pending part from the first delta of a
  text, not of a tool call. `raced` and `overlapped` are history variables that name the
  two ways a backfill can take something away. A text is a sequence of parts, so that
  one lost or doubled shows.
* `MemoryTools`: a call is a program counter between RPCs; an RPC is answered, lost
  on the way, or applied with its answer lost. A content or a normalized title is a
  number that is its own digest; all a digest has to be is injective and ordered.
* `MemoryViews`: one mounted view with its selection, token chain, rows, form and
  write lock; a list request is sent, served and landed in three steps.
* `DesktopBridge` to `Desktop`: streams by age, the events each still has to deliver,
  frames down and receipts up; the window plays Minesweeper by its own rules. A wrong
  flag stays a flag after a loss; a cell's picture is never garbled. A click on a blank
  cell opens the smallest set that is closed under the neighbours of blank cells
  (`Cascade`); the counter stops at -99. The registry of hooks is a function from names
  to entries, whose `order` is the position in the code's list.
* `EndpointLookup`: texts the code splits are given split; an error is the name of
  its class. `GrpcClient`: a record per channel with its resolver's fields and the
  queue of its immediates. A closed resolver refuses, a closed channel does not: an
  answer that lands after `destroy` sets it to ready again, and then it refreshes when
  asked. `enterIdle` is the idle timer of grpc-js, which `channel.ts` leaves at its
  default: a channel without calls has its resolver and balancer destroyed and stays
  open. That queue is per channel, which allows more orders than
  Node's single one. All clients of a process have the same target. A target or an
  environment the code refuses to start with has no behaviour.

Definitions that begin with "mutant" in their comment are plausible bugs: a run
with one in place of the definition it names must fail, which shows that the
property is about that code.

## 3. Runs

The properties of a run are conjunctions of named parts, each stated and
explained where it is defined.

| Run | Instance | Shows |
|---|---|---|
| `service_concurrent` | 2 requests at a time, 3 generations, 1 process exit anywhere | `AcceptedWorkSurvives` (`WorkNotLost`, `RecoveredWorkRuns`), `ReadyMeansApplied`, `WorkerOwnsStatus`, `AbsentIsFinal` |
| `service_faults` | desired states with different workloads, a StatefulSet, 2 creations, a retry, 1 store fault, 1 panic | `ServicesTruthful`, `NoOrphans`, `ImplementsLifecycle`, `UserItemSticks` |
| `service_converges` | 2 environments, one of them edited by 1 request at a time, 2 generations, 1 exit, channel of capacity 1 | `QueueInv` (`TokenPerItem`, `SingleFlight`), `EveryCommandServed` |
| `bootstrap` | a client, a daemon, a server; 1 restart | `HealthMeansUp`, `WorkerHasDependencies`, `RestartLimit`, `ProcessEnds` |
| `saolei_loop` | 2 user messages, 4 broadcasts, 2 ended games, 2 rounds, 1 failing turn, 1 throw (of an assembly, a delivery or an injection), cancel and dispose anywhere | `MembersInHand`, `UserMessageOnce`, `BroadcastDelivered`, `FlowHonest`, `LoopAdvances`, `ImplementsScene` |
| `sts2_loop` | 3 user messages, 2 failures of two kinds, cancel and dispose anywhere | `TurnSettles` (with `InputAccounted`), `InputRead`, `ImplementsScene` |
| `team_host` | 2 updates out of 5 kinds of request, 1 sender that reconnects, 2 generations, a member read, a preset delete, 1 failure, shutdown | `RegistryTrue`, `ClientsToldTrue`, `RequestsEnd` |
| `chat` | 2 sends on 2 streams, up to 2 frames behind, a tool call, 1 fault, overlapping backfills | `ShownIsRecorded`, `DrainedComplete`, `NothingStaysOpen` |
| `memory` | 3 events of a member (memory and wiki tools), a web user and faults, pages of one entry | `AnswersTrue`, `LoneBatchExact`, `ViewTrue`, `EverythingAnswers` |
| `desktop` | 4 calls on a row of 3 cells with a mine, 2 streams, 2 hooks and 4 calls to change them, 1 fault of any kind | `DispatchOwned`, `ToldWhatHappened`, `GameTrue`, `CallsEnd` |
| `grpc_client` | 2 channels, 2 requests in flight, 1 change of the listing or fault, 1 call, idle channels, stateful and stateless targets | `EndpointsSound`, `PoolOwnsChannels`, `ChannelsSettle` |
| `lost_update` (violation) | as `service_concurrent` | an `Update` during `WaitingRollout` is reported Ready and observed without being applied: `UpdateDesired` does not store the reset to Pending |

### What the code does not keep

Statements a comment, a test or an interface makes that the models refute. Each is
defined beside the properties that do hold; where a configuration is named, TLC
shows the counterexample with it.

| Statement | What happens |
|---|---|
| `WorkNotLost`, `LostWorkload.cfg` (`DeployService`) | if an update during a rollout adds a workload, the rollout check fails on it and the item is dropped |
| `RecoveredWorkRuns`, `PanicRestart.cfg` | after a panic the recovered item waits behind an `inFlight` mark nobody clears |
| `DeletingRefusesUpdate`, `RecreatedUpdate.cfg` | an update that read a removed environment passes the generation check of its successor |
| `StopReachesWorker`, `StopMissesWorker.cfg` (`Bootstrap`) | `Stop` of a daemon reads the worker before it cancels; the one stored in between is never asked to stop |
| `WorkerHasDependencies` with a panicking `Stop`, `StopPanic.cfg` | the panic skips `wg.Wait`: clients are closed under a running worker |
| `ShutdownEnds` with a worker that does not return, `ShutdownDeadline.cfg` | `wg.Wait` ignores the shutdown deadline |
| `ReplaysUnconsumed`, `Sts2Cancel.cfg` (`Sts2Loop`) | a cancel puts steered messages into the held set that the turn has already read; the next delivery replays them |
| `HeldInputWins`, `DisplacedInput.cfg` (`SaoleiLoop`) | the comment of `defaultInput` calls fresh input beside a held set unreachable; a broadcast whose injection threw during the failed turn is such input, is driven instead, and the held broadcasts are read by nobody |
| `NewestAnswerWins`, `ChatOverlap.cfg` (`Chat`) | two streams that fail start a backfill each; the older answer lands last and drops a turn the newer one had brought |
| `BackfillYields`, `ChatBackfill.cfg` (`Chat`) | the backfill after a failed turn resets the send guard, so its answer can replace what a newer, concurrent send has brought |
| `CancelStopsTurn`, `NothingAbandoned` (`SaoleiLoop`) | a cancel while the flow is frozen is ignored though a user's turn may be running; a batch drained for a turn that is cancelled before it claims it, or whose assembly throws, is gone |
| `CanceledMeansStopped` (`TeamHost`) | `cancel()` marks the turn before the orchestration, which may ignore the cancel, so a turn that completed is reported CANCELED |
| `ReleasedEndsStreams` (`TeamHost`) | a `dispose()` that rejects skips the end of the streams; they stay open until the client leaves (`RequestsEnd` excepts them) |
| `DedupeTruthful`, `SettledWikiIsCurrent` (`Memory`) | a conflicting id need not carry the same content once an entry was edited; `WikiView` has no epoch, so an older query's answer can land last |
| `IdleCallReconnects`, `IdleChannel.cfg` (`GrpcClient`) | `probeChannel` promises that a call on an idle channel reconnects; grpc-js asks the resolver it destroyed with `updateResolution`, which line 234 refuses, so the call waits for its deadline |
| `ClosedComesToRest`, `IdleChannel.cfg` with it as the property | a late answer sets the resolver of a closed channel to ready; asked again (`probeChannel` on a client that outlives the pool), it refreshes, and so on |
| `SilentAfterDestroy` | a request in flight when a resolver is destroyed lands, sets it to ready and calls the listener |

Met while modelling and seen without a run: `MarkRetryExhausted` loads the document
again, so a generation accepted after the last attempt is marked Failed too, until
its own item moves it on; it also takes Deleting to Failed, which `CanTransition`
does not list (`EnvironmentLifecycle` allows it). A store error inside `ProcessOne`
is dropped although its comment calls such errors retryable, which is why
`service_converges` has no store faults. In the chat store the text queue is first
in, first out over all streams, so a receipt of a second stream can label the first
one's text; an older stream that breaks after the newest is over leaves its draft;
a member backfill can take a settled tool status back. A move is validated against
the last recognized board, which is stale after a dispatch that timed out although
the desktop performed it. The stateful resolver says it retains prior endpoints,
but an empty instance throws and UNAVAILABLE is reported.

### Bounds

The runs of `DeployService` about safety have one environment: environments share only
the queue and the worker, and the theorems cover any number. `service_converges` has
two: with one token per item a sender finds a channel of capacity 1 full only if
another environment's token is in it. Both are created, only the first is updated and
deleted (`EditedEnv`). Three generations allow an update and a delete behind a create, all in flight
together; two requests allow each to overtake the other. The retry limit (15 in
the code) is 0 or 1: the worker only compares the count with it. The channel
capacity (256) is 1. `Bootstrap` has a component of each kind;
with one restart allowed a daemon builds at most twice, so `MaxBuilds` (3) cuts
nothing off. Several daemons only meet in the order of shutdown, which the theorems
cover.

In the loops two messages allow one in flight behind one held, and four broadcasts
two per member; a limit of two rounds is reached within two ended games. In
`TeamHost` two updates are the least that queue behind each other, and the second
generation is what a stale reader or stream of the first must not touch. `Chat` has
two streams because frames are doubled by the second; a lag of two frames separates
a message from its tool result. It starts when the lists the panel asked for at its
mount have landed, on a team without history. In `memory` pages hold one entry so that every walk
crosses pages; three events are a call, a disturbance and a failure. The board of
`desktop` has a mine and two safe cells: won, lost, flagged wrongly and chorded all
happen. The planner registers two hooks before the player's calls and updates or removes
either of them, twice, after the last (`PlannerCalls`): every board change
runs two hooks, and a hook that leaves and comes back comes after the other. In `grpc_client` two requests in flight land in either order and two
channels are the one before and the one after the pool was closed; `MaxEvents` bounds
changes of the listing and faults together. Bounds on faults
are budgets of the environment; all are named in the modules.

Deadlock is not checked where the system may rest: when all budgets are spent,
everybody is idle. `chat` and `bootstrap` are checked for it: there the
intended end (all sends made and everything read, the process returned) is a step
that repeats, and any other stop is an error.

### Fairness

`QueueFairness`: the worker loops over `Dequeue` and completes an item within its
iteration timeout; Go serves blocked senders of a channel in arrival order, which is
stronger than the strong fairness assumed for each. `Fairness` adds that a timer
fires, a request runs on once begun, and a rollout checked again and again is
eventually not waiting: Kubernetes ends a stuck Deployment by its progress
deadline. That holds for Deployments only, and `service_converges` has no
StatefulSet. In `Bootstrap` every goroutine that can run does; that a worker
returns once its context is cancelled is the contract `Worker` documents, assumed
in `FairSpec` and dropped in `StubbornSpec`.

In the TypeScript modules promise reactions run, timers fire, an RPC is answered or
fails within its deadline, and a turn in flight claims its input and ends (the agent
library bounds its steps; a turn that hangs would hold the loop). `TeamHost` assumes
strong fairness of a scene's coming to rest, since sends can keep waking it: users
do not send for ever, and `LoopAdvances` shows that the loop itself does not go on
for ever. `GrpcClient` assumes it of a resolver's interval, because the bound on
requests in flight is shared by all channels and the code's is not. What users, desktops, models and faults do is never assumed.

## 4. Proofs

`DeployServiceProofs` begins with the queue alone: for every set of environments,
retry limit and channel capacity, `QueueSafety == QueueSpec => []QueueInv`.
The conjunction is inductive as it stands and neither part is without the other:
that `Complete` and `enqueueNow` create a token only for an environment that has
none follows from `TokenPerItem` (not queued, so no token) and `SingleFlight` (in
flight, so not queued). The lemmas are one per operation, over two on what `Append`
and `Tail` do to the channel's contents. Assumptions: `MaxRetries \in Nat` (the
retry counts an item can carry include 0) and `NoItem \notin WorkItem`.
`UserItemKept` is the action property `UserItemSticks` of the queue alone: no
operation but the worker's `Dequeue` takes a user's item, and `ShouldReplace` lets
only another user's item replace it.

The rest of `DeployServiceProofs` is about the whole service, for any number of environments,
clients, generations and workloads and any budget of faults:

* `ServiceSafety`: type correctness, and the queue's invariant inside the service.
  Every step of the service does to the queue's variables what an operation of
  `DeployQueue` does (`UsesQueue`), or resets the queue with the process.
* `StatusOwnership`, `NothingOrphaned`: the inductive invariant is `ServiceInv`.
  `NoOrphans` alone is not inductive: that `deleteAbsent` may remove a document by
  name, without a precondition, needs that the document is still the one loaded and
  still Deleting. That is `WorkerOwnsStatus`: requests change generation and desired
  state, never the status, and nothing else removes or re-creates a document while
  it is loaded, so only the generation of a snapshot can be stale. With it, what the
  worker has done to the cluster (`ServiceInv` relates `pc` to `cluster`) is known
  when it writes.
* `LifecycleRefinement`, `GenerationsMonotone`: `DocSteps` sums up what a step may do
  to a document (nothing, create, set desired, one status write, remove); each of these
  is a step of `EnvironmentLifecycle` through `View`, and none takes a generation back.
* `UserRequestKept`: the same as `UserItemKept` inside the service, where a process
  exit is the only step outside the queue's operations.
* `ReadyIsApplied`, `ServicesAreTruthful`: the inductive invariant is `StatusInv`. Its
  part `CallsTrue` says that what the worker learned from a runtime call (the rollout
  it read, the services it listed) is still so when it writes: the cluster changes
  only through the worker, and by `WorkerOwnsStatus` the document it writes is the one
  it read. `StatusTrue(e)` is what that makes of each document.
* `DeletionIsFinal`: `AbsentIsFinal`, if a name is created at most once. `RequestsKnow`
  relates what each request read to the stored document: the generation a request
  holds is of this life, and at that generation the desired state is the one it read.
  With two creations it is false, as `RecreatedUpdate.cfg` shows.
* `AcceptedWorkIsKept`: as long as no store error and no panic has happened (`Calm`),
  every unsettled environment is stood for by an item, a timer, the worker, the
  recovery or a request that has yet to enqueue, if a name is created at most once and
  all desired states have the same workloads. The inductive invariant is `WorkInv`:
  `FlightInv` (an environment is in flight exactly while the worker has it),
  `Workable(e)` (who may still act on it finds it in a state it acts on), and
  `WorkNotLost`. Each hypothesis is one the code needs: without it the statement is
  false, as `RecreatedUpdate.cfg`, `LostWorkload.cfg` and `PanicRestart.cfg` show; a
  store error on which the worker drops the item is the fourth.

Assumptions: those of the queue; `NoDoc` is no document and `NoEnv` no
environment; the bounds are naturals; the desired states in `Spec` are maps of
workloads.

`BootstrapProofs` proves `HealthIsTruthful`, `DependenciesOutliveWorkers` and
`RestartsBounded`, for any number and kind of components and any restart limit.
`WorkerHasDependencies` relates goroutines to components that have nothing to do
with them, so `BootstrapInv` says more: the components that are up are an initial
segment whose end `RunSignal` is at (`UpPrefix`), a supervisor is active only while
its own daemon is up (`SupervisorsUp`), and builds and restarts differ by at most
one, as the place of the supervisor says (`Counts`). The first two give
`WorkerHasDependencies`, the last `RestartLimit`.

`SaoleiLoopProofs` is about the minesweeper team, for any number of user messages,
broadcasts, ended games, rounds and failures:

* `OneMemberDriven` (`MembersInHand`). A turn is driven by the pump and by nobody
  else; `DriveInv` and `PumpInv` tie the place of the pump to the member in turn, so
  that cancel and dispose, which release members from outside, find none running.
* `UserMessagesOnce`. A message passes inbox, landed set and log. `PlaceInv` counts a
  message over these places (`Sum`) and is inductive only with `NewInv` (a message not
  sent yet is nowhere) and `InputInv` (what a turn has claimed).
* `BroadcastsDelivered`. `UnitInv(m, n)` follows broadcast `n` on its way to member `m`
  and holds for each pair by itself; one lemma per kind of step (nothing
  moved, one said, one claimed, one handed over) covers the actions. Fresh input beside
  a held set must be in `missed`: a broadcast injected into the turn in flight is in its
  inbox until it is read, and only one whose injection threw is left to the pending
  list.
* `FlowIsHonest`: `FlowInv` ties the node of the graph to rounds and games,
  `RecordInv` says which records were announced and which one counts as reviewed.
* `LoopKeepsContract`: with `TypeInv`, each action is an operation of
  `SceneOrchestration` on the snapshot, or changes nothing it shows.

Assumptions (`LoopAssumption`): the bounds are naturals with `MaxTerminals <= MaxUnits`
(an ended game is announced by a broadcast), and user messages are not numbered
like broadcasts.

`Sts2LoopProofs` proves `TurnsSettle` and `DriverKeepsContract` of the single-agent
driver. `SettleInv` ties the failure on record, the held inputs and the agent to the
state of the turn; `InputInv` follows a message through inbox, held sets and log. The
latter needs what `Select` (a recursive function) keeps of a sequence:
`SelectProperties`, proved by induction over a set of naturals. The lemmas about
snapshots and the results of an operation are in `SceneOrchestration`, where both
refinement proofs take them from.

`TeamHostProofs` is about the host, over any orchestration that keeps the contract and
for any roster, requests and number of updates, callers, generations and failures:
`RegistryIsTrue`, `ClientsAreToldTrue`, and `StreamsHaveEnder`, the safety part of
`RequestsEnd`. None of the properties is inductive; `HostInv` is, and its parts are:

* `SceneInv(o)` and `EntryInv(g)`: what the host makes of a scene, and how `disposed`,
  the subscription, the watcher and the streams of generation `g` follow the life of
  its scene; the live one is the one in the registry.
* `TurnInv(g)`: a collector has a turn only of the member in flight, a cancelled turn is
  marked, and only a teardown marks one ABORTED. This gives the labels of `EndFrameTrue`.
* `CallerInv(c)`: a caller has one stream at most, and on it has seen the start of
  latched turns only. A team at rest has none latched (`RestUnlatched`), so whoever closes
  streams then, the watcher or the teardown, leaves no turn dangling (`CloseKeeps`).
* `JobInv` and `TornInv`: only the head of the chain is past its first check, there is
  no team while it replaces one, and while the service is up what is being released is
  what this job took down. Both together give `OneTeam`.

The steps of one generation leave the others alone (`OneEntry`). What an operation of the
contract does to the snapshot's fields is stated once in `SceneOrchestration`
(`SubmitFields` to `ReleaseFields`), so the host's proofs never look into the results.
Assumptions (`HostAssumption`): no role is named `nobody`, which stands for null in the
snapshot; a read has at least one attempt; the bounds are naturals.

`GrpcClientProofs` is about the clients, for any targets, environments, listings and
numbers of channels, requests and calls: `ChannelsOwned`, `EndpointsAreSound` and
`ChannelsStaySupplied` (the action part `NeverLeftEmpty` of `ChannelsSettle`).

* `LookupSound` follows a lookup from the target to the addresses: a query that is not
  refused asks for the target's own service (`QueryIs`), an instance found is the one
  named (`InstanceFound`), and what passes the port filter is the target's
  (`FilteredGood`). `FaultSound`: every fault of the deploy service is an error.
* `Sound(G, ch)` is the invariant of one channel, with addresses out of `G`. That the
  memory is what was said last is about the last report in the queue of immediates;
  the lemmas `LastOfRefresh`, `LastOfReport` and `LastOfTail` say what a step of the queue
  does to it. A report is dropped only while the resolver is closed, when it claims
  nothing; the late answer that revives it queues a report of its own. No empty list is
  ever queued (`Queueable`), which is why a channel stays supplied until it is closed or
  goes idle (`ClosedSound`, `IdledSound`).
* `ClientInv` puts channels, pool (`OwnInv`) and requests (`RequestsInv`) together.

Assumptions: the markers `UNAVAILABLE`, `Refresh` and `Pending` are distinct and no
list of addresses is a marker; a queue has room for one immediate; a process is one of
the environments with one of the targets, whose paths are sequences of strings; and
`ListingsAssumption`: the deploy service lists under a resource name only servers of
that app and service, and under an instance only its own. The client cannot check the
latter; it is the deploy service's side of the contract.

`DesktopProofs` is about the player's calls end to end, for every board and any number
of streams, calls, hook scripts and faults: `DispatchesOwned`, `TellsWhatHappened`,
`GameStaysTrue`. All three rest on one inductive invariant, `DesktopInv`; its parts
need each other:

* `CallInv`, `StreamInv`, `DispatchInv`: where the call is, which stream is registered,
  beats and may still deliver, and that at most one dispatch is in flight or settled,
  the one awaited. `LiveStreamIsRegistered` and `InFlightIsAwaited` follow from
  these three.
* `FrameInv`: the frames on a stream are in the order of their tool ids, and on the
  application's own stream all are newer than what was performed. So a frame
  the runtime gave up on is performed before the next one or never, and nothing is
  performed after the call was answered as if it had been.
* `ReceiptInv`, `PerformedInv`: a receipt for the awaited id says the truth of it, even
  if the frame was sent again or the stream replaced in between; and the operations
  performed are exactly those the call has counted, up to the one in flight.
* `WindowInv`: the window's numbers are right, only mines explode, the counter tells
  the flags. `PerformedWindow` shows that a click or a flag keeps that.
* `BoardInv`, `LogInv`, `HookInv`: the board, the first board, the log and the
  announcements. The board is a window the game went through (`BoardOfWindow`),
  and the one shown now when all of the batch was answered; hence the ends and the
  score of `GameTrue` are the window's (`EndIsTheWindows`, `FlagsOfTheEnd`).

Under them are lemmas about the pure parts: `ReadingExact` (the classifier reads back
every picture the window draws), `CounterRead` (so does the counter decoder, down to
-99), `GridRead` and `SeenWindow` (a screenshot gives back the board), `ZeroMeansFlagged`
(why a win can be read off the counter), `RemainTrue` (`remainTokenAt`), `CascadeSafe`.
`DesktopStep` proves for each step both that it keeps `DesktopInv` and that it is a
`GameStep`, the conjunction of the action properties in `GameTrue`.
Assumptions: `BoardAssumption` (the board is not empty, the mines fit on it and their
number has three digits, as the counter has), `GameAssumption` (a batch is a sequence
of cell operations), `StreamAssumption` (streams are numbered). Nothing is assumed of
scripts or of the registry's limit. The window is this
project's model of Minesweeper, so the theorems hold of the code together with a window
that behaves and looks like it.

Model-checked only: liveness (`EveryCommandServed`, `ProcessEnds`, `LoopAdvances`,
`InputRead`, `RequestsEnd`, `NothingStaysOpen`, `EverythingAnswers`, `CallsEnd`,
`ChannelsSettle` but for its part `NeverLeftEmpty`), which is out of this prover's reach;
and the safety properties of `Chat` and `Memory`. Those are statements about what folds
over sequences compute (the reducer of chat frames, batches, merged pages), which
needs induction over data.

## 5. Plan

Done: queue, service, lifecycle and bootstrap with their core invariants proved;
the team loops against their contract and the host over it, the gRPC clients, and
the desktop bridge with the game, hooks and recognition, proved; chat and memory.

1. The connection manager of `projects/game/proxy`, whose refresh loop resolves
   outside the mutex while `Close` drops the entries; the session service.
2. The Go resolvers of `common/gopkg/solver`.
