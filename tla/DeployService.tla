--------------------------- MODULE DeployService ---------------------------
(***************************************************************************)
(* The deploy control plane (projects/infra/deploy): API commands write    *)
(* the desired state of an environment to MongoDB and enqueue its name;    *)
(* one worker takes names from the queue (DeployQueue) and advances the    *)
(* stored environment one transition at a time, calling Kubernetes.        *)
(*                                                                         *)
(* Atomic steps are the calls the code makes: a store read, a conditional  *)
(* store write, a runtime call, a critical section of the queue.  What     *)
(* the code read before such a call is kept in snap, cl or rollout and may *)
(* be stale at the next one.                                               *)
(*                                                                         *)
(* External (modelled from how the code uses them): MongoDB as a map of    *)
(* documents with conditional writes; Kubernetes as the map, per           *)
(* environment, of workloads to the version last applied.                  *)
(***************************************************************************)
EXTENDS DeployQueue, FiniteSets

CONSTANTS
    Client,         \* concurrent API requests
    Workload,       \* names of the Deployments and StatefulSets of a spec
    Stateful,       \* the workloads that are StatefulSets
    Version,        \* versions (images, configuration) of a workload
    Spec,           \* the desired states the clients submit
    MaxGen,         \* bound: generations of a document
    EditedEnv,      \* bound: environments that are updated or deleted
    MaxCreations,   \* bound: creations per environment name
    MaxFaults,      \* bound: transient store and runtime errors
    MaxCrashes,     \* bound: process exits
    MaxPanics,      \* bound: panics of the worker goroutine
    NoDoc,          \* no document of that name
    NoEnv           \* the worker holds no item

\* A desired state names a set of workloads and gives each a version.
SpecOf == UNION {[W -> Version] : W \in SUBSET Workload}

ASSUME SpecAssumption == Spec \subseteq SpecOf /\ Stateful \subseteq Workload
ASSUME BoundAssumption ==
    /\ MaxGen \in Nat \ {0}
    /\ MaxCreations \in Nat /\ MaxFaults \in Nat /\ MaxCrashes \in Nat /\ MaxPanics \in Nat
ASSUME NoEnvAssumption == NoEnv \notin Env

States == {"Pending", "Reconciling", "WaitingRollout", "Ready", "Failed", "Deleting"}
Desired == {"Present", "Absent"}
ServiceStates == {"pending", "ready", "waiting", "failed"}

\* The status.services list: a state for each of a set of workloads.
Services == UNION {[W -> ServiceStates] : W \in SUBSET Workload}
NoServices == [w \in {} |-> "pending"]

Doc == [gen : 1..MaxGen, desired : Desired, state : States,
        observed : 0..MaxGen, spec : Spec, services : Services]

\* What a reader of the store sees of a document.
DocView == [gen : 1..MaxGen, desired : Desired, state : States, observed : 0..MaxGen]

ASSUME NoDocAssumption == NoDoc \notin Doc /\ NoDoc \notin DocView

\* What runs in the cluster under an environment's label.
Cluster == SpecOf
EmptyCluster == [w \in {} |-> CHOOSE v \in Version : TRUE]

\* An API request after its Get: about to write, then about to enqueue.
Request == [at : {"write", "enqueue"}, op : {"Create", "Update", "Delete"},
            env : Env, gen : 0..MaxGen, spec : Spec]
Idle == [at |-> "idle"]

WorkerPC == {"build", "recover", "idle", "load",
             "toReconciling", "apply", "applied", "check", "checked",
             "toDeleting", "delete", "deleted",
             "complete", "requeue", "retry", "exhaust", "exhaustWrite"}

\* What ProcessOne returned: nothing to requeue (Terminal), an error the worker
\* drops, an error that counts as a retry, or a requeue at once (Changed), after
\* 1ns (a stale write) or after the poll interval.
Outcome == {"none", "stop", "dropped", "counted", "now", "soon", "poll"}

VARIABLES
    doc,            \* doc[e]: the stored environment document, or NoDoc
    cluster,        \* cluster[e]: the workloads applied in Kubernetes
    cl,             \* cl[c]: the request of client c
    pc, cur, item,  \* the worker: where it is, its environment, its work item
    snap,           \* the document ProcessOne or MarkRetryExhausted loaded
    rollout,        \* the per-service states CheckRollout returned
    out,            \* the outcome of ProcessOne
    recovering,     \* the environments Recover has listed and not enqueued yet
    created,        \* created[e]: how often e was created
    overtaken,      \* history: e was updated in WaitingRollout and not applied since
    faults, crashes, panics

workerVars == <<pc, cur, item, snap, rollout, out, recovering>>
budgetVars == <<faults, crashes, panics>>
vars == <<queueVars, doc, cluster, cl, workerVars, created, overtaken, budgetVars>>

VarTypes ==
    /\ doc \in [Env -> Doc \cup {NoDoc}]
    /\ cluster \in [Env -> Cluster]
    /\ cl \in [Client -> Request \cup {Idle}]
    /\ pc \in WorkerPC
    /\ cur \in Env \cup {NoEnv}
    /\ item \in WorkItem \cup {NoItem}
    /\ snap \in Doc \cup {NoDoc}
    /\ rollout \in Services
    /\ out \in Outcome
    /\ recovering \in SUBSET Env
    /\ created \in [Env -> 0..MaxCreations]
    /\ overtaken \in [Env -> BOOLEAN]
    /\ faults \in 0..MaxFaults /\ crashes \in 0..MaxCrashes /\ panics \in 0..MaxPanics

ServiceTypeOK == TypeOK /\ VarTypes

Stored(e) == doc[e] # NoDoc

Init ==
    /\ NewQueue
    /\ doc = [e \in Env |-> NoDoc]
    /\ cluster = [e \in Env |-> EmptyCluster]
    /\ cl = [c \in Client |-> Idle]
    /\ pc = "build" /\ cur = NoEnv /\ item = NoItem
    /\ snap = NoDoc /\ rollout = NoServices /\ out = "none"
    /\ recovering = {}
    /\ created = [e \in Env |-> 0]
    /\ overtaken = [e \in Env |-> FALSE]
    /\ faults = 0 /\ crashes = 0 /\ panics = 0

---------------------------------------------------------------------------
(* The store: the conditional writes of storage/mongo.go. *)

NewEnvironment(s) ==
    [gen |-> 1, desired |-> "Present", state |-> "Pending",
     observed |-> 0, spec |-> s, services |-> NoServices]

\* [mutant] The reset to Pending that SetDesiredPresent makes in memory is stored.
UpdateDesiredResets(d, r) ==
    [d EXCEPT !.gen = @ + 1,
              !.desired = IF r.op = "Delete" THEN "Absent" ELSE "Present",
              !.state = "Pending",
              !.spec = IF r.op = "Delete" THEN @ ELSE r.spec]

\* UpdateDesired: the new desired state under a generation precondition; the
\* status, state included, is left as it is.  Delete passes no spec.
UpdateDesired(d, r) ==
    [d EXCEPT !.gen = @ + 1,
              !.desired = IF r.op = "Delete" THEN "Absent" ELSE "Present",
              !.spec = IF r.op = "Delete" THEN @ ELSE r.spec]

\* [mutant] The generation left out of the filter.
MatchesState(e, d) == Stored(e) /\ doc[e].state = d.state

\* The filter of TransitionStatus: name, generation and state as loaded.
Matches(e, d) == Stored(e) /\ doc[e].gen = d.gen /\ doc[e].state = d.state

\* [mutant] Services follow the rule of the other fields: empty is not written.
TransitionStatusKeepsServices(d, to) ==
    [d EXCEPT !.state = to.state,
              !.observed = IF to.observed = 0 THEN @ ELSE to.observed,
              !.services = IF to.services = NoServices THEN @ ELSE to.services]

\* The $set of TransitionStatus: observed only if non-zero, services always.
TransitionStatus(d, to) ==
    [d EXCEPT !.state = to.state,
              !.observed = IF to.observed = 0 THEN @ ELSE to.observed,
              !.services = to.services]

\* [mutant] Only the states are looked at, not the generations.
ListUnfinishedStates ==
    {e \in Env : /\ Stored(e)
                 /\ \/ doc[e].desired = "Present"
                       /\ doc[e].state \in {"Pending", "Reconciling", "WaitingRollout"}
                    \/ doc[e].desired = "Absent"}

\* [mutant] A rollout that was being waited for is not listed.
ListWithoutWaiting ==
    {e \in Env : /\ Stored(e)
                 /\ \/ doc[e].desired = "Present" /\ doc[e].observed < doc[e].gen
                    \/ doc[e].desired = "Absent"}

\* The documents Recover has to enqueue.
ListNeedingReconcile ==
    {e \in Env : /\ Stored(e)
                 /\ \/ doc[e].desired = "Present" /\ doc[e].observed < doc[e].gen
                    \/ /\ doc[e].desired = "Present"
                       /\ doc[e].state \in {"Pending", "Reconciling", "WaitingRollout"}
                    \/ doc[e].desired = "Absent"}

---------------------------------------------------------------------------
(* API commands: service/command.go.  A request that its Get or its        *)
(* validation refuses changes nothing and is not modelled.                 *)

Request0(op, e, gen, s) == [at |-> "write", op |-> op, env |-> e, gen |-> gen, spec |-> s]

BeginCreate(c, e, s) ==
    /\ cl[c] = Idle
    /\ ~Stored(e)
    /\ created[e] < MaxCreations
    /\ cl' = [cl EXCEPT ![c] = Request0("Create", e, 0, s)]
    /\ UNCHANGED <<queueVars, doc, cluster, workerVars, created, overtaken, budgetVars>>

BeginUpdate(c, e, s) ==
    /\ cl[c] = Idle
    /\ Stored(e) /\ e \in EditedEnv
    /\ doc[e].state # "Deleting"
    /\ doc[e].desired # "Absent"
    /\ doc[e].gen < MaxGen
    /\ cl' = [cl EXCEPT ![c] = Request0("Update", e, doc[e].gen, s)]
    /\ UNCHANGED <<queueVars, doc, cluster, workerVars, created, overtaken, budgetVars>>

BeginDelete(c, e) ==
    /\ cl[c] = Idle
    /\ Stored(e) /\ e \in EditedEnv
    /\ doc[e].gen < MaxGen
    /\ cl' = [cl EXCEPT ![c] = Request0("Delete", e, doc[e].gen, doc[e].spec)]
    /\ UNCHANGED <<queueVars, doc, cluster, workerVars, created, overtaken, budgetVars>>

\* [mutant] UpdateDesired without its precondition.
AcceptedAnyGeneration(r) ==
    IF r.op = "Create" THEN ~Stored(r.env) /\ created[r.env] < MaxCreations
                       ELSE Stored(r.env)

\* Does the store accept the write of request r, and what does it store?
Accepted(r) ==
    IF r.op = "Create" THEN ~Stored(r.env) /\ created[r.env] < MaxCreations
                       ELSE Stored(r.env) /\ doc[r.env].gen = r.gen

StoreWrite(r) ==
    IF r.op = "Create"
    THEN /\ doc' = [doc EXCEPT ![r.env] = NewEnvironment(r.spec)]
         /\ created' = [created EXCEPT ![r.env] = @ + 1]
         /\ overtaken' = [overtaken EXCEPT ![r.env] = FALSE]
    ELSE /\ doc' = [doc EXCEPT ![r.env] = UpdateDesired(@, r)]
         /\ overtaken' = [overtaken EXCEPT ![r.env] = @ \/ doc[r.env].state = "WaitingRollout"]
         /\ UNCHANGED created

\* repo.Create or repo.UpdateDesired; a refused write ends the request with
\* ErrAlreadyExists or ErrStaleGeneration.
CommandWrite(c) ==
    /\ cl[c].at = "write"
    /\ IF Accepted(cl[c])
       THEN StoreWrite(cl[c]) /\ cl' = [cl EXCEPT ![c].at = "enqueue"]
       ELSE cl' = [cl EXCEPT ![c] = Idle] /\ UNCHANGED <<doc, created, overtaken>>
    /\ UNCHANGED <<queueVars, cluster, workerVars, budgetVars>>

\* The driver returns an error, whether or not the server made the write: the
\* command returns without enqueueing.
CommandWriteFault(c) ==
    /\ cl[c].at = "write"
    /\ faults < MaxFaults
    /\ faults' = faults + 1
    /\ cl' = [cl EXCEPT ![c] = Idle]
    /\ \/ UNCHANGED <<doc, created, overtaken>>
       \/ Accepted(cl[c]) /\ StoreWrite(cl[c])
    /\ UNCHANGED <<queueVars, cluster, workerVars, crashes, panics>>

CommandEnqueue(c) ==
    /\ cl[c].at = "enqueue"
    /\ Enqueue(cl[c].env)
    /\ cl' = [cl EXCEPT ![c] = Idle]
    /\ UNCHANGED <<doc, cluster, workerVars, created, overtaken, budgetVars>>

---------------------------------------------------------------------------
(* The worker loop (domain/worker.go) and ReconcileService                 *)
(* (service/reconcile.go).                                                 *)

\* ProcessOne returns o; the worker completes the item next.
Return(o) == pc' = "complete" /\ out' = o

WorkerDequeue ==
    /\ pc = "idle"
    /\ \E e \in Env :
         /\ Receive(e)
         /\ IF Queued(e)
            THEN pc' = "load" /\ cur' = e /\ item' = items[e]
            ELSE UNCHANGED <<pc, cur, item>>
    /\ UNCHANGED <<doc, cluster, cl, snap, rollout, out, recovering, created, overtaken, budgetVars>>

\* [mutant] The Deleting state is skipped.
PlanDeletesAtOnce(d) ==
    CASE d.desired = "Absent" -> "delete"
      [] d.desired = "Present" /\ d.state = "Reconciling" -> "apply"
      [] d.desired = "Present" /\ d.state = "WaitingRollout" -> "check"
      [] d.desired = "Present" /\ d.state = "Deleting" -> "unsupported"
      [] d.desired = "Present" /\ d.state = "Ready" /\ d.observed = d.gen -> "terminal"
      [] OTHER -> "toReconciling"

\* The step ProcessOne chooses for a loaded document: processPresent and
\* processAbsent.
Plan(d) ==
    CASE d.desired = "Absent" /\ d.state = "Deleting" -> "delete"
      [] d.desired = "Absent" /\ d.state # "Deleting" -> "toDeleting"
      [] d.desired = "Present" /\ d.state = "Reconciling" -> "apply"
      [] d.desired = "Present" /\ d.state = "WaitingRollout" -> "check"
      [] d.desired = "Present" /\ d.state = "Deleting" -> "unsupported"
      [] d.desired = "Present" /\ d.state = "Ready" /\ d.observed = d.gen -> "terminal"
      [] OTHER -> "toReconciling"

ProcessOneLoad ==
    /\ pc = "load"
    /\ snap' = doc[cur]
    /\ IF ~Stored(cur) \/ Plan(doc[cur]) = "terminal" THEN Return("stop")
       ELSE IF Plan(doc[cur]) = "unsupported" THEN Return("dropped")
       ELSE pc' = Plan(doc[cur]) /\ UNCHANGED out
    /\ UNCHANGED <<queueVars, doc, cluster, cl, cur, item, rollout, recovering,
                   created, overtaken, budgetVars>>

\* BuildInitialServiceStatuses: every service of the spec pending.
InitialServices(s) == [w \in DOMAIN s |-> "pending"]

\* The environment's rollout state, derived from its services.
RolloutState(S) ==
    IF \E w \in DOMAIN S : S[w] = "failed" THEN "failed"
    ELSE IF \E w \in DOMAIN S : S[w] = "waiting" THEN "waiting"
    ELSE "ready"

\* The status the worker is about to write, and the caller's reason: the
\* arguments of each call of TransitionStatus.
StatusToWrite ==
    CASE pc = "toReconciling" ->
           [state |-> "Reconciling", observed |-> 0, services |-> NoServices]
      [] pc = "applied" ->
           [state |-> "WaitingRollout", observed |-> snap.gen, services |-> InitialServices(snap.spec)]
      [] pc = "checked" /\ RolloutState(rollout) = "ready" ->
           [state |-> "Ready", observed |-> snap.gen, services |-> rollout]
      [] pc = "checked" /\ RolloutState(rollout) = "failed" ->
           [state |-> "Failed", observed |-> snap.gen, services |-> rollout]
      [] pc = "checked" /\ RolloutState(rollout) = "waiting" ->
           [state |-> "WaitingRollout", observed |-> 0, services |-> rollout]
      [] pc = "toDeleting" ->
           [state |-> "Deleting", observed |-> 0, services |-> NoServices]
      [] pc = "exhaustWrite" ->
           [state |-> "Failed", observed |-> snap.gen, services |-> NoServices]

WriteStatus == doc' = [doc EXCEPT ![cur] = TransitionStatus(@, StatusToWrite)]

\* TransitionStatus on the loaded document, and what its caller returns: ok on
\* success, a requeue after 1ns if it is stale, an error if it is gone.
Transition(ok) ==
    /\ IF Matches(cur, snap)
       THEN WriteStatus /\ Return(ok)
       ELSE UNCHANGED doc /\ Return(IF Stored(cur) THEN "soon" ELSE "dropped")
    /\ UNCHANGED <<queueVars, cluster, cl, cur, item, snap, rollout, recovering,
                   created, overtaken, budgetVars>>

transitionToReconciling == pc = "toReconciling" /\ Transition("now")

\* runtime.ApplyResources succeeds: everything of the spec applied, the rest
\* pruned.
ApplyResources ==
    /\ pc = "apply"
    /\ cluster' = [cluster EXCEPT ![cur] = snap.spec]
    /\ overtaken' = [overtaken EXCEPT ![cur] = FALSE]
    /\ pc' = "applied"
    /\ UNCHANGED <<queueVars, doc, cl, cur, item, snap, rollout, out, recovering, created, budgetVars>>

\* The workloads W of s have been created or updated in the cluster k.
Upserted(k, s, W) == [w \in W \cup DOMAIN k |-> IF w \in W THEN s[w] ELSE k[w]]

\* All of s is applied, and of the other workloads of k those outside W are pruned.
PrunedTo(k, s, W) == [w \in W \cup DOMAIN s |-> IF w \in DOMAIN s THEN s[w] ELSE k[w]]

\* The clusters a failed apply can leave: pruning begins when all is applied.
PartlyApplied(k, s) ==
    {Upserted(k, s, W) : W \in SUBSET DOMAIN s} \cup {PrunedTo(k, s, W) : W \in SUBSET DOMAIN k}

\* ApplyResources fails with an error that is neither Canceled nor
\* DeadlineExceeded: counted as a retry, the state stays Reconciling.
ApplyResourcesFails ==
    /\ pc = "apply"
    /\ \E k \in PartlyApplied(cluster[cur], snap.spec) : cluster' = [cluster EXCEPT ![cur] = k]
    /\ Return("counted")
    /\ UNCHANGED <<queueVars, doc, cl, cur, item, snap, rollout, recovering, created, overtaken,
                   budgetVars>>

applyAndWait == pc = "applied" /\ Transition("poll")

\* runtime.CheckRollout: an error if a workload of the loaded spec does not
\* exist; otherwise Kubernetes reports a state for each.
CheckRollout ==
    /\ pc = "check"
    /\ IF DOMAIN snap.spec \subseteq DOMAIN cluster[cur]
       THEN /\ \E S \in [DOMAIN snap.spec -> {"ready", "waiting", "failed"}] :
                 /\ \A w \in DOMAIN S \cap Stateful : S[w] # "failed"
                 /\ rollout' = S
            /\ pc' = "checked"
            /\ UNCHANGED out
       ELSE Return("dropped") /\ UNCHANGED rollout
    /\ UNCHANGED <<queueVars, doc, cluster, cl, cur, item, snap, recovering, created, overtaken,
                   budgetVars>>

markReadyFromRollout ==
    /\ pc = "checked" /\ RolloutState(rollout) = "ready"
    /\ Transition("stop")

markFailedFromRollout ==
    /\ pc = "checked" /\ RolloutState(rollout) = "failed"
    /\ Transition("stop")

\* [mutant] Nothing to write, nothing to requeue.
retainWithoutRequeue ==
    /\ pc = "checked" /\ RolloutState(rollout) = "waiting"
    /\ \/ Transition("poll")
       \/ /\ snap.services = rollout
          /\ Return("stop")
          /\ UNCHANGED <<queueVars, doc, cluster, cl, cur, item, snap, rollout, recovering,
                         created, overtaken, budgetVars>>

\* The write of retainWaitingRollout, skipped only if neither the services nor
\* the message (not modelled) changed.
retainWaitingRollout ==
    /\ pc = "checked" /\ RolloutState(rollout) = "waiting"
    /\ \/ Transition("poll")
       \/ /\ snap.services = rollout
          /\ Return("poll")
          /\ UNCHANGED <<queueVars, doc, cluster, cl, cur, item, snap, rollout, recovering,
                         created, overtaken, budgetVars>>

transitionToDeleting == pc = "toDeleting" /\ Transition("now")

RuntimeDelete ==
    /\ pc = "delete"
    /\ cluster' = [cluster EXCEPT ![cur] = EmptyCluster]
    /\ pc' = "deleted"
    /\ UNCHANGED <<queueVars, doc, cl, cur, item, snap, rollout, out, recovering, created,
                   overtaken, budgetVars>>

\* Some of the resources are gone when the runtime's Delete fails.
PartlyDeleted(k) == {[w \in W |-> k[w]] : W \in SUBSET DOMAIN k}

\* [mutant] The error of the runtime is ignored.
RuntimeDeleteIgnoresError ==
    /\ pc = "delete"
    /\ \E k \in PartlyDeleted(cluster[cur]) : cluster' = [cluster EXCEPT ![cur] = k]
    /\ pc' = "deleted"
    /\ UNCHANGED <<queueVars, doc, cl, cur, item, snap, rollout, out, recovering, created,
                   overtaken, budgetVars>>

RuntimeDeleteFails ==
    /\ pc = "delete"
    /\ \E k \in PartlyDeleted(cluster[cur]) : cluster' = [cluster EXCEPT ![cur] = k]
    /\ Return("counted")
    /\ UNCHANGED <<queueVars, doc, cl, cur, item, snap, rollout, recovering, created,
                   overtaken, budgetVars>>

\* repo.Delete, by name only.
deleteAbsent ==
    /\ pc = "deleted"
    /\ doc' = [doc EXCEPT ![cur] = NoDoc]
    /\ Return(IF Stored(cur) THEN "stop" ELSE "dropped")
    /\ UNCHANGED <<queueVars, cluster, cl, cur, item, snap, rollout, recovering, created,
                   overtaken, budgetVars>>

\* A store call returns an error, a runtime call is cut off by the iteration's
\* deadline, or CheckRollout cannot reach Kubernetes.  The server may have made
\* the write; the worker drops the item.
LostWrite ==
    \/ UNCHANGED <<doc, cluster>>
    \/ /\ pc \in {"toReconciling", "applied", "checked", "toDeleting", "exhaustWrite"}
       /\ Matches(cur, snap)
       /\ WriteStatus
       /\ UNCHANGED cluster
    \/ /\ pc = "deleted"
       /\ doc' = [doc EXCEPT ![cur] = NoDoc]
       /\ UNCHANGED cluster
    \/ /\ pc = "apply"
       /\ \E k \in PartlyApplied(cluster[cur], snap.spec) : cluster' = [cluster EXCEPT ![cur] = k]
       /\ UNCHANGED doc
    \/ /\ pc = "delete"
       /\ \E k \in PartlyDeleted(cluster[cur]) : cluster' = [cluster EXCEPT ![cur] = k]
       /\ UNCHANGED doc

ProcessOneFault ==
    /\ pc \in {"load", "toReconciling", "apply", "applied", "check", "checked",
               "toDeleting", "delete", "deleted"}
    /\ faults < MaxFaults
    /\ faults' = faults + 1
    /\ LostWrite
    /\ Return("dropped")
    /\ UNCHANGED <<queueVars, cl, cur, item, snap, rollout, recovering, created, overtaken,
                   crashes, panics>>

\* queue.Complete, before the worker looks at the outcome.
WorkerComplete ==
    /\ pc = "complete"
    /\ Complete(cur)
    /\ pc' = CASE out \in {"stop", "dropped"} -> "idle"
               [] out \in {"now", "soon", "poll"} -> "requeue"
               [] OTHER -> IF item.retry >= MaxRetries THEN "exhaust" ELSE "retry"
    /\ IF pc' = "idle" THEN cur' = NoEnv /\ item' = NoItem /\ out' = "none"
                       ELSE UNCHANGED <<cur, item, out>>
    /\ snap' = NoDoc /\ rollout' = NoServices
    /\ UNCHANGED <<doc, cluster, cl, recovering, created, overtaken, budgetVars>>

NextIteration ==
    pc' = "idle" /\ cur' = NoEnv /\ item' = NoItem /\ out' = "none" /\ snap' = NoDoc

\* maybeRequeue keeps the retry count; a source the reconciler did not set is
\* the zero value, Retry.
maybeRequeue ==
    /\ pc = "requeue"
    /\ LET next == [retry |-> item.retry, source |-> IF out = "poll" THEN "Poll" ELSE "Retry"]
       IN IF out = "now" THEN EnqueueNoDelay(cur, next) ELSE EnqueueAfter(cur, next)
    /\ NextIteration
    /\ UNCHANGED <<doc, cluster, cl, rollout, recovering, created, overtaken, budgetVars>>

scheduleRetry ==
    /\ pc = "retry"
    /\ EnqueueAfter(cur, [retry |-> item.retry + 1, source |-> "Retry"])
    /\ NextIteration
    /\ UNCHANGED <<doc, cluster, cl, rollout, recovering, created, overtaken, budgetVars>>

\* MarkRetryExhausted loads the document again ...
ExhaustedLoad ==
    /\ pc = "exhaust"
    /\ IF Stored(cur)
       THEN pc' = "exhaustWrite" /\ snap' = doc[cur] /\ UNCHANGED <<cur, item, out>>
       ELSE NextIteration
    /\ UNCHANGED <<queueVars, doc, cluster, cl, rollout, recovering, created, overtaken, budgetVars>>

\* ... and moves whatever it loaded to Failed.
MarkRetryExhausted ==
    /\ pc = "exhaustWrite"
    /\ IF Matches(cur, snap)
       THEN WriteStatus /\ NextIteration
       ELSE /\ UNCHANGED doc
            /\ IF Stored(cur)
               THEN pc' = "requeue" /\ out' = "soon" /\ snap' = NoDoc /\ UNCHANGED <<cur, item>>
               ELSE NextIteration
    /\ UNCHANGED <<queueVars, cluster, cl, rollout, recovering, created, overtaken, budgetVars>>

ExhaustedFault ==
    /\ pc \in {"exhaust", "exhaustWrite"}
    /\ faults < MaxFaults
    /\ faults' = faults + 1
    /\ LostWrite
    /\ NextIteration
    /\ UNCHANGED <<queueVars, cl, rollout, recovering, created, overtaken, crashes, panics>>

---------------------------------------------------------------------------
(* Start, recovery, panic and exit: domain/recovery.go, app/worker.go and  *)
(* the supervisor of common/gopkg/bootstrap/daemon.go.                     *)

RecoverList ==
    /\ pc = "build"
    /\ recovering' = ListNeedingReconcile
    /\ pc' = "recover"
    /\ UNCHANGED <<queueVars, doc, cluster, cl, cur, item, snap, rollout, out, created, overtaken,
                   budgetVars>>

RecoverEnqueue(e) ==
    /\ pc = "recover"
    /\ e \in recovering
    /\ Enqueue(e)
    /\ recovering' = recovering \ {e}
    /\ UNCHANGED <<doc, cluster, cl, pc, cur, item, snap, rollout, out, created, overtaken,
                   budgetVars>>

WorkerStart ==
    /\ pc = "recover"
    /\ recovering = {}
    /\ pc' = "idle"
    /\ UNCHANGED <<queueVars, doc, cluster, cl, cur, item, snap, rollout, out, recovering, created,
                   overtaken, budgetVars>>

WorkerReset ==
    /\ pc' = "build" /\ cur' = NoEnv /\ item' = NoItem /\ snap' = NoDoc
    /\ rollout' = NoServices /\ out' = "none" /\ recovering' = {}

\* A panic in ProcessOne ends the worker; the daemon builds a new one on the
\* same queue.
WorkerPanic ==
    /\ pc \in {"load", "toReconciling", "apply", "applied", "check", "checked",
               "toDeleting", "delete", "deleted"}
    /\ panics < MaxPanics
    /\ panics' = panics + 1
    /\ WorkerReset
    /\ UNCHANGED <<queueVars, doc, cluster, cl, created, overtaken, faults, crashes>>

\* The process exits, by a signal or a crash, and is started again: the queue,
\* the timers and the requests are lost, the store and the cluster stay.
Crash ==
    /\ crashes < MaxCrashes
    /\ crashes' = crashes + 1
    /\ WorkerReset
    /\ RestartedQueue
    /\ cl' = [c \in Client |-> Idle]
    /\ UNCHANGED <<doc, cluster, created, overtaken, faults, panics>>

---------------------------------------------------------------------------

\* The goroutines of the queue.
QueueGoroutine(e) ==
    /\ \/ SendToken(e)
       \/ \E it \in WorkItem : TimerFires(e, it)
    /\ UNCHANGED <<doc, cluster, cl, workerVars, created, overtaken, budgetVars>>

ClientStep(c) ==
    \/ \E e \in Env :
         \/ \E s \in Spec : BeginCreate(c, e, s) \/ BeginUpdate(c, e, s)
         \/ BeginDelete(c, e)
    \/ CommandWrite(c)
    \/ CommandEnqueue(c)

ReconcileStep ==
    \/ ProcessOneLoad
    \/ transitionToReconciling
    \/ ApplyResources
    \/ ApplyResourcesFails
    \/ applyAndWait
    \/ CheckRollout
    \/ markReadyFromRollout
    \/ markFailedFromRollout
    \/ retainWaitingRollout
    \/ transitionToDeleting
    \/ RuntimeDelete
    \/ RuntimeDeleteFails
    \/ deleteAbsent
    \/ ExhaustedLoad
    \/ MarkRetryExhausted

WorkerStep ==
    \/ WorkerDequeue
    \/ WorkerComplete
    \/ maybeRequeue
    \/ scheduleRetry
    \/ ReconcileStep
    \/ RecoverList
    \/ \E e \in Env : RecoverEnqueue(e)
    \/ WorkerStart

FaultStep ==
    \/ \E c \in Client : CommandWriteFault(c)
    \/ ProcessOneFault
    \/ ExhaustedFault
    \/ WorkerPanic
    \/ Crash

Next ==
    \/ \E c \in Client : ClientStep(c)
    \/ WorkerStep
    \/ \E e \in Env : QueueGoroutine(e)
    \/ FaultStep

ServiceSpec == Init /\ [][Next]_vars

\* The worker loop, the goroutines of the queue and a request once begun run
\* on; a rollout that is checked again and again is eventually not waiting
\* (Kubernetes' progress deadline).  Faults, panics and exits have no fairness.
Fairness ==
    /\ WF_vars(WorkerStep)
    /\ SF_vars(CheckRollout /\ RolloutState(rollout') # "waiting")
    /\ \A e \in Env :
         /\ SF_vars(SendToken(e) /\ QueueGoroutine(e))
         /\ \A it \in WorkItem : WF_vars(TimerFires(e, it) /\ QueueGoroutine(e))
    /\ \A c \in Client : WF_vars(CommandWrite(c) \/ CommandEnqueue(c))

FairServiceSpec == ServiceSpec /\ Fairness

---------------------------------------------------------------------------
(* Properties *)

\* The document says that its current generation was dealt with.
Settled(d) == d.observed = d.gen /\ d.state \in {"Ready", "Failed"}

\* The worker holds e and will still act on it.
WorkingOn(e) ==
    /\ cur = e
    /\ ~(pc = "complete" /\ out \in {"stop", "dropped"})

HasTimer(e) == \E it \in WorkItem : timers[<<e, it>>] > 0

\* Something in the process will make the worker load e again.
Tracked(e) ==
    \/ Queued(e) \/ HasFollowUp(e) \/ HasTimer(e) \/ WorkingOn(e)
    \/ pc = "build" \/ e \in recovering
    \/ \E c \in Client : cl[c].at = "enqueue" /\ cl[c].env = e

\* No work is lost: while the stored environment is not settled, an item, a
\* timer, the worker, the recovery or a request about to enqueue stands for it,
\* across crashes, coalesced items and overtaken writes.
WorkNotLost == \A e \in Env : Stored(e) /\ ~Settled(doc[e]) => Tracked(e)

\* Ready means what it says: the desired state of the generation reported as
\* observed runs in the cluster, unless it was accepted while an older one was
\* rolling out and not applied since.
ReadyMeansApplied ==
    \A e \in Env :
        (Stored(e) /\ doc[e].state = "Ready" /\ doc[e].observed = doc[e].gen
           /\ doc[e].desired = "Present" /\ ~overtaken[e])
          => cluster[e] = doc[e].spec

\* The promise of UpdateEnvironment, without the exception: an accepted desired
\* state that is reported as ready has been reconciled to the cluster.
ServerReconcilesUpdates ==
    \A e \in Env :
        (Stored(e) /\ doc[e].state = "Ready" /\ doc[e].observed = doc[e].gen
           /\ doc[e].desired = "Present")
          => cluster[e] = doc[e].spec

\* Even so, an environment reported as ready has all its workloads in the
\* cluster, and reports exactly their services, all of them ready.
ReadyWorkloadsExist ==
    \A e \in Env :
        (Stored(e) /\ doc[e].state = "Ready" /\ doc[e].observed = doc[e].gen
           /\ doc[e].desired = "Present")
          => /\ DOMAIN doc[e].spec \subseteq DOMAIN cluster[e]
             /\ doc[e].services = [w \in DOMAIN doc[e].spec |-> "ready"]

\* The per-service states of a settled or rolling out generation are those of
\* its own desired state, never of an older one (none if the apply failed).
ServicesMatchSpec ==
    \A e \in Env :
        (Stored(e) /\ doc[e].observed = doc[e].gen
           /\ doc[e].state \in {"WaitingRollout", "Ready", "Failed"})
          => \/ DOMAIN doc[e].services = DOMAIN doc[e].spec
             \/ doc[e].state = "Failed" /\ doc[e].services = NoServices

\* A removed environment leaves nothing behind: no document, no workloads,
\* whatever interleaving of apply, delete, crash and retry came before.
NoOrphans == \A e \in Env : ~Stored(e) => cluster[e] = EmptyCluster

\* Where the worker goes on from what it loaded, and the plan it loaded it for.
Engaged == {"toReconciling", "apply", "applied", "check", "checked",
            "toDeleting", "delete", "deleted", "exhaustWrite"}

PlanOf(p) == CASE p = "applied" -> "apply" [] p = "checked" -> "check"
               [] p = "deleted" -> "delete" [] OTHER -> p

\* The status of a document belongs to the worker: from the load to the last
\* write of an iteration the document exists and nobody else has changed its
\* status, so that only the generation can be stale, and with it the desired
\* state.  The ErrStaleState and ErrNotFound branches of the reconciler are then
\* never taken, and the removal by name hits the document that was loaded.
WorkerOwnsStatus ==
    pc \in Engaged =>
        /\ Stored(cur) /\ snap # NoDoc
        /\ doc[cur].state = snap.state
        /\ doc[cur].observed = snap.observed
        /\ snap.gen <= doc[cur].gen
        /\ snap.gen = doc[cur].gen => /\ doc[cur].desired = snap.desired
                                      /\ doc[cur].spec = snap.spec
        /\ pc # "exhaustWrite" => Plan(snap) = PlanOf(pc)

\* The observed generation never exceeds the generation, and while the document
\* lives neither goes back.
ObservedMonotone ==
    [][\A e \in Env :
         Stored(e) /\ Stored(e)' =>
           /\ doc[e].gen <= doc'[e].gen
           /\ doc[e].observed <= doc'[e].observed
           /\ doc'[e].observed <= doc'[e].gen]_vars

\* An environment being deleted is never updated back to Present: Update refuses
\* it when it reads the document, the generation precondition afterwards.
AbsentIsFinal ==
    [][\A e \in Env :
         Stored(e) /\ Stored(e)' /\ doc[e].desired = "Absent"
           => doc'[e].desired = "Absent"]_vars

\* An environment in the Deleting state accepts no Update, also when the request
\* began before.
DeletingRefusesUpdate ==
    [][\A e \in Env :
         Stored(e) /\ Stored(e)' /\ doc[e].state = "Deleting"
           => doc'[e].desired = "Absent"]_vars

\* A worker that was built and waits for work has every unsettled environment
\* in a place from which Dequeue will eventually get it.
RecoveredWorkRuns ==
    pc = "idle" =>
        \A e \in Env : Stored(e) /\ ~Settled(doc[e]) =>
            \/ Queued(e) \/ HasTimer(e)
            \/ \E c \in Client : cl[c].at = "enqueue" /\ cl[c].env = e

\* The document as a reader sees it.
View(d) ==
    IF d = NoDoc THEN NoDoc
    ELSE [gen |-> d.gen, desired |-> d.desired, state |-> d.state, observed |-> d.observed]

Lifecycle == INSTANCE EnvironmentLifecycle
             WITH None <- NoDoc, env <- [e \in Env |-> View(doc[e])]

\* The service implements the lifecycle its repository and state machine
\* promise, under every interleaving and failure modelled here.
ImplementsLifecycle == Lifecycle!LifecycleSpec

\* An accepted change survives crashes, merged items and overtaken writes: while
\* the stored environment is not settled something stands for it, and a worker
\* that was built and waits can still get it from the queue.
AcceptedWorkSurvives == WorkNotLost /\ RecoveredWorkRuns

\* What a document says of its services is true of its own generation: they are
\* the services of its desired state, and when it is Ready all of them are there.
ServicesTruthful == ReadyWorkloadsExist /\ ServicesMatchSpec

\* Nothing is left to do for e: it is ready, failed or removed, no item of it
\* is queued and none waits behind the one in flight.
AtRest(e) == (~Stored(e) \/ Settled(doc[e])) /\ ~Queued(e) /\ ~HasFollowUp(e)

\* Every accepted command is dealt with, and no queued item or follow-up starves:
\* not behind an item of its own environment, nor while the token of another
\* one fills the channel and its own sender is blocked.
EveryCommandServed == \A e \in Env : []<>AtRest(e)

---------------------------------------------------------------------------
(* The inductive invariant behind the safety theorems. *)

\* A request that was let in leaves room for the generation it will write.
RequestsFit ==
    \A c \in Client :
        cl[c] # Idle /\ cl[c].at = "write" /\ cl[c].op # "Create" => cl[c].gen < MaxGen

\* The worker's own variables: what it holds, and that it holds it in the queue.
WorkerInv ==
    /\ pc \notin {"build", "recover", "idle"} => cur \in Env /\ item \in WorkItem
    /\ pc \in (Engaged \ {"exhaustWrite"}) \cup {"load", "complete"} => cur \in inFlight
    /\ pc = "retry" => item.retry < MaxRetries
    /\ pc = "deleted" => cluster[cur] = EmptyCluster

ServiceInv ==
    /\ QueueInv
    /\ ServiceTypeOK
    /\ RequestsFit
    /\ WorkerInv
    /\ WorkerOwnsStatus
    /\ NoOrphans
===========================================================================
