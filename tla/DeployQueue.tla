---------------------------- MODULE DeployQueue ----------------------------
(***************************************************************************)
(* The in-memory work queue of the deploy service                          *)
(* (projects/infra/deploy/domain/queue.go).                                *)
(*                                                                         *)
(* The queue deduplicates work per environment.  An environment has at     *)
(* most one queued item (items); while one of its items is processed       *)
(* (inFlight) a new one waits in followUps.  A queued item is announced to *)
(* the consumer by a token, the environment's name, which a goroutine of   *)
(* its own sends on the channel pendingCh: the goroutines that have not    *)
(* sent yet are counted in senders.  EnqueueAfter starts a goroutine that  *)
(* sleeps first: the sleeping items are counted in timers.                 *)
(***************************************************************************)
EXTENDS Naturals, Sequences

CONSTANTS
    Env,            \* environment names
    MaxRetries,     \* Worker.maxRetries: the retry counts an item can carry
    ChanCap,        \* maxQueueCap, the capacity of pendingCh
    MaxTimers,      \* bound: equal items asleep in EnqueueAfter at one time
    NoItem          \* no entry in the map

Sources == {"Retry", "User", "Poll"}

WorkItem == [retry : 0..MaxRetries, source : Sources]

ASSUME MaxRetriesAssumption == MaxRetries \in Nat
ASSUME ChanCapAssumption == ChanCap \in Nat \ {0}
ASSUME MaxTimersAssumption == MaxTimers \in Nat
ASSUME NoItemAssumption == NoItem \notin WorkItem

VARIABLES
    items,          \* items[e]: the queued item of e, or NoItem
    followUps,      \* followUps[e]: the item to queue when e's current one is done
    inFlight,       \* the environments whose item is being processed
    senders,        \* senders[e]: goroutines about to send e on pendingCh
    pendingCh,      \* the buffered channel of environment names
    timers          \* timers[<<e, it>>]: goroutines of EnqueueAfter asleep

queueVars == <<items, followUps, inFlight, senders, pendingCh, timers>>

TypeOK ==
    /\ items \in [Env -> WorkItem \cup {NoItem}]
    /\ followUps \in [Env -> WorkItem \cup {NoItem}]
    /\ inFlight \in SUBSET Env
    /\ senders \in [Env -> Nat]
    /\ pendingCh \in Seq(Env)
    /\ timers \in [Env \X WorkItem -> Nat]

Queued(e) == items[e] # NoItem
HasFollowUp(e) == followUps[e] # NoItem
InChannel(e) == \E i \in 1..Len(pendingCh) : pendingCh[i] = e

UserItem == [retry |-> 0, source |-> "User"]

---------------------------------------------------------------------------
(* Operations *)

NewQueue ==
    /\ items = [e \in Env |-> NoItem]
    /\ followUps = [e \in Env |-> NoItem]
    /\ inFlight = {}
    /\ senders = [e \in Env |-> 0]
    /\ pendingCh = <<>>
    /\ timers = [t \in Env \X WorkItem |-> 0]

\* The queue of a process that was started again.
RestartedQueue ==
    /\ items' = [e \in Env |-> NoItem]
    /\ followUps' = [e \in Env |-> NoItem]
    /\ inFlight' = {}
    /\ senders' = [e \in Env |-> 0]
    /\ pendingCh' = <<>>
    /\ timers' = [t \in Env \X WorkItem |-> 0]

\* [mutant] A retry displaces whatever is queued.
canOverrideAny(existing, incoming) ==
    \/ incoming.source \in {"User", "Retry"}
    \/ incoming.source = "Poll" /\ existing.source = "Poll"

\* User overrides everything; retry does not override user; poll overrides
\* only poll.
canOverride(existing, incoming) ==
    \/ incoming.source = "User"
    \/ incoming.source = "Retry" /\ existing.source # "User"
    \/ incoming.source = "Poll" /\ existing.source = "Poll"

\* The three branches of enqueueNow, under the queue's mutex.
replaceQueued(e, it) ==
    /\ Queued(e)
    /\ items' = IF canOverride(items[e], it) THEN [items EXCEPT ![e] = it] ELSE items
    /\ UNCHANGED <<followUps, senders>>

deferFollowUp(e, it) ==
    /\ ~Queued(e)
    /\ e \in inFlight
    /\ followUps' = IF HasFollowUp(e) /\ ~canOverride(followUps[e], it)
                    THEN followUps
                    ELSE [followUps EXCEPT ![e] = it]
    /\ UNCHANGED <<items, senders>>

queueWithToken(e, it) ==
    /\ ~Queued(e)
    /\ e \notin inFlight
    /\ items' = [items EXCEPT ![e] = it]
    /\ senders' = [senders EXCEPT ![e] = @ + 1]
    /\ UNCHANGED followUps

enqueueNow(e, it) ==
    /\ \/ replaceQueued(e, it)
       \/ deferFollowUp(e, it)
       \/ queueWithToken(e, it)
    /\ UNCHANGED <<inFlight, pendingCh>>

Enqueue(e) == enqueueNow(e, UserItem) /\ UNCHANGED timers

\* delay <= 0: the item is enqueued before EnqueueAfter returns.
EnqueueNoDelay(e, it) == enqueueNow(e, it) /\ UNCHANGED timers

\* delay > 0: a goroutine sleeps first.
EnqueueAfter(e, it) ==
    /\ timers' = [timers EXCEPT ![<<e, it>>] = @ + 1]
    /\ UNCHANGED <<items, followUps, inFlight, senders, pendingCh>>

TimerFires(e, it) ==
    /\ timers[<<e, it>>] > 0
    /\ timers' = [timers EXCEPT ![<<e, it>>] = @ - 1]
    /\ enqueueNow(e, it)

\* go func() { q.pendingCh <- envName }(): blocks while the channel is full.
SendToken(e) ==
    /\ senders[e] > 0
    /\ Len(pendingCh) < ChanCap
    /\ senders' = [senders EXCEPT ![e] = @ - 1]
    /\ pendingCh' = Append(pendingCh, e)
    /\ UNCHANGED <<items, followUps, inFlight, timers>>

\* The receive of Dequeue and markInFlight.  A token without an item makes
\* Dequeue loop; otherwise Dequeue returns the item of the token.
Receive(e) ==
    /\ pendingCh # <<>>
    /\ e = Head(pendingCh)
    /\ pendingCh' = Tail(pendingCh)
    /\ items' = [items EXCEPT ![e] = NoItem]
    /\ inFlight' = IF Queued(e) THEN inFlight \cup {e} ELSE inFlight
    /\ UNCHANGED <<followUps, senders, timers>>

\* [mutant] The follow-up is queued without a token.
CompleteWithoutToken(e) ==
    /\ inFlight' = inFlight \ {e}
    /\ followUps' = [followUps EXCEPT ![e] = NoItem]
    /\ items' = IF HasFollowUp(e) /\ ~Queued(e) THEN [items EXCEPT ![e] = followUps[e]] ELSE items
    /\ UNCHANGED <<senders, pendingCh, timers>>

\* The order of the checks is the code's: inFlight is cleared first, and the
\* follow-up is dropped if an item is already queued.
Complete(e) ==
    /\ inFlight' = inFlight \ {e}
    /\ followUps' = [followUps EXCEPT ![e] = NoItem]
    /\ IF HasFollowUp(e) /\ ~Queued(e)
       THEN /\ items' = [items EXCEPT ![e] = followUps[e]]
            /\ senders' = [senders EXCEPT ![e] = @ + 1]
       ELSE UNCHANGED <<items, senders>>
    /\ UNCHANGED <<pendingCh, timers>>

---------------------------------------------------------------------------
(* The queue used by any number of producers and consumers. *)

QueueInit == NewQueue

Dequeue == \E e \in Env : Receive(e)

\* Any step of the queue's operations, unbounded.
QueueStep ==
    \/ Dequeue
    \/ \E e \in Env :
         \/ Enqueue(e)
         \/ SendToken(e)
         \/ e \in inFlight /\ Complete(e)
         \/ \E it \in WorkItem :
              \/ EnqueueNoDelay(e, it)
              \/ EnqueueAfter(e, it)
              \/ TimerFires(e, it)

QueueNext ==
    \/ Dequeue
    \/ \E e \in Env :
         \/ Enqueue(e)
         \/ SendToken(e)
         \/ e \in inFlight /\ Complete(e)
         \/ \E it \in WorkItem :
              \/ EnqueueNoDelay(e, it)
              \/ timers[<<e, it>>] < MaxTimers /\ EnqueueAfter(e, it)
              \/ TimerFires(e, it)

\* The consumer loops over Dequeue and completes every item within its
\* iteration timeout; Go lets a blocked sender pass in arrival order, so a
\* sender that is unblocked again and again is not overtaken forever.
QueueFairness ==
    /\ WF_queueVars(Dequeue)
    /\ \A e \in Env :
         /\ SF_queueVars(SendToken(e))
         /\ WF_queueVars(e \in inFlight /\ Complete(e))

QueueSpec == QueueInit /\ [][QueueNext]_queueVars /\ QueueFairness

---------------------------------------------------------------------------
(* Properties *)

\* One token per queued item, none without one: across the goroutines still to
\* send and the channel, an environment is announced exactly once while it is
\* queued.  A second token would be consumed by Dequeue as a no-op, a missing
\* one would leave the item in the map for ever.
TokenPerItem ==
    \A e \in Env :
        /\ senders[e] <= 1
        /\ \A i, j \in 1..Len(pendingCh) :
               pendingCh[i] = e /\ pendingCh[j] = e => i = j
        /\ ~(senders[e] = 1 /\ InChannel(e))
        /\ Queued(e) <=> (senders[e] = 1 \/ InChannel(e))

\* Single flight: an environment that is being processed is not queued as
\* well, so no two consumers ever hold the same environment; and a follow-up
\* exists only behind an item in flight, so that some Complete promotes it.
SingleFlight ==
    \A e \in Env :
        /\ e \in inFlight => ~Queued(e)
        /\ HasFollowUp(e) => e \in inFlight

\* The queue announces every queued item once and works on an environment once
\* at a time (queue.go): the two parts hold only together, each operation that
\* keeps one relies on the other.
QueueInv == TypeOK /\ TokenPerItem /\ SingleFlight

\* The item that will be processed next for e: queued, or behind the one in
\* flight.
NextItem(e) == IF Queued(e) THEN items[e] ELSE followUps[e]

\* A user's request is never displaced by a retry or a poll: once an
\* environment's next item is a user item it stays one until it is dequeued,
\* whatever Enqueue, EnqueueAfter or Complete does meanwhile, unless the queue
\* is lost with its process.
UserItemSticks ==
    [][\A e \in Env :
         (NextItem(e) # NoItem /\ NextItem(e).source = "User")
           => \/ NextItem(e)' # NoItem /\ NextItem(e)'.source = "User"
              \/ e \notin inFlight /\ e \in inFlight'
              \/ RestartedQueue]_queueVars
===========================================================================
