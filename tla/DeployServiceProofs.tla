------------------------ MODULE DeployServiceProofs ------------------------
(***************************************************************************)
(* Proofs about the deploy service and its queue, for every set of         *)
(* environments, requests, workloads and desired states and for every      *)
(* bound, retry limit and channel capacity.                                *)
(***************************************************************************)
EXTENDS DeployService, TLAPS

---------------------------------------------------------------------------
(* What appending to and receiving from the channel does to its contents.  *)

\* Sending e puts e into the channel, at the end, and disturbs no other name.
LEMMA SendContents ==
    ASSUME TypeOK, NEW e \in Env, SendToken(e)
    PROVE  /\ pendingCh' \in Seq(Env)
           /\ Len(pendingCh') = Len(pendingCh) + 1
           /\ \A i \in 1..Len(pendingCh) : pendingCh'[i] = pendingCh[i]
           /\ pendingCh'[Len(pendingCh) + 1] = e
  BY DEF TypeOK, SendToken

\* Receiving shifts the channel by one place.
LEMMA ReceiveContents ==
    ASSUME TypeOK, NEW e \in Env, Receive(e)
    PROVE  /\ pendingCh' \in Seq(Env)
           /\ Len(pendingCh) > 0
           /\ Len(pendingCh') = Len(pendingCh) - 1
           /\ \A i \in 1..Len(pendingCh') : pendingCh'[i] = pendingCh[i + 1]
           /\ pendingCh[1] = e
  BY DEF TypeOK, Receive

---------------------------------------------------------------------------
(* The invariant is preserved by every operation. *)

LEMMA enqueueNowInv ==
    ASSUME QueueInv, NEW e \in Env, NEW it \in WorkItem, enqueueNow(e, it),
           timers' \in [Env \X WorkItem -> Nat]
    PROVE  QueueInv'
<1>1. CASE replaceQueued(e, it)
  <2>1. TypeOK'
    BY <1>1 DEF QueueInv, TypeOK, enqueueNow, replaceQueued
  <2>2. \A f \in Env : Queued(f)' <=> Queued(f)
    BY <1>1, NoItemAssumption DEF QueueInv, TypeOK, replaceQueued, Queued
  <2>3. UNCHANGED <<followUps, senders, inFlight, pendingCh>>
    BY <1>1 DEF enqueueNow, replaceQueued
  <2>. QED
    BY <2>1, <2>2, <2>3 DEF QueueInv, TokenPerItem, SingleFlight, InChannel, HasFollowUp
<1>2. CASE deferFollowUp(e, it)
  <2>1. TypeOK'
    BY <1>2 DEF QueueInv, TypeOK, enqueueNow, deferFollowUp
  <2>2. UNCHANGED <<items, senders, inFlight, pendingCh>>
    BY <1>2 DEF enqueueNow, deferFollowUp
  <2>3. TokenPerItem'
    BY <2>2 DEF QueueInv, TokenPerItem, InChannel, Queued
  <2>4. SingleFlight'
    BY <1>2, <2>2 DEF QueueInv, TypeOK, SingleFlight, deferFollowUp, HasFollowUp, Queued
  <2>. QED
    BY <2>1, <2>3, <2>4 DEF QueueInv
<1>3. CASE queueWithToken(e, it)
  <2>1. TypeOK'
    BY <1>3 DEF QueueInv, TypeOK, enqueueNow, queueWithToken
  <2>2. UNCHANGED <<followUps, inFlight, pendingCh>>
    BY <1>3 DEF enqueueNow, queueWithToken
  <2>3. Queued(e)' /\ \A f \in Env \ {e} : Queued(f)' <=> Queued(f)
    BY <1>3, NoItemAssumption DEF QueueInv, TypeOK, queueWithToken, Queued
  <2>4. senders[e] = 0 /\ ~InChannel(e)
    BY <1>3 DEF QueueInv, TypeOK, TokenPerItem, queueWithToken
  <2>5. senders'[e] = 1 /\ \A f \in Env \ {e} : senders'[f] = senders[f]
    BY <1>3, <2>4 DEF QueueInv, TypeOK, queueWithToken
  <2>6. TokenPerItem'
    BY <2>2, <2>3, <2>4, <2>5 DEF QueueInv, TokenPerItem, InChannel
  <2>7. SingleFlight'
    BY <1>3, <2>2, <2>3 DEF QueueInv, SingleFlight, queueWithToken, HasFollowUp
  <2>. QED
    BY <2>1, <2>6, <2>7 DEF QueueInv
<1>. QED
  BY <1>1, <1>2, <1>3 DEF enqueueNow

LEMMA SendTokenInv ==
    ASSUME QueueInv, NEW e \in Env, SendToken(e)
    PROVE  QueueInv'
<1>1. TypeOK'
  BY SendContents DEF QueueInv, TypeOK, SendToken
<1>2. UNCHANGED <<items, followUps, inFlight>>
  BY DEF SendToken
<1>3. senders[e] = 1 /\ senders'[e] = 0 /\ \A f \in Env \ {e} : senders'[f] = senders[f]
  BY DEF QueueInv, TypeOK, TokenPerItem, SendToken
<1>4. InChannel(e)' /\ ~InChannel(e)
  <2>1. InChannel(e)'
    BY SendContents DEF QueueInv, TypeOK, InChannel
  <2>. QED
    BY <2>1, <1>3 DEF QueueInv, TokenPerItem
<1>s. /\ Len(pendingCh) \in Nat
      /\ Len(pendingCh') = Len(pendingCh) + 1
      /\ \A k \in 1..Len(pendingCh) : pendingCh'[k] = pendingCh[k]
      /\ pendingCh'[Len(pendingCh) + 1] = e
  BY SendContents DEF QueueInv, TypeOK
<1>5. \A f \in Env \ {e} : InChannel(f)' <=> InChannel(f)
  <2>. SUFFICES ASSUME NEW f \in Env \ {e}
                PROVE  InChannel(f)' <=> InChannel(f)
    OBVIOUS
  <2>1. ASSUME NEW i \in 1..Len(pendingCh'), pendingCh'[i] = f
        PROVE  InChannel(f)
    <3>1. i \in 1..Len(pendingCh)
      BY <1>s, <2>1
    <3>. QED
      BY <1>s, <2>1, <3>1 DEF InChannel
  <2>2. ASSUME NEW i \in 1..Len(pendingCh), pendingCh[i] = f
        PROVE  InChannel(f)'
    <3>1. i \in 1..Len(pendingCh') /\ pendingCh'[i] = f
      BY <1>s, <2>2
    <3>. QED
      BY <3>1 DEF InChannel
  <2>. QED
    BY <2>1, <2>2 DEF InChannel
<1>6. ASSUME NEW f \in Env, NEW i \in 1..Len(pendingCh'), NEW j \in 1..Len(pendingCh'),
             pendingCh'[i] = f, pendingCh'[j] = f
      PROVE  i = j
  <2>1. CASE f = e
    <3>1. \A k \in 1..Len(pendingCh) : pendingCh'[k] # e
      BY <1>4, SendContents DEF QueueInv, InChannel
    <3>. QED
      BY <1>6, <2>1, <3>1, SendContents DEF QueueInv, TypeOK
  <2>2. CASE f # e
    <3>1. i \in 1..Len(pendingCh) /\ j \in 1..Len(pendingCh)
      BY <1>s, <1>6, <2>2
    <3>2. pendingCh[i] = f /\ pendingCh[j] = f
      BY <1>s, <1>6, <3>1
    <3>. QED
      BY <3>1, <3>2 DEF QueueInv, TokenPerItem
  <2>. QED
    BY <2>1, <2>2
<1>7. TokenPerItem'
  BY <1>2, <1>3, <1>4, <1>5, <1>6 DEF QueueInv, TokenPerItem, Queued
<1>8. SingleFlight'
  BY <1>2 DEF QueueInv, SingleFlight, Queued, HasFollowUp
<1>. QED
  BY <1>1, <1>7, <1>8 DEF QueueInv

LEMMA ReceiveInv ==
    ASSUME QueueInv, NEW e \in Env, Receive(e)
    PROVE  QueueInv' /\ Queued(e) /\ e \notin inFlight
<1>0. TypeOK
  BY DEF QueueInv
<1>r. /\ Len(pendingCh) \in Nat
      /\ Len(pendingCh) > 0
      /\ Len(pendingCh') = Len(pendingCh) - 1
      /\ \A k \in 1..Len(pendingCh') : pendingCh'[k] = pendingCh[k + 1]
      /\ pendingCh[1] = e
  <2>1. Len(pendingCh) \in Nat
    BY <1>0 DEF TypeOK
  <2>. QED
    BY <1>0, <2>1, ReceiveContents
<1>1. InChannel(e)
  BY <1>r DEF InChannel
<1>2. Queued(e) /\ senders[e] = 0
  BY <1>0, <1>1 DEF QueueInv, TypeOK, TokenPerItem
<1>3. e \notin inFlight /\ ~HasFollowUp(e)
  BY <1>2 DEF QueueInv, SingleFlight
<1>4. TypeOK'
  BY <1>0, ReceiveContents DEF TypeOK, Receive
<1>5. ~InChannel(e)'
  <2>. SUFFICES ASSUME NEW i \in 1..Len(pendingCh'), pendingCh'[i] = e
                PROVE  FALSE
    BY DEF InChannel
  <2>1. i + 1 \in 1..Len(pendingCh) /\ 1 \in 1..Len(pendingCh)
    BY <1>0, ReceiveContents DEF TypeOK
  <2>2. pendingCh[i + 1] = e /\ pendingCh[1] = e
    BY <1>0, ReceiveContents
  <2>. QED
    BY <2>1, <2>2 DEF QueueInv, TokenPerItem
<1>6. \A f \in Env \ {e} : InChannel(f)' <=> InChannel(f)
  <2>. SUFFICES ASSUME NEW f \in Env \ {e}
                PROVE  InChannel(f)' <=> InChannel(f)
    OBVIOUS
  <2>1. InChannel(f)' => InChannel(f)
    <3>1. ASSUME NEW i \in 1..Len(pendingCh'), pendingCh'[i] = f
          PROVE  InChannel(f)
      <4>1. i + 1 \in 1..Len(pendingCh) /\ pendingCh[i + 1] = f
        BY <1>r, <3>1
      <4>. QED
        BY <4>1 DEF InChannel
    <3>. QED
      BY <3>1 DEF InChannel
  <2>2. ASSUME NEW i \in 1..Len(pendingCh), pendingCh[i] = f
        PROVE  InChannel(f)'
    <3>1. i - 1 \in 1..Len(pendingCh') /\ pendingCh'[i - 1] = f
      <4>1. i # 1
        BY <1>r, <2>2
      <4>2. i - 1 \in 1..Len(pendingCh')
        BY <1>r, <4>1
      <4>3. pendingCh'[i - 1] = pendingCh[(i - 1) + 1]
        BY <1>r, <4>2
      <4>. QED
        BY <2>2, <4>2, <4>3
    <3>. QED
      BY <3>1 DEF InChannel
  <2>. QED
    BY <2>1, <2>2 DEF InChannel
<1>7. ASSUME NEW f \in Env, NEW i \in 1..Len(pendingCh'), NEW j \in 1..Len(pendingCh'),
             pendingCh'[i] = f, pendingCh'[j] = f
      PROVE  i = j
  <2>1. /\ i + 1 \in 1..Len(pendingCh) /\ j + 1 \in 1..Len(pendingCh)
        /\ pendingCh[i + 1] = f /\ pendingCh[j + 1] = f
    BY <1>r, <1>7
  <2>2. i + 1 = j + 1
    BY <2>1 DEF QueueInv, TokenPerItem
  <2>. QED
    BY <2>2
<1>8. UNCHANGED <<followUps, senders>> /\ inFlight' = inFlight \cup {e}
  BY <1>2 DEF Receive
<1>9. ~Queued(e)' /\ \A f \in Env \ {e} : Queued(f)' <=> Queued(f)
  BY <1>0 DEF Receive, Queued, TypeOK
<1>10. TokenPerItem'
  BY <1>2, <1>5, <1>6, <1>7, <1>8, <1>9 DEF QueueInv, TokenPerItem
<1>11. SingleFlight'
  BY <1>3, <1>8, <1>9 DEF QueueInv, SingleFlight, HasFollowUp
<1>. QED
  BY <1>2, <1>3, <1>4, <1>10, <1>11 DEF QueueInv

LEMMA CompleteInv ==
    ASSUME QueueInv, NEW e \in inFlight, Complete(e)
    PROVE  QueueInv'
<1>0. e \in Env /\ ~Queued(e)
  BY DEF QueueInv, TypeOK, SingleFlight
<1>1. TypeOK'
  <2>1. items' \in [Env -> WorkItem \cup {NoItem}] /\ senders' \in [Env -> Nat]
    <3>1. CASE HasFollowUp(e)
      <4>1. items' = [items EXCEPT ![e] = followUps[e]]
        BY <1>0, <3>1 DEF Complete
      <4>2. senders' = [senders EXCEPT ![e] = @ + 1]
        BY <1>0, <3>1 DEF Complete
      <4>. QED
        BY <1>0, <4>1, <4>2 DEF QueueInv, TypeOK
    <3>2. CASE ~HasFollowUp(e)
      BY <3>2 DEF Complete, QueueInv, TypeOK
    <3>. QED
      BY <3>1, <3>2
  <2>2. followUps' \in [Env -> WorkItem \cup {NoItem}] /\ inFlight' \in SUBSET Env
    BY <1>0 DEF QueueInv, TypeOK, Complete
  <2>3. pendingCh' \in Seq(Env) /\ timers' \in [Env \X WorkItem -> Nat]
    BY DEF QueueInv, TypeOK, Complete
  <2>. QED
    BY <2>1, <2>2, <2>3 DEF TypeOK
<1>2. pendingCh' = pendingCh /\ inFlight' = inFlight \ {e}
  BY DEF Complete
<1>3. ~HasFollowUp(e)' /\ \A f \in Env \ {e} : HasFollowUp(f)' <=> HasFollowUp(f)
  BY <1>0 DEF QueueInv, TypeOK, Complete, HasFollowUp
<1>4. CASE HasFollowUp(e)
  <2>1. Queued(e)' /\ \A f \in Env \ {e} : Queued(f)' <=> Queued(f)
    BY <1>0, <1>4 DEF QueueInv, TypeOK, Complete, Queued, HasFollowUp
  <2>2. senders[e] = 0 /\ ~InChannel(e)
    BY <1>0 DEF QueueInv, TypeOK, TokenPerItem
  <2>3. senders'[e] = 1 /\ \A f \in Env \ {e} : senders'[f] = senders[f]
    BY <1>0, <1>4, <2>2 DEF QueueInv, TypeOK, Complete
  <2>4. TokenPerItem'
    BY <1>2, <2>1, <2>2, <2>3 DEF QueueInv, TokenPerItem, InChannel
  <2>5. SingleFlight'
    BY <1>2, <1>3, <2>1 DEF QueueInv, SingleFlight
  <2>. QED
    BY <1>1, <2>4, <2>5 DEF QueueInv
<1>5. CASE ~HasFollowUp(e)
  <2>1. UNCHANGED <<items, senders>>
    BY <1>5 DEF Complete
  <2>2. TokenPerItem'
    BY <1>2, <2>1 DEF QueueInv, TokenPerItem, InChannel, Queued
  <2>3. SingleFlight'
    BY <1>2, <1>3, <2>1 DEF QueueInv, SingleFlight, Queued
  <2>. QED
    BY <1>1, <2>2, <2>3 DEF QueueInv
<1>. QED
  BY <1>4, <1>5

LEMMA NewQueueInv == NewQueue => QueueInv
<1>. SUFFICES ASSUME NewQueue PROVE QueueInv
  OBVIOUS
<1>1. TypeOK
  BY DEF NewQueue, TypeOK
<1>2. Len(pendingCh) = 0
  BY DEF NewQueue
<1>3. TokenPerItem
  <2>1. \A e \in Env : senders[e] = 0 /\ ~Queued(e)
    BY DEF NewQueue, Queued
  <2>2. \A e \in Env : ~InChannel(e)
    BY <1>2 DEF InChannel
  <2>. QED
    <3>1. 1..Len(pendingCh) = {}
      BY <1>2
    <3>2. ASSUME NEW e \in Env PROVE senders[e] <= 1 /\ senders[e] # 1
      <4>1. senders[e] = 0
        BY <2>1
      <4>. QED
        BY <4>1
    <3>. QED
      BY <2>1, <2>2, <3>1, <3>2 DEF TokenPerItem
<1>4. SingleFlight
  BY DEF NewQueue, SingleFlight, Queued, HasFollowUp
<1>. QED
  BY <1>1, <1>3, <1>4 DEF QueueInv

\* The form in which a module that uses the queue cites it: whatever mix of
\* queue operations a step of that module makes, one at a time, the invariant
\* survives.
LEMMA QueueStepInv == QueueInv /\ [QueueStep]_queueVars => QueueInv'
<1>. SUFFICES ASSUME QueueInv, [QueueStep]_queueVars PROVE QueueInv'
  OBVIOUS
<1>1. CASE UNCHANGED queueVars
  BY <1>1 DEF queueVars, QueueInv, TypeOK, TokenPerItem, SingleFlight, Queued, HasFollowUp, InChannel
<1>2. CASE Dequeue
  BY <1>2, ReceiveInv DEF Dequeue
<1>3. ASSUME NEW e \in Env, Enqueue(e) PROVE QueueInv'
  <2>1. UserItem \in WorkItem
    BY MaxRetriesAssumption DEF UserItem, WorkItem, Sources
  <2>. QED
    BY <1>3, <2>1, enqueueNowInv DEF Enqueue, QueueInv, TypeOK
<1>4. ASSUME NEW e \in Env, SendToken(e) PROVE QueueInv'
  BY <1>4, SendTokenInv
<1>5. ASSUME NEW e \in Env, e \in inFlight, Complete(e) PROVE QueueInv'
  BY <1>5, CompleteInv
<1>6. ASSUME NEW e \in Env, NEW it \in WorkItem, EnqueueNoDelay(e, it) PROVE QueueInv'
  BY <1>6, enqueueNowInv DEF EnqueueNoDelay, QueueInv, TypeOK
<1>7. ASSUME NEW e \in Env, NEW it \in WorkItem, EnqueueAfter(e, it) PROVE QueueInv'
  <2>1. TypeOK'
    BY <1>7 DEF EnqueueAfter, QueueInv, TypeOK
  <2>. QED
    BY <1>7, <2>1 DEF EnqueueAfter, QueueInv, TokenPerItem, SingleFlight, Queued, HasFollowUp, InChannel
<1>8. ASSUME NEW e \in Env, NEW it \in WorkItem, TimerFires(e, it) PROVE QueueInv'
  <2>1. timers' \in [Env \X WorkItem -> Nat]
    BY <1>8 DEF TimerFires, QueueInv, TypeOK
  <2>. QED
    BY <1>8, <2>1, enqueueNowInv DEF TimerFires
<1>. QED
  BY <1>1, <1>2, <1>3, <1>4, <1>5, <1>6, <1>7, <1>8 DEF QueueStep

---------------------------------------------------------------------------
(* Theorems *)

\* The queue is type correct, announces each queued item with exactly one
\* token, and never queues an environment that is being processed: queue.go,
\* for every number of environments and every capacity of pendingCh.
THEOREM QueueSafety == QueueSpec => []QueueInv
<1>1. QueueInit => QueueInv
  BY NewQueueInv DEF QueueInit
<1>2. QueueInv /\ [QueueNext]_queueVars => QueueInv'
  <2>1. [QueueNext]_queueVars => [QueueStep]_queueVars
    BY DEF QueueNext, QueueStep
  <2>. QED
    BY <2>1, QueueStepInv
<1>. QED
  BY <1>1, <1>2, PTL DEF QueueSpec

---------------------------------------------------------------------------
(* Priorities *)

\* What UserItemSticks says of one step.
UserItemStays(e) ==
    (NextItem(e) # NoItem /\ NextItem(e).source = "User")
       => \/ NextItem(e)' # NoItem /\ NextItem(e)'.source = "User"
          \/ e \notin inFlight /\ e \in inFlight'
          \/ RestartedQueue

\* An item that enqueueNow places never displaces a user's.
LEMMA enqueueNowStays ==
    ASSUME QueueInv, NEW e \in Env, NEW it \in WorkItem, enqueueNow(e, it), NEW f \in Env
    PROVE  UserItemStays(f)
<1>0. /\ items \in [Env -> WorkItem \cup {NoItem}] /\ followUps \in [Env -> WorkItem \cup {NoItem}]
      /\ it # NoItem
  BY NoItemAssumption DEF QueueInv, TypeOK
<1>1. CASE f # e
  <2>1. items'[f] = items[f] /\ followUps'[f] = followUps[f]
    BY <1>0, <1>1 DEF enqueueNow, replaceQueued, deferFollowUp, queueWithToken
  <2>. QED
    BY <2>1 DEF UserItemStays, NextItem, Queued
<1>2. CASE f = e /\ replaceQueued(e, it)
  <2>1. items'[e] = IF canOverride(items[e], it) THEN it ELSE items[e]
    BY <1>0, <1>2 DEF replaceQueued
  <2>2. Queued(e) /\ Queued(e)'
    BY <1>0, <1>2, <2>1 DEF replaceQueued, Queued
  <2>. QED
    BY <1>2, <2>1, <2>2 DEF UserItemStays, NextItem, Queued, canOverride
<1>3. CASE f = e /\ deferFollowUp(e, it)
  <2>1. /\ ~Queued(e) /\ ~Queued(e)'
        /\ followUps'[e] = IF HasFollowUp(e) /\ ~canOverride(followUps[e], it)
                           THEN followUps[e] ELSE it
    BY <1>0, <1>3 DEF deferFollowUp, Queued
  <2>. QED
    BY <1>0, <1>3, <2>1 DEF UserItemStays, NextItem, HasFollowUp, canOverride
<1>4. CASE f = e /\ queueWithToken(e, it)
  <2>1. ~Queued(e) /\ ~HasFollowUp(e)
    BY <1>4 DEF queueWithToken, QueueInv, SingleFlight
  <2>. QED
    BY <1>4, <2>1 DEF UserItemStays, NextItem, HasFollowUp
<1>. QED
  BY <1>1, <1>2, <1>3, <1>4 DEF enqueueNow

LEMMA UserItemStaysInQueue ==
    ASSUME QueueInv, [QueueStep]_queueVars \/ RestartedQueue, NEW f \in Env
    PROVE  UserItemStays(f)
<1>0. /\ items \in [Env -> WorkItem \cup {NoItem}] /\ followUps \in [Env -> WorkItem \cup {NoItem}]
      /\ UserItem \in WorkItem
  BY MaxRetriesAssumption DEF QueueInv, TypeOK, UserItem, WorkItem, Sources
<1>1. CASE RestartedQueue
  BY <1>1 DEF UserItemStays
<1>2. ASSUME UNCHANGED <<items, followUps>> PROVE UserItemStays(f)
  BY <1>2 DEF UserItemStays, NextItem, Queued
<1>3. ASSUME NEW e \in Env, Receive(e) PROVE UserItemStays(f)
  <2>1. CASE f # e
    <3>1. items'[f] = items[f] /\ followUps' = followUps
      BY <1>0, <1>3, <2>1 DEF Receive
    <3>. QED
      BY <3>1 DEF UserItemStays, NextItem, Queued
  <2>2. CASE f = e
    <3>1. Queued(e) /\ e \notin inFlight
      BY <1>3, ReceiveInv
    <3>2. e \in inFlight'
      BY <1>3, <3>1 DEF Receive
    <3>. QED
      BY <2>2, <3>1, <3>2 DEF UserItemStays
  <2>. QED
    BY <2>1, <2>2
<1>4. ASSUME NEW e \in inFlight, Complete(e) PROVE UserItemStays(f)
  <2>0. e \in Env /\ ~Queued(e)
    BY <1>4 DEF QueueInv, TypeOK, SingleFlight
  <2>1. CASE f # e
    <3>1. items'[f] = items[f] /\ followUps'[f] = followUps[f]
      BY <1>0, <1>4, <2>1 DEF Complete
    <3>. QED
      BY <3>1 DEF UserItemStays, NextItem, Queued
  <2>2. CASE f = e /\ HasFollowUp(e)
    <3>1. items'[e] = followUps[e] /\ Queued(e)'
      BY <1>0, <1>4, <2>0, <2>2 DEF Complete, HasFollowUp, Queued
    <3>. QED
      BY <2>0, <2>2, <3>1 DEF UserItemStays, NextItem, Queued
  <2>3. CASE f = e /\ ~HasFollowUp(e)
    BY <2>0, <2>3 DEF UserItemStays, NextItem, HasFollowUp
  <2>. QED
    BY <2>1, <2>2, <2>3
<1>5. CASE UNCHANGED queueVars
  BY <1>2, <1>5 DEF queueVars
<1>6. ASSUME NEW e \in Env, Enqueue(e) \/ SendToken(e) PROVE UserItemStays(f)
  <2>1. CASE Enqueue(e)
    BY <1>0, <2>1, enqueueNowStays DEF Enqueue
  <2>2. CASE SendToken(e)
    BY <1>2, <2>2 DEF SendToken
  <2>. QED
    BY <1>6, <2>1, <2>2
<1>7. ASSUME NEW e \in Env, NEW it \in WorkItem,
             EnqueueNoDelay(e, it) \/ EnqueueAfter(e, it) \/ TimerFires(e, it)
      PROVE  UserItemStays(f)
  <2>1. CASE enqueueNow(e, it)
    BY <2>1, enqueueNowStays
  <2>2. CASE EnqueueAfter(e, it)
    BY <1>2, <2>2 DEF EnqueueAfter
  <2>. QED
    BY <1>7, <2>1, <2>2 DEF EnqueueNoDelay, TimerFires
<1>. QED
  BY <1>1, <1>3, <1>4, <1>5, <1>6, <1>7 DEF QueueStep, Dequeue

\* A user's request in the queue is never displaced by a retry or a poll before
\* a consumer takes it (canOverride and enqueueNow of queue.go).
THEOREM UserItemKept == QueueSpec => UserItemSticks
<1>1. QueueInv /\ [QueueNext]_queueVars => \A e \in Env : UserItemStays(e)
  <2>1. [QueueNext]_queueVars => [QueueStep]_queueVars
    BY DEF QueueNext, QueueStep
  <2>. QED
    BY <2>1, UserItemStaysInQueue
<1>2. QueueSpec => [][QueueNext]_queueVars
  BY PTL DEF QueueSpec
<1>3. (\A e \in Env : UserItemStays(e)) <=>
        \A e \in Env :
         (NextItem(e) # NoItem /\ NextItem(e).source = "User")
           => \/ NextItem(e)' # NoItem /\ NextItem(e)'.source = "User"
              \/ e \notin inFlight /\ e \in inFlight'
              \/ RestartedQueue
  BY DEF UserItemStays
<1>. QED
  BY <1>1, <1>2, <1>3, QueueSafety, PTL DEF UserItemSticks

---------------------------------------------------------------------------
(* The queue inside the service *)

\* RestartedQueue leaves the queue as NewQueue makes it.
LEMMA RestartedQueueInv == RestartedQueue => QueueInv'
<1>. SUFFICES ASSUME RestartedQueue PROVE QueueInv'
  OBVIOUS
<1>1. TypeOK'
  BY DEF RestartedQueue, TypeOK
<1>2. Len(pendingCh') = 0
  BY DEF RestartedQueue
<1>3. TokenPerItem'
  <2>1. \A e \in Env : senders'[e] = 0 /\ ~Queued(e)'
    BY DEF RestartedQueue, Queued
  <2>2. \A e \in Env : ~InChannel(e)'
    BY <1>2 DEF InChannel
  <2>3. 1..Len(pendingCh') = {}
    BY <1>2
  <2>4. ASSUME NEW e \in Env PROVE senders'[e] <= 1 /\ senders'[e] # 1
    <3>1. senders'[e] = 0
      BY <2>1
    <3>. QED
      BY <3>1
  <2>. QED
    BY <2>1, <2>2, <2>3, <2>4 DEF TokenPerItem
<1>4. SingleFlight'
  BY DEF RestartedQueue, SingleFlight, Queued, HasFollowUp
<1>. QED
  BY <1>1, <1>3, <1>4 DEF QueueInv

\* Every step of the service is a step of the queue, a restart, or leaves the
\* queue alone: it completes only what is in flight, and schedules only items
\* whose retry count is within the limit.
LEMMA UsesQueue ==
    ASSUME ServiceInv, Next
    PROVE  [QueueStep]_queueVars \/ (Crash /\ RestartedQueue)
<1>0. UserItem \in WorkItem
  BY MaxRetriesAssumption DEF UserItem, WorkItem, Sources
<1>1. ASSUME NEW c \in Client, ClientStep(c)
      PROVE  [QueueStep]_queueVars
  <2>1. ASSUME NEW e \in Env, NEW s \in Spec, BeginCreate(c, e, s) \/ BeginUpdate(c, e, s)
        PROVE  UNCHANGED queueVars
    BY <2>1 DEF BeginCreate, BeginUpdate
  <2>2. ASSUME NEW e \in Env, BeginDelete(c, e)
        PROVE  UNCHANGED queueVars
    BY <2>2 DEF BeginDelete
  <2>3. CASE CommandWrite(c)
    BY <2>3 DEF CommandWrite
  <2>4. CASE CommandEnqueue(c)
    <3>1. cl[c].env \in Env
      BY <2>4 DEF CommandEnqueue, ServiceInv, ServiceTypeOK, VarTypes, Request, Idle
    <3>. QED
      BY <2>4, <3>1 DEF CommandEnqueue, QueueStep
  <2>. QED
    BY <1>1, <2>1, <2>2, <2>3, <2>4 DEF ClientStep
<1>2. CASE WorkerDequeue
  BY <1>2 DEF WorkerDequeue, QueueStep, Dequeue
<1>3. CASE WorkerComplete
  <2>1. cur \in Env /\ cur \in inFlight
    BY <1>3 DEF WorkerComplete, ServiceInv, WorkerInv
  <2>. QED
    BY <1>3, <2>1 DEF WorkerComplete, QueueStep
<1>4. CASE maybeRequeue
  <2>1. cur \in Env /\ item \in WorkItem
    BY <1>4 DEF maybeRequeue, ServiceInv, WorkerInv
  <2>2. [retry |-> item.retry, source |-> IF out = "poll" THEN "Poll" ELSE "Retry"] \in WorkItem
    BY <2>1 DEF WorkItem, Sources
  <2>. QED
    BY <1>4, <2>1, <2>2 DEF maybeRequeue, QueueStep
<1>5. CASE scheduleRetry
  <2>1. cur \in Env /\ item \in WorkItem /\ item.retry < MaxRetries
    BY <1>5 DEF scheduleRetry, ServiceInv, WorkerInv
  <2>2. [retry |-> item.retry + 1, source |-> "Retry"] \in WorkItem
    BY <2>1, MaxRetriesAssumption DEF WorkItem, Sources
  <2>. QED
    BY <1>5, <2>1, <2>2 DEF scheduleRetry, QueueStep
<1>6. CASE ReconcileStep
  BY <1>6 DEF ReconcileStep, ProcessOneLoad, transitionToReconciling, ApplyResources,
       ApplyResourcesFails, applyAndWait, CheckRollout, markReadyFromRollout,
       markFailedFromRollout, retainWaitingRollout, transitionToDeleting, RuntimeDelete,
       RuntimeDeleteFails, deleteAbsent, ExhaustedLoad, MarkRetryExhausted, Transition
<1>7. CASE RecoverList \/ WorkerStart
  BY <1>7 DEF RecoverList, WorkerStart
<1>8. ASSUME NEW e \in Env, RecoverEnqueue(e)
      PROVE  [QueueStep]_queueVars
  BY <1>8 DEF RecoverEnqueue, QueueStep
<1>9. ASSUME NEW e \in Env, QueueGoroutine(e)
      PROVE  [QueueStep]_queueVars
  BY <1>9 DEF QueueGoroutine, QueueStep
<1>10. CASE FaultStep
  BY <1>10 DEF FaultStep, CommandWriteFault, ProcessOneFault, ExhaustedFault, WorkerPanic, Crash
<1>. QED
  BY <1>1, <1>2, <1>3, <1>4, <1>5, <1>6, <1>7, <1>8, <1>9, <1>10 DEF Next, WorkerStep

LEMMA QueuePart == ServiceInv /\ [Next]_vars => QueueInv'
<1>. SUFFICES ASSUME ServiceInv, [Next]_vars PROVE QueueInv'
  OBVIOUS
<1>1. CASE Next
  BY <1>1, UsesQueue, QueueStepInv, RestartedQueueInv DEF ServiceInv
<1>2. CASE UNCHANGED vars
  BY <1>2, QueueStepInv DEF ServiceInv, vars
<1>. QED
  BY <1>1, <1>2

---------------------------------------------------------------------------
(* Types *)

LEMMA ServicesIntro ==
    ASSUME NEW W \in SUBSET Workload, NEW f \in [W -> ServiceStates]
    PROVE  f \in Services
  BY DEF Services

LEMMA SpecIntro ==
    ASSUME NEW W \in SUBSET Workload, NEW f \in [W -> Version]
    PROVE  f \in SpecOf
  BY DEF SpecOf

LEMMA SpecElim ==
    ASSUME NEW s \in SpecOf
    PROVE  DOMAIN s \in SUBSET Workload /\ s \in [DOMAIN s -> Version]
  BY DEF SpecOf

LEMMA NoServicesType == NoServices \in Services
<1>1. NoServices \in [{} -> ServiceStates]
  BY DEF NoServices
<1>. QED
  BY <1>1, ServicesIntro

LEMMA InitialServicesType ==
    ASSUME NEW s \in Spec PROVE InitialServices(s) \in Services
<1>1. DOMAIN s \in SUBSET Workload
  BY SpecAssumption, SpecElim
<1>2. InitialServices(s) \in [DOMAIN s -> ServiceStates]
  BY DEF InitialServices, ServiceStates
<1>. QED
  BY <1>1, <1>2, ServicesIntro

\* What a failed apply or delete leaves is again a map of workloads.
LEMMA PartlyAppliedType ==
    ASSUME NEW k \in SpecOf, NEW s \in SpecOf, NEW r \in PartlyApplied(k, s)
    PROVE  r \in SpecOf
<1>0. /\ DOMAIN s \in SUBSET Workload /\ s \in [DOMAIN s -> Version]
      /\ DOMAIN k \in SUBSET Workload /\ k \in [DOMAIN k -> Version]
  BY SpecElim
<1>1. ASSUME NEW W \in SUBSET DOMAIN s,
             r = [w \in W \cup DOMAIN k |-> IF w \in W THEN s[w] ELSE k[w]]
      PROVE  r \in SpecOf
  <2>1. W \cup DOMAIN k \in SUBSET Workload /\ r \in [W \cup DOMAIN k -> Version]
    BY <1>0, <1>1
  <2>. QED
    BY <2>1, SpecIntro
<1>2. ASSUME NEW W \in SUBSET DOMAIN k,
             r = [w \in W \cup DOMAIN s |-> IF w \in DOMAIN s THEN s[w] ELSE k[w]]
      PROVE  r \in SpecOf
  <2>1. W \cup DOMAIN s \in SUBSET Workload /\ r \in [W \cup DOMAIN s -> Version]
    BY <1>0, <1>2
  <2>. QED
    BY <2>1, SpecIntro
<1>. QED
  BY <1>1, <1>2 DEF PartlyApplied, Upserted, PrunedTo

LEMMA PartlyDeletedType ==
    ASSUME NEW k \in SpecOf, NEW r \in PartlyDeleted(k)
    PROVE  r \in SpecOf
<1>0. DOMAIN k \in SUBSET Workload /\ k \in [DOMAIN k -> Version]
  BY SpecElim
<1>1. PICK W \in SUBSET DOMAIN k : r = [w \in W |-> k[w]]
  BY DEF PartlyDeleted
<1>2. W \in SUBSET Workload /\ r \in [W -> Version]
  BY <1>0, <1>1
<1>. QED
  BY <1>2, SpecIntro

---------------------------------------------------------------------------
(* What the worker writes *)

\* The calls of TransitionStatus, as one: the state moves as the lifecycle
\* allows, the observed generation stays or becomes the current one.
Advances(d, new) ==
    /\ new \in Doc
    /\ new.gen = d.gen /\ new.desired = d.desired /\ new.spec = d.spec
    /\ new.state # "Pending"
    /\ new.observed \in {d.observed, d.gen}
    /\ Lifecycle!CanTransition(d.state, new.state) \/ new.state = d.state \/ new.state = "Failed"
    /\ new.state \in {"Ready", "Failed"} => new.observed = d.gen
    /\ new.state = "WaitingRollout" /\ d.state = "Reconciling" => new.observed = d.gen
    /\ new.state = "Deleting" => d.desired = "Absent"

Writing == {"toReconciling", "applied", "checked", "toDeleting", "exhaustWrite"}

WithStatus(d, s, o, sv) == [d EXCEPT !.state = s, !.observed = o, !.services = sv]

LEMMA WithStatusDoc ==
    ASSUME NEW d \in Doc, NEW s \in States, NEW o \in 0..MaxGen, NEW sv \in Services
    PROVE  LET n == WithStatus(d, s, o, sv)
           IN  /\ n \in Doc
               /\ n.gen = d.gen /\ n.desired = d.desired /\ n.spec = d.spec
               /\ n.state = s /\ n.observed = o
  BY DEF WithStatus, Doc

LEMMA WriteStatusAdvances ==
    ASSUME ServiceInv, pc \in Writing, Matches(cur, snap)
    PROVE  /\ cur \in Env
           /\ doc[cur] \in Doc
           /\ Advances(doc[cur], TransitionStatus(doc[cur], StatusToWrite))
<1> DEFINE d == doc[cur]
           new == TransitionStatus(d, StatusToWrite)
<1>1. cur \in Env /\ Stored(cur)
  BY DEF ServiceInv, WorkerInv, WorkerOwnsStatus, Writing, Engaged
<1>2. d \in Doc /\ snap \in Doc /\ rollout \in Services
  BY <1>1 DEF ServiceInv, ServiceTypeOK, VarTypes, Stored, WorkerOwnsStatus, Writing, Engaged
<1>3. /\ d.gen = snap.gen /\ d.state = snap.state
      /\ d.desired = snap.desired
      /\ pc # "exhaustWrite" => Plan(snap) = PlanOf(pc)
  BY <1>1 DEF ServiceInv, Matches, WorkerOwnsStatus, Writing, Engaged
<1>4. /\ d.gen \in 0..MaxGen /\ d.gen # 0 /\ d.observed \in 0..MaxGen
      /\ d.state \in States /\ d.desired \in Desired /\ snap.spec \in Spec
  BY <1>2, BoundAssumption DEF Doc
<1>5. CASE pc = "toReconciling"
  <2>1. StatusToWrite = [state |-> "Reconciling", observed |-> 0, services |-> NoServices]
    BY <1>5 DEF StatusToWrite
  <2>2. d.state \in {"Pending", "Ready", "Failed"}
    BY <1>3, <1>4, <1>5 DEF Plan, PlanOf, States, Desired
  <2>3. TransitionStatus(d, StatusToWrite)
          = WithStatus(d, "Reconciling", d.observed, NoServices)
    BY <1>2, <2>1 DEF TransitionStatus, WithStatus, Doc
  <2>g. "Reconciling" \in States /\ d.observed \in 0..MaxGen /\ NoServices \in Services
    BY <1>2, <1>4, NoServicesType DEF States
  <2>f. /\ new \in Doc
        /\ new.gen = d.gen /\ new.desired = d.desired /\ new.spec = d.spec
        /\ new.state = "Reconciling" /\ new.observed = d.observed
    BY <1>2, <2>3, <2>g, WithStatusDoc
  <2>. QED
    BY <1>1, <1>2, <2>2, <2>f DEF Advances, Lifecycle!CanTransition
<1>6. CASE pc = "applied"
  <2>1. StatusToWrite = [state |-> "WaitingRollout", observed |-> snap.gen, services |-> InitialServices(snap.spec)]
    BY <1>6 DEF StatusToWrite
  <2>2. d.state = "Reconciling"
    BY <1>3, <1>4, <1>6 DEF Plan, PlanOf, States, Desired
  <2>3. TransitionStatus(d, StatusToWrite)
          = WithStatus(d, "WaitingRollout", d.gen, InitialServices(snap.spec))
    BY <1>2, <1>3, <1>4, <2>1 DEF TransitionStatus, WithStatus, Doc
  <2>g. "WaitingRollout" \in States /\ d.gen \in 0..MaxGen /\ InitialServices(snap.spec) \in Services
    BY <1>2, <1>4, InitialServicesType DEF States
  <2>f. /\ new \in Doc
        /\ new.gen = d.gen /\ new.desired = d.desired /\ new.spec = d.spec
        /\ new.state = "WaitingRollout" /\ new.observed = d.gen
    BY <1>2, <2>3, <2>g, WithStatusDoc
  <2>. QED
    BY <1>1, <1>2, <2>2, <2>f DEF Advances, Lifecycle!CanTransition
<1>7. CASE pc = "checked"
  <2>1. d.state = "WaitingRollout"
    BY <1>3, <1>4, <1>7 DEF Plan, PlanOf, States, Desired
  <2>2. CASE RolloutState(rollout) = "ready"
    <3>1. StatusToWrite = [state |-> "Ready", observed |-> snap.gen, services |-> rollout]
      BY <1>7, <2>2 DEF StatusToWrite
    <3>2. TransitionStatus(d, StatusToWrite)
            = WithStatus(d, "Ready", d.gen, rollout)
      BY <1>2, <1>3, <1>4, <3>1 DEF TransitionStatus, WithStatus, Doc
    <3>g. "Ready" \in States /\ d.gen \in 0..MaxGen /\ rollout \in Services
      BY <1>2, <1>4, <1>2 DEF States
    <3>f. /\ new \in Doc
          /\ new.gen = d.gen /\ new.desired = d.desired /\ new.spec = d.spec
          /\ new.state = "Ready" /\ new.observed = d.gen
      BY <1>2, <3>2, <3>g, WithStatusDoc
    <3>. QED
      BY <1>1, <1>2, <2>1, <3>f DEF Advances, Lifecycle!CanTransition
  <2>3. CASE RolloutState(rollout) = "failed"
    <3>1. StatusToWrite = [state |-> "Failed", observed |-> snap.gen, services |-> rollout]
      BY <1>7, <2>3 DEF StatusToWrite
    <3>2. TransitionStatus(d, StatusToWrite)
            = WithStatus(d, "Failed", d.gen, rollout)
      BY <1>2, <1>3, <1>4, <3>1 DEF TransitionStatus, WithStatus, Doc
    <3>g. "Failed" \in States /\ d.gen \in 0..MaxGen /\ rollout \in Services
      BY <1>2, <1>4, <1>2 DEF States
    <3>f. /\ new \in Doc
          /\ new.gen = d.gen /\ new.desired = d.desired /\ new.spec = d.spec
          /\ new.state = "Failed" /\ new.observed = d.gen
      BY <1>2, <3>2, <3>g, WithStatusDoc
    <3>. QED
      BY <1>1, <1>2, <2>1, <3>f DEF Advances, Lifecycle!CanTransition
  <2>4. CASE RolloutState(rollout) = "waiting"
    <3>1. StatusToWrite = [state |-> "WaitingRollout", observed |-> 0, services |-> rollout]
      BY <1>7, <2>4 DEF StatusToWrite
    <3>2. TransitionStatus(d, StatusToWrite)
            = WithStatus(d, "WaitingRollout", d.observed, rollout)
      BY <1>2, <3>1 DEF TransitionStatus, WithStatus, Doc
    <3>g. "WaitingRollout" \in States /\ d.observed \in 0..MaxGen /\ rollout \in Services
      BY <1>2, <1>4, <1>2 DEF States
    <3>f. /\ new \in Doc
          /\ new.gen = d.gen /\ new.desired = d.desired /\ new.spec = d.spec
          /\ new.state = "WaitingRollout" /\ new.observed = d.observed
      BY <1>2, <3>2, <3>g, WithStatusDoc
    <3>. QED
      BY <1>1, <1>2, <2>1, <3>f DEF Advances, Lifecycle!CanTransition
  <2>. QED
    BY <2>2, <2>3, <2>4 DEF RolloutState
<1>8. CASE pc = "toDeleting"
  <2>1. StatusToWrite = [state |-> "Deleting", observed |-> 0, services |-> NoServices]
    BY <1>8 DEF StatusToWrite
  <2>2. d.state # "Deleting" /\ d.desired = "Absent"
    BY <1>3, <1>4, <1>8 DEF Plan, PlanOf, States, Desired
  <2>3. TransitionStatus(d, StatusToWrite)
          = WithStatus(d, "Deleting", d.observed, NoServices)
    BY <1>2, <2>1 DEF TransitionStatus, WithStatus, Doc
  <2>g. "Deleting" \in States /\ d.observed \in 0..MaxGen /\ NoServices \in Services
    BY <1>2, <1>4, NoServicesType DEF States
  <2>f. /\ new \in Doc
        /\ new.gen = d.gen /\ new.desired = d.desired /\ new.spec = d.spec
        /\ new.state = "Deleting" /\ new.observed = d.observed
    BY <1>2, <2>3, <2>g, WithStatusDoc
  <2>. QED
    BY <1>1, <1>2, <1>4, <2>2, <2>f DEF Advances, Lifecycle!CanTransition, States
<1>9. CASE pc = "exhaustWrite"
  <2>1. StatusToWrite = [state |-> "Failed", observed |-> snap.gen, services |-> NoServices]
    BY <1>9 DEF StatusToWrite
  <2>2. TransitionStatus(d, StatusToWrite)
          = WithStatus(d, "Failed", d.gen, NoServices)
    BY <1>2, <1>3, <1>4, <2>1 DEF TransitionStatus, WithStatus, Doc
  <2>g. "Failed" \in States /\ d.gen \in 0..MaxGen /\ NoServices \in Services
    BY <1>2, <1>4, NoServicesType DEF States
  <2>f. /\ new \in Doc
        /\ new.gen = d.gen /\ new.desired = d.desired /\ new.spec = d.spec
        /\ new.state = "Failed" /\ new.observed = d.gen
    BY <1>2, <2>2, <2>g, WithStatusDoc
  <2>. QED
    BY <1>1, <1>2, <2>f DEF Advances, States
<1>. QED
  BY <1>5, <1>6, <1>7, <1>8, <1>9 DEF Writing

---------------------------------------------------------------------------
(* The invariant is preserved: requests *)

\* ServiceInv without the queue's part.
Rest == VarTypes /\ RequestsFit /\ WorkerInv /\ WorkerOwnsStatus /\ NoOrphans

\* A step that leaves documents, cluster and worker alone preserves what is said
\* about them.
LEMMA WorkerFrame ==
    ASSUME ServiceInv, UNCHANGED <<doc, cluster, workerVars>>, inFlight \subseteq inFlight'
    PROVE  WorkerInv' /\ WorkerOwnsStatus' /\ NoOrphans'
<1>1. WorkerInv'
  BY DEF ServiceInv, WorkerInv, workerVars
<1>2. WorkerOwnsStatus'
  BY DEF ServiceInv, WorkerOwnsStatus, workerVars, Stored
<1>3. NoOrphans'
  BY DEF ServiceInv, NoOrphans, Stored
<1>. QED
  BY <1>1, <1>2, <1>3

\* Begin and enqueue of a request.
LEMMA RequestInv ==
    ASSUME ServiceInv, NEW c \in Client,
           UNCHANGED <<doc, cluster, workerVars, created, overtaken, budgetVars>>,
           inFlight \subseteq inFlight',
           NEW r \in Request \cup {Idle},
           r # Idle /\ r.at = "write" /\ r.op # "Create" => r.gen < MaxGen,
           cl' = [cl EXCEPT ![c] = r]
    PROVE  Rest'
<1>1. VarTypes'
  BY DEF ServiceInv, ServiceTypeOK, VarTypes, workerVars, budgetVars
<1>2. RequestsFit'
  BY DEF ServiceInv, ServiceTypeOK, VarTypes, RequestsFit
<1>. QED
  BY <1>1, <1>2, WorkerFrame DEF Rest

LEMMA BeginInv ==
    ASSUME ServiceInv, NEW c \in Client, NEW e \in Env, NEW s \in Spec,
           BeginCreate(c, e, s) \/ BeginUpdate(c, e, s)
    PROVE  Rest'
<1>1. CASE BeginCreate(c, e, s)
  <2> DEFINE r == Request0("Create", e, 0, s)
  <2>1. r \in Request /\ r.op = "Create"
    BY BoundAssumption DEF Request0, Request
  <2>2. inFlight' = inFlight
    BY <1>1 DEF BeginCreate, queueVars
  <2>3. UNCHANGED <<doc, cluster, workerVars, created, overtaken, budgetVars>> /\ cl' = [cl EXCEPT ![c] = r]
    BY <1>1 DEF BeginCreate
  <2>. QED
    BY <2>1, <2>2, <2>3, RequestInv
<1>2. CASE BeginUpdate(c, e, s)
  <2> DEFINE r == Request0("Update", e, doc[e].gen, s)
  <2>0. doc[e] \in Doc
    BY <1>2 DEF BeginUpdate, ServiceInv, ServiceTypeOK, VarTypes, Stored
  <2>1. r \in Request /\ r.gen < MaxGen
    BY <1>2, <2>0, BoundAssumption DEF BeginUpdate, Request0, Request, Doc
  <2>2. inFlight' = inFlight
    BY <1>2 DEF BeginUpdate, queueVars
  <2>3. UNCHANGED <<doc, cluster, workerVars, created, overtaken, budgetVars>> /\ cl' = [cl EXCEPT ![c] = r]
    BY <1>2 DEF BeginUpdate
  <2>. QED
    BY <2>1, <2>2, <2>3, RequestInv
<1>. QED
  BY <1>1, <1>2

LEMMA BeginDeleteInv ==
    ASSUME ServiceInv, NEW c \in Client, NEW e \in Env, BeginDelete(c, e)
    PROVE  Rest'
<1> DEFINE r == Request0("Delete", e, doc[e].gen, doc[e].spec)
<1>0. doc[e] \in Doc
  BY DEF BeginDelete, ServiceInv, ServiceTypeOK, VarTypes, Stored
<1>1. r \in Request /\ r.gen < MaxGen
  BY <1>0, BoundAssumption DEF BeginDelete, Request0, Request, Doc
<1>2. inFlight' = inFlight
  BY DEF BeginDelete, queueVars
<1>3. UNCHANGED <<doc, cluster, workerVars, created, overtaken, budgetVars>> /\ cl' = [cl EXCEPT ![c] = r]
  BY DEF BeginDelete
<1>. QED
  BY <1>1, <1>2, <1>3, RequestInv

LEMMA CommandEnqueueInv ==
    ASSUME ServiceInv, NEW c \in Client, CommandEnqueue(c)
    PROVE  Rest'
<1>1. inFlight' = inFlight
  BY DEF CommandEnqueue, Enqueue, enqueueNow
<1>2. UNCHANGED <<doc, cluster, workerVars, created, overtaken, budgetVars>> /\ cl' = [cl EXCEPT ![c] = Idle]
  BY DEF CommandEnqueue
<1>. QED
  BY <1>1, <1>2, RequestInv

\* An accepted write of a request: the document stays well formed, keeps its
\* status, and its generation leaves a worker's snapshot behind.
LEMMA StoreWriteInv ==
    ASSUME ServiceInv, NEW c \in Client, cl[c].at = "write", Accepted(cl[c]), StoreWrite(cl[c]),
           UNCHANGED <<cluster, workerVars, inFlight>>
    PROVE  /\ doc' \in [Env -> Doc \cup {NoDoc}]
           /\ created' \in [Env -> 0..MaxCreations]
           /\ overtaken' \in [Env -> BOOLEAN]
           /\ WorkerInv' /\ WorkerOwnsStatus' /\ NoOrphans'
<1> DEFINE r == cl[c]
           e == cl[c].env
<1>0. VarTypes /\ RequestsFit
  BY DEF ServiceInv, ServiceTypeOK
<1>1. r \in Request /\ r # Idle
  BY <1>0 DEF VarTypes, Request, Idle
<1>2. e \in Env /\ r.spec \in Spec /\ r.gen \in 0..MaxGen
  BY <1>1 DEF Request
<1>3. WorkerInv'
  BY DEF ServiceInv, WorkerInv, workerVars
<1>4. CASE r.op = "Create"
  <2>1. ~Stored(e) /\ created[e] < MaxCreations
    BY <1>4 DEF Accepted
  <2>2. NewEnvironment(r.spec) \in Doc
    BY <1>2, NoServicesType, BoundAssumption DEF NewEnvironment, Doc, States, Desired
  <2>3. /\ doc' = [doc EXCEPT ![e] = NewEnvironment(r.spec)]
        /\ created' = [created EXCEPT ![e] = @ + 1]
        /\ overtaken' = [overtaken EXCEPT ![e] = FALSE]
    BY <1>4 DEF StoreWrite
  <2>4. doc' \in [Env -> Doc \cup {NoDoc}]
    BY <1>0, <2>2, <2>3 DEF VarTypes
  <2>5. created' \in [Env -> 0..MaxCreations]
    BY <1>0, <1>2, <2>1, <2>3, BoundAssumption DEF VarTypes
  <2>6. overtaken' \in [Env -> BOOLEAN]
    BY <1>0, <1>2, <2>3, BoundAssumption DEF VarTypes
  <2>7. \A f \in Env : Stored(f) => f # e /\ doc'[f] = doc[f]
    BY <1>0, <2>1, <2>3 DEF VarTypes
  <2>8. WorkerOwnsStatus'
    <3>. SUFFICES ASSUME pc' \in Engaged PROVE WorkerOwnsStatus'
      BY DEF WorkerOwnsStatus
    <3>1. cur \in Env /\ Stored(cur)
      BY DEF ServiceInv, WorkerInv, WorkerOwnsStatus, workerVars, Engaged
    <3>2. doc'[cur] = doc[cur]
      BY <2>7, <3>1
    <3>. QED
      BY <3>2 DEF ServiceInv, WorkerOwnsStatus, workerVars, Stored
  <2>9. NoOrphans'
    <3>1. \A f \in Env : ~Stored(f)' => ~Stored(f)
      BY <2>7 DEF Stored
    <3>. QED
      BY <3>1 DEF ServiceInv, NoOrphans
  <2>. QED
    BY <1>3, <2>4, <2>5, <2>6, <2>8, <2>9
<1>5. CASE r.op # "Create"
  <2> DEFINE d == UpdateDesired(doc[e], r)
  <2>1. Stored(e) /\ doc[e].gen = r.gen /\ r.gen < MaxGen
    BY <1>0, <1>1, <1>5 DEF Accepted, RequestsFit
  <2>2. doc[e] \in Doc
    BY <1>0, <1>2, <2>1 DEF VarTypes, Stored
  <2>3. /\ d \in Doc
        /\ d.gen = doc[e].gen + 1 /\ d.state = doc[e].state /\ d.observed = doc[e].observed
    <3>1. doc[e].gen + 1 \in 1..MaxGen
      BY <2>1, <2>2, BoundAssumption DEF Doc
    <3>2. CASE r.op = "Delete"
      <4>1. d = [doc[e] EXCEPT !.gen = doc[e].gen + 1, !.desired = "Absent", !.spec = doc[e].spec]
        BY <3>2 DEF UpdateDesired
      <4>. QED
        BY <2>2, <3>1, <4>1 DEF Doc, Desired
    <3>3. CASE r.op # "Delete"
      <4>1. d = [doc[e] EXCEPT !.gen = doc[e].gen + 1, !.desired = "Present", !.spec = r.spec]
        BY <3>3 DEF UpdateDesired
      <4>. QED
        BY <1>2, <2>2, <3>1, <4>1 DEF Doc, Desired
    <3>. QED
      BY <3>2, <3>3
  <2>4. /\ doc' = [doc EXCEPT ![e] = d]
        /\ overtaken' = [overtaken EXCEPT ![e] = @ \/ doc[e].state = "WaitingRollout"]
        /\ UNCHANGED created
    BY <1>5 DEF StoreWrite
  <2>5. doc' \in [Env -> Doc \cup {NoDoc}]
    BY <1>0, <2>3, <2>4 DEF VarTypes
  <2>6. created' \in [Env -> 0..MaxCreations]
    BY <1>0, <2>4 DEF VarTypes
  <2>7. overtaken' \in [Env -> BOOLEAN]
    BY <1>0, <2>4 DEF VarTypes
  <2>8. doc'[e] = d /\ \A f \in Env \ {e} : doc'[f] = doc[f]
    BY <1>0, <1>2, <2>4 DEF VarTypes
  <2>9. WorkerOwnsStatus'
    <3>. SUFFICES ASSUME pc' \in Engaged PROVE WorkerOwnsStatus'
      BY DEF WorkerOwnsStatus
    <3>1. cur \in Env /\ pc \in Engaged /\ Stored(cur) /\ snap \in Doc
      BY <1>0 DEF ServiceInv, WorkerInv, WorkerOwnsStatus, workerVars, Engaged, VarTypes
    <3>2. CASE cur = e
      <4>1. snap.gen <= doc[e].gen /\ doc[e].state = snap.state /\ doc[e].observed = snap.observed
        BY <3>1, <3>2 DEF ServiceInv, WorkerOwnsStatus
      <4>2. snap.gen < doc'[cur].gen /\ doc'[cur].state = snap.state /\ doc'[cur].observed = snap.observed
        BY <2>2, <2>3, <2>8, <3>1, <3>2, <4>1 DEF Doc
      <4>3. snap.gen <= doc'[cur].gen /\ snap.gen # doc'[cur].gen
        BY <2>2, <2>3, <2>8, <3>1, <3>2, <4>2 DEF Doc
      <4>4. Stored(cur)'
        BY <2>3, <2>8, <3>2, NoDocAssumption DEF Stored, workerVars
      <4>. QED
        BY <3>1, <4>2, <4>3, <4>4 DEF ServiceInv, WorkerOwnsStatus, workerVars
    <3>3. CASE cur # e
      <4>1. doc'[cur] = doc[cur]
        BY <2>8, <3>1, <3>3
      <4>. QED
        BY <4>1 DEF ServiceInv, WorkerOwnsStatus, workerVars, Stored
    <3>. QED
      BY <3>2, <3>3
  <2>10. NoOrphans'
    <3>1. \A f \in Env : ~Stored(f)' => ~Stored(f)
      BY <2>3, <2>8, NoDocAssumption DEF Stored
    <3>. QED
      BY <3>1 DEF ServiceInv, NoOrphans
  <2>. QED
    BY <1>3, <2>5, <2>6, <2>7, <2>9, <2>10
<1>. QED
  BY <1>4, <1>5

LEMMA CommandWriteInv ==
    ASSUME ServiceInv, NEW c \in Client, CommandWrite(c) \/ CommandWriteFault(c)
    PROVE  Rest'
<1>0. VarTypes /\ RequestsFit /\ cl[c].at = "write" /\ cl[c] \in Request
  BY DEF ServiceInv, ServiceTypeOK, CommandWrite, CommandWriteFault, VarTypes, Request, Idle
<1>1. UNCHANGED <<cluster, workerVars, inFlight, crashes, panics>>
  BY DEF CommandWrite, CommandWriteFault, queueVars, budgetVars
<1>2. faults' \in 0..MaxFaults
  BY <1>0, BoundAssumption DEF CommandWrite, CommandWriteFault, VarTypes, budgetVars
<1>3. cl' \in [Client -> Request \cup {Idle}] /\ RequestsFit'
  <2>1. CASE cl' = [cl EXCEPT ![c] = Idle]
    BY <1>0, <2>1 DEF VarTypes, RequestsFit
  <2>2. CASE cl' = [cl EXCEPT ![c].at = "enqueue"]
    <3> DEFINE r == [cl[c] EXCEPT !.at = "enqueue"]
    <3>1. r \in Request /\ r.at = "enqueue"
      BY <1>0 DEF Request
    <3>2. cl' = [cl EXCEPT ![c] = r]
      BY <2>2
    <3>. QED
      BY <1>0, <3>1, <3>2 DEF VarTypes, RequestsFit
  <2>. QED
    BY <2>1, <2>2 DEF CommandWrite, CommandWriteFault
<1>4. CASE Accepted(cl[c]) /\ StoreWrite(cl[c])
  <2>1. VarTypes'
    BY <1>0, <1>1, <1>2, <1>3, <1>4, StoreWriteInv DEF VarTypes, workerVars
  <2>. QED
    BY <1>0, <1>1, <1>3, <1>4, <2>1, StoreWriteInv DEF Rest
<1>5. CASE UNCHANGED <<doc, created, overtaken>>
  <2>1. VarTypes'
    BY <1>0, <1>1, <1>2, <1>3, <1>5 DEF VarTypes, workerVars
  <2>2. WorkerInv' /\ WorkerOwnsStatus' /\ NoOrphans'
    BY <1>1, <1>5, WorkerFrame
  <2>. QED
    BY <1>3, <2>1, <2>2 DEF Rest
<1>. QED
  BY <1>4, <1>5 DEF CommandWrite, CommandWriteFault

---------------------------------------------------------------------------
(* The invariant is preserved: the worker takes and loads an item *)

LEMMA WorkerDequeueInv ==
    ASSUME ServiceInv, WorkerDequeue
    PROVE  Rest'
<1>0. VarTypes /\ TypeOK /\ QueueInv
  BY DEF ServiceInv, ServiceTypeOK
<1>1. PICK e \in Env :
         /\ Receive(e)
         /\ IF Queued(e) THEN pc' = "load" /\ cur' = e /\ item' = items[e]
                         ELSE UNCHANGED <<pc, cur, item>>
  BY DEF WorkerDequeue
<1>2. Queued(e)
  BY <1>0, <1>1, ReceiveInv
<1>3. pc' = "load" /\ cur' = e /\ item' \in WorkItem
  BY <1>0, <1>1, <1>2 DEF TypeOK, Queued
<1>4. inFlight' = inFlight \cup {e}
  BY <1>1, <1>2 DEF Receive
<1>5. UNCHANGED <<doc, cluster, cl, snap, rollout, out, recovering, created, overtaken, budgetVars>>
  BY DEF WorkerDequeue
<1>6. VarTypes'
  BY <1>0, <1>3, <1>5 DEF VarTypes, WorkerPC, budgetVars
<1>7. RequestsFit' /\ NoOrphans'
  BY <1>5 DEF ServiceInv, RequestsFit, NoOrphans, Stored
<1>8. WorkerInv'
  BY <1>3, <1>4 DEF WorkerInv, Engaged
<1>9. WorkerOwnsStatus'
  BY <1>3 DEF WorkerOwnsStatus, Engaged
<1>. QED
  BY <1>6, <1>7, <1>8, <1>9 DEF Rest

LEMMA PlanValues ==
    ASSUME NEW d
    PROVE  Plan(d) \in {"delete", "toDeleting", "apply", "check", "unsupported", "terminal",
                        "toReconciling"}
  BY DEF Plan

LEMMA ProcessOneLoadInv ==
    ASSUME ServiceInv, ProcessOneLoad
    PROVE  Rest'
<1>0. VarTypes /\ pc = "load" /\ cur \in Env /\ item \in WorkItem /\ cur \in inFlight
  BY DEF ServiceInv, ServiceTypeOK, ProcessOneLoad, WorkerInv
<1>1. UNCHANGED <<inFlight, doc, cluster, cl, cur, item, rollout, recovering, created, overtaken, budgetVars>>
  BY DEF ProcessOneLoad, queueVars
<1>2. snap' = doc[cur] /\ snap' \in Doc \cup {NoDoc}
  BY <1>0 DEF ProcessOneLoad, VarTypes
<1>3. RequestsFit' /\ NoOrphans'
  BY <1>1 DEF ServiceInv, RequestsFit, NoOrphans, Stored
<1>4. CASE pc' = "complete" /\ out' \in Outcome
  <2>1. VarTypes'
    BY <1>0, <1>1, <1>2, <1>4 DEF VarTypes, WorkerPC, budgetVars
  <2>2. WorkerInv' /\ WorkerOwnsStatus'
    BY <1>0, <1>1, <1>4 DEF WorkerInv, WorkerOwnsStatus, Engaged
  <2>. QED
    BY <1>3, <2>1, <2>2 DEF Rest
<1>5. CASE /\ Stored(cur) /\ pc' = Plan(doc[cur]) /\ UNCHANGED out
           /\ Plan(doc[cur]) \notin {"terminal", "unsupported"}
  <2>1. pc' \in {"delete", "toDeleting", "apply", "check", "toReconciling"}
    BY <1>5, PlanValues
  <2>2. VarTypes'
    BY <1>0, <1>1, <1>2, <1>5, <2>1 DEF VarTypes, WorkerPC, budgetVars
  <2>3. WorkerInv'
    BY <1>0, <1>1, <2>1 DEF WorkerInv, Engaged
  <2>4. doc[cur] \in Doc
    BY <1>0, <1>5 DEF VarTypes, Stored
  <2>5. snap' = doc'[cur'] /\ snap' # NoDoc /\ doc'[cur'] \in Doc /\ pc' = Plan(snap')
    BY <1>1, <1>2, <1>5, <2>4 DEF Stored
  <2>6. PlanOf(pc') = pc'
    BY <2>1 DEF PlanOf
  <2>7. snap'.gen <= doc'[cur'].gen
    BY <2>5 DEF Doc
  <2>8. WorkerOwnsStatus'
    BY <2>5, <2>6, <2>7 DEF WorkerOwnsStatus, Stored
  <2>. QED
    BY <1>3, <2>2, <2>3, <2>8 DEF Rest
<1>. QED
  BY <1>4, <1>5 DEF ProcessOneLoad, Return, Outcome

LEMMA ExhaustedLoadInv ==
    ASSUME ServiceInv, ExhaustedLoad
    PROVE  Rest'
<1>0. VarTypes /\ pc = "exhaust" /\ cur \in Env /\ item \in WorkItem
  BY DEF ServiceInv, ServiceTypeOK, ExhaustedLoad, WorkerInv
<1>1. UNCHANGED <<inFlight, doc, cluster, cl, rollout, recovering, created, overtaken, budgetVars>>
  BY DEF ExhaustedLoad, queueVars
<1>3. RequestsFit' /\ NoOrphans'
  BY <1>1 DEF ServiceInv, RequestsFit, NoOrphans, Stored
<1>4. CASE NextIteration
  <2>1. VarTypes'
    BY <1>0, <1>1, <1>4 DEF NextIteration, VarTypes, WorkerPC, Outcome, budgetVars
  <2>2. WorkerInv' /\ WorkerOwnsStatus'
    BY <1>4 DEF NextIteration, WorkerInv, WorkerOwnsStatus, Engaged
  <2>. QED
    BY <1>3, <2>1, <2>2 DEF Rest
<1>5. CASE Stored(cur) /\ pc' = "exhaustWrite" /\ snap' = doc[cur] /\ UNCHANGED <<cur, item, out>>
  <2>1. doc[cur] \in Doc
    BY <1>0, <1>5 DEF VarTypes, Stored
  <2>2. VarTypes'
    BY <1>0, <1>1, <1>5, <2>1 DEF VarTypes, WorkerPC, budgetVars
  <2>3. WorkerInv'
    BY <1>0, <1>5 DEF WorkerInv, Engaged
  <2>4. snap' = doc'[cur'] /\ snap' # NoDoc /\ snap'.gen <= doc'[cur'].gen
    BY <1>1, <1>5, <2>1 DEF Stored, Doc
  <2>5. WorkerOwnsStatus'
    BY <1>5, <2>4 DEF WorkerOwnsStatus, Stored
  <2>. QED
    BY <1>3, <2>2, <2>3, <2>5 DEF Rest
<1>. QED
  BY <1>4, <1>5 DEF ExhaustedLoad

---------------------------------------------------------------------------
(* The invariant is preserved: store and cluster under the worker's writes *)

\* What the stores may look like after a step.
StoresInv == doc \in [Env -> Doc \cup {NoDoc}] /\ cluster \in [Env -> Cluster] /\ NoOrphans

LEMMA WriteStatusStores ==
    ASSUME ServiceInv, pc \in Writing, Matches(cur, snap), WriteStatus, UNCHANGED cluster
    PROVE  StoresInv'
<1> DEFINE new == TransitionStatus(doc[cur], StatusToWrite)
<1>0. VarTypes
  BY DEF ServiceInv, ServiceTypeOK
<1>1. cur \in Env /\ doc[cur] \in Doc /\ new \in Doc
  BY WriteStatusAdvances DEF Advances
<1>2. doc' = [doc EXCEPT ![cur] = new]
  BY DEF WriteStatus
<1>3. doc' \in [Env -> Doc \cup {NoDoc}]
  BY <1>0, <1>1, <1>2 DEF VarTypes
<1>4. \A f \in Env : ~Stored(f)' => ~Stored(f)
  BY <1>0, <1>1, <1>2, NoDocAssumption DEF VarTypes, Stored
<1>5. NoOrphans'
  BY <1>4 DEF ServiceInv, NoOrphans
<1>. QED
  BY <1>0, <1>3, <1>5 DEF StoresInv, VarTypes

LEMMA ClusterStores ==
    ASSUME ServiceInv, pc \in Engaged, NEW k \in SpecOf,
           cluster' = [cluster EXCEPT ![cur] = k], UNCHANGED doc
    PROVE  StoresInv'
<1>0. VarTypes
  BY DEF ServiceInv, ServiceTypeOK
<1>1. cur \in Env /\ Stored(cur)
  BY DEF ServiceInv, WorkerInv, WorkerOwnsStatus, Engaged
<1>2. cluster' \in [Env -> Cluster]
  BY <1>0, <1>1 DEF VarTypes, Cluster
<1>3. \A f \in Env : ~Stored(f)' => ~Stored(f) /\ cluster'[f] = cluster[f]
  BY <1>0, <1>1 DEF VarTypes, Stored
<1>4. NoOrphans'
  BY <1>3 DEF ServiceInv, NoOrphans
<1>. QED
  BY <1>0, <1>2, <1>4 DEF StoresInv, VarTypes

LEMMA RemoveStores ==
    ASSUME ServiceInv, pc = "deleted", doc' = [doc EXCEPT ![cur] = NoDoc], UNCHANGED cluster
    PROVE  StoresInv'
<1>0. VarTypes
  BY DEF ServiceInv, ServiceTypeOK
<1>1. cur \in Env /\ cluster[cur] = EmptyCluster
  BY DEF ServiceInv, WorkerInv
<1>2. doc' \in [Env -> Doc \cup {NoDoc}]
  BY <1>0, <1>1 DEF VarTypes
<1>3. \A f \in Env : f # cur => (Stored(f)' <=> Stored(f))
  BY <1>0, <1>1 DEF VarTypes, Stored
<1>4. NoOrphans'
  BY <1>1, <1>3 DEF ServiceInv, NoOrphans
<1>. QED
  BY <1>0, <1>2, <1>4 DEF StoresInv, VarTypes

LEMMA SameStores ==
    ASSUME ServiceInv, UNCHANGED <<doc, cluster>>
    PROVE  StoresInv'
  BY DEF ServiceInv, ServiceTypeOK, VarTypes, StoresInv, NoOrphans, Stored

\* What the worker knows about the environment and the cluster it works on.
LEMMA EngagedTypes ==
    ASSUME ServiceInv, pc \in Engaged
    PROVE  /\ cur \in Env /\ snap \in Doc /\ snap.spec \in SpecOf /\ snap.gen \in 0..MaxGen
           /\ cluster[cur] \in SpecOf
<1>0. VarTypes
  BY DEF ServiceInv, ServiceTypeOK
<1>1. cur \in Env /\ snap \in Doc
  BY <1>0 DEF ServiceInv, WorkerInv, WorkerOwnsStatus, Engaged, VarTypes
<1>2. snap.spec \in Spec /\ snap.gen \in 0..MaxGen
  BY <1>1, BoundAssumption DEF Doc
<1>3. cluster[cur] \in SpecOf
  BY <1>0, <1>1 DEF VarTypes, Cluster
<1>. QED
  BY <1>1, <1>2, <1>3, SpecAssumption

LEMMA PartlyAppliedStores ==
    ASSUME ServiceInv, pc = "apply", NEW k \in PartlyApplied(cluster[cur], snap.spec),
           cluster' = [cluster EXCEPT ![cur] = k], UNCHANGED doc
    PROVE  StoresInv'
<1>1. pc \in Engaged
  BY DEF Engaged
<1>2. k \in SpecOf
  BY <1>1, EngagedTypes, PartlyAppliedType
<1>. QED
  BY <1>1, <1>2, ClusterStores

LEMMA PartlyDeletedStores ==
    ASSUME ServiceInv, pc = "delete", NEW k \in PartlyDeleted(cluster[cur]),
           cluster' = [cluster EXCEPT ![cur] = k], UNCHANGED doc
    PROVE  StoresInv'
<1>1. pc \in Engaged
  BY DEF Engaged
<1>2. k \in SpecOf
  BY <1>1, EngagedTypes, PartlyDeletedType
<1>. QED
  BY <1>1, <1>2, ClusterStores

LEMMA LostWriteStores ==
    ASSUME ServiceInv, LostWrite
    PROVE  StoresInv'
<1>1. CASE UNCHANGED <<doc, cluster>>
  BY <1>1, SameStores
<1>2. CASE pc \in Writing /\ Matches(cur, snap) /\ WriteStatus /\ UNCHANGED cluster
  BY <1>2, WriteStatusStores
<1>3. CASE pc = "deleted" /\ doc' = [doc EXCEPT ![cur] = NoDoc] /\ UNCHANGED cluster
  BY <1>3, RemoveStores
<1>4. CASE /\ pc = "apply" /\ UNCHANGED doc
           /\ \E k \in PartlyApplied(cluster[cur], snap.spec) : cluster' = [cluster EXCEPT ![cur] = k]
  BY <1>4, PartlyAppliedStores
<1>5. CASE /\ pc = "delete" /\ UNCHANGED doc
           /\ \E k \in PartlyDeleted(cluster[cur]) : cluster' = [cluster EXCEPT ![cur] = k]
  BY <1>5, PartlyDeletedStores
<1>. QED
  BY <1>1, <1>2, <1>3, <1>4, <1>5 DEF LostWrite, Writing

---------------------------------------------------------------------------
(* The invariant is preserved: ProcessOne *)

InProcessOne == (Engaged \ {"exhaustWrite"}) \cup {"load"}

\* ProcessOne returns: the worker holds its item in flight and nothing of what
\* it loaded matters any more.
LEMMA ReturnInv ==
    ASSUME ServiceInv, pc \in InProcessOne, pc' = "complete", out' \in Outcome,
           UNCHANGED <<inFlight, cl, cur, item, snap, recovering, created, overtaken, crashes, panics>>,
           rollout' \in Services, faults' \in 0..MaxFaults,
           StoresInv'
    PROVE  Rest'
<1>0. VarTypes
  BY DEF ServiceInv, ServiceTypeOK
<1>1. VarTypes'
  BY <1>0 DEF VarTypes, StoresInv, WorkerPC
<1>2. RequestsFit'
  BY DEF ServiceInv, RequestsFit
<1>3. WorkerInv'
  BY DEF ServiceInv, WorkerInv, InProcessOne, Engaged
<1>4. WorkerOwnsStatus'
  BY DEF WorkerOwnsStatus, Engaged
<1>. QED
  BY <1>1, <1>2, <1>3, <1>4 DEF Rest, StoresInv

LEMMA TransitionInv ==
    ASSUME ServiceInv, pc \in Writing \ {"exhaustWrite"}, NEW ok \in Outcome, Transition(ok)
    PROVE  Rest'
<1>0. VarTypes /\ pc \in InProcessOne
  BY DEF ServiceInv, ServiceTypeOK, Writing, InProcessOne, Engaged
<1>1. pc' = "complete" /\ out' \in Outcome
  BY DEF Transition, Return, Outcome
<1>2. UNCHANGED <<inFlight, cl, cur, item, snap, recovering, created, overtaken, crashes, panics>>
  BY DEF Transition, queueVars, budgetVars
<1>3. rollout' \in Services /\ faults' \in 0..MaxFaults
  BY <1>0 DEF Transition, VarTypes, budgetVars
<1>4. StoresInv'
  <2>1. CASE Matches(cur, snap)
    BY <2>1, WriteStatusStores DEF Transition
  <2>2. CASE ~Matches(cur, snap)
    BY <2>2, SameStores DEF Transition
  <2>. QED
    BY <2>1, <2>2
<1>. QED
  BY <1>0, <1>1, <1>2, <1>3, <1>4, ReturnInv

LEMMA TransitionsInv ==
    ASSUME ServiceInv,
           \/ transitionToReconciling \/ applyAndWait
           \/ markReadyFromRollout \/ markFailedFromRollout \/ retainWaitingRollout
           \/ transitionToDeleting
    PROVE  Rest'
<1>1. {"now", "poll", "stop"} \subseteq Outcome
  BY DEF Outcome
<1>2. CASE transitionToReconciling \/ transitionToDeleting
  BY <1>1, <1>2, TransitionInv DEF transitionToReconciling, transitionToDeleting, Writing
<1>3. CASE applyAndWait
  BY <1>1, <1>3, TransitionInv DEF applyAndWait, Writing
<1>4. CASE markReadyFromRollout \/ markFailedFromRollout
  BY <1>1, <1>4, TransitionInv DEF markReadyFromRollout, markFailedFromRollout, Writing
<1>5. CASE retainWaitingRollout
  <2>1. CASE pc = "checked" /\ Transition("poll")
    BY <1>1, <2>1, TransitionInv DEF Writing
  <2>2. CASE /\ pc = "checked" /\ Return("poll")
             /\ UNCHANGED <<queueVars, doc, cluster, cl, cur, item, snap, rollout, recovering,
                            created, overtaken, budgetVars>>
    <3>0. VarTypes /\ pc \in InProcessOne
      BY <2>2 DEF ServiceInv, ServiceTypeOK, InProcessOne, Engaged
    <3>1. UNCHANGED <<inFlight, cl, cur, item, snap, recovering, created, overtaken, crashes, panics>>
      BY <2>2 DEF queueVars, budgetVars
    <3>2. rollout' \in Services /\ faults' \in 0..MaxFaults
      BY <2>2, <3>0 DEF VarTypes, budgetVars
    <3>3. StoresInv'
      BY <2>2, SameStores
    <3>4. pc' = "complete" /\ out' \in Outcome
      BY <2>2, <1>1 DEF Return
    <3>. QED
      BY <3>0, <3>1, <3>2, <3>3, <3>4, ReturnInv
  <2>. QED
    BY <1>5, <2>1, <2>2 DEF retainWaitingRollout
<1>. QED
  BY <1>2, <1>3, <1>4, <1>5

\* A successful call of the runtime, to whose caller it returns with the
\* document untouched.
LEMMA RuntimeCallInv ==
    ASSUME ServiceInv,
           \/ pc = "apply" /\ pc' = "applied"
           \/ pc = "check" /\ pc' = "checked"
           \/ pc = "delete" /\ pc' = "deleted" /\ cluster' = [cluster EXCEPT ![cur] = EmptyCluster],
           UNCHANGED <<inFlight, doc, cl, cur, item, snap, out, recovering, created, budgetVars>>,
           rollout' \in Services,
           overtaken' \in [Env -> BOOLEAN],
           StoresInv'
    PROVE  Rest'
<1>0. VarTypes /\ pc \in Engaged
  BY DEF ServiceInv, ServiceTypeOK, Engaged
<1>1. VarTypes'
  BY <1>0 DEF VarTypes, StoresInv, WorkerPC, budgetVars
<1>2. RequestsFit'
  BY DEF ServiceInv, RequestsFit
<1>3. WorkerInv'
  <2>1. cur \in Env /\ item \in WorkItem /\ cur \in inFlight
    BY DEF ServiceInv, WorkerInv, Engaged
  <2>2. pc' = "deleted" => cluster'[cur] = EmptyCluster
    BY <1>0, <2>1 DEF VarTypes
  <2>. QED
    BY <2>1, <2>2 DEF WorkerInv
<1>4. WorkerOwnsStatus'
  <2>1. PlanOf(pc') = PlanOf(pc) /\ pc' \in Engaged /\ pc # "exhaustWrite"
    BY DEF PlanOf, Engaged
  <2>. QED
    BY <1>0, <2>1 DEF ServiceInv, WorkerOwnsStatus, Stored
<1>. QED
  BY <1>1, <1>2, <1>3, <1>4 DEF Rest, StoresInv

LEMMA ApplyResourcesInv ==
    ASSUME ServiceInv, ApplyResources
    PROVE  Rest'
<1>0. VarTypes /\ pc \in Engaged
  BY DEF ServiceInv, ServiceTypeOK, ApplyResources, Engaged
<1>1. UNCHANGED <<inFlight, doc, cl, cur, item, snap, out, recovering, created, budgetVars>>
  BY DEF ApplyResources, queueVars
<1>3. rollout' \in Services /\ overtaken' \in [Env -> BOOLEAN]
  BY <1>0 DEF ApplyResources, VarTypes
<1>4. StoresInv'
  BY <1>0, EngagedTypes, ClusterStores DEF ApplyResources
<1>. QED
  BY <1>1, <1>3, <1>4, RuntimeCallInv DEF ApplyResources

LEMMA ApplyResourcesFailsInv ==
    ASSUME ServiceInv, ApplyResourcesFails
    PROVE  Rest'
<1>0. VarTypes /\ pc \in Engaged /\ pc \in InProcessOne
  BY DEF ServiceInv, ServiceTypeOK, ApplyResourcesFails, InProcessOne, Engaged
<1>1. UNCHANGED <<inFlight, cl, cur, item, snap, recovering, created, overtaken, crashes, panics>>
  BY DEF ApplyResourcesFails, queueVars, budgetVars
<1>3. rollout' \in Services /\ faults' \in 0..MaxFaults
  BY <1>0 DEF ApplyResourcesFails, VarTypes, budgetVars
<1>4. StoresInv'
  BY PartlyAppliedStores DEF ApplyResourcesFails
<1>5. pc' = "complete" /\ out' \in Outcome
  BY DEF ApplyResourcesFails, Return, Outcome
<1>. QED
  BY <1>0, <1>1, <1>3, <1>4, <1>5, ReturnInv

LEMMA CheckRolloutInv ==
    ASSUME ServiceInv, CheckRollout
    PROVE  Rest'
<1>0. VarTypes /\ pc = "check" /\ pc \in Engaged /\ pc \in InProcessOne
  BY DEF ServiceInv, ServiceTypeOK, CheckRollout, InProcessOne, Engaged
<1>1. UNCHANGED <<inFlight, doc, cluster, cl, cur, item, snap, recovering, created, overtaken, budgetVars>>
  BY DEF CheckRollout, queueVars
<1>3. StoresInv'
  BY <1>1, SameStores
<1>4. overtaken' \in [Env -> BOOLEAN] /\ faults' \in 0..MaxFaults
  BY <1>0, <1>1 DEF VarTypes, budgetVars
<1>5. CASE DOMAIN snap.spec \subseteq DOMAIN cluster[cur]
  <2>1. PICK S \in [DOMAIN snap.spec -> {"ready", "waiting", "failed"}] : rollout' = S
    BY <1>5 DEF CheckRollout
  <2>2. DOMAIN snap.spec \in SUBSET Workload
    BY <1>0, EngagedTypes, SpecElim
  <2>3. S \in [DOMAIN snap.spec -> ServiceStates]
    BY <2>1 DEF ServiceStates
  <2>4. rollout' \in Services
    BY <2>1, <2>2, <2>3, ServicesIntro
  <2>5. pc' = "checked" /\ UNCHANGED out
    BY <1>5 DEF CheckRollout
  <2>. QED
    BY <1>0, <1>1, <1>3, <1>4, <2>4, <2>5, RuntimeCallInv
<1>6. CASE ~(DOMAIN snap.spec \subseteq DOMAIN cluster[cur])
  <2>1. pc' = "complete" /\ out' \in Outcome /\ rollout' \in Services
    BY <1>0, <1>6 DEF CheckRollout, Return, Outcome, VarTypes
  <2>2. UNCHANGED <<crashes, panics>>
    BY <1>1 DEF budgetVars
  <2>. QED
    BY <1>0, <1>1, <1>3, <1>4, <2>1, <2>2, ReturnInv
<1>. QED
  BY <1>5, <1>6

LEMMA EmptyClusterType == EmptyCluster \in SpecOf
<1>1. EmptyCluster \in [{} -> Version]
  BY DEF EmptyCluster
<1>. QED
  BY <1>1, SpecIntro

LEMMA RuntimeDeleteInv ==
    ASSUME ServiceInv, RuntimeDelete
    PROVE  Rest'
<1>0. VarTypes /\ pc \in Engaged
  BY DEF ServiceInv, ServiceTypeOK, RuntimeDelete, Engaged
<1>1. UNCHANGED <<inFlight, doc, cl, cur, item, snap, out, recovering, created, budgetVars>>
  BY DEF RuntimeDelete, queueVars
<1>2. /\ rollout' \in Services
      /\ overtaken' \in [Env -> BOOLEAN]
  BY <1>0 DEF RuntimeDelete, VarTypes
<1>3. StoresInv'
  BY <1>0, EmptyClusterType, ClusterStores DEF RuntimeDelete
<1>. QED
  BY <1>1, <1>2, <1>3, RuntimeCallInv DEF RuntimeDelete

LEMMA RuntimeDeleteFailsInv ==
    ASSUME ServiceInv, RuntimeDeleteFails
    PROVE  Rest'
<1>0. VarTypes /\ pc \in InProcessOne
  BY DEF ServiceInv, ServiceTypeOK, RuntimeDeleteFails, InProcessOne, Engaged
<1>1. UNCHANGED <<inFlight, cl, cur, item, snap, recovering, created, overtaken, crashes, panics>>
  BY DEF RuntimeDeleteFails, queueVars, budgetVars
<1>2. rollout' \in Services /\ faults' \in 0..MaxFaults
  BY <1>0 DEF RuntimeDeleteFails, VarTypes, budgetVars
<1>3. StoresInv'
  BY PartlyDeletedStores DEF RuntimeDeleteFails
<1>4. pc' = "complete" /\ out' \in Outcome
  BY DEF RuntimeDeleteFails, Return, Outcome
<1>. QED
  BY <1>0, <1>1, <1>2, <1>3, <1>4, ReturnInv

LEMMA deleteAbsentInv ==
    ASSUME ServiceInv, deleteAbsent
    PROVE  Rest'
<1>0. VarTypes /\ pc \in InProcessOne
  BY DEF ServiceInv, ServiceTypeOK, deleteAbsent, InProcessOne, Engaged
<1>1. UNCHANGED <<inFlight, cl, cur, item, snap, recovering, created, overtaken, crashes, panics>>
  BY DEF deleteAbsent, queueVars, budgetVars
<1>2. rollout' \in Services /\ faults' \in 0..MaxFaults
  BY <1>0 DEF deleteAbsent, VarTypes, budgetVars
<1>3. StoresInv'
  BY RemoveStores DEF deleteAbsent
<1>4. pc' = "complete" /\ out' \in Outcome
  BY DEF deleteAbsent, Return, Outcome
<1>. QED
  BY <1>0, <1>1, <1>2, <1>3, <1>4, ReturnInv

LEMMA ProcessOneFaultInv ==
    ASSUME ServiceInv, ProcessOneFault
    PROVE  Rest'
<1>0. VarTypes /\ pc \in InProcessOne
  BY DEF ServiceInv, ServiceTypeOK, ProcessOneFault, InProcessOne, Engaged
<1>1. UNCHANGED <<inFlight, cl, cur, item, snap, recovering, created, overtaken, crashes, panics>>
  BY DEF ProcessOneFault, queueVars
<1>2. rollout' \in Services
  BY <1>0 DEF ProcessOneFault, VarTypes
<1>3. faults' \in 0..MaxFaults
  BY <1>0, BoundAssumption DEF ProcessOneFault, VarTypes
<1>5. StoresInv'
  BY LostWriteStores DEF ProcessOneFault
<1>6. pc' = "complete" /\ out' \in Outcome
  BY DEF ProcessOneFault, Return, Outcome
<1>. QED
  BY <1>0, <1>1, <1>2, <1>3, <1>5, <1>6, ReturnInv

---------------------------------------------------------------------------
(* The invariant is preserved: the worker loop, recovery and restarts *)

\* The worker holds nothing afterwards.
LEMMA HoldsNothingInv ==
    ASSUME ServiceInv, pc' \in {"build", "recover", "idle"},
           cur' \in Env \cup {NoEnv}, item' \in WorkItem \cup {NoItem},
           snap' \in Doc \cup {NoDoc}, rollout' \in Services, out' \in Outcome,
           recovering' \in SUBSET Env,
           UNCHANGED <<created, overtaken>>,
           faults' \in 0..MaxFaults, crashes' \in 0..MaxCrashes, panics' \in 0..MaxPanics,
           UNCHANGED cl \/ cl' = [c \in Client |-> Idle],
           StoresInv'
    PROVE  Rest'
<1>0. VarTypes
  BY DEF ServiceInv, ServiceTypeOK
<1>1. cl' \in [Client -> Request \cup {Idle}]
  BY <1>0 DEF VarTypes
<1>2. VarTypes'
  BY <1>0, <1>1 DEF VarTypes, StoresInv, WorkerPC
<1>3. RequestsFit'
  BY DEF ServiceInv, RequestsFit
<1>4. WorkerInv'
  BY DEF WorkerInv, Engaged
<1>5. WorkerOwnsStatus'
  BY DEF WorkerOwnsStatus, Engaged
<1>. QED
  BY <1>2, <1>3, <1>4, <1>5 DEF Rest, StoresInv

\* The end of an iteration.
LEMMA NextIterationInv ==
    ASSUME ServiceInv, NextIteration,
           UNCHANGED <<cl, rollout, recovering, created, overtaken, crashes, panics>>,
           faults' \in 0..MaxFaults, StoresInv'
    PROVE  Rest'
<1>0. VarTypes
  BY DEF ServiceInv, ServiceTypeOK
<1>1. /\ pc' \in {"build", "recover", "idle"}
      /\ cur' \in Env \cup {NoEnv} /\ item' \in WorkItem \cup {NoItem}
      /\ snap' \in Doc \cup {NoDoc} /\ out' \in Outcome
  BY DEF NextIteration, Outcome
<1>2. /\ rollout' \in Services /\ recovering' \in SUBSET Env
      /\ crashes' \in 0..MaxCrashes /\ panics' \in 0..MaxPanics
  BY <1>0 DEF VarTypes
<1>. QED
  BY <1>1, <1>2, HoldsNothingInv

LEMMA WorkerCompleteInv ==
    ASSUME ServiceInv, WorkerComplete
    PROVE  Rest'
<1>0. VarTypes /\ pc = "complete" /\ cur \in Env /\ item \in WorkItem
  BY DEF ServiceInv, ServiceTypeOK, WorkerComplete, WorkerInv
<1>1. UNCHANGED <<doc, cluster, cl, recovering, created, overtaken, budgetVars>>
  BY DEF WorkerComplete
<1>2. StoresInv'
  BY <1>1, SameStores
<1>3. snap' \in Doc \cup {NoDoc} /\ rollout' \in Services
  BY NoServicesType DEF WorkerComplete
<1>4. CASE out \in {"stop", "dropped"}
  <2>1. pc' = "idle"
    BY <1>4 DEF WorkerComplete
  <2>2. cur' = NoEnv /\ item' = NoItem /\ out' = "none"
    BY <2>1 DEF WorkerComplete
  <2>3. "none" \in Outcome
    BY DEF Outcome
  <2>4. /\ recovering' \in SUBSET Env /\ faults' \in 0..MaxFaults
        /\ crashes' \in 0..MaxCrashes /\ panics' \in 0..MaxPanics
    BY <1>0, <1>1 DEF VarTypes, budgetVars
  <2>. QED
    BY <1>1, <1>2, <1>3, <2>1, <2>2, <2>3, <2>4, HoldsNothingInv
<1>5. CASE out \notin {"stop", "dropped"}
  <2>1. pc' \in {"requeue", "exhaust", "retry"} /\ (pc' = "retry" => ~(item.retry >= MaxRetries))
    <3>1. CASE out \in {"now", "soon", "poll"}
      BY <1>5, <3>1 DEF WorkerComplete
    <3>2. CASE out \notin {"now", "soon", "poll"}
      <4>1. pc' = IF item.retry >= MaxRetries THEN "exhaust" ELSE "retry"
        BY <1>5, <3>2 DEF WorkerComplete
      <4>. QED
        BY <4>1
    <3>. QED
      BY <3>1, <3>2
  <2>2. UNCHANGED <<cur, item, out>>
    BY <2>1 DEF WorkerComplete
  <2>3. item.retry \in Nat /\ MaxRetries \in Nat
    BY <1>0, MaxRetriesAssumption DEF WorkItem
  <2>4. pc' = "retry" => item.retry < MaxRetries
    BY <2>1, <2>3
  <2>5. VarTypes'
    BY <1>0, <1>1, <1>2, <1>3, <2>1, <2>2 DEF VarTypes, StoresInv, WorkerPC, budgetVars
  <2>6. RequestsFit'
    BY <1>1 DEF ServiceInv, RequestsFit
  <2>7. WorkerInv'
    BY <1>0, <2>1, <2>2, <2>4 DEF WorkerInv, Engaged
  <2>8. WorkerOwnsStatus'
    BY <2>1 DEF WorkerOwnsStatus, Engaged
  <2>. QED
    BY <1>2, <2>5, <2>6, <2>7, <2>8 DEF Rest, StoresInv
<1>. QED
  BY <1>4, <1>5

LEMMA RequeueInv ==
    ASSUME ServiceInv, maybeRequeue \/ scheduleRetry
    PROVE  Rest'
<1>0. VarTypes
  BY DEF ServiceInv, ServiceTypeOK
<1>1. /\ NextIteration
      /\ UNCHANGED <<doc, cluster, cl, rollout, recovering, created, overtaken, budgetVars>>
  BY DEF maybeRequeue, scheduleRetry
<1>2. faults' \in 0..MaxFaults /\ UNCHANGED <<crashes, panics>>
  BY <1>0, <1>1 DEF VarTypes, budgetVars
<1>3. StoresInv'
  BY <1>1, SameStores
<1>. QED
  BY <1>1, <1>2, <1>3, NextIterationInv

LEMMA MarkRetryExhaustedInv ==
    ASSUME ServiceInv, MarkRetryExhausted
    PROVE  Rest'
<1>0. VarTypes /\ pc = "exhaustWrite" /\ pc \in Writing /\ cur \in Env /\ item \in WorkItem
  BY DEF ServiceInv, ServiceTypeOK, MarkRetryExhausted, Writing, WorkerInv
<1>1. UNCHANGED <<cluster, cl, rollout, recovering, created, overtaken, budgetVars>>
  BY DEF MarkRetryExhausted
<1>2. faults' \in 0..MaxFaults /\ UNCHANGED <<crashes, panics>>
  BY <1>0, <1>1 DEF VarTypes, budgetVars
<1>3. StoresInv'
  <2>1. CASE Matches(cur, snap)
    BY <1>0, <1>1, <2>1, WriteStatusStores DEF MarkRetryExhausted
  <2>2. CASE ~Matches(cur, snap)
    BY <1>1, <2>2, SameStores DEF MarkRetryExhausted
  <2>. QED
    BY <2>1, <2>2
<1>4. CASE NextIteration
  BY <1>1, <1>2, <1>3, <1>4, NextIterationInv
<1>5. CASE pc' = "requeue" /\ out' = "soon" /\ snap' = NoDoc /\ UNCHANGED <<cur, item>>
  <2>1. VarTypes'
    BY <1>0, <1>1, <1>2, <1>3, <1>5 DEF VarTypes, StoresInv, WorkerPC, Outcome
  <2>2. RequestsFit'
    BY <1>1 DEF ServiceInv, RequestsFit
  <2>3. WorkerInv' /\ WorkerOwnsStatus'
    BY <1>0, <1>5 DEF WorkerInv, WorkerOwnsStatus, Engaged
  <2>. QED
    BY <1>3, <2>1, <2>2, <2>3 DEF Rest, StoresInv
<1>. QED
  BY <1>4, <1>5 DEF MarkRetryExhausted

LEMMA ExhaustedFaultInv ==
    ASSUME ServiceInv, ExhaustedFault
    PROVE  Rest'
<1>0. VarTypes
  BY DEF ServiceInv, ServiceTypeOK
<1>1. /\ NextIteration
      /\ UNCHANGED <<cl, rollout, recovering, created, overtaken, crashes, panics>>
  BY DEF ExhaustedFault
<1>2. faults' \in 0..MaxFaults
  BY <1>0, BoundAssumption DEF ExhaustedFault, VarTypes
<1>3. StoresInv'
  BY LostWriteStores DEF ExhaustedFault
<1>. QED
  BY <1>1, <1>2, <1>3, NextIterationInv

LEMMA RecoverInv ==
    ASSUME ServiceInv,
           RecoverList \/ WorkerStart \/ \E e \in Env : RecoverEnqueue(e)
    PROVE  Rest'
<1>0. VarTypes
  BY DEF ServiceInv, ServiceTypeOK
<1>1. UNCHANGED <<doc, cluster, cl, cur, item, snap, rollout, out, created, overtaken, budgetVars>>
  BY DEF RecoverList, WorkerStart, RecoverEnqueue
<1>2. pc' \in {"build", "recover", "idle"} /\ recovering' \in SUBSET Env
  <2>1. CASE RecoverList
    BY <2>1 DEF RecoverList, ListNeedingReconcile
  <2>2. CASE WorkerStart
    BY <1>0, <2>2 DEF WorkerStart, VarTypes
  <2>3. ASSUME NEW e \in Env, RecoverEnqueue(e)
        PROVE  pc' \in {"build", "recover", "idle"} /\ recovering' \in SUBSET Env
    BY <1>0, <2>3 DEF RecoverEnqueue, VarTypes
  <2>. QED
    BY <2>1, <2>2, <2>3
<1>3. StoresInv'
  BY <1>1, SameStores
<1>4. /\ cur' \in Env \cup {NoEnv} /\ item' \in WorkItem \cup {NoItem}
      /\ snap' \in Doc \cup {NoDoc} /\ rollout' \in Services /\ out' \in Outcome
      /\ faults' \in 0..MaxFaults /\ crashes' \in 0..MaxCrashes /\ panics' \in 0..MaxPanics
  BY <1>0, <1>1 DEF VarTypes, budgetVars
<1>. QED
  BY <1>1, <1>2, <1>3, <1>4, HoldsNothingInv

LEMMA RestartInv ==
    ASSUME ServiceInv, WorkerPanic \/ Crash
    PROVE  Rest'
<1>0. VarTypes
  BY DEF ServiceInv, ServiceTypeOK
<1>1. /\ pc' \in {"build", "recover", "idle"}
      /\ cur' \in Env \cup {NoEnv} /\ item' \in WorkItem \cup {NoItem}
      /\ snap' \in Doc \cup {NoDoc} /\ rollout' \in Services /\ out' \in Outcome
      /\ recovering' \in SUBSET Env
  BY NoServicesType DEF WorkerPanic, Crash, WorkerReset, Outcome
<1>2. UNCHANGED <<doc, cluster, created, overtaken>>
  BY DEF WorkerPanic, Crash
<1>3. faults' \in 0..MaxFaults /\ crashes' \in 0..MaxCrashes /\ panics' \in 0..MaxPanics
  BY <1>0, BoundAssumption DEF WorkerPanic, Crash, VarTypes
<1>4. UNCHANGED cl \/ cl' = [c \in Client |-> Idle]
  BY DEF WorkerPanic, Crash
<1>5. StoresInv'
  BY <1>2, SameStores
<1>. QED
  BY <1>1, <1>2, <1>3, <1>4, <1>5, HoldsNothingInv

\* A goroutine of the queue, or no step at all.
LEMMA FrameInv ==
    ASSUME ServiceInv, inFlight' = inFlight,
           UNCHANGED <<doc, cluster, cl, workerVars, created, overtaken, budgetVars>>
    PROVE  Rest'
<1>1. VarTypes'
  BY DEF ServiceInv, ServiceTypeOK, VarTypes, workerVars, budgetVars
<1>2. RequestsFit'
  BY DEF ServiceInv, RequestsFit
<1>. QED
  BY <1>1, <1>2, WorkerFrame DEF Rest

---------------------------------------------------------------------------
(* The inductive invariant, and the safety of the service *)

LEMMA InitInv == Init => ServiceInv
<1>. SUFFICES ASSUME Init PROVE ServiceInv
  OBVIOUS
<1>1. QueueInv
  BY NewQueueInv DEF Init
<1>2. TypeOK
  BY <1>1 DEF QueueInv
<1>3. VarTypes
  <2>1. doc \in [Env -> Doc \cup {NoDoc}]
    BY DEF Init
  <2>2. cluster \in [Env -> Cluster]
    BY EmptyClusterType DEF Init, Cluster
  <2>3. cl \in [Client -> Request \cup {Idle}]
    BY DEF Init
  <2>4. pc \in WorkerPC /\ out \in Outcome /\ rollout \in Services
    BY NoServicesType DEF Init, WorkerPC, Outcome
  <2>5. /\ cur \in Env \cup {NoEnv} /\ item \in WorkItem \cup {NoItem}
        /\ snap \in Doc \cup {NoDoc} /\ recovering \in SUBSET Env
    BY DEF Init
  <2>6. /\ created \in [Env -> 0..MaxCreations]
        /\ overtaken \in [Env -> BOOLEAN]
    BY BoundAssumption DEF Init
  <2>7. faults \in 0..MaxFaults /\ crashes \in 0..MaxCrashes /\ panics \in 0..MaxPanics
    BY BoundAssumption DEF Init
  <2>. QED
    BY <2>1, <2>2, <2>3, <2>4, <2>5, <2>6, <2>7 DEF VarTypes
<1>4. RequestsFit
  BY DEF Init, RequestsFit
<1>5. WorkerInv /\ WorkerOwnsStatus
  BY DEF Init, WorkerInv, WorkerOwnsStatus, Engaged
<1>6. NoOrphans
  BY DEF Init, NoOrphans
<1>. QED
  BY <1>1, <1>2, <1>3, <1>4, <1>5, <1>6 DEF ServiceInv, ServiceTypeOK

LEMMA NextInv == ServiceInv /\ [Next]_vars => ServiceInv'
<1>. SUFFICES ASSUME ServiceInv, [Next]_vars PROVE ServiceInv'
  OBVIOUS
<1>1. QueueInv'
  BY QueuePart
<1>2. Rest'
  <2>1. ASSUME NEW c \in Client, ClientStep(c) PROVE Rest'
    <3>1. ASSUME NEW e \in Env, NEW s \in Spec, BeginCreate(c, e, s) \/ BeginUpdate(c, e, s)
          PROVE  Rest'
      BY <3>1, BeginInv
    <3>2. ASSUME NEW e \in Env, BeginDelete(c, e) PROVE Rest'
      BY <3>2, BeginDeleteInv
    <3>3. CASE CommandWrite(c)
      BY <3>3, CommandWriteInv
    <3>4. CASE CommandEnqueue(c)
      BY <3>4, CommandEnqueueInv
    <3>. QED
      BY <2>1, <3>1, <3>2, <3>3, <3>4 DEF ClientStep
  <2>2. CASE ReconcileStep
    BY <2>2, ProcessOneLoadInv, TransitionsInv, ApplyResourcesInv, ApplyResourcesFailsInv,
       CheckRolloutInv, RuntimeDeleteInv, RuntimeDeleteFailsInv, deleteAbsentInv,
       ExhaustedLoadInv, MarkRetryExhaustedInv DEF ReconcileStep
  <2>3. CASE WorkerStep
    BY <2>2, <2>3, WorkerDequeueInv, WorkerCompleteInv, RequeueInv, RecoverInv DEF WorkerStep
  <2>4. ASSUME NEW e \in Env, QueueGoroutine(e) PROVE Rest'
    <3>1. inFlight' = inFlight
      BY <2>4 DEF QueueGoroutine, SendToken, TimerFires, enqueueNow
    <3>. QED
      BY <2>4, <3>1, FrameInv DEF QueueGoroutine
  <2>5. CASE FaultStep
    BY <2>5, CommandWriteInv, ProcessOneFaultInv, ExhaustedFaultInv, RestartInv DEF FaultStep
  <2>6. CASE UNCHANGED vars
    <3>1. inFlight' = inFlight
      BY <2>6 DEF vars, queueVars
    <3>. QED
      BY <2>6, <3>1, FrameInv DEF vars
  <2>. QED
    BY <2>1, <2>3, <2>4, <2>5, <2>6 DEF Next
<1>. QED
  BY <1>1, <1>2 DEF ServiceInv, ServiceTypeOK, Rest, QueueInv

\* The service keeps its variables within their types and uses its queue well:
\* whatever clients, worker, timers, faults, panics and exits do, an environment
\* is announced once per queued item and never processed and queued at a time.
THEOREM ServiceSafety == ServiceSpec => [](ServiceTypeOK /\ QueueInv)
<1>1. ServiceInv => ServiceTypeOK /\ QueueInv
  BY DEF ServiceInv
<1>. QED
  BY <1>1, InitInv, NextInv, PTL DEF ServiceSpec

\* From its load to its last write the worker alone changes the status of the
\* document it works on, and nobody removes or replaces the document: the checks
\* of TransitionStatus can only ever fail on the generation.
THEOREM StatusOwnership == ServiceSpec => []WorkerOwnsStatus
<1>1. ServiceInv => WorkerOwnsStatus
  BY DEF ServiceInv
<1>. QED
  BY <1>1, InitInv, NextInv, PTL DEF ServiceSpec

\* An environment without a document has no workloads in the cluster, through
\* any sequence of applies, failed deletes, crashes and recreations.
THEOREM NothingOrphaned == ServiceSpec => []NoOrphans
<1>1. ServiceInv => NoOrphans
  BY DEF ServiceInv
<1>. QED
  BY <1>1, InitInv, NextInv, PTL DEF ServiceSpec

---------------------------------------------------------------------------
(* The stored documents, seen alone *)

\* What a step may do to the document of e.
Replaced(e, d) == doc' = [doc EXCEPT ![e] = d]

DocCreated(e) == ~Stored(e) /\ \E s \in Spec : Replaced(e, NewEnvironment(s))

DocUpdated(e) ==
    /\ Stored(e)
    /\ \E d \in Doc :
         /\ d.gen = doc[e].gen + 1 /\ d.state = doc[e].state /\ d.observed = doc[e].observed
         /\ Replaced(e, d)

DocAdvanced(e) == Stored(e) /\ \E d \in Doc : Advances(doc[e], d) /\ Replaced(e, d)

DocRemoved(e) == Stored(e) /\ doc[e].state = "Deleting" /\ Replaced(e, NoDoc)

DocStep(e) == DocCreated(e) \/ DocUpdated(e) \/ DocAdvanced(e) \/ DocRemoved(e)

LEMMA StoreWriteDocStep ==
    ASSUME ServiceInv, NEW c \in Client, cl[c].at = "write", Accepted(cl[c]), StoreWrite(cl[c])
    PROVE  \E e \in Env : DocStep(e)
<1> DEFINE r == cl[c]
           e == cl[c].env
<1>0. VarTypes /\ RequestsFit
  BY DEF ServiceInv, ServiceTypeOK
<1>1. r \in Request /\ r # Idle
  BY <1>0 DEF VarTypes, Request, Idle
<1>2. e \in Env /\ r.spec \in Spec /\ r.gen \in 0..MaxGen
  BY <1>1 DEF Request
<1>3. CASE r.op = "Create"
  BY <1>2, <1>3 DEF Accepted, StoreWrite, DocStep, DocCreated, Replaced
<1>4. CASE r.op # "Create"
  <2> DEFINE d == UpdateDesired(doc[e], r)
  <2>1. Stored(e) /\ doc[e].gen = r.gen /\ r.gen < MaxGen
    BY <1>0, <1>1, <1>4 DEF Accepted, RequestsFit
  <2>2. doc[e] \in Doc
    BY <1>0, <1>2, <2>1 DEF VarTypes, Stored
  <2>3. doc[e].gen + 1 \in 1..MaxGen
    BY <2>1, <2>2, BoundAssumption DEF Doc
  <2>4. /\ d \in Doc
        /\ d.gen = doc[e].gen + 1 /\ d.state = doc[e].state /\ d.observed = doc[e].observed
    <3>1. CASE r.op = "Delete"
      <4>1. d = [doc[e] EXCEPT !.gen = doc[e].gen + 1, !.desired = "Absent", !.spec = doc[e].spec]
        BY <3>1 DEF UpdateDesired
      <4>. QED
        BY <2>2, <2>3, <4>1 DEF Doc, Desired
    <3>2. CASE r.op # "Delete"
      <4>1. d = [doc[e] EXCEPT !.gen = doc[e].gen + 1, !.desired = "Present", !.spec = r.spec]
        BY <3>2 DEF UpdateDesired
      <4>. QED
        BY <1>2, <2>2, <2>3, <4>1 DEF Doc, Desired
    <3>. QED
      BY <3>1, <3>2
  <2>5. Replaced(e, d)
    BY <1>4 DEF StoreWrite, Replaced
  <2>6. DocUpdated(e)
    BY <2>1, <2>4, <2>5 DEF DocUpdated
  <2>. QED
    BY <1>2, <2>6 DEF DocStep
<1>. QED
  BY <1>3, <1>4

LEMMA WriteStatusDocStep ==
    ASSUME ServiceInv, pc \in Writing, Matches(cur, snap), WriteStatus
    PROVE  \E e \in Env : DocStep(e)
<1> DEFINE d == TransitionStatus(doc[cur], StatusToWrite)
<1>1. cur \in Env /\ Advances(doc[cur], d)
  BY WriteStatusAdvances
<1>2. d \in Doc /\ Stored(cur) /\ Replaced(cur, d)
  BY <1>1 DEF Advances, Matches, WriteStatus, Replaced
<1>3. DocAdvanced(cur)
  BY <1>1, <1>2 DEF DocAdvanced
<1>. QED
  BY <1>1, <1>3 DEF DocStep

LEMMA RemoveDocStep ==
    ASSUME ServiceInv, pc = "deleted", doc' = [doc EXCEPT ![cur] = NoDoc]
    PROVE  \E e \in Env : DocStep(e)
<1>1. /\ cur \in Env /\ Stored(cur) /\ snap \in Doc
      /\ doc[cur].state = snap.state /\ Plan(snap) = PlanOf(pc)
  BY EngagedTypes DEF ServiceInv, WorkerInv, WorkerOwnsStatus, Engaged
<1>2. Plan(snap) = "delete"
  BY <1>1 DEF PlanOf
<1>3. snap.desired \in Desired /\ snap.state \in States
  BY <1>1 DEF Doc
<1>4. snap.state = "Deleting"
  BY <1>2, <1>3 DEF Plan, Desired, States
<1>. QED
  BY <1>1, <1>4 DEF DocStep, DocRemoved, Replaced

LEMMA LostWriteDocStep ==
    ASSUME ServiceInv, LostWrite
    PROVE  UNCHANGED doc \/ \E e \in Env : DocStep(e)
<1>1. CASE pc \in Writing /\ Matches(cur, snap) /\ WriteStatus
  BY <1>1, WriteStatusDocStep
<1>2. CASE pc = "deleted" /\ doc' = [doc EXCEPT ![cur] = NoDoc]
  BY <1>2, RemoveDocStep
<1>3. CASE UNCHANGED doc
  BY <1>3
<1>. QED
  BY <1>1, <1>2, <1>3 DEF LostWrite, Writing

\* Every step of the service changes at most one document, in one of four ways.
LEMMA DocSteps ==
    ASSUME ServiceInv, [Next]_vars
    PROVE  UNCHANGED doc \/ \E e \in Env : DocStep(e)
<1> DEFINE Goal == UNCHANGED doc \/ \E e \in Env : DocStep(e)
<1>1. ASSUME NEW c \in Client, ClientStep(c) PROVE Goal
  <2>1. CASE CommandWrite(c)
    BY <2>1, StoreWriteDocStep DEF CommandWrite
  <2>2. ASSUME NEW e \in Env, NEW s \in Spec, BeginCreate(c, e, s) \/ BeginUpdate(c, e, s)
        PROVE  Goal
    BY <2>2 DEF BeginCreate, BeginUpdate
  <2>3. ASSUME NEW e \in Env, BeginDelete(c, e) PROVE Goal
    BY <2>3 DEF BeginDelete
  <2>4. CASE CommandEnqueue(c)
    BY <2>4 DEF CommandEnqueue
  <2>. QED
    BY <1>1, <2>1, <2>2, <2>3, <2>4 DEF ClientStep
<1>2. ASSUME pc \in Writing, NEW ok, Transition(ok) PROVE Goal
  BY <1>2, WriteStatusDocStep DEF Transition
<1>3. CASE \/ transitionToReconciling \/ applyAndWait \/ transitionToDeleting
           \/ markReadyFromRollout \/ markFailedFromRollout \/ retainWaitingRollout
  BY <1>2, <1>3 DEF transitionToReconciling, applyAndWait, transitionToDeleting,
     markReadyFromRollout, markFailedFromRollout, retainWaitingRollout, Writing
<1>4. CASE \/ ProcessOneLoad \/ ApplyResources \/ ApplyResourcesFails \/ CheckRollout
           \/ RuntimeDelete \/ RuntimeDeleteFails \/ ExhaustedLoad
  BY <1>4 DEF ProcessOneLoad, ApplyResources, ApplyResourcesFails, CheckRollout,
     RuntimeDelete, RuntimeDeleteFails, ExhaustedLoad
<1>5. CASE deleteAbsent
  BY <1>5, RemoveDocStep DEF deleteAbsent
<1>6. CASE MarkRetryExhausted
  BY <1>6, WriteStatusDocStep DEF MarkRetryExhausted, Writing
<1>7. CASE WorkerStep
  <2>1. CASE ReconcileStep
    BY <1>3, <1>4, <1>5, <1>6, <2>1 DEF ReconcileStep
  <2>2. CASE ~ReconcileStep
    BY <1>7, <2>2 DEF WorkerStep, WorkerDequeue, WorkerComplete, maybeRequeue, scheduleRetry,
       RecoverList, RecoverEnqueue, WorkerStart
  <2>. QED
    BY <2>1, <2>2
<1>8. ASSUME NEW e \in Env, QueueGoroutine(e) PROVE Goal
  BY <1>8 DEF QueueGoroutine
<1>9. CASE FaultStep
  <2>1. ASSUME NEW c \in Client, CommandWriteFault(c) PROVE Goal
    BY <2>1, StoreWriteDocStep DEF CommandWriteFault
  <2>2. CASE ProcessOneFault \/ ExhaustedFault
    BY <2>2, LostWriteDocStep DEF ProcessOneFault, ExhaustedFault
  <2>3. CASE WorkerPanic \/ Crash
    BY <2>3 DEF WorkerPanic, Crash
  <2>. QED
    BY <1>9, <2>1, <2>2, <2>3 DEF FaultStep
<1>10. CASE UNCHANGED vars
  BY <1>10 DEF vars
<1>. QED
  BY <1>1, <1>7, <1>8, <1>9, <1>10 DEF Next

---------------------------------------------------------------------------
(* The service implements the lifecycle *)

LEMMA ViewOf ==
    ASSUME NEW d \in Doc
    PROVE  /\ View(d) = [gen |-> d.gen, desired |-> d.desired, state |-> d.state, observed |-> d.observed]
           /\ View(d) # NoDoc
<1>1. View(d) = [gen |-> d.gen, desired |-> d.desired, state |-> d.state, observed |-> d.observed]
  BY NoDocAssumption DEF View
<1>2. View(d) \in DocView
  BY <1>1 DEF Doc, DocView
<1>. QED
  BY <1>1, <1>2, NoDocAssumption

View0 == [e \in Env |-> View(doc[e])]

\* Replacing the document of e replaces its view, and no other.
LEMMA ViewReplaced ==
    ASSUME ServiceInv, NEW e \in Env, NEW d, Replaced(e, d)
    PROVE  View0' = [View0 EXCEPT ![e] = View(d)]
<1>1. DOMAIN doc = Env
  BY DEF ServiceInv, ServiceTypeOK, VarTypes
<1>2. \A f \in Env : doc'[f] = IF f = e THEN d ELSE doc[f]
  BY <1>1 DEF Replaced
<1>. QED
  BY <1>2 DEF View0

LEMMA DocStepIsLifecycle ==
    ASSUME ServiceInv, NEW e \in Env, DocStep(e)
    PROVE  Lifecycle!LifecycleNext
<1>0. doc[e] \in Doc \cup {NoDoc}
  BY DEF ServiceInv, ServiceTypeOK, VarTypes
<1>1. View0[e] = View(doc[e]) /\ View(NoDoc) = NoDoc
  BY DEF View0, View
<1>2. CASE DocCreated(e)
  <2>1. PICK s \in Spec : Replaced(e, NewEnvironment(s))
    BY <1>2 DEF DocCreated
  <2>2. NewEnvironment(s) \in Doc
    BY NoServicesType, BoundAssumption DEF NewEnvironment, Doc, States, Desired
  <2>3. View(NewEnvironment(s)) = Lifecycle!Initial
    BY <2>2, ViewOf DEF NewEnvironment, Lifecycle!Initial
  <2>4. View0[e] = NoDoc
    BY <1>1, <1>2 DEF DocCreated, Stored
  <2>5. View0' = [View0 EXCEPT ![e] = Lifecycle!Initial]
    BY <2>1, <2>3, ViewReplaced
  <2>6. Lifecycle!Create(e)
    BY <2>4, <2>5 DEF Lifecycle!Create, View0
  <2>. QED
    BY <2>6 DEF Lifecycle!LifecycleNext
<1>3. CASE DocUpdated(e)
  <2>1. PICK d \in Doc :
           /\ d.gen = doc[e].gen + 1 /\ d.state = doc[e].state /\ d.observed = doc[e].observed
           /\ Replaced(e, d)
    BY <1>3 DEF DocUpdated
  <2>2. doc[e] \in Doc
    BY <1>0, <1>3 DEF DocUpdated, Stored
  <2>3. /\ View(doc[e]) # NoDoc
        /\ View(doc[e]) = [gen |-> doc[e].gen, desired |-> doc[e].desired,
                           state |-> doc[e].state, observed |-> doc[e].observed]
        /\ View(d) = [gen |-> d.gen, desired |-> d.desired, state |-> d.state, observed |-> d.observed]
    BY <2>2, ViewOf
  <2>4. View(d) = [gen |-> View0[e].gen + 1, desired |-> d.desired,
                   state |-> View0[e].state, observed |-> View0[e].observed]
    BY <1>1, <2>1, <2>3
  <2>5. d.desired \in {"Present", "Absent"}
    BY DEF Doc, Desired
  <2>6. View0' = [View0 EXCEPT ![e] = [gen |-> @.gen + 1, desired |-> d.desired,
                                        state |-> @.state, observed |-> @.observed]]
    BY <2>1, <2>4, ViewReplaced
  <2>7. Lifecycle!SetDesired(e)
    BY <1>1, <2>3, <2>5, <2>6 DEF Lifecycle!SetDesired, View0
  <2>. QED
    BY <2>7 DEF Lifecycle!LifecycleNext
<1>4. CASE DocAdvanced(e)
  <2>1. PICK d \in Doc : Advances(doc[e], d) /\ Replaced(e, d)
    BY <1>4 DEF DocAdvanced
  <2>2. doc[e] \in Doc
    BY <1>0, <1>4 DEF DocAdvanced, Stored
  <2>3. /\ View(doc[e]) # NoDoc
        /\ View(doc[e]) = [gen |-> doc[e].gen, desired |-> doc[e].desired,
                           state |-> doc[e].state, observed |-> doc[e].observed]
        /\ View(d) = [gen |-> d.gen, desired |-> d.desired, state |-> d.state, observed |-> d.observed]
    BY <2>2, ViewOf
  <2>4. View(d) = [gen |-> View0[e].gen, desired |-> View0[e].desired,
                   state |-> d.state, observed |-> d.observed]
    BY <1>1, <2>1, <2>3 DEF Advances
  <2>5. View0' = [View0 EXCEPT ![e] = [gen |-> @.gen, desired |-> @.desired,
                                        state |-> d.state, observed |-> d.observed]]
    BY <2>1, <2>4, ViewReplaced
  <2>6. /\ d.state \in {"Reconciling", "WaitingRollout", "Ready", "Failed", "Deleting"}
        /\ d.observed \in {View0[e].observed, View0[e].gen}
    BY <1>1, <2>1, <2>3 DEF Advances, Doc, States
  <2>7. /\ Lifecycle!CanTransition(View0[e].state, d.state) \/ d.state = View0[e].state \/ d.state = "Failed"
        /\ d.state \in {"Ready", "Failed"} => d.observed = View0[e].gen
        /\ d.state = "WaitingRollout" /\ View0[e].state = "Reconciling" => d.observed = View0[e].gen
        /\ d.state = "Deleting" => View0[e].desired = "Absent"
    BY <1>1, <2>1, <2>3 DEF Advances
  <2>8. Lifecycle!Advance(e)
    BY <1>1, <2>3, <2>5, <2>6, <2>7 DEF Lifecycle!Advance, View0
  <2>. QED
    BY <2>8 DEF Lifecycle!LifecycleNext
<1>5. CASE DocRemoved(e)
  <2>1. doc[e] \in Doc /\ doc[e].state = "Deleting" /\ Replaced(e, NoDoc)
    BY <1>0, <1>5 DEF DocRemoved, Stored
  <2>2. View0[e] # NoDoc /\ View0[e].state = "Deleting"
    BY <1>1, <2>1, ViewOf
  <2>3. View0' = [View0 EXCEPT ![e] = NoDoc]
    BY <1>1, <2>1, ViewReplaced
  <2>4. Lifecycle!Remove(e)
    BY <2>2, <2>3 DEF Lifecycle!Remove, View0
  <2>. QED
    BY <2>4 DEF Lifecycle!LifecycleNext
<1>. QED
  BY <1>2, <1>3, <1>4, <1>5 DEF DocStep

\* Under every interleaving and failure modelled, a reader of the store sees the
\* lifecycle of EnvironmentLifecycle: generations move by one and only by a
\* command, states move as CanTransition allows (or to Failed), a generation is
\* reported as dealt with only when it is the current one, and only an
\* environment in state Deleting disappears.
THEOREM LifecycleRefinement == ServiceSpec => ImplementsLifecycle
<1>1. Init => Lifecycle!LifecycleInit
  BY DEF Init, Lifecycle!LifecycleInit, View
<1>2. ServiceInv /\ [Next]_vars => [Lifecycle!LifecycleNext]_View0
  <2>. SUFFICES ASSUME ServiceInv, [Next]_vars PROVE [Lifecycle!LifecycleNext]_View0
    OBVIOUS
  <2>1. CASE UNCHANGED doc
    BY <2>1 DEF View0
  <2>2. CASE \E e \in Env : DocStep(e)
    BY <2>2, DocStepIsLifecycle
  <2>. QED
    BY <2>1, <2>2, DocSteps
<1>3. ServiceInv /\ [Next]_vars => [Lifecycle!LifecycleNext]_([e \in Env |-> View(doc[e])])
  BY <1>2 DEF View0
<1>. QED
  BY <1>1, <1>3, InitInv, NextInv, PTL DEF ServiceSpec, ImplementsLifecycle, Lifecycle!LifecycleSpec

---------------------------------------------------------------------------
(* Generations *)

ObservedBound == \A e \in Env : Stored(e) => doc[e].observed <= doc[e].gen

\* What ObservedMonotone says of one step.
ObservedStep ==
    \A e \in Env :
         Stored(e) /\ Stored(e)' =>
           /\ doc[e].gen <= doc'[e].gen
           /\ doc[e].observed <= doc'[e].observed
           /\ doc'[e].observed <= doc'[e].gen

LEMMA ObservedByStep ==
    ASSUME ServiceInv, ObservedBound, [Next]_vars
    PROVE  ObservedBound' /\ ObservedStep
<1>0. doc \in [Env -> Doc \cup {NoDoc}]
  BY DEF ServiceInv, ServiceTypeOK, VarTypes
<1>1. ASSUME NEW d \in Doc PROVE d.gen \in Nat /\ d.observed \in Nat
  BY <1>1 DEF Doc
<1>2. \A f \in Env : Stored(f) => /\ doc[f].gen <= doc[f].gen
                                  /\ doc[f].observed <= doc[f].observed
                                  /\ doc[f].observed <= doc[f].gen
  BY <1>0, <1>1 DEF ObservedBound, Stored
<1>3. CASE UNCHANGED doc
  BY <1>2, <1>3 DEF ObservedBound, ObservedStep, Stored
<1>4. ASSUME NEW e \in Env, DocStep(e) PROVE ObservedBound' /\ ObservedStep
  <2>1. ASSUME NEW d, Replaced(e, d),
               d # NoDoc => d.observed <= d.gen,
               d # NoDoc /\ Stored(e) => doc[e].gen <= d.gen /\ doc[e].observed <= d.observed
        PROVE  ObservedBound' /\ ObservedStep
    <3>1. \A f \in Env : doc'[f] = IF f = e THEN d ELSE doc[f]
      BY <1>0, <2>1 DEF Replaced
    <3>. QED
      BY <1>2, <2>1, <3>1 DEF ObservedBound, ObservedStep, Stored
  <2>2. CASE DocCreated(e)
    <3>1. PICK s \in Spec : Replaced(e, NewEnvironment(s))
      BY <2>2 DEF DocCreated
    <3>2. NewEnvironment(s).observed <= NewEnvironment(s).gen
      BY DEF NewEnvironment
    <3>. QED
      BY <2>1, <2>2, <3>1, <3>2 DEF DocCreated
  <2>3. CASE DocUpdated(e)
    <3>1. PICK d \in Doc :
             /\ d.gen = doc[e].gen + 1 /\ d.observed = doc[e].observed
             /\ Replaced(e, d)
      BY <2>3 DEF DocUpdated
    <3>2. doc[e] \in Doc /\ doc[e].observed <= doc[e].gen
      BY <1>0, <2>3 DEF DocUpdated, Stored, ObservedBound
    <3>3. doc[e].gen \in Nat /\ doc[e].observed \in Nat
      BY <1>1, <3>2
    <3>4. d.observed <= d.gen /\ doc[e].gen <= d.gen /\ doc[e].observed <= d.observed
      BY <3>1, <3>2, <3>3
    <3>. QED
      BY <2>1, <3>1, <3>4
  <2>4. CASE DocAdvanced(e)
    <3>1. PICK d \in Doc : Advances(doc[e], d) /\ Replaced(e, d)
      BY <2>4 DEF DocAdvanced
    <3>2. doc[e] \in Doc /\ doc[e].observed <= doc[e].gen
      BY <1>0, <2>4 DEF DocAdvanced, Stored, ObservedBound
    <3>3. doc[e].gen \in Nat /\ doc[e].observed \in Nat
      BY <1>1, <3>2
    <3>4. d.observed <= d.gen /\ doc[e].gen <= d.gen /\ doc[e].observed <= d.observed
      BY <3>1, <3>2, <3>3 DEF Advances
    <3>. QED
      BY <2>1, <3>1, <3>4
  <2>5. CASE DocRemoved(e)
    BY <2>1, <2>5 DEF DocRemoved
  <2>. QED
    BY <1>4, <2>2, <2>3, <2>4, <2>5 DEF DocStep
<1>. QED
  BY <1>3, <1>4, DocSteps

\* A document's generation and observed generation never go back, and the
\* observed one never runs ahead, however late a worker's write arrives.
THEOREM GenerationsMonotone == ServiceSpec => ObservedMonotone
<1>1. Init => ObservedBound
  BY DEF Init, ObservedBound, Stored
<1>2. ServiceInv /\ ObservedBound /\ [Next]_vars => ObservedBound' /\ ObservedStep
  BY ObservedByStep
<1>. QED
  BY <1>1, <1>2, InitInv, NextInv, PTL DEF ServiceSpec, ObservedMonotone, ObservedStep

---------------------------------------------------------------------------
(* Priorities in the service *)

\* A user's request is never displaced by the worker's own retries and polls:
\* the queue keeps it until the worker takes it, or the process ends.
THEOREM UserRequestKept == ServiceSpec => UserItemSticks
<1>1. ServiceInv /\ [Next]_vars => (QueueInv /\ ([QueueStep]_queueVars \/ RestartedQueue))
  BY UsesQueue DEF vars, ServiceInv
<1>2. ServiceInv /\ [Next]_vars => \A e \in Env : UserItemStays(e)
  BY <1>1, UserItemStaysInQueue
<1>3. (\A e \in Env : UserItemStays(e)) <=>
        \A e \in Env :
         (NextItem(e) # NoItem /\ NextItem(e).source = "User")
           => \/ NextItem(e)' # NoItem /\ NextItem(e)'.source = "User"
              \/ e \notin inFlight /\ e \in inFlight'
              \/ RestartedQueue
  BY DEF UserItemStays
<1>. QED
  BY <1>2, <1>3, InitInv, NextInv, PTL DEF ServiceSpec, UserItemSticks

---------------------------------------------------------------------------
(* What a step does to the document and the cluster of one environment *)

SameStore(e) == UNCHANGED <<doc[e], cluster[e], overtaken[e]>>

Begun(e) ==
    /\ ~Stored(e) /\ cluster'[e] = cluster[e]
    /\ created[e] < MaxCreations /\ created'[e] = created[e] + 1
    /\ \E s \in Spec : doc'[e] = NewEnvironment(s)

Updated(e) ==
    /\ Stored(e) /\ cluster'[e] = cluster[e] /\ doc'[e] \in Doc
    /\ doc'[e].gen = doc[e].gen + 1
    /\ doc'[e].state = doc[e].state /\ doc'[e].observed = doc[e].observed
    /\ overtaken'[e] = (overtaken[e] \/ doc[e].state = "WaitingRollout")
    /\ \E c \in Client :
         /\ cl[c] \in Request /\ cl[c].at = "write" /\ cl[c].op # "Create"
         /\ cl[c].env = e /\ cl[c].gen = doc[e].gen
         /\ doc'[e].desired = IF cl[c].op = "Delete" THEN "Absent" ELSE "Present"

Written(e) ==
    /\ e = cur /\ pc \in Writing /\ Matches(cur, snap)
    /\ doc'[e] = TransitionStatus(doc[e], StatusToWrite)
    /\ UNCHANGED <<cluster[e], overtaken[e]>>

Removed(e) == e = cur /\ pc = "deleted" /\ doc'[e] = NoDoc /\ UNCHANGED <<cluster[e], overtaken[e]>>

\* A runtime call: ApplyResources or Delete, completed or not.
Called(e) == e = cur /\ pc \in {"apply", "delete"} /\ doc'[e] = doc[e]

StoreStep(e) ==
    \/ Begun(e)
    \/ /\ created'[e] = created[e]
       /\ SameStore(e) \/ Updated(e) \/ Written(e) \/ Removed(e) \/ Called(e)

LEMMA StoreWriteStep ==
    ASSUME ServiceInv, NEW c \in Client, cl[c].at = "write", Accepted(cl[c]), StoreWrite(cl[c]),
           cluster' = cluster, NEW e \in Env
    PROVE  StoreStep(e)
<1> DEFINE r == cl[c]
<1>0. VarTypes /\ RequestsFit
  BY DEF ServiceInv, ServiceTypeOK
<1>1. r \in Request /\ r # Idle
  BY <1>0 DEF VarTypes, Request, Idle
<1>2. r.env \in Env /\ r.spec \in Spec /\ r.gen \in 0..MaxGen
  BY <1>1 DEF Request
<1>3. CASE e # r.env
  <2>1. doc'[e] = doc[e] /\ overtaken'[e] = overtaken[e] /\ created'[e] = created[e]
    BY <1>0, <1>2, <1>3 DEF StoreWrite, VarTypes
  <2>. QED
    BY <2>1 DEF StoreStep, SameStore
<1>4. CASE e = r.env /\ r.op = "Create"
  <2>1. /\ ~Stored(e) /\ doc'[e] = NewEnvironment(r.spec)
        /\ created[e] < MaxCreations /\ created'[e] = created[e] + 1
    BY <1>0, <1>2, <1>4 DEF StoreWrite, VarTypes, Accepted
  <2>. QED
    BY <1>2, <2>1 DEF StoreStep, Begun
<1>5. CASE e = r.env /\ r.op # "Create"
  <2> DEFINE d == UpdateDesired(doc[e], r)
  <2>1. Stored(e) /\ doc[e].gen = r.gen /\ r.gen < MaxGen
    BY <1>0, <1>1, <1>5 DEF Accepted, RequestsFit
  <2>2. doc[e] \in Doc
    BY <1>0, <1>2, <2>1 DEF VarTypes, Stored
  <2>3. doc[e].gen + 1 \in 1..MaxGen
    BY <2>1, <2>2, BoundAssumption DEF Doc
  <2>4. /\ d \in Doc
        /\ d.gen = doc[e].gen + 1 /\ d.state = doc[e].state /\ d.observed = doc[e].observed
        /\ d.desired = IF r.op = "Delete" THEN "Absent" ELSE "Present"
    <3>1. CASE r.op = "Delete"
      <4>1. d = [doc[e] EXCEPT !.gen = doc[e].gen + 1, !.desired = "Absent", !.spec = doc[e].spec]
        BY <3>1 DEF UpdateDesired
      <4>. QED
        BY <2>2, <2>3, <3>1, <4>1 DEF Doc, Desired
    <3>2. CASE r.op # "Delete"
      <4>1. d = [doc[e] EXCEPT !.gen = doc[e].gen + 1, !.desired = "Present", !.spec = r.spec]
        BY <3>2 DEF UpdateDesired
      <4>. QED
        BY <1>2, <2>2, <2>3, <3>2, <4>1 DEF Doc, Desired
    <3>. QED
      BY <3>1, <3>2
  <2>5. doc'[e] = d
    BY <1>0, <1>2, <1>5 DEF StoreWrite, VarTypes
  <2>6. /\ overtaken'[e] = (overtaken[e] \/ doc[e].state = "WaitingRollout")
        /\ created'[e] = created[e]
    BY <1>0, <1>2, <1>5 DEF StoreWrite, VarTypes
  <2>. QED
    BY <1>1, <1>5, <2>1, <2>4, <2>5, <2>6 DEF StoreStep, Updated
<1>. QED
  BY <1>3, <1>4, <1>5

LEMMA WriteStatusStep ==
    ASSUME ServiceInv, pc \in Writing, Matches(cur, snap), WriteStatus,
           UNCHANGED <<cluster, overtaken, created>>, NEW e \in Env
    PROVE  StoreStep(e)
<1>1. cur \in Env /\ doc \in [Env -> Doc \cup {NoDoc}]
  BY DEF ServiceInv, ServiceTypeOK, VarTypes, WorkerInv, Writing
<1>2. CASE e = cur
  <2>1. doc'[e] = TransitionStatus(doc[e], StatusToWrite)
    BY <1>1, <1>2 DEF WriteStatus
  <2>. QED
    BY <1>2, <2>1 DEF StoreStep, Written
<1>3. CASE e # cur
  <2>1. doc'[e] = doc[e]
    BY <1>1, <1>3 DEF WriteStatus
  <2>. QED
    BY <2>1 DEF StoreStep, SameStore
<1>. QED
  BY <1>2, <1>3

LEMMA CallStep ==
    ASSUME ServiceInv, pc \in {"apply", "delete"}, UNCHANGED <<doc, created>>, NEW e \in Env,
           e # cur => UNCHANGED <<cluster[e], overtaken[e]>>
    PROVE  StoreStep(e)
BY DEF StoreStep, SameStore, Called

LEMMA RemoveStep ==
    ASSUME ServiceInv, pc = "deleted", doc' = [doc EXCEPT ![cur] = NoDoc],
           UNCHANGED <<cluster, overtaken, created>>, NEW e \in Env
    PROVE  StoreStep(e)
<1>1. cur \in Env /\ doc \in [Env -> Doc \cup {NoDoc}]
  BY DEF ServiceInv, ServiceTypeOK, VarTypes, WorkerInv
<1>. QED
  BY <1>1 DEF StoreStep, SameStore, Removed

LEMMA LostWriteStep ==
    ASSUME ServiceInv, LostWrite, UNCHANGED <<overtaken, created>>, NEW e \in Env
    PROVE  StoreStep(e)
<1>0. cluster \in [Env -> Cluster]
  BY DEF ServiceInv, ServiceTypeOK, VarTypes
<1>1. CASE UNCHANGED <<doc, cluster>>
  BY <1>1 DEF StoreStep, SameStore
<1>2. CASE pc \in Writing /\ Matches(cur, snap) /\ WriteStatus /\ UNCHANGED cluster
  BY <1>2, WriteStatusStep
<1>3. CASE pc = "deleted" /\ doc' = [doc EXCEPT ![cur] = NoDoc] /\ UNCHANGED cluster
  BY <1>3, RemoveStep
<1>4. CASE /\ pc \in {"apply", "delete"} /\ doc' = doc
           /\ \E k : cluster' = [cluster EXCEPT ![cur] = k]
  <2>1. e # cur => cluster'[e] = cluster[e]
    BY <1>0, <1>4
  <2>. QED
    BY <1>4, <2>1, CallStep
<1>. QED
  BY <1>1, <1>2, <1>3, <1>4 DEF LostWrite, Writing

LEMMA StoreSteps ==
    ASSUME ServiceInv, [Next]_vars, NEW e \in Env
    PROVE  StoreStep(e)
<1>0. cluster \in [Env -> Cluster] /\ overtaken \in [Env -> BOOLEAN]
  BY DEF ServiceInv, ServiceTypeOK, VarTypes
<1>s. ASSUME UNCHANGED <<doc, cluster, overtaken, created>> PROVE StoreStep(e)
  BY <1>s DEF StoreStep, SameStore
<1>1. ASSUME NEW c \in Client, ClientStep(c) PROVE StoreStep(e)
  <2>1. CASE CommandWrite(c) /\ Accepted(cl[c])
    <3>1. cl[c].at = "write" /\ StoreWrite(cl[c]) /\ cluster' = cluster
      BY <2>1 DEF CommandWrite
    <3>. QED
      BY <2>1, <3>1, StoreWriteStep
  <2>2. CASE CommandWrite(c) /\ ~Accepted(cl[c])
    BY <1>s, <2>2 DEF CommandWrite
  <2>3. ASSUME NEW f \in Env, NEW s \in Spec, BeginCreate(c, f, s) \/ BeginUpdate(c, f, s)
        PROVE  StoreStep(e)
    BY <1>s, <2>3 DEF BeginCreate, BeginUpdate
  <2>4. ASSUME NEW f \in Env, BeginDelete(c, f) PROVE StoreStep(e)
    BY <1>s, <2>4 DEF BeginDelete
  <2>5. CASE CommandEnqueue(c)
    BY <1>s, <2>5 DEF CommandEnqueue
  <2>. QED
    BY <1>1, <2>1, <2>2, <2>3, <2>4, <2>5 DEF ClientStep
<1>2. ASSUME pc \in Writing, NEW ok, Transition(ok) PROVE StoreStep(e)
  BY <1>2, <1>s, WriteStatusStep DEF Transition
<1>3. CASE \/ transitionToReconciling \/ applyAndWait \/ transitionToDeleting
           \/ markReadyFromRollout \/ markFailedFromRollout \/ retainWaitingRollout
  <2>1. \/ pc \in Writing /\ \E ok : Transition(ok)
        \/ UNCHANGED <<doc, cluster, overtaken, created>>
    BY <1>3 DEF transitionToReconciling, applyAndWait, transitionToDeleting,
       markReadyFromRollout, markFailedFromRollout, retainWaitingRollout, Writing
  <2>. QED
    BY <1>2, <1>s, <2>1
<1>4. CASE ProcessOneLoad \/ CheckRollout \/ ExhaustedLoad
  BY <1>s, <1>4 DEF ProcessOneLoad, CheckRollout, ExhaustedLoad
<1>5. CASE ApplyResources \/ ApplyResourcesFails \/ RuntimeDelete \/ RuntimeDeleteFails
  <2>1. /\ pc \in {"apply", "delete"} /\ UNCHANGED <<doc, created>>
        /\ \E k : cluster' = [cluster EXCEPT ![cur] = k]
        /\ overtaken' = overtaken \/ overtaken' = [overtaken EXCEPT ![cur] = FALSE]
    BY <1>5 DEF ApplyResources, ApplyResourcesFails, RuntimeDelete, RuntimeDeleteFails
  <2>2. e # cur => cluster'[e] = cluster[e] /\ overtaken'[e] = overtaken[e]
    BY <1>0, <2>1
  <2>. QED
    BY <2>1, <2>2, CallStep
<1>6. CASE deleteAbsent
  BY <1>6, RemoveStep DEF deleteAbsent
<1>7. CASE MarkRetryExhausted
  BY <1>7, <1>s, WriteStatusStep DEF MarkRetryExhausted, Writing
<1>8. CASE WorkerStep
  <2>1. CASE ReconcileStep
    BY <1>3, <1>4, <1>5, <1>6, <1>7, <2>1 DEF ReconcileStep
  <2>2. CASE ~ReconcileStep
    BY <1>8, <1>s, <2>2 DEF WorkerStep, WorkerDequeue, WorkerComplete, maybeRequeue, scheduleRetry,
       RecoverList, RecoverEnqueue, WorkerStart
  <2>. QED
    BY <2>1, <2>2
<1>9. ASSUME NEW f \in Env, QueueGoroutine(f) PROVE StoreStep(e)
  BY <1>9, <1>s DEF QueueGoroutine
<1>10. CASE FaultStep
  <2>1. ASSUME NEW c \in Client, CommandWriteFault(c) PROVE StoreStep(e)
    BY <1>s, <2>1, StoreWriteStep DEF CommandWriteFault
  <2>2. CASE ProcessOneFault \/ ExhaustedFault
    BY <2>2, LostWriteStep DEF ProcessOneFault, ExhaustedFault
  <2>3. CASE WorkerPanic \/ Crash
    BY <1>s, <2>3 DEF WorkerPanic, Crash
  <2>. QED
    BY <1>10, <2>1, <2>2, <2>3 DEF FaultStep
<1>11. CASE UNCHANGED vars
  BY <1>11, <1>s DEF vars
<1>. QED
  BY <1>1, <1>8, <1>9, <1>10, <1>11 DEF Next

---------------------------------------------------------------------------
(* What the status says of the cluster *)

\* The status of e is true: a generation that is rolling out or was found ready
\* runs in the cluster, unless another overtook it; its services are those of
\* its own desired state.
StatusTrue(e) ==
    Stored(e) =>
       /\ doc[e].observed <= doc[e].gen
       /\ doc[e].state = "WaitingRollout" /\ ~overtaken[e] => cluster[e] = doc[e].spec
       /\ doc[e].state = "Ready" /\ doc[e].observed = doc[e].gen =>
             /\ ~overtaken[e] => cluster[e] = doc[e].spec
             /\ DOMAIN doc[e].spec \subseteq DOMAIN cluster[e]
             /\ doc[e].services = [w \in DOMAIN doc[e].spec |-> "ready"]
       /\ doc[e].observed = doc[e].gen /\ doc[e].state \in {"WaitingRollout", "Ready", "Failed"} =>
             \/ DOMAIN doc[e].services = DOMAIN doc[e].spec
             \/ doc[e].state = "Failed" /\ doc[e].services = NoServices

\* What the worker has learned from a runtime call is still so when it writes.
CallsTrue ==
    /\ pc = "applied" => cluster[cur] = snap.spec
    /\ pc = "checked" =>
          /\ DOMAIN snap.spec \subseteq DOMAIN cluster[cur]
          /\ rollout \in [DOMAIN snap.spec -> {"ready", "waiting", "failed"}]

StatusInv == CallsTrue /\ \A e \in Env : StatusTrue(e)

\* The document after a status write, by its fields.
LEMMA WrittenFields ==
    ASSUME ServiceInv, pc \in Writing, Matches(cur, snap)
    PROVE  LET new == TransitionStatus(doc[cur], StatusToWrite)
           IN  /\ new \in Doc /\ doc[cur] \in Doc /\ cur \in Env /\ snap \in Doc
               /\ new.gen = doc[cur].gen /\ new.spec = doc[cur].spec
               /\ new.desired = doc[cur].desired
               /\ doc[cur].gen = snap.gen /\ doc[cur].spec = snap.spec
               /\ doc[cur].state = snap.state /\ doc[cur].observed = snap.observed
               /\ new.state = StatusToWrite.state /\ new.services = StatusToWrite.services
               /\ new.observed = IF StatusToWrite.observed = 0 THEN doc[cur].observed
                                 ELSE StatusToWrite.observed
<1>1. /\ cur \in Env /\ doc[cur] \in Doc
      /\ Advances(doc[cur], TransitionStatus(doc[cur], StatusToWrite))
  BY WriteStatusAdvances
<1>2. pc \in Engaged
  BY DEF Writing, Engaged
<1>3. /\ doc[cur].gen = snap.gen /\ doc[cur].spec = snap.spec
      /\ doc[cur].state = snap.state /\ doc[cur].observed = snap.observed /\ snap \in Doc
  BY <1>2, EngagedTypes DEF ServiceInv, WorkerOwnsStatus, Matches
<1>. QED
  BY <1>1, <1>3 DEF Advances, TransitionStatus, Doc

LEMMA StatusTrueNext ==
    ASSUME ServiceInv, StatusInv, [Next]_vars, NEW e \in Env
    PROVE  StatusTrue(e)'
<1>0. doc \in [Env -> Doc \cup {NoDoc}] /\ StatusTrue(e) /\ StoreStep(e)
  BY StoreSteps DEF ServiceInv, ServiceTypeOK, VarTypes, StatusInv
<1>g. \A d \in Doc : d.gen \in Nat /\ d.observed \in Nat /\ d.gen # 0
  BY DEF Doc
<1>1. CASE SameStore(e)
  BY <1>0, <1>1 DEF SameStore, StatusTrue, Stored
<1>2. CASE Begun(e)
  <2>1. PICK s \in Spec : doc'[e] = NewEnvironment(s)
    BY <1>2 DEF Begun
  <2>2. doc'[e].state = "Pending" /\ doc'[e].observed = 0 /\ doc'[e].gen = 1
    BY <2>1 DEF NewEnvironment
  <2>. QED
    BY <2>2 DEF StatusTrue
<1>3. CASE Updated(e)
  <2>1. doc[e] \in Doc /\ doc[e].observed <= doc[e].gen
    BY <1>0, <1>3 DEF Updated, Stored, StatusTrue
  <2>2. doc'[e].observed < doc'[e].gen
    BY <1>3, <1>g, <2>1 DEF Updated
  <2>3. /\ doc'[e].observed <= doc'[e].gen /\ doc'[e].observed # doc'[e].gen
    BY <1>3, <1>g, <2>1, <2>2 DEF Updated
  <2>4. doc'[e].state = "WaitingRollout" => overtaken'[e]
    BY <1>3 DEF Updated
  <2>. QED
    BY <2>3, <2>4 DEF StatusTrue
<1>4. CASE Written(e)
  <2> DEFINE s == StatusToWrite
  <2>1. /\ e = cur /\ pc \in Writing /\ Matches(cur, snap)
        /\ UNCHANGED <<cluster[e], overtaken[e]>>
        /\ doc'[e] = TransitionStatus(doc[e], StatusToWrite)
    BY <1>4 DEF Written
  <2>2. /\ doc'[e] \in Doc /\ doc[e] \in Doc /\ snap \in Doc
        /\ doc'[e].gen = snap.gen /\ doc'[e].spec = snap.spec
        /\ doc[e].gen = snap.gen /\ doc[e].spec = snap.spec
        /\ doc[e].state = snap.state /\ doc[e].observed = snap.observed
        /\ doc'[e].state = s.state /\ doc'[e].services = s.services
        /\ doc'[e].observed = IF s.observed = 0 THEN snap.observed ELSE s.observed
    BY <2>1, WrittenFields
  <2>3. Stored(e) /\ snap.observed <= snap.gen /\ snap.gen \in Nat /\ snap.gen # 0
    BY <1>0, <1>g, <2>1, <2>2 DEF StatusTrue, Matches, Stored
  <2>4. CASE pc \in {"toReconciling", "toDeleting"}
    <3>1. s.state \in {"Reconciling", "Deleting"} /\ s.observed = 0
      BY <2>4 DEF StatusToWrite
    <3>. QED
      BY <2>2, <2>3, <3>1 DEF StatusTrue
  <2>5. CASE pc = "exhaustWrite"
    <3>1. s.state = "Failed" /\ s.observed = snap.gen /\ s.services = NoServices
      BY <2>5 DEF StatusToWrite
    <3>. QED
      BY <2>2, <2>3, <3>1 DEF StatusTrue
  <2>6. CASE pc = "applied"
    <3>1. /\ s.state = "WaitingRollout" /\ s.observed = snap.gen
          /\ s.services = InitialServices(snap.spec)
      BY <2>6 DEF StatusToWrite
    <3>2. cluster'[e] = snap.spec /\ DOMAIN s.services = DOMAIN snap.spec
      BY <2>1, <2>6, <3>1 DEF StatusInv, CallsTrue, InitialServices
    <3>. QED
      BY <2>2, <2>3, <3>1, <3>2 DEF StatusTrue
  <2>7. CASE pc = "checked"
    <3>1. /\ DOMAIN snap.spec \subseteq DOMAIN cluster[e]
          /\ rollout \in [DOMAIN snap.spec -> {"ready", "waiting", "failed"}]
      BY <2>1, <2>7 DEF StatusInv, CallsTrue
    <3>2. snap.state = "WaitingRollout"
      <4>1. Plan(snap) = "check" /\ snap.desired \in Desired /\ snap.state \in States
        BY <2>2, <2>7 DEF ServiceInv, WorkerOwnsStatus, Engaged, PlanOf, Doc
      <4>. QED
        BY <4>1 DEF Plan, Desired, States
    <3>3. s.services = rollout /\ DOMAIN s.services = DOMAIN snap.spec
      <4>1. s.services = rollout
        BY <2>7 DEF StatusToWrite, RolloutState
      <4>. QED
        BY <3>1, <4>1
    <3>4. ~overtaken[e] => cluster[e] = snap.spec
      BY <1>0, <2>2, <2>3, <3>2 DEF StatusTrue
    <3>5. CASE RolloutState(rollout) = "ready"
      <4>1. s.state = "Ready" /\ s.observed = snap.gen
        BY <2>7, <3>5 DEF StatusToWrite
      <4>2. rollout = [w \in DOMAIN snap.spec |-> "ready"]
        BY <3>1, <3>5 DEF RolloutState
      <4>. QED
        BY <2>1, <2>2, <2>3, <3>1, <3>3, <3>4, <4>1, <4>2 DEF StatusTrue
    <3>6. CASE RolloutState(rollout) = "failed"
      <4>1. s.state = "Failed" /\ s.observed = snap.gen
        BY <2>7, <3>6 DEF StatusToWrite
      <4>. QED
        BY <2>1, <2>2, <2>3, <3>3, <4>1 DEF StatusTrue
    <3>7. CASE RolloutState(rollout) = "waiting"
      <4>1. s.state = "WaitingRollout" /\ s.observed = 0
        BY <2>7, <3>7 DEF StatusToWrite
      <4>. QED
        BY <2>1, <2>2, <2>3, <3>3, <3>4, <4>1 DEF StatusTrue
    <3>. QED
      BY <3>5, <3>6, <3>7 DEF RolloutState
  <2>. QED
    BY <2>1, <2>4, <2>5, <2>6, <2>7 DEF Writing
<1>5. CASE Removed(e)
  BY <1>5 DEF Removed, StatusTrue, Stored
<1>6. CASE Called(e)
  <2>1. e = cur /\ pc \in {"apply", "delete"} /\ doc'[e] = doc[e]
    BY <1>6 DEF Called
  <2>2. /\ Stored(e) /\ doc[e].state = snap.state /\ snap \in Doc
        /\ Plan(snap) = pc
    BY <2>1, EngagedTypes DEF ServiceInv, WorkerOwnsStatus, Engaged, PlanOf
  <2>3. snap.desired \in Desired /\ snap.state \in States
    BY <2>2 DEF Doc
  <2>4. doc[e].state \in {"Reconciling", "Deleting"}
    BY <2>1, <2>2, <2>3 DEF Plan, Desired, States
  <2>. QED
    BY <1>0, <2>1, <2>2, <2>4 DEF StatusTrue, Stored
<1>. QED
  BY <1>0, <1>1, <1>2, <1>3, <1>4, <1>5, <1>6 DEF StoreStep

LEMMA CallsTrueNext == ServiceInv /\ CallsTrue /\ [Next]_vars => CallsTrue'
<1>. SUFFICES ASSUME ServiceInv, CallsTrue, [Next]_vars PROVE CallsTrue'
  OBVIOUS
<1>s. ASSUME UNCHANGED <<pc, cur, snap, rollout, cluster>> PROVE CallsTrue'
  BY <1>s DEF CallsTrue
<1>o. ASSUME pc' \notin {"applied", "checked"} PROVE CallsTrue'
  BY <1>o DEF CallsTrue
<1>1. ASSUME NEW c \in Client, ClientStep(c) \/ CommandWriteFault(c) PROVE CallsTrue'
  <2>1. UNCHANGED <<workerVars, cluster>>
    BY <1>1 DEF ClientStep, BeginCreate, BeginUpdate, BeginDelete, CommandWrite, CommandEnqueue,
                CommandWriteFault
  <2>. QED
    BY <1>s, <2>1 DEF workerVars
<1>2. ASSUME NEW e \in Env, QueueGoroutine(e) \/ RecoverEnqueue(e) PROVE CallsTrue'
  BY <1>2, <1>s DEF QueueGoroutine, RecoverEnqueue, workerVars
<1>3. CASE UNCHANGED vars
  BY <1>3, <1>s DEF vars, workerVars
<1>4. CASE ApplyResources
  <2>1. cur \in Env /\ cluster \in [Env -> Cluster]
    BY <1>4 DEF ApplyResources, ServiceInv, ServiceTypeOK, VarTypes, WorkerInv
  <2>. QED
    BY <1>4, <2>1 DEF ApplyResources, CallsTrue
<1>5. CASE CheckRollout
  <2>1. CASE DOMAIN snap.spec \subseteq DOMAIN cluster[cur]
    BY <1>5, <2>1 DEF CheckRollout, CallsTrue
  <2>2. CASE ~(DOMAIN snap.spec \subseteq DOMAIN cluster[cur])
    BY <1>5, <1>o, <2>2 DEF CheckRollout, Return
  <2>. QED
    BY <2>1, <2>2
<1>6. CASE ProcessOneLoad
  <2>1. pc' = "complete" \/ pc' = Plan(doc[cur])
    BY <1>6 DEF ProcessOneLoad, Return
  <2>2. Plan(doc[cur]) \notin {"applied", "checked"}
    BY DEF Plan
  <2>. QED
    BY <1>o, <2>1, <2>2
<1>7. CASE \/ transitionToReconciling \/ applyAndWait \/ transitionToDeleting
           \/ markReadyFromRollout \/ markFailedFromRollout \/ retainWaitingRollout
           \/ ApplyResourcesFails \/ RuntimeDelete \/ RuntimeDeleteFails \/ deleteAbsent
           \/ ExhaustedLoad \/ MarkRetryExhausted
  <2>1. pc' \in {"complete", "deleted", "exhaustWrite", "requeue", "idle"}
    BY <1>7 DEF transitionToReconciling, applyAndWait, transitionToDeleting, markReadyFromRollout,
       markFailedFromRollout, retainWaitingRollout, Transition, Return, ApplyResourcesFails,
       RuntimeDelete, RuntimeDeleteFails, deleteAbsent, ExhaustedLoad, MarkRetryExhausted, NextIteration
  <2>. QED
    BY <1>o, <2>1
<1>8. CASE \/ WorkerDequeue \/ WorkerComplete \/ maybeRequeue \/ scheduleRetry \/ RecoverList
           \/ WorkerStart \/ ProcessOneFault \/ ExhaustedFault \/ WorkerPanic \/ Crash
  <2>1. pc' \in {"load", "idle", "requeue", "exhaust", "retry", "recover", "complete", "build"}
    BY <1>8 DEF WorkerDequeue, WorkerComplete, maybeRequeue, scheduleRetry, RecoverList, WorkerStart,
       ProcessOneFault, ExhaustedFault, WorkerPanic, Crash, WorkerReset, NextIteration, Return
  <2>. QED
    BY <1>o, <2>1
<1>. QED
  BY <1>1, <1>2, <1>3, <1>4, <1>5, <1>6, <1>7, <1>8
     DEF Next, WorkerStep, ReconcileStep, FaultStep

LEMMA StatusInvInit == Init => StatusInv
BY DEF Init, StatusInv, CallsTrue, StatusTrue, Stored

LEMMA StatusInvNext == ServiceInv /\ StatusInv /\ [Next]_vars => StatusInv'
BY StatusTrueNext, CallsTrueNext DEF StatusInv

\* An environment reported ready runs its desired state in the cluster, unless
\* that was accepted while an older one rolled out and not applied since: for
\* every interleaving of requests, worker, faults, panics and exits.
THEOREM ReadyIsApplied == ServiceSpec => []ReadyMeansApplied
<1>1. StatusInv => ReadyMeansApplied
  BY DEF StatusInv, StatusTrue, ReadyMeansApplied
<1>. QED
  BY <1>1, InitInv, NextInv, StatusInvInit, StatusInvNext, PTL DEF ServiceSpec

\* The services a document reports are those of its own desired state, and when
\* it is ready all of them are there and ready (TransitionStatus, CheckRollout).
THEOREM ServicesAreTruthful == ServiceSpec => []ServicesTruthful
<1>1. StatusInv => ServicesTruthful
  BY DEF StatusInv, StatusTrue, ServicesTruthful, ReadyWorkloadsExist, ServicesMatchSpec
<1>. QED
  BY <1>1, InitInv, NextInv, StatusInvInit, StatusInvNext, PTL DEF ServiceSpec

---------------------------------------------------------------------------
(* What a request knows of the document it is about to write *)

Writes(c) == cl[c] \in Request /\ cl[c].at = "write" /\ cl[c].op # "Create"

\* A request that read the document holds a generation it had, and an Update one
\* at which the environment was wanted.  Holds while a name is created once: the
\* generations of a second document start again at one.
Knows(c) ==
    Writes(c) =>
        /\ created[cl[c].env] # 0
        /\ Stored(cl[c].env) =>
              /\ cl[c].gen <= doc[cl[c].env].gen
              /\ (cl[c].op = "Update" /\ cl[c].gen = doc[cl[c].env].gen)
                   => doc[cl[c].env].desired = "Present"

RequestsKnow ==
    /\ \A e \in Env : Stored(e) => created[e] # 0
    /\ \A c \in Client : Knows(c)

\* What a step does to the request of one client.
RequestStep(c) ==
    \/ cl'[c] = cl[c]
    \/ cl'[c] = Idle
    \/ cl'[c].at = "enqueue"
    \/ cl'[c].op = "Create"
    \/ /\ UNCHANGED <<doc, created>> /\ cl'[c].env \in Env
       /\ Stored(cl'[c].env) /\ cl'[c].gen = doc[cl'[c].env].gen
       /\ cl'[c].op = "Update" => doc[cl'[c].env].desired # "Absent"

LEMMA RequestSteps ==
    ASSUME ServiceInv, [Next]_vars, NEW c \in Client
    PROVE  RequestStep(c)
<1>0. cl \in [Client -> Request \cup {Idle}]
  BY DEF ServiceInv, ServiceTypeOK, VarTypes
<1>1. ASSUME NEW d \in Client, ClientStep(d) PROVE RequestStep(c)
  <2>1. CASE c # d
    <3>1. cl'[c] = cl[c]
      BY <1>0, <1>1, <2>1 DEF ClientStep, BeginCreate, BeginUpdate, BeginDelete, CommandWrite,
         CommandEnqueue
    <3>. QED
      BY <3>1 DEF RequestStep
  <2>2. ASSUME c = d, NEW e \in Env, NEW s \in Spec, BeginCreate(c, e, s) PROVE RequestStep(c)
    BY <1>0, <2>2 DEF BeginCreate, Request0, RequestStep
  <2>3. ASSUME c = d, NEW e \in Env, NEW s \in Spec, BeginUpdate(c, e, s) PROVE RequestStep(c)
    <3>1. cl'[c] = Request0("Update", e, doc[e].gen, s)
      BY <1>0, <2>3 DEF BeginUpdate
    <3>2. /\ cl'[c].env = e /\ cl'[c].gen = doc[e].gen /\ UNCHANGED <<doc, created>>
          /\ Stored(e) /\ doc[e].desired # "Absent"
      BY <2>3, <3>1 DEF BeginUpdate, Request0
    <3>. QED
      BY <3>2 DEF RequestStep
  <2>4. ASSUME c = d, NEW e \in Env, BeginDelete(c, e) PROVE RequestStep(c)
    <3>1. cl'[c] = Request0("Delete", e, doc[e].gen, doc[e].spec)
      BY <1>0, <2>4 DEF BeginDelete
    <3>2. /\ cl'[c].env = e /\ cl'[c].gen = doc[e].gen /\ UNCHANGED <<doc, created>>
          /\ Stored(e) /\ cl'[c].op = "Delete"
      BY <2>4, <3>1 DEF BeginDelete, Request0
    <3>. QED
      BY <3>2 DEF RequestStep
  <2>5. CASE c = d /\ CommandWrite(c)
    <3>1. cl'[c] = [cl[c] EXCEPT !.at = "enqueue"] \/ cl'[c] = Idle
      BY <1>0, <2>5 DEF CommandWrite
    <3>2. cl[c] \in Request
      BY <1>0, <2>5 DEF CommandWrite, Idle
    <3>. QED
      BY <3>1, <3>2 DEF RequestStep, Request
  <2>6. CASE c = d /\ CommandEnqueue(c)
    BY <1>0, <2>6 DEF CommandEnqueue, RequestStep
  <2>. QED
    BY <1>1, <2>1, <2>2, <2>3, <2>4, <2>5, <2>6 DEF ClientStep
<1>2. ASSUME NEW d \in Client, CommandWriteFault(d) PROVE RequestStep(c)
  BY <1>0, <1>2 DEF CommandWriteFault, RequestStep
<1>3. CASE Crash
  BY <1>3 DEF Crash, RequestStep
<1>s. ASSUME cl' = cl PROVE RequestStep(c)
  BY <1>s DEF RequestStep
<1>4. CASE WorkerStep
  BY <1>4, <1>s DEF WorkerStep, ReconcileStep, WorkerDequeue, WorkerComplete, maybeRequeue,
     scheduleRetry, RecoverList, RecoverEnqueue, WorkerStart, ProcessOneLoad, transitionToReconciling,
     ApplyResources, ApplyResourcesFails, applyAndWait, CheckRollout, markReadyFromRollout,
     markFailedFromRollout, retainWaitingRollout, transitionToDeleting, RuntimeDelete,
     RuntimeDeleteFails, deleteAbsent, ExhaustedLoad, MarkRetryExhausted, Transition
<1>5. CASE ProcessOneFault \/ ExhaustedFault \/ WorkerPanic \/ UNCHANGED vars
  BY <1>5, <1>s DEF ProcessOneFault, ExhaustedFault, WorkerPanic, vars
<1>6. ASSUME NEW e \in Env, QueueGoroutine(e) PROVE RequestStep(c)
  BY <1>6, <1>s DEF QueueGoroutine
<1>. QED
  BY <1>1, <1>2, <1>3, <1>4, <1>5, <1>6 DEF Next, FaultStep

\* The generation and the desired state of a stored document after a step that
\* does not create it.
LEMMA StoredFields ==
    ASSUME ServiceInv, NEW e \in Env, StoreStep(e), ~Begun(e), Stored(e)'
    PROVE  /\ Stored(e) /\ doc[e] \in Doc /\ doc'[e] \in Doc /\ created'[e] = created[e]
           /\ \/ doc'[e].gen = doc[e].gen /\ doc'[e].desired = doc[e].desired
              \/ doc'[e].gen = doc[e].gen + 1 /\ Updated(e)
<1>0. doc \in [Env -> Doc \cup {NoDoc}]
  BY DEF ServiceInv, ServiceTypeOK, VarTypes
<1>1. CASE SameStore(e)
  BY <1>0, <1>1 DEF StoreStep, SameStore, Stored
<1>2. CASE Updated(e)
  BY <1>0, <1>2 DEF StoreStep, Updated, Stored
<1>3. CASE Written(e)
  <2>1. /\ e = cur /\ pc \in Writing /\ Matches(cur, snap)
        /\ doc'[e] = TransitionStatus(doc[e], StatusToWrite)
    BY <1>3 DEF Written
  <2>2. /\ doc'[e] \in Doc /\ doc[e] \in Doc
        /\ doc'[e].gen = doc[e].gen /\ doc'[e].desired = doc[e].desired
    BY <2>1, WrittenFields
  <2>. QED
    BY <2>1, <2>2 DEF StoreStep, Matches
<1>4. CASE Removed(e)
  BY <1>4 DEF Removed, Stored
<1>5. CASE Called(e)
  BY <1>0, <1>5 DEF StoreStep, Called, Stored
<1>. QED
  BY <1>1, <1>2, <1>3, <1>4, <1>5 DEF StoreStep

LEMMA RequestsKnowInit == ServiceInv /\ Init => RequestsKnow
BY DEF Init, RequestsKnow, Knows, Writes, Idle, Request, Stored

LEMMA RequestsKnowNext ==
    MaxCreations <= 1 => (ServiceInv /\ ServiceInv' /\ RequestsKnow /\ [Next]_vars => RequestsKnow')
<1>. SUFFICES ASSUME MaxCreations <= 1, ServiceInv, ServiceInv', RequestsKnow, [Next]_vars
              PROVE  RequestsKnow'
  OBVIOUS
<1>0. \A e \in Env : /\ created[e] \in Nat /\ created[e] <= 1 
                     /\ Begun(e) => created[e] = 0 /\ created'[e] # 0
  BY BoundAssumption DEF ServiceInv, ServiceTypeOK, VarTypes, Begun
<1>1. ASSUME NEW e \in Env, Stored(e)' PROVE created'[e] # 0
  BY <1>0, <1>1, StoreSteps, StoredFields DEF RequestsKnow
<1>2. ASSUME NEW c \in Client, Writes(c)' PROVE Knows(c)'
  <2>1. CASE cl'[c] = cl[c]
    <3>0. PICK e \in Env : e = cl[c].env
      BY <1>2, <2>1 DEF Writes, Request
    <3>1. Writes(c) /\ cl[c].gen \in Nat
      BY <1>2, <2>1 DEF Writes, Request
    <3>2. /\ created[e] # 0
          /\ Stored(e) =>
               /\ cl[c].gen <= doc[e].gen
               /\ (cl[c].op = "Update" /\ cl[c].gen = doc[e].gen) => doc[e].desired = "Present"
      BY <3>0, <3>1 DEF RequestsKnow, Knows
    <3>3. ~Begun(e) /\ StoreStep(e)
      BY <1>0, <3>1, <3>2, StoreSteps
    <3>4. created'[e] # 0
      BY <3>2, <3>3 DEF StoreStep
    <3>5. ASSUME Stored(e)'
          PROVE  /\ cl[c].gen <= doc'[e].gen
                 /\ (cl[c].op = "Update" /\ cl[c].gen = doc'[e].gen) => doc'[e].desired = "Present"
      <4>1. /\ Stored(e) /\ doc[e] \in Doc
            /\ \/ doc'[e].gen = doc[e].gen /\ doc'[e].desired = doc[e].desired
               \/ doc'[e].gen = doc[e].gen + 1
        BY <3>1, <3>3, <3>5, StoredFields
      <4>2. doc[e].gen \in Nat
        BY <4>1 DEF Doc
      <4>. QED
        BY <3>1, <3>2, <4>1, <4>2
    <3>. QED
      BY <2>1, <3>0, <3>4, <3>5 DEF Knows, Stored
  <2>2. CASE cl'[c] # cl[c]
    <3>1. cl'[c] \in Request /\ cl'[c].at = "write" /\ cl'[c].op # "Create"
      BY <1>2 DEF Writes
    <3>2. cl'[c] # Idle
      BY <3>1 DEF Request, Idle
    <3>0. PICK e \in Env : e = cl'[c].env
      BY <3>1 DEF Request
    <3>3. /\ UNCHANGED <<doc, created>>
          /\ Stored(e) /\ cl'[c].gen = doc[e].gen
          /\ cl'[c].op = "Update" => doc[e].desired # "Absent"
      BY <2>2, <3>0, <3>1, <3>2, RequestSteps DEF RequestStep
    <3>4. doc[e] \in Doc
      BY <3>3 DEF ServiceInv, ServiceTypeOK, VarTypes, Stored
    <3>5. doc[e].gen \in Nat /\ doc[e].desired \in {"Present", "Absent"}
      BY <3>4 DEF Doc, Desired
    <3>6. created[e] # 0
      BY <3>3 DEF RequestsKnow
    <3>7. doc'[e] = doc[e] /\ created'[e] = created[e]
      BY <3>3
    <3>. QED
      BY <3>0, <3>3, <3>5, <3>6, <3>7 DEF Knows, Stored
  <2>. QED
    BY <2>1, <2>2
<1>3. ASSUME NEW c \in Client PROVE Knows(c)'
  BY <1>2 DEF Knows
<1>. QED
  BY <1>1, <1>3 DEF RequestsKnow

\* An Update that was let in at the generation it writes found the environment
\* wanted.
LEMMA AbsentStays ==
    ASSUME ServiceInv, RequestsKnow, [Next]_vars, NEW e \in Env,
           Stored(e), Stored(e)', doc[e].desired = "Absent"
    PROVE  doc'[e].desired = "Absent"
<1>1. StoreStep(e) /\ ~Begun(e)
  BY StoreSteps DEF Begun
<1>2. CASE Updated(e)
  <2>1. PICK c \in Client :
           /\ cl[c] \in Request /\ cl[c].at = "write" /\ cl[c].op # "Create"
           /\ cl[c].env = e /\ cl[c].gen = doc[e].gen
           /\ doc'[e].desired = IF cl[c].op = "Delete" THEN "Absent" ELSE "Present"
    BY <1>2 DEF Updated
  <2>2. cl[c].op # "Update"
    BY <2>1 DEF RequestsKnow, Knows, Writes
  <2>3. cl[c].op = "Delete"
    BY <2>1, <2>2 DEF Request
  <2>. QED
    BY <2>1, <2>3
<1>. QED
  BY <1>1, <1>2, StoredFields

\* A deletion is final: while a name is created at most once, no accepted write
\* brings an environment that is to be deleted back to Present.
THEOREM DeletionIsFinal == MaxCreations <= 1 => (ServiceSpec => AbsentIsFinal)
<1>. SUFFICES ASSUME MaxCreations <= 1 PROVE ServiceSpec => AbsentIsFinal
  OBVIOUS
<1>2. ServiceInv /\ RequestsKnow /\ [Next]_vars =>
        \A e \in Env : Stored(e) /\ Stored(e)' /\ doc[e].desired = "Absent"
                         => doc'[e].desired = "Absent"
  BY AbsentStays
<1>3. ServiceInv /\ ServiceInv' /\ RequestsKnow /\ [Next]_vars => RequestsKnow'
  BY RequestsKnowNext
<1>. QED
  BY <1>2, <1>3, InitInv, NextInv, RequestsKnowInit, PTL DEF ServiceSpec, AbsentIsFinal

---------------------------------------------------------------------------
(* No accepted work is lost *)

\* The desired states all name the same workloads: an update changes versions.
SameWorkloads == \A s, t \in Spec : DOMAIN s = DOMAIN t

\* An environment is in Deleting only while it is to be deleted, and while it
\* rolls out its workloads are in the cluster: the worker has no reason to give
\* up on what it loads.
Workable(e) ==
    Stored(e) =>
       /\ doc[e].state = "Deleting" => doc[e].desired = "Absent"
       /\ doc[e].state = "WaitingRollout" => DOMAIN doc[e].spec \subseteq DOMAIN cluster[e]

\* What is in flight is what the worker holds, and only Recover has a list.
FlightInv ==
    /\ pc \in {"build", "recover", "idle"} => cur = NoEnv
    /\ inFlight \subseteq {cur}
    /\ pc \in {"requeue", "retry", "exhaust", "exhaustWrite"} => inFlight = {}
    /\ pc # "recover" => recovering = {}

WorkInv == FlightInv /\ WorkNotLost /\ \A e \in Env : Workable(e)

\* A step that is neither a fault nor a panic.
CalmStep ==
    \/ \E c \in Client : ClientStep(c)
    \/ WorkerStep
    \/ \E e \in Env : QueueGoroutine(e)
    \/ Crash
    \/ UNCHANGED vars

LEMMA CalmSteps ==
    ASSUME ServiceInv, [Next]_vars, faults = 0, panics = 0, faults' = 0, panics' = 0
    PROVE  CalmStep
BY DEF CalmStep, Next, FaultStep, CommandWriteFault, ProcessOneFault, ExhaustedFault, WorkerPanic

---------------------------------------------------------------------------

LEMMA WorkableNext ==
    ASSUME SameWorkloads, ServiceInv, StatusInv, RequestsKnow, [Next]_vars, NEW e \in Env, Workable(e)
    PROVE  Workable(e)'
<1>0. doc \in [Env -> Doc \cup {NoDoc}] /\ StoreStep(e)
  BY StoreSteps DEF ServiceInv, ServiceTypeOK, VarTypes
<1>1. CASE SameStore(e)
  BY <1>1 DEF SameStore, Workable, Stored
<1>2. CASE Begun(e)
  <2>1. doc'[e].state = "Pending"
    BY <1>2 DEF Begun, NewEnvironment
  <2>. QED
    BY <2>1 DEF Workable
<1>3. CASE Updated(e)
  <2>1. /\ Stored(e) /\ doc[e] \in Doc /\ doc'[e] \in Doc /\ doc'[e].state = doc[e].state
        /\ cluster'[e] = cluster[e]
    BY <1>0, <1>3 DEF Updated, Stored
  <2>2. Stored(e)'
    BY <2>1, NoDocAssumption DEF Stored
  <2>3. DOMAIN doc'[e].spec = DOMAIN doc[e].spec
    BY <2>1 DEF SameWorkloads, Doc
  <2>4. doc[e].state = "Deleting" => doc'[e].desired = "Absent"
    BY <2>1, <2>2, AbsentStays DEF Workable
  <2>. QED
    BY <2>1, <2>3, <2>4 DEF Workable
<1>4. CASE Written(e)
  <2> DEFINE s == StatusToWrite
  <2>1. /\ e = cur /\ pc \in Writing /\ Matches(cur, snap) /\ cluster'[e] = cluster[e]
        /\ doc'[e] = TransitionStatus(doc[e], StatusToWrite)
    BY <1>4 DEF Written
  <2>2. /\ snap \in Doc /\ doc'[e].spec = snap.spec /\ doc[e].spec = snap.spec
        /\ doc[e].state = snap.state /\ doc[e].gen = snap.gen
        /\ doc'[e].state = s.state /\ doc'[e].desired = doc[e].desired
    BY <2>1, WrittenFields
  <2>3. pc \in Engaged /\ Stored(e)
    BY <2>1 DEF Writing, Engaged, Matches
  <2>4. doc[e].desired = snap.desired /\ (pc # "exhaustWrite" => Plan(snap) = PlanOf(pc))
    BY <2>1, <2>2, <2>3 DEF ServiceInv, WorkerOwnsStatus
  <2>5. snap.desired \in Desired /\ snap.state \in States
    BY <2>2 DEF Doc
  <2>6. CASE pc \in {"toReconciling", "exhaustWrite"}
    <3>1. s.state \in {"Reconciling", "Failed"}
      BY <2>6 DEF StatusToWrite
    <3>. QED
      BY <2>2, <3>1 DEF Workable
  <2>7. CASE pc = "toDeleting"
    <3>1. s.state = "Deleting" /\ Plan(snap) = "toDeleting"
      BY <2>4, <2>7 DEF StatusToWrite, PlanOf
    <3>2. snap.desired = "Absent"
      BY <2>5, <3>1 DEF Plan, Desired, States
    <3>. QED
      BY <2>2, <2>4, <3>1, <3>2 DEF Workable
  <2>8. CASE pc = "applied"
    <3>1. s.state = "WaitingRollout" /\ cluster[e] = snap.spec
      BY <2>1, <2>8 DEF StatusToWrite, StatusInv, CallsTrue
    <3>. QED
      BY <2>1, <2>2, <3>1 DEF Workable
  <2>9. CASE pc = "checked"
    <3>1. s.state \in {"Ready", "Failed", "WaitingRollout"}
      BY <2>9 DEF StatusToWrite, RolloutState
    <3>2. DOMAIN snap.spec \subseteq DOMAIN cluster[e]
      BY <2>1, <2>9 DEF StatusInv, CallsTrue
    <3>. QED
      BY <2>1, <2>2, <3>1, <3>2 DEF Workable
  <2>. QED
    BY <2>1, <2>6, <2>7, <2>8, <2>9 DEF Writing
<1>5. CASE Removed(e)
  BY <1>5 DEF Removed, Workable, Stored
<1>6. CASE Called(e)
  <2>1. e = cur /\ pc \in {"apply", "delete"} /\ doc'[e] = doc[e]
    BY <1>6 DEF Called
  <2>2. /\ Stored(e) /\ doc[e].state = snap.state /\ snap \in Doc
        /\ Plan(snap) = pc
    BY <2>1, EngagedTypes DEF ServiceInv, WorkerOwnsStatus, Engaged, PlanOf
  <2>3. snap.desired \in Desired /\ snap.state \in States
    BY <2>2 DEF Doc
  <2>4. doc[e].state # "WaitingRollout"
    BY <2>1, <2>2, <2>3 DEF Plan, Desired, States
  <2>. QED
    BY <2>1, <2>2, <2>4 DEF Workable
<1>. QED
  BY <1>0, <1>1, <1>2, <1>3, <1>4, <1>5, <1>6 DEF StoreStep

---------------------------------------------------------------------------

LEMMA FlightInvNext ==
    ASSUME ServiceInv, FlightInv, CalmStep
    PROVE  FlightInv'
<1>0. inFlight \subseteq Env /\ NoEnv \notin Env
  BY NoEnvAssumption DEF ServiceInv, QueueInv, TypeOK
<1>i. pc \in {"build", "recover", "idle"} => cur = NoEnv /\ inFlight = {}
  BY <1>0 DEF FlightInv
<1>s. ASSUME UNCHANGED <<workerVars, inFlight>> PROVE FlightInv'
  BY <1>s DEF workerVars, FlightInv
<1>1. ASSUME NEW c \in Client, ClientStep(c) PROVE FlightInv'
  <2>1. UNCHANGED <<workerVars, inFlight>>
    BY <1>1 DEF ClientStep, BeginCreate, BeginUpdate, BeginDelete, CommandWrite, CommandEnqueue,
       Enqueue, enqueueNow, queueVars
  <2>. QED
    BY <1>s, <2>1
<1>2. ASSUME NEW e \in Env, QueueGoroutine(e) PROVE FlightInv'
  BY <1>s, <1>2 DEF QueueGoroutine, SendToken, TimerFires, enqueueNow
<1>3. CASE WorkerDequeue
  <2>1. PICK e \in Env : /\ Receive(e)
                         /\ IF Queued(e) THEN pc' = "load" /\ cur' = e
                            ELSE UNCHANGED <<pc, cur>>
    BY <1>3 DEF WorkerDequeue
  <2>2. recovering' = recovering /\ pc = "idle"
    BY <1>3 DEF WorkerDequeue
  <2>. QED
    BY <1>i, <2>1, <2>2 DEF Receive, FlightInv
<1>4. CASE WorkerComplete
  <2>1. inFlight' = inFlight \ {cur} /\ recovering' = recovering /\ pc = "complete"
    BY <1>4 DEF WorkerComplete, Complete
  <2>2. inFlight' = {}
    BY <2>1 DEF FlightInv
  <2>3. pc' \in {"idle", "requeue", "exhaust", "retry"} /\ (pc' = "idle" => cur' = NoEnv)
    BY <1>4 DEF WorkerComplete
  <2>. QED
    BY <2>1, <2>2, <2>3 DEF FlightInv
<1>5. CASE maybeRequeue \/ scheduleRetry
  <2>1. /\ pc \in {"requeue", "retry"} /\ pc' = "idle" /\ cur' = NoEnv
        /\ inFlight' = inFlight /\ recovering' = recovering
    BY <1>5 DEF maybeRequeue, scheduleRetry, NextIteration, EnqueueNoDelay, EnqueueAfter, enqueueNow
  <2>. QED
    BY <2>1 DEF FlightInv
<1>6. CASE RecoverList \/ WorkerStart
  BY <1>6, <1>i DEF RecoverList, WorkerStart, FlightInv, queueVars
<1>7. ASSUME NEW e \in Env, RecoverEnqueue(e) PROVE FlightInv'
  BY <1>7, <1>i DEF RecoverEnqueue, FlightInv, Enqueue, enqueueNow
<1>8. CASE ExhaustedLoad \/ MarkRetryExhausted
  <2>1. /\ pc \in {"exhaust", "exhaustWrite"} /\ inFlight' = inFlight /\ recovering' = recovering
        /\ pc' \in {"exhaustWrite", "requeue", "idle"}
        /\ pc' = "idle" => cur' = NoEnv
        /\ pc' # "idle" => cur' = cur
    BY <1>8 DEF ExhaustedLoad, MarkRetryExhausted, NextIteration, queueVars
  <2>. QED
    BY <2>1 DEF FlightInv
<1>9. CASE \/ ProcessOneLoad \/ transitionToReconciling \/ ApplyResources \/ ApplyResourcesFails
           \/ applyAndWait \/ CheckRollout \/ markReadyFromRollout \/ markFailedFromRollout
           \/ retainWaitingRollout \/ transitionToDeleting \/ RuntimeDelete \/ RuntimeDeleteFails
           \/ deleteAbsent
  <2>1. /\ pc # "recover" /\ UNCHANGED <<inFlight, recovering, cur>>
        /\ pc' \in {"complete", "applied", "checked", "deleted", Plan(doc[cur])}
    BY <1>9 DEF ProcessOneLoad, transitionToReconciling, ApplyResources, ApplyResourcesFails,
       applyAndWait, CheckRollout, markReadyFromRollout, markFailedFromRollout, retainWaitingRollout,
       transitionToDeleting, RuntimeDelete, RuntimeDeleteFails, deleteAbsent, Transition, Return,
       queueVars
  <2>2. Plan(doc[cur]) \notin {"build", "recover", "idle", "requeue", "retry", "exhaust", "exhaustWrite"}
    BY DEF Plan
  <2>. QED
    BY <2>1, <2>2 DEF FlightInv
<1>10. CASE Crash
  BY <1>10 DEF Crash, WorkerReset, RestartedQueue, FlightInv
<1>11. CASE UNCHANGED vars
  BY <1>s, <1>11 DEF vars, queueVars
<1>. QED
  BY <1>1, <1>2, <1>3, <1>4, <1>5, <1>6, <1>7, <1>8, <1>9, <1>10, <1>11
     DEF CalmStep, WorkerStep, ReconcileStep

---------------------------------------------------------------------------

InQueue(e) == Queued(e) \/ HasFollowUp(e) \/ HasTimer(e)

Asked(e) == \E c \in Client : cl[c].at = "enqueue" /\ cl[c].env = e

\* What WorkNotLost says of one environment.
Kept(e) == Stored(e) /\ ~Settled(doc[e]) => Tracked(e)

\* An item that is enqueued is queued, or waits behind the one in flight.
LEMMA Enqueues ==
    ASSUME QueueInv, NEW f \in Env, NEW it \in WorkItem, enqueueNow(f, it), NEW e \in Env,
           e = f \/ Queued(e) \/ HasFollowUp(e)
    PROVE  Queued(e)' \/ HasFollowUp(e)'
<1>0. /\ items \in [Env -> WorkItem \cup {NoItem}] /\ followUps \in [Env -> WorkItem \cup {NoItem}]
      /\ it # NoItem
  BY NoItemAssumption DEF QueueInv, TypeOK
<1>. QED
  BY <1>0 DEF enqueueNow, replaceQueued, deferFollowUp, queueWithToken, Queued, HasFollowUp

\* What is in the queue stays there until the worker takes it.
LEMMA InQueueStays ==
    ASSUME QueueInv, [QueueStep]_queueVars, NEW e \in Env, InQueue(e)
    PROVE  InQueue(e)' \/ (e \notin inFlight /\ e \in inFlight')
<1>0. /\ items \in [Env -> WorkItem \cup {NoItem}] /\ followUps \in [Env -> WorkItem \cup {NoItem}]
      /\ timers \in [Env \X WorkItem -> Nat] /\ UserItem \in WorkItem
  BY MaxRetriesAssumption DEF QueueInv, TypeOK, UserItem, WorkItem, Sources
<1>t. ASSUME timers' = timers, HasTimer(e) PROVE InQueue(e)'
  BY <1>t DEF InQueue, HasTimer
<1>s. ASSUME UNCHANGED <<items, followUps, timers>> PROVE InQueue(e)'
  BY <1>s DEF InQueue, HasTimer, Queued, HasFollowUp
<1>1. ASSUME NEW f \in Env, Receive(f) PROVE InQueue(e)' \/ (e \notin inFlight /\ e \in inFlight')
  <2>1. CASE e = f /\ Queued(e)
    <3>1. e \notin inFlight
      BY <2>1 DEF QueueInv, SingleFlight
    <3>2. e \in inFlight'
      BY <1>1, <2>1 DEF Receive
    <3>. QED
      BY <3>1, <3>2
  <2>2. CASE ~(e = f /\ Queued(e))
    <3>1. items'[e] = items[e] /\ followUps' = followUps /\ timers' = timers
      BY <1>0, <1>1, <2>2 DEF Receive, Queued
    <3>. QED
      BY <3>1 DEF InQueue, HasTimer, Queued, HasFollowUp
  <2>. QED
    BY <2>1, <2>2
<1>2. ASSUME NEW f \in Env, NEW it \in WorkItem, enqueueNow(f, it), timers' = timers
      PROVE  InQueue(e)'
  <2>1. CASE HasTimer(e)
    BY <1>2, <1>t, <2>1
  <2>2. CASE ~HasTimer(e)
    <3>1. Queued(e) \/ HasFollowUp(e)
      BY <2>2 DEF InQueue
    <3>. QED
      BY <1>2, <3>1, Enqueues DEF InQueue
  <2>. QED
    BY <2>1, <2>2
<1>3. ASSUME NEW f \in Env, SendToken(f) PROVE InQueue(e)'
  BY <1>3, <1>s DEF SendToken
<1>4. ASSUME NEW f \in Env, Complete(f) PROVE InQueue(e)'
  <2>1. Queued(e) => Queued(e)'
    BY <1>0, <1>4 DEF Complete, Queued
  <2>2. e = f /\ HasFollowUp(e) => Queued(e)'
    BY <1>0, <1>4 DEF Complete, Queued, HasFollowUp
  <2>3. e # f => followUps'[e] = followUps[e]
    BY <1>0, <1>4 DEF Complete
  <2>4. timers' = timers
    BY <1>4 DEF Complete
  <2>. QED
    BY <2>1, <2>2, <2>3, <2>4 DEF InQueue, HasTimer, HasFollowUp
<1>5. ASSUME NEW f \in Env, NEW it \in WorkItem, EnqueueAfter(f, it) PROVE InQueue(e)'
  <2>1. \A p \in Env \X WorkItem : timers[p] > 0 => timers'[p] > 0
    BY <1>0, <1>5 DEF EnqueueAfter
  <2>2. HasTimer(e) => HasTimer(e)'
    BY <2>1 DEF HasTimer
  <2>3. UNCHANGED <<items, followUps>>
    BY <1>5 DEF EnqueueAfter
  <2>. QED
    BY <2>2, <2>3 DEF InQueue, Queued, HasFollowUp
<1>6. ASSUME NEW f \in Env, NEW it \in WorkItem, TimerFires(f, it) PROVE InQueue(e)'
  <2>0. enqueueNow(f, it)
    BY <1>6 DEF TimerFires
  <2>1. CASE e = f \/ Queued(e) \/ HasFollowUp(e)
    BY <2>0, <2>1, Enqueues DEF InQueue
  <2>2. CASE e # f /\ HasTimer(e)
    <3>1. PICK i \in WorkItem : timers[<<e, i>>] > 0
      BY <2>2 DEF HasTimer
    <3>2. timers'[<<e, i>>] = timers[<<e, i>>]
      BY <1>0, <1>6, <2>2 DEF TimerFires
    <3>. QED
      BY <3>1, <3>2 DEF InQueue, HasTimer
  <2>. QED
    BY <2>1, <2>2 DEF InQueue
<1>7. CASE UNCHANGED queueVars
  BY <1>7, <1>s DEF queueVars
<1>. QED
  BY <1>0, <1>1, <1>2, <1>3, <1>4, <1>5, <1>6, <1>7
     DEF QueueStep, Dequeue, Enqueue, EnqueueNoDelay

LEMMA TrackedIs ==
    ASSUME NEW e \in Env
    PROVE  Tracked(e) <=> (InQueue(e) \/ WorkingOn(e) \/ pc = "build" \/ e \in recovering \/ Asked(e))
BY DEF Tracked, InQueue, Asked

\* A step that leaves the document of e alone and hands its work on.
LEMMA StaysKept ==
    ASSUME NEW e \in Env, Kept(e), doc'[e] = doc[e],
           InQueue(e) => InQueue(e)' \/ WorkingOn(e)',
           WorkingOn(e) => WorkingOn(e)' \/ InQueue(e)',
           pc = "build" => pc' = "build",
           e \in recovering => e \in recovering' \/ InQueue(e)',
           Asked(e) => Asked(e)' \/ InQueue(e)'
    PROVE  Kept(e)'
<1>1. CASE Stored(e) /\ ~Settled(doc[e])
  <2>1. InQueue(e) \/ WorkingOn(e) \/ pc = "build" \/ e \in recovering \/ Asked(e)
    BY <1>1, TrackedIs DEF Kept
  <2>2. InQueue(e)' \/ WorkingOn(e)' \/ pc' = "build" \/ e \in recovering' \/ Asked(e)'
    BY <2>1
  <2>3. Tracked(e)'
    BY <2>2 DEF Tracked, InQueue, Asked
  <2>. QED
    BY <2>3 DEF Kept
<1>2. CASE ~(Stored(e) /\ ~Settled(doc[e]))
  <2>1. ~(Stored(e)' /\ ~Settled(doc'[e]))
    BY <1>2 DEF Stored, Settled
  <2>. QED
    BY <2>1 DEF Kept
<1>. QED
  BY <1>1, <1>2

---------------------------------------------------------------------------

\* Only the worker's Dequeue, and the end of the process, take an item from the
\* queue.
LEMMA InQueueKept ==
    ASSUME ServiceInv, Next, crashes' = crashes, inFlight' \subseteq inFlight, NEW e \in Env, InQueue(e)
    PROVE  InQueue(e)'
<1>1. crashes \in Nat
  BY BoundAssumption DEF ServiceInv, ServiceTypeOK, VarTypes
<1>2. ~Crash
  BY <1>1 DEF Crash
<1>3. [QueueStep]_queueVars /\ QueueInv
  BY <1>2, UsesQueue DEF ServiceInv
<1>. QED
  BY <1>3, InQueueStays

\* Requests: an accepted write is followed by an enqueue.
LEMMA ClientKeeps ==
    ASSUME ServiceInv, NEW c \in Client, ClientStep(c), NEW e \in Env, Kept(e)
    PROVE  Kept(e)'
<1>0. cl \in [Client -> Request \cup {Idle}] /\ doc \in [Env -> Doc \cup {NoDoc}] /\ QueueInv
  BY DEF ServiceInv, ServiceTypeOK, VarTypes
<1>1. UNCHANGED <<workerVars, crashes, inFlight>>
  BY DEF ClientStep, BeginCreate, BeginUpdate, BeginDelete, CommandWrite, CommandEnqueue,
     Enqueue, enqueueNow, queueVars, budgetVars
<1>2. WorkingOn(e)' = WorkingOn(e) /\ pc' = pc /\ recovering' = recovering
  BY <1>1 DEF workerVars, WorkingOn
<1>11. InQueue(e) => InQueue(e)'
  BY <1>1, InQueueKept DEF Next
<1>12. ASSUME doc' = doc, Asked(e) => Asked(e)' \/ InQueue(e)' PROVE Kept(e)'
  BY <1>2, <1>11, <1>12, StaysKept
<1>13. ASSUME NEW d \in Client, cl[d].at = "enqueue", cl[d].env = e, cl'[d] = cl[d] PROVE Asked(e)'
  BY <1>13 DEF Asked
<1>14. ASSUME cl[c].at # "enqueue", NEW r, cl' = [cl EXCEPT ![c] = r] PROVE Asked(e) => Asked(e)'
  BY <1>0, <1>13, <1>14 DEF Asked
<1>15. ASSUME NEW f \in Env, NEW s \in Spec, BeginCreate(c, f, s) \/ BeginUpdate(c, f, s)
      PROVE  Kept(e)'
  <2>1. cl[c].at # "enqueue" /\ doc' = doc /\ \E r : cl' = [cl EXCEPT ![c] = r]
    BY <1>15 DEF BeginCreate, BeginUpdate, Idle
  <2>. QED
    BY <1>12, <1>14, <2>1
<1>16. ASSUME NEW f \in Env, BeginDelete(c, f) PROVE Kept(e)'
  <2>1. /\ cl[c].at # "enqueue" /\ doc' = doc
        /\ cl' = [cl EXCEPT ![c] = Request0("Delete", f, doc[f].gen, doc[f].spec)]
    BY <1>16 DEF BeginDelete, Idle
  <2>2. Asked(e) => Asked(e)'
    BY <1>14, <2>1
  <2>. QED
    BY <1>12, <2>1, <2>2
<1>17. CASE CommandWrite(c) /\ ~Accepted(cl[c])
  <2>1. cl[c].at # "enqueue" /\ doc' = doc /\ \E r : cl' = [cl EXCEPT ![c] = r]
    BY <1>17 DEF CommandWrite
  <2>. QED
    BY <1>12, <1>14, <2>1
<1>18. CASE CommandWrite(c) /\ Accepted(cl[c])
  <2>0. cl[c].at = "write" /\ cl' = [cl EXCEPT ![c].at = "enqueue"] /\ StoreWrite(cl[c])
    BY <1>18 DEF CommandWrite
  <2>1. cl[c] \in Request
    BY <1>0, <2>0 DEF Idle
  <2>2. cl'[c].at = "enqueue" /\ cl'[c].env = cl[c].env
    BY <1>0, <2>0, <2>1 DEF Request
  <2>3. CASE e = cl[c].env
    <3>1. Asked(e)'
      BY <2>2, <2>3 DEF Asked
    <3>. QED
      BY <3>1 DEF Kept, Tracked, Asked
  <2>4. CASE e # cl[c].env
    <3>1. doc'[e] = doc[e]
      BY <1>0, <2>0, <2>4 DEF StoreWrite
    <3>2. Asked(e) => Asked(e)'
      <4>1. cl' = [cl EXCEPT ![c] = [cl[c] EXCEPT !.at = "enqueue"]]
        BY <2>0
      <4>. QED
        BY <1>14, <2>0, <4>1
    <3>. QED
      BY <1>2, <1>11, <3>1, <3>2, StaysKept
  <2>. QED
    BY <2>3, <2>4
<1>19. CASE CommandEnqueue(c)
  <2>1. /\ cl[c].at = "enqueue" /\ doc' = doc /\ cl' = [cl EXCEPT ![c] = Idle]
        /\ enqueueNow(cl[c].env, UserItem)
    BY <1>19 DEF CommandEnqueue, Enqueue
  <2>2. UserItem \in WorkItem
    BY MaxRetriesAssumption DEF UserItem, WorkItem, Sources
  <2>3. e = cl[c].env => InQueue(e)'
    BY <1>0, <2>1, <2>2, Enqueues DEF InQueue
  <2>4. ASSUME NEW d \in Client, cl[d].at = "enqueue", cl[d].env = e, e # cl[c].env
        PROVE  Asked(e)'
    <3>1. cl'[d] = cl[d]
      BY <1>0, <2>1, <2>4
    <3>. QED
      BY <1>13, <2>4, <3>1
  <2>5. Asked(e) => Asked(e)' \/ InQueue(e)'
    BY <2>3, <2>4 DEF Asked
  <2>. QED
    BY <1>12, <2>1, <2>5
<1>. QED
  BY <1>15, <1>16, <1>17, <1>18, <1>19 DEF ClientStep

\* The queue's goroutines: a token is sent, a timer becomes an item.
LEMMA GoroutineKeeps ==
    ASSUME ServiceInv, NEW f \in Env, QueueGoroutine(f), NEW e \in Env, Kept(e)
    PROVE  Kept(e)'
<1>1. UNCHANGED <<doc, cl, workerVars, crashes, inFlight>>
  BY DEF QueueGoroutine, SendToken, TimerFires, enqueueNow, budgetVars
<1>2. InQueue(e) => InQueue(e)'
  BY <1>1, InQueueKept DEF Next
<1>3. WorkingOn(e)' = WorkingOn(e) /\ pc' = pc /\ recovering' = recovering /\ Asked(e)' = Asked(e)
  BY <1>1 DEF workerVars, WorkingOn, Asked
<1>. QED
  BY <1>1, <1>2, <1>3, StaysKept

\* Dequeue: the item leaves the queue with the worker.
LEMMA DequeueKeeps ==
    ASSUME ServiceInv, FlightInv, WorkerDequeue, NEW e \in Env, Kept(e)
    PROVE  Kept(e)'
<1>1. PICK f \in Env : Receive(f) /\ (Queued(f) => pc' = "load" /\ cur' = f)
  BY DEF WorkerDequeue
<1>2. UNCHANGED <<doc, cl, recovering>> /\ pc = "idle" /\ cur = NoEnv
  BY DEF WorkerDequeue, FlightInv
<1>3. [QueueStep]_queueVars /\ QueueInv
  BY <1>1 DEF QueueStep, Dequeue, ServiceInv
<1>4. ASSUME e \notin inFlight, e \in inFlight' PROVE WorkingOn(e)'
  <2>1. e = f /\ Queued(f)
    BY <1>1, <1>4 DEF Receive
  <2>. QED
    BY <1>1, <2>1 DEF WorkingOn
<1>5. InQueue(e) => InQueue(e)' \/ WorkingOn(e)'
  BY <1>3, <1>4, InQueueStays
<1>6. ~WorkingOn(e)
  BY <1>2, NoEnvAssumption DEF WorkingOn
<1>7. Asked(e) => Asked(e)'
  BY <1>2 DEF Asked
<1>. QED
  BY <1>2, <1>5, <1>6, <1>7, StaysKept

\* A step of the worker within one iteration: it goes on, or it leaves its
\* environment settled or removed.
LEMMA IterationKeeps ==
    ASSUME ServiceInv, Next, UNCHANGED <<cl, recovering, crashes, inFlight>>, pc # "build",
           \A f \in Env : f # cur => doc'[f] = doc[f],
           \/ cur' = cur /\ ~(pc' = "complete" /\ out' \in {"stop", "dropped"})
           \/ doc'[cur] = NoDoc
           \/ Settled(doc'[cur]),
           NEW e \in Env, Kept(e)
    PROVE  Kept(e)'
<1>1. CASE e = cur
  <2>1. WorkingOn(e)' \/ ~Stored(e)' \/ Settled(doc'[e])
    BY <1>1 DEF WorkingOn, Stored
  <2>. QED
    BY <2>1 DEF Kept, Tracked
<1>2. CASE e # cur
  <2>1. InQueue(e) => InQueue(e)'
    BY InQueueKept
  <2>2. Asked(e) => Asked(e)'
    BY DEF Asked
  <2>3. ~WorkingOn(e)
    BY <1>2 DEF WorkingOn
  <2>. QED
    BY <1>2, <2>1, <2>2, <2>3, StaysKept
<1>. QED
  BY <1>1, <1>2

\* The status that ends a rollout, or the retries, settles the generation.
LEMMA WriteSettles ==
    ASSUME ServiceInv, pc \in Writing, Matches(cur, snap), WriteStatus
    PROVE  /\ \A f \in Env : f # cur => doc'[f] = doc[f]
           /\ pc = "exhaustWrite" => Settled(doc'[cur])
           /\ pc = "checked" /\ RolloutState(rollout) \in {"ready", "failed"} => Settled(doc'[cur])
<1>0. doc \in [Env -> Doc \cup {NoDoc}]
  BY DEF ServiceInv, ServiceTypeOK, VarTypes
<1> DEFINE s == StatusToWrite
<1>1. /\ cur \in Env /\ snap \in Doc
      /\ TransitionStatus(doc[cur], s).gen = snap.gen
      /\ TransitionStatus(doc[cur], s).state = s.state
      /\ TransitionStatus(doc[cur], s).observed = IF s.observed = 0 THEN doc[cur].observed ELSE s.observed
  BY WrittenFields
<1>2. doc'[cur] = TransitionStatus(doc[cur], s) /\ \A f \in Env : f # cur => doc'[f] = doc[f]
  BY <1>0, <1>1 DEF WriteStatus
<1>3. snap.gen # 0
  BY <1>1 DEF Doc
<1>4. ASSUME s.state \in {"Ready", "Failed"}, s.observed = snap.gen PROVE Settled(doc'[cur])
  BY <1>1, <1>2, <1>3, <1>4 DEF Settled
<1>5. pc = "exhaustWrite" => s.state = "Failed" /\ s.observed = snap.gen
  BY DEF StatusToWrite
<1>6. pc = "checked" /\ RolloutState(rollout) = "ready" => s.state = "Ready" /\ s.observed = snap.gen
  BY DEF StatusToWrite
<1>7. pc = "checked" /\ RolloutState(rollout) = "failed" => s.state = "Failed" /\ s.observed = snap.gen
  BY DEF StatusToWrite
<1>. QED
  BY <1>2, <1>4, <1>5, <1>6, <1>7

LEMMA TransitionKeeps ==
    ASSUME ServiceInv, Next, pc \in Writing, NEW ok, Transition(ok), pc # "exhaustWrite",
           ok \in {"stop", "dropped"} =>
               pc = "checked" /\ RolloutState(rollout) \in {"ready", "failed"},
           NEW e \in Env, Kept(e)
    PROVE  Kept(e)'
<1>1. /\ UNCHANGED <<cl, recovering, crashes, inFlight>> /\ pc # "build" /\ cur' = cur
      /\ pc' = "complete"
  BY DEF Transition, Return, Writing, queueVars, budgetVars
<1>2. Stored(cur) /\ pc \in Engaged
  BY DEF ServiceInv, WorkerOwnsStatus, Engaged, Writing
<1>3. CASE Matches(cur, snap)
  <2>1. WriteStatus /\ out' = ok
    BY <1>3 DEF Transition, Return
  <2>2. /\ \A f \in Env : f # cur => doc'[f] = doc[f]
        /\ ok \in {"stop", "dropped"} => Settled(doc'[cur])
    BY <1>3, <2>1, WriteSettles
  <2>. QED
    BY <1>1, <2>1, <2>2, IterationKeeps
<1>4. CASE ~Matches(cur, snap)
  <2>1. doc' = doc /\ out' = "soon"
    BY <1>2, <1>4 DEF Transition, Return
  <2>. QED
    BY <1>1, <2>1, IterationKeeps
<1>. QED
  BY <1>3, <1>4

\* ProcessOne: the worker stops only with what is settled or gone.
LEMMA ReconcileKeeps ==
    ASSUME ServiceInv, StatusInv, FlightInv, SameWorkloads, ReconcileStep,
           \A f \in Env : Workable(f), NEW e \in Env, Kept(e)
    PROVE  Kept(e)'
<1>n. Next
  BY DEF Next, WorkerStep
<1>0. doc \in [Env -> Doc \cup {NoDoc}]
  BY DEF ServiceInv, ServiceTypeOK, VarTypes
<1>1. CASE \/ transitionToReconciling \/ applyAndWait \/ transitionToDeleting
           \/ markReadyFromRollout \/ markFailedFromRollout
  <2>1. PICK ok : /\ Transition(ok) /\ pc \in Writing /\ pc # "exhaustWrite"
                  /\ ok \in {"stop", "dropped"} =>
                       pc = "checked" /\ RolloutState(rollout) \in {"ready", "failed"}
    BY <1>1 DEF transitionToReconciling, applyAndWait, transitionToDeleting, markReadyFromRollout,
       markFailedFromRollout, Writing
  <2>. QED
    BY <1>n, <2>1, TransitionKeeps
<1>2. CASE retainWaitingRollout
  <2>1. CASE Transition("poll")
    <3>1. pc \in Writing /\ pc # "exhaustWrite"
      BY <1>2 DEF retainWaitingRollout, Writing
    <3>. QED
      BY <1>n, <2>1, <3>1, TransitionKeeps
  <2>2. CASE ~Transition("poll")
    <3>1. /\ UNCHANGED <<cl, recovering, crashes, inFlight, doc, cur>> /\ pc # "build"
          /\ out' = "poll"
      BY <1>2, <2>2 DEF retainWaitingRollout, Return, queueVars, budgetVars
    <3>. QED
      BY <1>n, <3>1, IterationKeeps
  <2>. QED
    BY <2>1, <2>2
<1>3. CASE ProcessOneLoad
  <2>1. /\ UNCHANGED <<cl, recovering, crashes, inFlight, doc, cur>> /\ pc = "load" /\ cur \in Env
    BY <1>3 DEF ProcessOneLoad, ServiceInv, WorkerInv, queueVars, budgetVars
  <2>2. CASE ~Stored(cur)
    BY <1>n, <2>1, <2>2, IterationKeeps DEF Stored
  <2>3. CASE Stored(cur)
    <3>1. doc[cur] \in Doc
      BY <1>0, <2>1, <2>3 DEF Stored
    <3>2. doc[cur].desired \in Desired /\ doc[cur].state \in States
      BY <3>1 DEF Doc
    <3>3. Plan(doc[cur]) # "unsupported"
      <4>1. doc[cur].state = "Deleting" => doc[cur].desired = "Absent"
        BY <2>1, <2>3 DEF Workable
      <4>. QED
        BY <3>2, <4>1 DEF Plan, Desired, States
    <3>4. Plan(doc[cur]) = "terminal" => Settled(doc'[cur])
      BY <2>1, <3>2 DEF Plan, Desired, States, Settled
    <3>5. Plan(doc[cur]) # "terminal" => pc' # "complete"
      <4>1. Plan(doc[cur]) # "complete"
        BY DEF Plan
      <4>. QED
        BY <1>3, <2>3, <3>3, <4>1 DEF ProcessOneLoad
    <3>. QED
      BY <1>n, <2>1, <3>4, <3>5, IterationKeeps
  <2>. QED
    BY <2>2, <2>3
<1>4. CASE ApplyResources \/ RuntimeDelete \/ ApplyResourcesFails \/ RuntimeDeleteFails
  <2>1. /\ UNCHANGED <<cl, recovering, crashes, inFlight, doc, cur>> /\ pc # "build"
        /\ pc' # "complete" \/ out' = "counted"
    BY <1>4 DEF ApplyResources, RuntimeDelete, ApplyResourcesFails, RuntimeDeleteFails, Return,
       queueVars, budgetVars
  <2>. QED
    BY <1>n, <2>1, IterationKeeps
<1>5. CASE CheckRollout
  <2>1. /\ UNCHANGED <<cl, recovering, crashes, inFlight, doc, cur>> /\ pc = "check"
    BY <1>5 DEF CheckRollout, queueVars, budgetVars
  <2>2. /\ Stored(cur) /\ doc[cur].state = snap.state /\ snap \in Doc /\ cur \in Env
        /\ Plan(snap) = "check"
    BY <2>1, EngagedTypes DEF ServiceInv, WorkerOwnsStatus, Engaged, PlanOf
  <2>d. doc[cur] \in Doc
    BY <1>0, <2>2 DEF Stored
  <2>3. snap.state = "WaitingRollout"
    <3>1. snap.desired \in Desired /\ snap.state \in States
      BY <2>2 DEF Doc
    <3>. QED
      BY <2>2, <3>1 DEF Plan, Desired, States
  <2>4. DOMAIN doc[cur].spec \subseteq DOMAIN cluster[cur]
    BY <2>2, <2>3 DEF Workable
  <2>5. DOMAIN snap.spec = DOMAIN doc[cur].spec
    BY <2>2, <2>d DEF SameWorkloads, Doc
  <2>6. pc' = "checked"
    BY <1>5, <2>4, <2>5 DEF CheckRollout
  <2>. QED
    BY <1>n, <2>1, <2>6, IterationKeeps
<1>6. CASE deleteAbsent
  <2>1. UNCHANGED <<cl, recovering, crashes, inFlight>> /\ pc = "deleted" /\ cur \in Env
    BY <1>6 DEF deleteAbsent, ServiceInv, WorkerInv, queueVars, budgetVars
  <2>2. doc'[cur] = NoDoc /\ \A f \in Env : f # cur => doc'[f] = doc[f]
    BY <1>0, <1>6, <2>1 DEF deleteAbsent
  <2>. QED
    BY <1>n, <2>1, <2>2, IterationKeeps
<1>7. CASE ExhaustedLoad
  <2>1. UNCHANGED <<cl, recovering, crashes, inFlight, doc>> /\ pc = "exhaust"
    BY <1>7 DEF ExhaustedLoad, queueVars, budgetVars
  <2>2. (cur' = cur /\ pc' = "exhaustWrite") \/ doc'[cur] = NoDoc
    BY <1>7, <2>1 DEF ExhaustedLoad, Stored
  <2>. QED
    BY <1>n, <2>1, <2>2, IterationKeeps
<1>8. CASE MarkRetryExhausted
  <2>1. UNCHANGED <<cl, recovering, crashes, inFlight>> /\ pc = "exhaustWrite"
    BY <1>8 DEF MarkRetryExhausted, queueVars, budgetVars
  <2>2. CASE Matches(cur, snap)
    <3>1. WriteStatus /\ pc \in Writing
      BY <1>8, <2>1, <2>2 DEF MarkRetryExhausted, Writing
    <3>2. /\ \A f \in Env : f # cur => doc'[f] = doc[f]
          /\ Settled(doc'[cur])
      BY <2>1, <2>2, <3>1, WriteSettles
    <3>. QED
      BY <1>n, <2>1, <3>2, IterationKeeps
  <2>3. CASE ~Matches(cur, snap)
    <3>1. doc' = doc /\ ((cur' = cur /\ pc' = "requeue") \/ doc'[cur] = NoDoc)
      BY <1>8, <2>3 DEF MarkRetryExhausted, Stored
    <3>. QED
      BY <1>n, <2>1, <3>1, IterationKeeps
  <2>. QED
    BY <2>2, <2>3
<1>. QED
  BY <1>1, <1>2, <1>3, <1>4, <1>5, <1>6, <1>7, <1>8 DEF ReconcileStep

\* The end of an iteration: what goes on is queued again or asleep in a timer.
LEMMA RequeueKeeps ==
    ASSUME ServiceInv, FlightInv, WorkerComplete \/ maybeRequeue \/ scheduleRetry,
           NEW e \in Env, Kept(e)
    PROVE  Kept(e)'
<1>0. /\ cur \in Env /\ item \in WorkItem /\ (pc = "retry" => item.retry < MaxRetries) /\ QueueInv
      /\ timers \in [Env \X WorkItem -> Nat]
  BY DEF WorkerComplete, maybeRequeue, scheduleRetry, ServiceInv, WorkerInv, QueueInv, TypeOK
<1>1. UNCHANGED <<cl, doc, recovering, crashes>> /\ inFlight' \subseteq inFlight /\ pc # "build"
  BY DEF WorkerComplete, maybeRequeue, scheduleRetry, Complete, EnqueueNoDelay, EnqueueAfter,
         enqueueNow, budgetVars
<1>2. InQueue(e) => InQueue(e)'
  BY <1>1, InQueueKept DEF Next, WorkerStep
<1>3. Asked(e) => Asked(e)'
  BY <1>1 DEF Asked
<1>4. ASSUME NEW it \in WorkItem, EnqueueAfter(e, it) PROVE InQueue(e)'
  <2>1. <<e, it>> \in Env \X WorkItem
    OBVIOUS
  <2>2. timers'[<<e, it>>] = timers[<<e, it>>] + 1
    BY <1>0, <1>4, <2>1 DEF EnqueueAfter
  <2>3. timers'[<<e, it>>] > 0
    BY <1>0, <2>1, <2>2
  <2>. QED
    BY <2>3 DEF InQueue, HasTimer
<1>5. WorkingOn(e) => WorkingOn(e)' \/ InQueue(e)'
  <2>. SUFFICES ASSUME WorkingOn(e) PROVE WorkingOn(e)' \/ InQueue(e)'
    OBVIOUS
  <2>0. e = cur
    BY DEF WorkingOn
  <2>1. CASE WorkerComplete
    <3>1. out \notin {"stop", "dropped"}
      BY <2>1 DEF WorkingOn, WorkerComplete
    <3>2. pc' \in {"requeue", "exhaust", "retry"}
      BY <2>1, <3>1 DEF WorkerComplete
    <3>3. cur' = cur
      BY <2>1, <3>2 DEF WorkerComplete
    <3>. QED
      BY <2>0, <3>2, <3>3 DEF WorkingOn
  <2>2. CASE maybeRequeue
    <3>1. [retry |-> item.retry, source |-> IF out = "poll" THEN "Poll" ELSE "Retry"] \in WorkItem
      BY <1>0 DEF WorkItem, Sources
    <3>2. PICK it \in WorkItem :
            it = [retry |-> item.retry, source |-> IF out = "poll" THEN "Poll" ELSE "Retry"]
      BY <3>1
    <3>3. enqueueNow(e, it) \/ EnqueueAfter(e, it)
      BY <2>0, <2>2, <3>2 DEF maybeRequeue, EnqueueNoDelay
    <3>. QED
      BY <1>0, <1>4, <3>3, Enqueues DEF InQueue
  <2>3. CASE scheduleRetry
    <3>1. [retry |-> item.retry + 1, source |-> "Retry"] \in WorkItem
      BY <1>0, <2>3, MaxRetriesAssumption DEF scheduleRetry, WorkItem, Sources
    <3>2. PICK it \in WorkItem : it = [retry |-> item.retry + 1, source |-> "Retry"]
      BY <3>1
    <3>3. EnqueueAfter(e, it)
      BY <2>0, <2>3, <3>2 DEF scheduleRetry
    <3>. QED
      BY <1>4, <3>3
  <2>. QED
    BY <2>1, <2>2, <2>3
<1>. QED
  BY <1>1, <1>2, <1>3, <1>5, StaysKept

\* Recovery: ListNeedingReconcile lists every document that is not settled, and
\* each is enqueued before the worker starts.
LEMMA RecoverKeeps ==
    ASSUME ServiceInv, StatusInv, RecoverList \/ WorkerStart \/ \E f \in Env : RecoverEnqueue(f),
           NEW e \in Env, Workable(e), Kept(e)
    PROVE  Kept(e)'
<1>0. doc \in [Env -> Doc \cup {NoDoc}] /\ QueueInv /\ UserItem \in WorkItem
  BY MaxRetriesAssumption DEF ServiceInv, ServiceTypeOK, VarTypes, UserItem, WorkItem, Sources
<1>1. UNCHANGED <<cl, doc, crashes, inFlight, cur>>
  BY DEF RecoverList, WorkerStart, RecoverEnqueue, Enqueue, enqueueNow, queueVars, budgetVars
<1>2. InQueue(e) => InQueue(e)'
  BY <1>1, InQueueKept DEF Next, WorkerStep
<1>3. Asked(e) => Asked(e)'
  BY <1>1 DEF Asked
<1>4. CASE RecoverList
  <2>1. ASSUME Stored(e), ~Settled(doc[e]) PROVE e \in ListNeedingReconcile
    <3>1. doc[e] \in Doc
      BY <1>0, <2>1 DEF Stored
    <3>2. /\ doc[e].gen \in Nat /\ doc[e].observed \in Nat
          /\ doc[e].desired \in Desired /\ doc[e].state \in States
      BY <3>1 DEF Doc
    <3>3. doc[e].observed <= doc[e].gen
      BY <2>1 DEF StatusInv, StatusTrue
    <3>4. doc[e].observed < doc[e].gen \/ doc[e].observed = doc[e].gen
      BY <3>2, <3>3
    <3>5. doc[e].state = "Deleting" => doc[e].desired = "Absent"
      BY <2>1 DEF Workable
    <3>. QED
      BY <2>1, <3>2, <3>4, <3>5 DEF Settled, ListNeedingReconcile, Desired, States
  <2>2. Stored(e)' /\ ~Settled(doc'[e]) => e \in recovering'
    BY <1>1, <1>4, <2>1 DEF RecoverList, Stored
  <2>. QED
    BY <2>2 DEF Kept, Tracked
<1>5. CASE WorkerStart
  <2>1. pc = "recover" /\ recovering = {} /\ pc' = "idle"
    BY <1>5 DEF WorkerStart
  <2>2. WorkingOn(e) => WorkingOn(e)'
    BY <1>1, <2>1 DEF WorkingOn
  <2>. QED
    BY <1>1, <1>2, <1>3, <2>1, <2>2, StaysKept
<1>6. ASSUME NEW f \in Env, RecoverEnqueue(f) PROVE Kept(e)'
  <2>1. pc = "recover" /\ pc' = pc /\ recovering' = recovering \ {f} /\ enqueueNow(f, UserItem)
    BY <1>6 DEF RecoverEnqueue, Enqueue
  <2>2. e = f => InQueue(e)'
    BY <1>0, <2>1, Enqueues DEF InQueue
  <2>3. WorkingOn(e) => WorkingOn(e)'
    BY <1>1, <2>1 DEF WorkingOn
  <2>. QED
    BY <1>1, <1>2, <1>3, <2>1, <2>2, <2>3, StaysKept
<1>. QED
  BY <1>4, <1>5, <1>6

LEMMA KeptNext ==
    ASSUME SameWorkloads, ServiceInv, StatusInv, WorkInv, CalmStep, NEW e \in Env
    PROVE  Kept(e)'
<1>0. FlightInv /\ Kept(e) /\ \A f \in Env : Workable(f)
  BY DEF WorkInv, WorkNotLost, Kept
<1>1. CASE \E c \in Client : ClientStep(c)
  BY <1>0, <1>1, ClientKeeps
<1>2. CASE \E f \in Env : QueueGoroutine(f)
  BY <1>0, <1>2, GoroutineKeeps
<1>3. CASE WorkerStep
  <2>1. CASE WorkerDequeue
    BY <1>0, <2>1, DequeueKeeps
  <2>2. CASE WorkerComplete \/ maybeRequeue \/ scheduleRetry
    BY <1>0, <2>2, RequeueKeeps
  <2>3. CASE ReconcileStep
    BY <1>0, <2>3, ReconcileKeeps
  <2>4. CASE RecoverList \/ WorkerStart \/ \E f \in Env : RecoverEnqueue(f)
    BY <1>0, <2>4, RecoverKeeps
  <2>. QED
    BY <1>3, <2>1, <2>2, <2>3, <2>4 DEF WorkerStep
<1>4. CASE Crash
  BY <1>4 DEF Crash, WorkerReset, Kept, Tracked
<1>5. CASE UNCHANGED vars
  BY <1>0, <1>5 DEF vars, queueVars, workerVars, Kept, Tracked, Stored, Settled, WorkingOn,
     HasTimer, Queued, HasFollowUp
<1>. QED
  BY <1>1, <1>2, <1>3, <1>4, <1>5 DEF CalmStep

\* No fault and no panic has happened yet.
Calm == faults = 0 /\ panics = 0

LEMMA WorkInvInit == Init => WorkInv
<1>. SUFFICES ASSUME Init PROVE WorkInv
  OBVIOUS
<1>1. FlightInv
  BY DEF Init, NewQueue, FlightInv
<1>2. \A e \in Env : ~Stored(e)
  BY DEF Init, Stored
<1>. QED
  BY <1>1, <1>2 DEF WorkInv, WorkNotLost, Workable

LEMMA WorkInvNext ==
    SameWorkloads =>
      (ServiceInv /\ StatusInv /\ RequestsKnow /\ (Calm => WorkInv) /\ [Next]_vars
         => (Calm' => WorkInv'))
<1>. SUFFICES ASSUME SameWorkloads, ServiceInv, StatusInv, RequestsKnow, Calm => WorkInv,
                     [Next]_vars, Calm'
              PROVE  WorkInv'
  OBVIOUS
<1>1. Calm
  <2>1. faults \in Nat /\ panics \in Nat
    BY BoundAssumption DEF ServiceInv, ServiceTypeOK, VarTypes
  <2>2. faults' = faults \/ faults' = faults + 1
    BY DEF vars, budgetVars, Next, ClientStep, BeginCreate, BeginUpdate, BeginDelete, CommandWrite,
       CommandEnqueue, WorkerStep, ReconcileStep, WorkerDequeue, WorkerComplete, maybeRequeue,
       scheduleRetry, RecoverList, RecoverEnqueue, WorkerStart, ProcessOneLoad,
       transitionToReconciling, ApplyResources, ApplyResourcesFails, applyAndWait, CheckRollout,
       markReadyFromRollout, markFailedFromRollout, retainWaitingRollout, transitionToDeleting,
       RuntimeDelete, RuntimeDeleteFails, deleteAbsent, ExhaustedLoad, MarkRetryExhausted,
       Transition, QueueGoroutine, FaultStep, CommandWriteFault, ProcessOneFault, ExhaustedFault,
       WorkerPanic, Crash
  <2>3. panics' = panics \/ panics' = panics + 1
    BY DEF vars, budgetVars, Next, ClientStep, BeginCreate, BeginUpdate, BeginDelete, CommandWrite,
       CommandEnqueue, WorkerStep, ReconcileStep, WorkerDequeue, WorkerComplete, maybeRequeue,
       scheduleRetry, RecoverList, RecoverEnqueue, WorkerStart, ProcessOneLoad,
       transitionToReconciling, ApplyResources, ApplyResourcesFails, applyAndWait, CheckRollout,
       markReadyFromRollout, markFailedFromRollout, retainWaitingRollout, transitionToDeleting,
       RuntimeDelete, RuntimeDeleteFails, deleteAbsent, ExhaustedLoad, MarkRetryExhausted,
       Transition, QueueGoroutine, FaultStep, CommandWriteFault, ProcessOneFault, ExhaustedFault,
       WorkerPanic, Crash
  <2>. QED
    BY <2>1, <2>2, <2>3 DEF Calm
<1>2. CalmStep /\ WorkInv
  BY <1>1, CalmSteps DEF Calm
<1>3. FlightInv'
  BY <1>2, FlightInvNext DEF WorkInv
<1>4. ASSUME NEW e \in Env PROVE Workable(e)'
  BY <1>2, WorkableNext DEF WorkInv
<1>5. ASSUME NEW e \in Env PROVE Kept(e)'
  BY <1>2, KeptNext
<1>6. WorkNotLost'
  BY <1>5 DEF WorkNotLost, Kept
<1>. QED
  BY <1>3, <1>4, <1>6 DEF WorkInv

\* A worker that waits has nothing in flight, so what stands for an environment
\* is in the queue or on its way there.
LEMMA IdleHoldsNothing == ServiceInv /\ WorkInv => RecoveredWorkRuns
<1>. SUFFICES ASSUME ServiceInv, WorkInv, pc = "idle", NEW e \in Env,
                     Stored(e) /\ ~Settled(doc[e])
              PROVE  Queued(e) \/ HasTimer(e) \/ Asked(e)
  BY DEF RecoveredWorkRuns, Asked
<1>1. Tracked(e) /\ FlightInv
  BY DEF WorkInv, WorkNotLost
<1>2. cur = NoEnv /\ inFlight \subseteq Env /\ recovering = {}
  BY <1>1 DEF FlightInv, ServiceInv, QueueInv, TypeOK
<1>3. e \notin inFlight /\ ~WorkingOn(e)
  BY <1>1, <1>2, NoEnvAssumption DEF FlightInv, WorkingOn
<1>4. ~HasFollowUp(e)
  BY <1>3 DEF ServiceInv, QueueInv, SingleFlight
<1>. QED
  BY <1>1, <1>2, <1>3, <1>4 DEF Tracked, Asked

\* An accepted change is not lost, across crashes at any point, merged items,
\* overtaken writes and retries, as long as no transient error and no panic has
\* made the worker drop an item.  The two conditions on the constants leave out
\* what the code does not survive: a name created again while a request still
\* holds a generation of the old document, and an update that adds a workload
\* to an environment that is rolling out.
THEOREM AcceptedWorkIsKept ==
    MaxCreations <= 1 /\ SameWorkloads => (ServiceSpec => [](Calm => AcceptedWorkSurvives))
<1>. SUFFICES ASSUME MaxCreations <= 1, SameWorkloads
              PROVE  ServiceSpec => [](Calm => AcceptedWorkSurvives)
  OBVIOUS
<1>1. ServiceInv /\ ServiceInv' /\ RequestsKnow /\ [Next]_vars => RequestsKnow'
  BY RequestsKnowNext
<1>2. ServiceInv /\ StatusInv /\ RequestsKnow /\ (Calm => WorkInv) /\ [Next]_vars
        => (Calm => WorkInv)'
  BY WorkInvNext DEF Calm
<1>3. ServiceInv /\ (Calm => WorkInv) => (Calm => AcceptedWorkSurvives)
  BY IdleHoldsNothing DEF AcceptedWorkSurvives, WorkInv
<1>. QED
  BY <1>1, <1>2, <1>3, InitInv, NextInv, StatusInvInit, StatusInvNext, RequestsKnowInit, WorkInvInit,
     PTL DEF ServiceSpec
=============================================================================
