------------------------------ MODULE GrpcClient ------------------------------
(***************************************************************************)
(* The gRPC clients of a Dominion service: the per-target channel pool and *)
(* the unary calls of dsh-plugins/grpc-runtime, and the two grpc-js name   *)
(* resolvers of common/js/grpc/resolver that keep a channel's addresses in *)
(* step with the deploy service.                                           *)
(*                                                                         *)
(* A channel has a resolver of its own.  The resolver asks the deploy      *)
(* service on a timer and whenever grpc-js wants addresses; nothing stops  *)
(* two of its requests from being in flight together, so answers land in   *)
(* any order.  What it tells the channel goes through setImmediate, whose  *)
(* queue is first in, first out.  The deploy service, grpc-js's balancer   *)
(* and the servers called are outside: they are modelled as far as this    *)
(* code can see them.                                                      *)
(***************************************************************************)
EXTENDS EndpointLookup

CONSTANTS
  Targets,        \* URIs a composition's clients may be built for, numbered
  ServiceNames,   \* the service names clients are built for
  Environments,   \* the process environments, numbered
  Processes,      \* which environment with which target
  Listings,       \* what the deploy service may answer, by resource name, numbered
  Owner,          \* whose server a host is: its app, service and instance
  Calls,          \* unary calls
  UNAVAILABLE,    \* the error a resolver reports in place of addresses
  Refresh,        \* an immediate that refreshes, where others report
  Pending,        \* the outcome of a request nobody has answered
  MaxChannels, MaxRequests, MaxImmediates, MaxEvents   \* bounds

Addresses == [host : DOMAIN Owner, port : Nat]

ASSUME ClientAssumption ==
  /\ {MaxChannels, MaxRequests, MaxImmediates, MaxEvents} \subseteq Nat
  /\ MaxImmediates > 0
  /\ UNAVAILABLE # Refresh /\ UNAVAILABLE # Pending /\ Refresh # Pending

ASSUME ProcessesAssumption ==
  Processes \subseteq [env : DOMAIN Environments, target : DOMAIN Targets]

ASSUME TargetsAssumption == \A n \in DOMAIN Targets : Targets[n].path \in Seq(STRING)

(* What the code counts on: the deploy service lists under a resource name *)
(* only servers of that app and service, under an instance only its own.   *)
ServerOf(a, resource) ==
  /\ a.host \in DOMAIN Owner
  /\ <<Owner[a.host].app, Owner[a.host].service>> = <<resource[3], resource[4]>>

ASSUME ListingsAssumption ==
  \A l \in DOMAIN Listings : \A resource \in DOMAIN Listings[l] :
    LET listed == mapServiceEndpoints(Listings[l][resource]) IN
    /\ \A a \in Range(listed.endpoints) : ServerOf(a, resource)
    /\ DOMAIN listed.statefulInstances = 1 .. Len(listed.statefulInstances)
    /\ Len(listed.statefulInstances) \in Nat
    /\ \A i \in Range(listed.statefulInstances) : \A a \in Range(i.endpoints) :
         ServerOf(a, resource) /\ Owner[a.host].instance = i.index

VARIABLES
  process,    \* which environment and which target the process has, fixed
  listing,    \* which listing the deploy service has now
  pool,       \* ChannelPool.channels: the target's channel, 0 for none
  channels,   \* the channels ever created, each with its resolver
  clients,    \* the channels of the service clients handed out
  requests,   \* refreshes that have asked the deploy service
  calls,      \* unary calls
  events      \* how often the listing has changed or a request failed

vars == <<process, listing, pool, channels, clients, requests, calls, events>>

env == Environments[process.env]
target == Targets[process.target]   \* what every client asks for

-----------------------------------------------------------------------------
addressesToEndpoints(addresses) ==
  {[host |-> a.host, port |-> IF a.port = Absent THEN 0 ELSE a.port] : a \in addresses}

NewChannel ==
  [open              |-> TRUE,
   status            |-> "unresolved",
   endpoints         |-> {},
   lastRefreshFailed |-> FALSE,
   timer             |-> TRUE,
   immediates        |-> <<Refresh>>,
   told              |-> {},      \* the listener's latest argument
   addresses         |-> {}]      \* what the balancer works with

Created == DOMAIN channels
OpenChannels == {c \in Created : channels[c].open}

(* The resolver's constructor, which grpc-js calls when it builds a        *)
(* channel: what it throws, if anything.                                   *)
newResolver(t, e) ==
  LET parsed == parseTarget(t)
  IN CASE t.stateful /\ parseInstanceFromPath(t).error # "" -> parseInstanceFromPath(t).error
       [] OTHER -> IF parsed.error # "" THEN parsed.error
                                        ELSE validateServiceApp(parsed.value, e).error

(* A refresh's lookup, given the deploy service's answer: the addresses or *)
(* UNAVAILABLE, for whatever is thrown is caught and reported as that.     *)
Lookup(t, e, answer) ==
  LET query == Query(t, e)
      found == IF t.stateful THEN resolveInstance(query.value, t.instance, answer)
                             ELSE resolve(query.value, answer)
  IN IF query.error = "" /\ found.error = ""
       THEN addressesToEndpoints(found.value) ELSE UNAVAILABLE

(* What the deploy service answers for a resource when it has listing l.   *)
DeployAnswer(resource, l) ==
  IF resource \in DOMAIN Listings[l]
    THEN [status |-> 200, body |-> Listings[l][resource]]
    ELSE [status |-> 404, body |-> Absent]

(* The processes that can build a channel, those whose refreshes can ask,  *)
(* and what their refreshes find under each listing: all of it is fixed by *)
(* the constants.                                                          *)
CanBuild == {p \in Processes : newResolver(Targets[p.target], Environments[p.env]) = ""}
CanAsk == {p \in Processes : Query(Targets[p.target], Environments[p.env]).error = ""}
Found ==
  {[process |-> p, listing |-> l,
    outcome |-> LET t == Targets[p.target]
                    e == Environments[p.env]
                IN Lookup(t, e, DeployAnswer(Query(t, e).value.resource, l))] :
     p \in CanAsk, l \in DOMAIN Listings}

(* A list of addresses is none of the markers that stand beside it.        *)
ASSUME MarkersAssumption == \A f \in Found : f.outcome \notin {Refresh, Pending}

Builds == process \in CanBuild
Asks == process \in CanAsk
Finds == (CHOOSE f \in Found : f.process = process /\ f.listing = listing).outcome

Queue(c, item) == [channels EXCEPT ![c].immediates = Append(@, item)]

CanQueue(c) == Len(channels[c].immediates) < MaxImmediates

Free == {r \in DOMAIN requests : requests[r].channel = 0}

(* Refreshes that wait in a queue.                                         *)
Waiting ==
  UNION {{<<c, i>> : i \in {n \in DOMAIN channels[c].immediates :
                               channels[c].immediates[n] = Refresh}} : c \in Created}

(* Bound: no more refreshes under way than there are requests for.         *)
CanRefresh == Cardinality(Waiting) < Cardinality(Free)

-----------------------------------------------------------------------------
(* The client runtime.                                                     *)

NoCall == 0   \* of a call: it waits on no channel

(* The service's constructor, looked up in the loaded proto.               *)
resolveServiceConstructor(s) ==
  IF s = "service" THEN Returns(s) ELSE Throws("Error")

(* ChannelPool.get: the channels and the pool with the target's channel.   *)
poolGet ==
  IF pool # 0 THEN [channels |-> channels, pool |-> pool]
              ELSE [channels |-> Append(channels, NewChannel), pool |-> Len(channels) + 1]

(* A constructor that throws leaves the pool as it was.                    *)
CanGet ==
  pool # 0 \/ (Builds /\ Len(channels) < MaxChannels /\ CanRefresh)

(* Mutant of client: the channel is made before the constructor is found.  *)
clientPoolsFirst(s) ==
  /\ CanGet
  /\ channels' = poolGet.channels
  /\ pool' = poolGet.pool
  /\ clients' = IF resolveServiceConstructor(s).error = ""
                  THEN clients \cup {poolGet.pool} ELSE clients
  /\ UNCHANGED <<process, listing, requests, calls, events>>

(* createClient: the constructor, then the channel, then the client on it.  *)
client(s) ==
  /\ resolveServiceConstructor(s).error = ""
  /\ CanGet
  /\ channels' = poolGet.channels
  /\ pool' = poolGet.pool
  /\ clients' = clients \cup {poolGet.pool}
  /\ UNCHANGED <<process, listing, requests, calls, events>>

(* The resolver's destroy, which grpc-js calls when the channel closes and *)
(* when it goes idle.                                                      *)
destroy(ch) ==
  IF ch.status = "closed"
    THEN ch ELSE [ch EXCEPT !.status = "closed", !.endpoints = {}, !.timer = FALSE]

(* With its resolver grpc-js ends its balancer.                            *)
Idled(ch) == [destroy(ch) EXCEPT !.told = {}, !.addresses = {}]

(* Closing a channel also ends the calls that wait.                        *)
closeAll ==
  /\ pool # 0
  /\ channels' = [channels EXCEPT ![pool] = [Idled(@) EXCEPT !.open = FALSE]]
  /\ pool' = 0
  /\ calls' = [u \in Calls |-> IF calls[u] = pool THEN NoCall ELSE calls[u]]
  /\ UNCHANGED <<process, listing, clients, requests, events>>

-----------------------------------------------------------------------------
(* The resolver.                                                           *)

updateResolution(c) ==
  /\ CanQueue(c) /\ CanRefresh
  /\ channels[c].status # "closed"
  /\ channels' = Queue(c, Refresh)
  /\ UNCHANGED <<process, listing, pool, clients, requests, calls, events>>

(* _doRefresh up to its await.  What is wrong with the target or with the  *)
(* environment is known before anything is sent.                           *)
doRefresh(c) ==
  IF channels[c].status = "closed"
    THEN requests' = requests
    ELSE LET r == CHOOSE i \in Free : \A j \in Free : i <= j
         IN requests' = [requests EXCEPT ![r] =
              [channel |-> c,
               outcome |-> IF Asks
                             THEN Pending ELSE UNAVAILABLE]]

Tick(c) ==
  /\ channels[c].timer
  /\ CanRefresh
  /\ channels[c].status # "closed"
  /\ doRefresh(c)
  /\ UNCHANGED <<process, listing, pool, channels, clients, calls, events>>

runRefresh(c) ==
  /\ channels[c].immediates # <<>>
  /\ Head(channels[c].immediates) = Refresh
  /\ doRefresh(c)
  /\ channels' = [channels EXCEPT ![c].immediates = Tail(@)]
  /\ UNCHANGED <<process, listing, pool, clients, calls, events>>

(* grpc-js's balancer keeps the addresses it has when it is told an error. *)
Listener(ch, said) ==
  [ch EXCEPT !.told = said, !.addresses = IF said = UNAVAILABLE THEN @ ELSE said]

emit(c) ==
  LET ch == channels[c] IN
  /\ ch.immediates # <<>>
  /\ Head(ch.immediates) # Refresh
  /\ channels' = [channels EXCEPT ![c] =
       [(IF ch.status = "closed" THEN ch ELSE Listener(ch, Head(ch.immediates)))
          EXCEPT !.immediates = Tail(@)]]
  /\ UNCHANGED <<process, listing, pool, clients, requests, calls, events>>

-----------------------------------------------------------------------------
(* _doRefresh after its await: what the resolver becomes.                  *)

Report(ch, said) == [ch EXCEPT !.immediates = Append(@, said)]

Failed(ch) == Report([ch EXCEPT !.lastRefreshFailed = TRUE], UNAVAILABLE)

Updated(ch, found) ==
  Report([ch EXCEPT !.status = "ready", !.endpoints = found, !.lastRefreshFailed = FALSE],
         found)

(* Mutants of Refreshed: a list that was there before the error clears the *)
(* error without a report; the error is not looked at.                     *)
RefreshedForgetful(ch, found) ==
  CASE found = UNAVAILABLE -> Failed(ch)
    [] found = {} -> IF ch.status = "ready" THEN ch ELSE Failed(ch)
    [] ch.status = "ready" /\ found = ch.endpoints -> [ch EXCEPT !.lastRefreshFailed = FALSE]
    [] OTHER -> Updated(ch, found)

RefreshedReturns(ch, found) ==
  CASE found = UNAVAILABLE -> Failed(ch)
    [] found = {} -> IF ch.status = "ready" THEN ch ELSE Failed(ch)
    [] ch.status = "ready" /\ found = ch.endpoints -> ch
    [] OTHER -> Updated(ch, found)

Refreshed(ch, found) ==
  CASE found = UNAVAILABLE -> Failed(ch)
    [] found = {} -> IF ch.status = "ready" THEN ch ELSE Failed(ch)
    [] ch.status = "ready" /\ ~ch.lastRefreshFailed /\ found = ch.endpoints -> ch
    [] OTHER -> Updated(ch, found)

NoRequest == [channel |-> 0, outcome |-> Pending]

Land(r) ==
  LET c == requests[r].channel IN
  /\ c # 0
  /\ requests[r].outcome # Pending
  /\ CanQueue(c)
  /\ channels' = [channels EXCEPT ![c] = Refreshed(@, requests[r].outcome)]
  /\ requests' = [requests EXCEPT ![r] = NoRequest]
  /\ UNCHANGED <<process, listing, pool, clients, calls, events>>

-----------------------------------------------------------------------------
(* The deploy service.                                                     *)

(* A rollout, a new service or a removed one: the listing changes.         *)
Rollout ==
  /\ events < MaxEvents
  /\ listing' \in DOMAIN Listings \ {listing}
  /\ events' = events + 1
  /\ UNCHANGED <<process, pool, channels, clients, requests, calls>>

Asked == {r \in DOMAIN requests : requests[r].channel # 0 /\ requests[r].outcome = Pending}

Answers(r, outcome) == requests' = [requests EXCEPT ![r].outcome = outcome]

(* The answer is of the moment it is given, whenever it lands.             *)
Serve(r) ==
  /\ r \in Asked
  /\ Answers(r, Finds)
  /\ UNCHANGED <<process, listing, pool, channels, clients, calls, events>>

(* No response before the timeout, an error status, a body cut short.      *)
Faulty == {NoResponse, [status |-> 503, body |-> Absent], [status |-> 200, body |-> Named]}

Fault(r) ==
  /\ r \in Asked
  /\ events < MaxEvents
  /\ \E answer \in Faulty : Answers(r, Lookup(target, env, answer))
  /\ events' = events + 1
  /\ UNCHANGED <<process, listing, pool, channels, clients, calls>>

-----------------------------------------------------------------------------
(* grpc-js.                                                                *)

(* A channel without calls goes idle after a while: its options set no     *)
(* idle timeout.                                                           *)
enterIdle(c) ==
  /\ channels[c].open
  /\ \A u \in Calls : calls[u] # c
  /\ channels' = [channels EXCEPT ![c] = Idled(@)]
  /\ UNCHANGED <<process, listing, pool, clients, requests, calls, events>>

-----------------------------------------------------------------------------
(* Unary calls.                                                            *)

(* probeChannel: an idle channel, or one in failure, is nudged, and asks   *)
(* its resolver for addresses at once or, when it backs off, not now.      *)
probeChannel(ch) ==
  IF /\ ch.addresses = {} \/ ch.told = UNAVAILABLE
     /\ ch.status # "closed"
     /\ CanRefresh
    THEN {ch, Report(ch, Refresh)} ELSE {ch}

Probed(c) == \E ch \in probeChannel(channels[c]) : channels' = [channels EXCEPT ![c] = ch]

(* A call on a closed channel fails at once.                               *)
callUnary(u) ==
  /\ calls[u] = NoCall
  /\ \E c \in clients :
       /\ CanQueue(c)
       /\ Probed(c)
       /\ calls' = [calls EXCEPT ![u] = IF channels[c].open THEN c ELSE NoCall]
  /\ UNCHANGED <<process, listing, pool, clients, requests, events>>

(* waitForReady: the call is sent once the balancer has an address.        *)
CallServed(u) ==
  /\ calls[u] # NoCall
  /\ channels[calls[u]].addresses # {}
  /\ calls' = [calls EXCEPT ![u] = NoCall]
  /\ UNCHANGED <<process, listing, pool, channels, clients, requests, events>>

(* The deadline passes, or the server fails: the channel is probed again.  *)
CallFails(u) ==
  /\ calls[u] # NoCall
  /\ CanQueue(calls[u])
  /\ Probed(calls[u])
  /\ calls' = [calls EXCEPT ![u] = NoCall]
  /\ UNCHANGED <<process, listing, pool, clients, requests, events>>

-----------------------------------------------------------------------------
Init ==
  /\ process \in Processes
  /\ listing \in DOMAIN Listings
  /\ pool = 0
  /\ channels = <<>>
  /\ clients = {}
  /\ requests = [r \in 1 .. MaxRequests |-> NoRequest]
  /\ calls = [u \in Calls |-> NoCall]
  /\ events = 0

Resolver(c) == Tick(c) \/ runRefresh(c) \/ emit(c)

Next ==
  \/ \E s \in ServiceNames : client(s)
  \/ closeAll
  \/ \E c \in Created : updateResolution(c) \/ enterIdle(c) \/ Resolver(c)
  \/ \E r \in DOMAIN requests : Serve(r) \/ Fault(r) \/ Land(r)
  \/ Rollout
  \/ \E u \in Calls : callUnary(u) \/ CallServed(u) \/ CallFails(u)

(* The timer fires, immediates run, the deploy service or the timeout      *)
(* answers every request and every answer is handled; a bound that another *)
(* channel's requests reach does not hold the timer up for ever.  Nobody   *)
(* has to build a client, close the pool or change the listing.            *)
Fairness ==
  /\ \A c \in 1 .. MaxChannels :
       /\ SF_vars(c \in Created /\ Tick(c))
       /\ WF_vars(c \in Created /\ (runRefresh(c) \/ emit(c)))
  /\ \A r \in 1 .. MaxRequests : WF_vars(Serve(r) \/ Land(r))

Spec == Init /\ [][Next]_vars /\ Fairness

-----------------------------------------------------------------------------
(* Properties.                                                             *)

TypeOK ==
  /\ process \in Processes
  /\ listing \in DOMAIN Listings
  /\ pool \in {0} \cup Created
  /\ Len(channels) <= MaxChannels
  /\ \A c \in Created :
       /\ channels[c].status \in {"unresolved", "ready", "closed"}
       /\ channels[c].endpoints \subseteq Addresses
       /\ Len(channels[c].immediates) <= MaxImmediates
       /\ channels[c].told = UNAVAILABLE \/ channels[c].told \subseteq Addresses
  /\ clients \subseteq Created
  /\ \A r \in DOMAIN requests : requests[r].channel \in {0} \cup Created
  /\ calls \in [Calls -> {NoCall} \cup Created]
  /\ events \in 0 .. MaxEvents

(* The server at address a is one of the service, the port and, for a      *)
(* stateful target, the instance that it names, in the process's own app.  *)
IsTargets(a) ==
  /\ Owner[a.host].app = env.SERVICE_APP
  /\ <<Owner[a.host].app, Owner[a.host].service>> = target.path
  /\ a.port = target.port
  /\ target.stateful => Owner[a.host].instance = target.instance

(* Whatever answers arrive, and in whatever order, a channel only ever     *)
(* gets addresses of the servers its target names, and so a call is only   *)
(* ever sent to one of them.                                               *)
OnlyOwnEndpoints == \A c \in Created : \A a \in channels[c].addresses : IsTargets(a)

(* What the resolver of ch said last, or is about to say: the last report  *)
(* that is queued, or the listener's latest argument if none is.           *)
SaidLast(ch, said) ==
  LET reports == {i \in DOMAIN ch.immediates : ch.immediates[i] # Refresh} IN
  /\ \A i \in reports : (\A j \in reports : j <= i) => ch.immediates[i] = said
  /\ reports = {} => ch.told = said

(* "Endpoints unchanged" is decided against what the channel was last      *)
(* told: the memory of a resolver that is not destroyed never disagrees    *)
(* with it, through errors, overlapping refreshes, queued reports and a    *)
(* late answer that takes it back from destroyed to ready.                 *)
MemoryIsWhatWasSaid ==
  \A c \in Created :
    LET ch == channels[c] IN
    ch.status # "closed" =>
      SaidLast(ch, IF ch.lastRefreshFailed THEN UNAVAILABLE ELSE ch.endpoints)

(* A channel that has had addresses is never told that there are none: the *)
(* balancer would drop its connections and wait for ever.  Only closing    *)
(* the channel or its going idle takes them.                               *)
NeverLeftEmpty ==
  [][\A c \in Created : channels[c].addresses # {} =>
        channels'[c].addresses # {} \/ channels'[c].status = "closed"]_vars

(* At most one open channel for the target, the one the pool holds, and    *)
(* used by a client: a client that could not be built leaves no channel    *)
(* behind, closing the pool closes what it held, and no call waits on a    *)
(* closed channel.                                                         *)
PoolOwnsChannels ==
  /\ OpenChannels = {pool} \ {0}
  /\ OpenChannels \subseteq clients
  /\ Range(calls) \subseteq OpenChannels \cup {NoCall}

Listed == IF Asks THEN Finds ELSE UNAVAILABLE

(* Once the deploy service's listing stays as it is and its failures stop, *)
(* every open channel that has not gone idle, and so has its timer, has    *)
(* exactly the addresses listed, if there are any.                         *)
Follows(c) ==
  Listed \notin {UNAVAILABLE, {}} => channels[c].told = Listed /\ channels[c].addresses = Listed
FollowsDeploy == <>[](\A c \in OpenChannels : channels[c].timer => Follows(c))

(* A destroyed resolver ends: no request of its own, nothing left to run,  *)
(* unless an answer that was on its way takes it back to ready.            *)
AtRest(c) ==
  /\ channels[c].immediates = <<>>
  /\ \A r \in DOMAIN requests : requests[r].channel # c
DestroyedComesToRest ==
  \A c \in 1 .. MaxChannels :
    []<>(c \in Created /\ channels[c].status = "closed" => AtRest(c))

(* What unary.ts says of the probe: a call on an idle channel tries to     *)
(* reconnect instead of waiting for its deadline (IdleChannel.cfg).        *)
IdleCallReconnects == <>[](\A u \in Calls : calls[u] # NoCall => Follows(calls[u]))

(* The resolver of a closed channel ends: refuted by IdleChannel.cfg with  *)
(* this property.                                                          *)
ClosedComesToRest == <>[](\A c \in Created \ OpenChannels : AtRest(c))

(* After destroy the listener is not called again.                         *)
SilentAfterDestroy ==
  [][\A c \in Created \ OpenChannels : channels'[c].told = channels[c].told]_vars

(* What a resolver publishes is sound: its target's addresses and no       *)
(* other, in step with what it remembers of it.                            *)
EndpointsSound == TypeOK /\ OnlyOwnEndpoints /\ MemoryIsWhatWasSaid

(* A channel is never told that there are no addresses, in the end it has  *)
(* the listed ones, and a destroyed resolver is at rest.                   *)
ChannelsSettle == NeverLeftEmpty /\ FollowsDeploy /\ DestroyedComesToRest
===============================================================================
