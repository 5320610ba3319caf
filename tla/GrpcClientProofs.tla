--------------------------- MODULE GrpcClientProofs ---------------------------
(***************************************************************************)
(* Proofs about the gRPC clients, for every set of targets, environments   *)
(* and listings and any number of channels, requests, calls and faults.    *)
(***************************************************************************)
EXTENDS GrpcClient, WellFoundedInduction, TLAPS

-----------------------------------------------------------------------------
(* What a lookup finds *)

\* The addresses of the servers that the process's target names.
Good == {a \in Addresses : IsTargets(a)}

\* What a resolver may report.
Reportable == (SUBSET Good) \cup {UNAVAILABLE}

\* A query that is not refused is for the target's own service and port.
LEMMA QueryIs ==
    ASSUME NEW t, NEW e, Query(t, e).error = ""
    PROVE  /\ Len(t.path) = 2 /\ t.port \notin {Absent, Named} /\ t.port \in 0 .. MAX_PORT
           /\ t.path[1] = e.SERVICE_APP
           /\ Query(t, e).value.port = t.port
           /\ Query(t, e).value.resource[3] = t.path[1]
           /\ Query(t, e).value.resource[4] = t.path[2]
<1> DEFINE p == parseTarget(t)
           v == validateServiceApp(p.value, e)
           d == parseDominionEnvironment(e)
<1>1. p.error = "" /\ v.error = "" /\ d.error = ""
  BY DEF Query
<1>2. Query(t, e) = Returns([port |-> t.port, resource |-> buildResourceName(d.value, v.value)])
  BY <1>1 DEF Query
<1>3. Len(t.path) = 2 /\ t.port \notin {Absent, Named} /\ t.port \in 0 .. MAX_PORT
  BY <1>1 DEF parseTarget, Throws, Returns
<1>4. p.value = [app |-> t.path[1], service |-> t.path[2], port |-> t.port]
  BY <1>1 DEF parseTarget, Throws, Returns
<1>5. p.value.app = e.SERVICE_APP /\ v.value = p.value
  BY <1>1 DEF validateServiceApp, Throws, Returns
<1> DEFINE x == p.value
           rn == buildResourceName(d.value, v.value)
<1>6. x.app = t.path[1] /\ x.service = t.path[2]
  <2> HIDE DEF x
  <2>1. x = [app |-> t.path[1], service |-> t.path[2], port |-> t.port]
    BY <1>4 DEF x
  <2> QED BY <2>1, Zenon
<1>7. rn[3] = x.app /\ rn[4] = x.service
  <2>1. rn[3] = v.value.app /\ rn[4] = v.value.service
    BY DEF buildResourceName
  <2> QED BY <2>1, <1>5
<1>8. Query(t, e).value.port = t.port /\ Query(t, e).value.resource = rn
  <2> HIDE DEF rn
  <2> DEFINE q == Query(t, e)
             y == [port |-> t.port, resource |-> rn]
  <2>1. q = [error |-> "", value |-> y]
    BY <1>2 DEF Returns, rn
  <2> HIDE DEF q
  <2>2. q.value = y
    <3> HIDE DEF y
    <3> QED BY <2>1
  <2>3. y.port = t.port /\ y.resource = rn
    BY Zenon
  <2> QED BY <2>2, <2>3 DEF q
<1>. QED
  BY <1>3, <1>5, <1>6, <1>7, <1>8

\* A set of naturals that is not empty has a least element.
LEMMA LeastExists ==
    ASSUME NEW I \in SUBSET Nat, NEW i \in I
    PROVE  \E x \in I : \A y \in I : x <= y
<1>1. \E x \in I : \A y \in I : ~ (<<y, x>> \in OpToRel(<, Nat))
  BY NatLessThanWellFounded, WFMin, Zenon
<1>2. PICK x \in I : \A y \in I : ~ (y < x)
  BY <1>1, Zenon DEF OpToRel
<1> QED BY <1>2

\* The first instance with the ordinal, if there is one.
LEMMA InstanceFound ==
    ASSUME NEW s, Len(s) \in Nat, NEW n, InstanceAt(s, n) # 0
    PROVE  InstanceAt(s, n) \in 1 .. Len(s) /\ s[InstanceAt(s, n)].index = n
<1> DEFINE I == {i \in 1 .. Len(s) : s[i].index = n}
<1>1. InstanceAt(s, n) = IF I # {} THEN Min(I) ELSE 0
  BY DEF InstanceAt, SelectInSeq
<1>2. I # {} /\ InstanceAt(s, n) = Min(I)
  BY <1>1
<1>3. I \in SUBSET Nat
  OBVIOUS
<1> HIDE DEF I
<1>4. PICK x \in I : \A y \in I : x <= y
  BY <1>2, <1>3, LeastExists
<1>5. Min(I) \in I
  BY <1>4 DEF Min
<1>. QED
  BY <1>2, <1>5 DEF I

LEMMA PortsAreNat == \A n \in 0 .. MAX_PORT : n \in Nat
<1>1. MAX_PORT \in Nat
  BY DEF MAX_PORT
<1>2. \A k \in Nat : \A n \in 0 .. k : n \in Nat
  OBVIOUS
<1> QED BY <1>1, <1>2

LEMMA Code404 == \A s : s = 404 => s \notin 200..299
OBVIOUS

LEMMA Code200 == \A s : s = 200 => s \in 200..299 /\ s # 404 /\ s # 0
OBVIOUS

LEMMA Code503 == \A s : s = 503 => s \notin 200..299 /\ s # 404
OBVIOUS

\* What is listed for the process's target and passes the port is good.
LEMMA FilteredGood ==
    ASSUME process \in CanAsk, NEW eps,
           \A a \in Range(eps) :
             /\ a.host \in DOMAIN Owner
             /\ <<Owner[a.host].app, Owner[a.host].service>> = <<target.path[1], target.path[2]>>
             /\ target.stateful => Owner[a.host].instance = target.instance
    PROVE  addressesToEndpoints(filterEndpoints(eps, target.port)) \subseteq Good
<1>1. /\ Len(target.path) = 2 /\ target.port \notin {Absent, Named} /\ target.port \in 0 .. MAX_PORT
      /\ target.path[1] = env.SERVICE_APP
  BY QueryIs DEF CanAsk, target, env
<1>2. target.path \in Seq(STRING)
  BY TargetsAssumption, ProcessesAssumption DEF CanAsk, target
<1>3. target.path = <<target.path[1], target.path[2]>>
  BY <1>1, <1>2
<1> SUFFICES ASSUME NEW a \in Range(eps), a.port = target.port
             PROVE  [host |-> a.host, port |-> IF a.port = Absent THEN 0 ELSE a.port] \in Good
  BY DEF addressesToEndpoints, filterEndpoints
<1> DEFINE b == [host |-> a.host, port |-> target.port]
<1>4. (IF a.port = Absent THEN 0 ELSE a.port) = target.port
  BY <1>1
<1>5. b \in Addresses
  <2>1. a.host \in DOMAIN Owner
    OBVIOUS
  <2>2. target.port \in Nat
    BY <1>1, PortsAreNat, Zenon
  <2> DEFINE h == a.host
             n == target.port
             H == DOMAIN Owner
  <2> HIDE DEF h, n, H
  <2>3. [host |-> h, port |-> n] \in [host : H, port : Nat]
    BY <2>1, <2>2 DEF h, n, H
  <2> QED BY <2>3 DEF Addresses, h, n, H
<1>6. IsTargets(b)
  <2>1. b.host = a.host /\ b.port = target.port
    OBVIOUS
  <2> HIDE DEF b
  <2> QED BY <1>1, <1>3, <2>1 DEF IsTargets
<1> QED BY <1>4, <1>5, <1>6 DEF Good

\* A lookup of the process's target, under any listing, finds good addresses
\* or fails.
LEMMA LookupSound ==
    ASSUME process \in CanAsk, NEW l \in DOMAIN Listings
    PROVE  Lookup(target, env, DeployAnswer(Query(target, env).value.resource, l)) \in Reportable
<1> DEFINE q == Query(target, env)
           answer == DeployAnswer(q.value.resource, l)
           got == getServiceEndpoints(answer)
           found == IF target.stateful THEN resolveInstance(q.value, target.instance, answer)
                                       ELSE resolve(q.value, answer)
<1>q. /\ q.value.port = target.port
      /\ q.value.resource[3] = target.path[1] /\ q.value.resource[4] = target.path[2]
  BY QueryIs DEF CanAsk, target, env
<1>1. Lookup(target, env, answer) = IF q.error = "" /\ found.error = ""
                                    THEN addressesToEndpoints(found.value) ELSE UNAVAILABLE
  BY DEF Lookup
<1> SUFFICES ASSUME found.error = "" PROVE addressesToEndpoints(found.value) \subseteq Good
  BY <1>1 DEF Reportable
<1>2. got.error = ""
  BY DEF resolve, resolveInstance
<1>3. /\ q.value.resource \in DOMAIN Listings[l]
      /\ got.value = mapServiceEndpoints(Listings[l][q.value.resource])
  <2>1. CASE q.value.resource \notin DOMAIN Listings[l]
    <3>1. answer.status = 404
      BY <2>1 DEF DeployAnswer
    <3> HIDE DEF answer
    <3>2. answer.status \notin 200..299
      BY <3>1, Code404, Zenon
    <3>3. got.error # ""
      BY <3>1, <3>2 DEF getServiceEndpoints, Throws, NoResponse
    <3> QED BY <3>3, <1>2
  <2>2. CASE q.value.resource \in DOMAIN Listings[l]
    <3>1. answer.status = 200 /\ answer.body = Listings[l][q.value.resource]
      BY <2>2 DEF DeployAnswer
    <3> HIDE DEF answer, q
    <3>2. answer.status \in 200..299 /\ answer.status # 404 /\ answer.status # 0
      BY <3>1, Code200, Zenon
    <3>n. answer # NoResponse
      <4>1. NoResponse.status = 0
        BY Zenon DEF NoResponse
      <4> QED BY <4>1, <3>2, Zenon
    <3>3. got = Throws("SyntaxError") \/ got = Returns(mapServiceEndpoints(answer.body))
      BY <3>2, <3>n, Zenon DEF getServiceEndpoints
    <3>4. got = Returns(mapServiceEndpoints(answer.body))
      <4>1. Throws("SyntaxError").error = "SyntaxError"
        BY Zenon DEF Throws
      <4>2. got # Throws("SyntaxError")
        <5> HIDE DEF got
        <5> QED BY <4>1, <1>2
      <4> QED BY <3>3, <4>2, Zenon
    <3> HIDE DEF got
    <3>5. got.value = mapServiceEndpoints(answer.body)
      BY <3>4 DEF Returns
    <3> QED BY <3>1, <3>5, <2>2
  <2> QED BY <2>1, <2>2
<1>4. LET listed == mapServiceEndpoints(Listings[l][q.value.resource]) IN
      /\ \A a \in Range(listed.endpoints) : ServerOf(a, q.value.resource)
      /\ DOMAIN listed.statefulInstances = 1 .. Len(listed.statefulInstances)
      /\ Len(listed.statefulInstances) \in Nat
      /\ \A i \in Range(listed.statefulInstances) : \A a \in Range(i.endpoints) :
           ServerOf(a, q.value.resource) /\ Owner[a.host].instance = i.index
  BY <1>3, ListingsAssumption
<1> HIDE DEF answer, q
<1> DEFINE eps == got.value.endpoints
           ins == got.value.statefulInstances
<1>5. /\ \A a \in Range(eps) : ServerOf(a, q.value.resource)
      /\ DOMAIN ins = 1 .. Len(ins) /\ Len(ins) \in Nat
      /\ \A i \in Range(ins) : \A a \in Range(i.endpoints) :
           ServerOf(a, q.value.resource) /\ Owner[a.host].instance = i.index
  BY <1>3, <1>4
<1>6. CASE ~target.stateful
  <2>1. found = Returns(filterEndpoints(eps, q.value.port))
    BY <1>6, <1>2 DEF resolve
  <2>2. found.value = filterEndpoints(eps, target.port)
    <3> HIDE DEF found, eps
    <3> QED BY <2>1, <1>q DEF Returns
  <2> HIDE DEF found, eps
  <2>3. \A a \in Range(eps) :
             /\ a.host \in DOMAIN Owner
             /\ <<Owner[a.host].app, Owner[a.host].service>> = <<target.path[1], target.path[2]>>
    BY <1>5, <1>q DEF ServerOf
  <2> QED BY <2>2, <2>3, <1>6, FilteredGood
<1>7. CASE target.stateful
  <2> DEFINE i == InstanceAt(ins, target.instance)
             its == ins[i].endpoints
             filtered == filterEndpoints(its, q.value.port)
  <2>1. found = resolveInstance(q.value, target.instance, answer)
    BY <1>7
  <2> HIDE DEF found
  <2>2. found = CASE ~got.value.isStateful -> Throws("ServiceNotStatefulError")
              [] got.value.isStateful /\ i = 0 -> Throws("StatefulInstanceNotFoundError")
              [] got.value.isStateful /\ i # 0 /\ filtered = {} ->
                   Throws("StatefulInstanceNoReadyEndpointsError")
              [] OTHER -> Returns(filtered)
    BY <2>1, <1>2 DEF resolveInstance
  <2> HIDE DEF got, i, filtered
  <2>3. i # 0 /\ found = Returns(filtered)
    <3>1. found # Throws("ServiceNotStatefulError")
      <4>1. Throws("ServiceNotStatefulError").error = "ServiceNotStatefulError"
        BY Zenon DEF Throws
      <4> QED BY <4>1
    <3>2. found # Throws("StatefulInstanceNotFoundError")
      <4>1. Throws("StatefulInstanceNotFoundError").error = "StatefulInstanceNotFoundError"
        BY Zenon DEF Throws
      <4> QED BY <4>1
    <3>3. found # Throws("StatefulInstanceNoReadyEndpointsError")
      <4>1. Throws("StatefulInstanceNoReadyEndpointsError").error = "StatefulInstanceNoReadyEndpointsError"
        BY Zenon DEF Throws
      <4> QED BY <4>1
    <3> QED BY <2>2, <3>1, <3>2, <3>3, Zenon
  <2>4. found.value = filtered
    BY <2>3 DEF Returns
  <2>5. i \in DOMAIN ins /\ ins[i].index = target.instance
    BY <2>3, <1>5, InstanceFound DEF i
  <2>6. \A a \in Range(its) :
             /\ a.host \in DOMAIN Owner
             /\ <<Owner[a.host].app, Owner[a.host].service>> = <<target.path[1], target.path[2]>>
             /\ Owner[a.host].instance = target.instance
    <3>1. ins[i] \in Range(ins)
      BY <2>5 DEF Range
    <3> QED BY <2>5, <3>1, <1>5, <1>q DEF ServerOf
  <2>7. filtered = filterEndpoints(its, target.port)
    BY <1>q DEF filtered
  <2> HIDE DEF its, ins
  <2> QED BY <2>4, <2>6, <2>7, FilteredGood
<1> QED BY <1>6, <1>7

\* What a resolver queues as a report.
Sayable(G) == ((SUBSET G) \cup {UNAVAILABLE}) \ {Refresh}

LEMMA FindsSound ==
    ASSUME process \in CanAsk, listing \in DOMAIN Listings
    PROVE  Finds \in Sayable(Good) /\ Finds # Pending
<1> DEFINE out(p, l) == LET t == Targets[p.target]
                            e == Environments[p.env]
                        IN Lookup(t, e, DeployAnswer(Query(t, e).value.resource, l))
           rec(p, l) == [process |-> p, listing |-> l, outcome |-> out(p, l)]
<1>1. Found = {rec(p, l) : p \in CanAsk, l \in DOMAIN Listings}
  BY DEF Found
<1>2. out(process, listing) \in Reportable
  BY LookupSound DEF target, env
<1> HIDE DEF out
<1>3. \A p, l : rec(p, l).process = p /\ rec(p, l).listing = l /\ rec(p, l).outcome = out(p, l)
  OBVIOUS
<1> HIDE DEF rec
<1> DEFINE f == CHOOSE g \in Found : g.process = process /\ g.listing = listing
<1>4. rec(process, listing) \in Found
  BY <1>1
<1>5. f \in Found /\ f.process = process /\ f.listing = listing
  BY <1>3, <1>4
<1> HIDE DEF f
<1>6. f.outcome = out(process, listing)
  BY <1>1, <1>3, <1>5
<1>7. f.outcome \notin {Refresh, Pending}
  BY <1>5, MarkersAssumption
<1>8. Finds = f.outcome
  BY DEF Finds, f
<1> QED BY <1>2, <1>6, <1>7, <1>8 DEF Sayable, Reportable

\* A request that fails is reported as an error.
LEMMA FaultSound ==
    ASSUME NEW answer \in Faulty
    PROVE  Lookup(target, env, answer) = UNAVAILABLE
<1> DEFINE got == getServiceEndpoints(answer)
<1>1. got.error # ""
  <2>1. CASE answer = NoResponse
    <3>1. answer.status = 0
      BY <2>1, Zenon DEF NoResponse
    <3>2. answer.status \notin 200..299 /\ answer.status # 404
      <4> DEFINE s == answer.status
      <4> HIDE DEF s
      <4> QED BY <3>1 DEF s
    <3>3. got = Throws("DeployServiceError")
      BY <2>1, <3>2, Zenon DEF getServiceEndpoints
    <3> HIDE DEF got
    <3>4. got.error = "DeployServiceError"
      BY <3>3, Zenon DEF Throws
    <3> QED BY <3>4
  <2>2. CASE answer = [status |-> 503, body |-> Absent]
    <3>1. answer.status = 503
      BY <2>2, Zenon
    <3>2. answer.status # 404 /\ answer.status \notin 200..299
      BY <3>1, Code503, Zenon
    <3>3. got = Throws("DeployServiceError")
      BY <3>2, Zenon DEF getServiceEndpoints
    <3> HIDE DEF got
    <3>4. got.error = "DeployServiceError"
      BY <3>3, Zenon DEF Throws
    <3> QED BY <3>4
  <2>3. CASE answer = [status |-> 200, body |-> Named]
    <3>1. answer.status = 200 /\ answer.body = Named
      BY <2>3, Zenon
    <3>2. answer.status \in 200..299 /\ answer.status # 404 /\ answer.status # 0
      BY <3>1, Code200, Zenon
    <3>n. NoResponse.status = 0
      BY Zenon DEF NoResponse
    <3>3. got = Throws("SyntaxError")
      BY <3>1, <3>2, <3>n, Zenon DEF getServiceEndpoints
    <3> HIDE DEF got
    <3>4. got.error = "SyntaxError"
      BY <3>3, Zenon DEF Throws
    <3> QED BY <3>4
  <2> QED BY <2>1, <2>2, <2>3 DEF Faulty
<1>2. \A q : resolve(q, answer) = got /\ \A n : resolveInstance(q, n, answer) = got
  BY <1>1 DEF resolve, resolveInstance
<1> HIDE DEF got
<1> QED BY <1>1, <1>2 DEF Lookup

-----------------------------------------------------------------------------
(* One channel *)

Tells(G) == (SUBSET G) \cup {UNAVAILABLE}

\* What is queued for the listener: no empty list.
Queueable(G) == (((SUBSET G) \ {{}}) \cup {UNAVAILABLE}) \ {Refresh}

Queues(G) == Seq(Queueable(G) \cup {Refresh})

\* A channel and its resolver, with addresses out of G.
ChannelOf(G) ==
    [open : BOOLEAN, status : {"unresolved", "ready", "closed"}, endpoints : SUBSET G,
     lastRefreshFailed : BOOLEAN, timer : BOOLEAN,
     immediates : Queues(G), told : Tells(G), addresses : SUBSET G]

\* What the resolver believes it has said.
Memory(ch) == IF ch.lastRefreshFailed THEN UNAVAILABLE ELSE ch.endpoints

Sound(G, ch) ==
    /\ ch \in ChannelOf(G)
    /\ Len(ch.immediates) <= MaxImmediates
    /\ ch.status # "closed" => SaidLast(ch, Memory(ch))

\* SaidLast of a queue and what the listener was told.
LastSaid(q, told, said) ==
    LET reports == {i \in DOMAIN q : q[i] # Refresh} IN
    /\ \A i \in reports : (\A j \in reports : j <= i) => q[i] = said
    /\ reports = {} => told = said

LEMMA SaidLastIs == \A ch, said : SaidLast(ch, said) = LastSaid(ch.immediates, ch.told, said)
BY DEF SaidLast, LastSaid

\* A refresh in the queue says nothing.
LEMMA LastOfRefresh ==
    ASSUME NEW T, NEW q \in Seq(T), Refresh \in T, NEW told, NEW said, LastSaid(q, told, said)
    PROVE  LastSaid(Append(q, Refresh), told, said)
<1> DEFINE p == Append(q, Refresh)
           old == {i \in DOMAIN q : q[i] # Refresh}
           new == {i \in DOMAIN p : p[i] # Refresh}
<1>1. new = old /\ \A i \in old : p[i] = q[i]
  OBVIOUS
<1>2. /\ \A i \in old : (\A j \in old : j <= i) => q[i] = said
      /\ old = {} => told = said
  BY DEF LastSaid
<1> HIDE DEF old, new, p
<1>3. /\ \A i \in new : (\A j \in new : j <= i) => p[i] = said
      /\ new = {} => told = said
  BY <1>1, <1>2
<1> QED BY <1>3 DEF LastSaid, new, p

\* A report that is queued is the last.
LEMMA LastOfReport ==
    ASSUME NEW T, NEW q \in Seq(T), NEW said \in T, said # Refresh, NEW told
    PROVE  LastSaid(Append(q, said), told, said)
<1> DEFINE p == Append(q, said)
           new == {i \in DOMAIN p : p[i] # Refresh}
           n == Len(q) + 1
<1>1. n \in new /\ p[n] = said /\ \A i \in new : i \in Nat /\ i <= n
  OBVIOUS
<1> HIDE DEF new, p
<1>2. \A i \in new : (\A j \in new : j <= i) => p[i] = said
  <2> SUFFICES ASSUME NEW i \in new, n <= i PROVE i = n
    BY <1>1
  <2> HIDE DEF n
  <2>1. n \in Nat
    BY DEF n
  <2> QED BY <1>1, <2>1
<1> QED BY <1>1, <1>2 DEF LastSaid, new, p

\* Taking the head of the queue: a refresh, or a report that the listener gets.
LEMMA LastOfTail ==
    ASSUME NEW T, NEW q \in Seq(T), q # <<>>, NEW told, NEW said, NEW tells,
           LastSaid(q, told, said),
           Head(q) = Refresh => tells = told,
           Head(q) # Refresh => tells = Head(q)
    PROVE  LastSaid(Tail(q), tells, said)
<1> DEFINE p == Tail(q)
           old == {i \in DOMAIN q : q[i] # Refresh}
           new == {i \in DOMAIN p : p[i] # Refresh}
<1>1. \A i \in DOMAIN p : i \in Nat /\ i + 1 \in DOMAIN q /\ p[i] = q[i + 1]
  OBVIOUS
<1>2. \A i \in DOMAIN q : i \in Nat /\ (i = 1 \/ i - 1 \in DOMAIN p)
  OBVIOUS
<1>3. /\ \A i \in old : (\A j \in old : j <= i) => q[i] = said
      /\ old = {} => told = said
  BY DEF LastSaid
<1>4. 1 \in DOMAIN q /\ Head(q) = q[1]
  OBVIOUS
<1>5. ASSUME NEW i \in new, \A j \in new : j <= i PROVE p[i] = said
  <2>1. i \in Nat /\ i + 1 \in old /\ p[i] = q[i + 1]
    BY <1>1
  <2>2. ASSUME NEW j \in old PROVE j <= i + 1
    <3>1. j \in Nat /\ (j = 1 \/ j - 1 \in new)
      BY <1>1, <1>2
    <3>2. CASE j - 1 \in new
      <4> HIDE DEF new, old, p
      <4>1. j - 1 <= i
        BY <3>2, <1>5
      <4> QED BY <4>1, <3>1, <2>1
    <3> HIDE DEF new, old, p
    <3> QED BY <3>1, <3>2, <2>1
  <2> QED BY <2>1, <2>2, <1>3
<1>6. ASSUME new = {} PROVE tells = said
  <2>1. \A j \in old : j = 1
    BY <1>1, <1>2, <1>6
  <2>2. CASE Head(q) = Refresh
    BY <2>1, <2>2, <1>3, <1>4
  <2>3. CASE Head(q) # Refresh
    BY <2>1, <2>3, <1>3, <1>4
  <2> QED BY <2>2, <2>3
<1> HIDE DEF new, p
<1> QED BY <1>5, <1>6 DEF LastSaid, new, p

\* Membership in ChannelOf, field by field.
LEMMA NewSound == ASSUME NEW G PROVE Sound(G, NewChannel) /\ NewChannel.open
<1> DEFINE ch == NewChannel
<1>1. ch \in ChannelOf(G)
  BY DEF NewChannel, ChannelOf, Queueable, Queues, Tells
<1>2. /\ ch.open /\ ch.status = "unresolved" /\ ~ch.lastRefreshFailed /\ ch.endpoints = {}
      /\ ch.told = {} /\ ch.immediates = <<Refresh>>
  BY DEF NewChannel
<1> HIDE DEF ch
<1>3. Len(ch.immediates) = 1 /\ ch.immediates[1] = Refresh /\ DOMAIN ch.immediates = {1}
  BY <1>2
<1>4. SaidLast(ch, Memory(ch))
  BY <1>2, <1>3 DEF SaidLast, Memory
<1>5. 1 <= MaxImmediates
  BY ClientAssumption
<1> QED BY <1>1, <1>2, <1>3, <1>4, <1>5 DEF Sound, ch

\* A channel with something queued for its listener, or a refresh.
Reported(ch, rep, said) ==
    /\ rep.open = ch.open /\ rep.told = ch.told
    /\ rep.immediates = Append(ch.immediates, said)

LEMMA ReportedSound ==
    ASSUME NEW G, NEW ch, Sound(G, ch), Len(ch.immediates) < MaxImmediates,
           NEW rep \in ChannelOf(G), NEW said \in Queueable(G) \cup {Refresh},
           Reported(ch, rep, said),
           said = Refresh => rep.status = ch.status /\ Memory(rep) = Memory(ch),
           said # Refresh => Memory(rep) = said
    PROVE  Sound(G, rep)
<1> DEFINE T == Queueable(G) \cup {Refresh}
<1>1. ch.immediates \in Seq(T)
  BY DEF Sound, ChannelOf, Queues
<1>2. Len(rep.immediates) <= MaxImmediates
  <2>1. Len(Append(ch.immediates, said)) = Len(ch.immediates) + 1 /\ Len(ch.immediates) \in Nat
    BY <1>1
  <2> QED BY <2>1, ClientAssumption DEF Reported
<1>3. ASSUME rep.status # "closed" PROVE SaidLast(rep, Memory(rep))
  <2> HIDE DEF T
  <2>3. CASE said = Refresh
    <3>2. SaidLast(ch, Memory(ch))
      BY <1>3, <2>3 DEF Sound
    <3>3. LastSaid(ch.immediates, ch.told, Memory(ch))
      BY <3>2, SaidLastIs
    <3>1. LastSaid(Append(ch.immediates, Refresh), ch.told, Memory(ch))
      BY <1>1, <3>3, <2>3, LastOfRefresh DEF T
    <3> QED BY <3>1, <2>3, SaidLastIs DEF Reported
  <2>4. CASE said # Refresh
    <3>1. said \in T
      BY DEF T
    <3>2. LastSaid(Append(ch.immediates, said), ch.told, said)
      BY <1>1, <3>1, <2>4, LastOfReport
    <3> QED BY <3>2, <2>4, SaidLastIs DEF Reported
  <2> QED BY <2>3, <2>4
<1> QED BY <1>2, <1>3 DEF Sound, Reported

LEMMA QueueGrows ==
    ASSUME NEW G, NEW ch \in ChannelOf(G), NEW said \in Queueable(G) \cup {Refresh}
    PROVE  Append(ch.immediates, said) \in Queues(G)
<1> DEFINE T == Queueable(G) \cup {Refresh}
<1>1. ch.immediates \in Seq(T) /\ said \in T
  BY DEF ChannelOf, Queues
<1> HIDE DEF T
<1>2. Append(ch.immediates, said) \in Seq(T)
  BY <1>1
<1> QED BY <1>2 DEF Queues, T

LEMMA QueueShrinks ==
    ASSUME NEW G, NEW ch \in ChannelOf(G), ch.immediates # <<>>
    PROVE  /\ Tail(ch.immediates) \in Queues(G)
           /\ Len(ch.immediates) \in Nat /\ Len(Tail(ch.immediates)) = Len(ch.immediates) - 1
           /\ Head(ch.immediates) \in Queueable(G) \cup {Refresh}
<1> DEFINE T == Queueable(G) \cup {Refresh}
<1>1. ch.immediates \in Seq(T)
  BY DEF ChannelOf, Queues
<1> HIDE DEF T
<1>2. /\ Tail(ch.immediates) \in Seq(T) /\ Len(Tail(ch.immediates)) = Len(ch.immediates) - 1
      /\ Len(ch.immediates) \in Nat /\ Head(ch.immediates) \in T
  BY <1>1
<1> QED BY <1>2 DEF Queues, T

\* A refresh is queued for a channel that is not changed otherwise.
LEMMA NudgedSound ==
    ASSUME NEW G, NEW ch, Sound(G, ch), Len(ch.immediates) < MaxImmediates
    PROVE  Sound(G, Report(ch, Refresh)) /\ Report(ch, Refresh).open = ch.open
<1> DEFINE rep == Report(ch, Refresh)
<1>1. rep \in ChannelOf(G)
  <2> DEFINE q == Append(ch.immediates, Refresh)
  <2>1. ch \in ChannelOf(G) /\ q \in Queues(G)
    BY QueueGrows DEF Sound
  <2> HIDE DEF q
  <2> QED BY <2>1 DEF Report, q, ChannelOf
<1>2. Reported(ch, rep, Refresh) /\ rep.status = ch.status /\ Memory(rep) = Memory(ch)
  BY DEF Report, Reported, Sound, ChannelOf, Memory
<1> HIDE DEF rep
<1>3. Sound(G, rep)
  BY <1>1, <1>2, ReportedSound DEF Sound
<1> QED BY <1>2, <1>3 DEF rep, Reported

\* A request lands on any channel, open or closed.
LEMMA RefreshedSound ==
    ASSUME NEW G, NEW ch, Sound(G, ch), Len(ch.immediates) < MaxImmediates,
           NEW found \in Sayable(G)
    PROVE  Sound(G, Refreshed(ch, found)) /\ Refreshed(ch, found).open = ch.open
<1>1. ch \in ChannelOf(G) /\ Refresh \notin Queueable(G) /\ UNAVAILABLE \in Queueable(G)
  BY ClientAssumption DEF Sound, Queueable
<1>2. Sound(G, Failed(ch)) /\ Failed(ch).open = ch.open
  <2> DEFINE rep == Failed(ch)
             q == Append(ch.immediates, UNAVAILABLE)
  <2>1. q \in Queues(G)
    BY <1>1, QueueGrows
  <2> HIDE DEF q
  <2>2. rep = [[ch EXCEPT !.lastRefreshFailed = TRUE] EXCEPT !.immediates = q]
    BY <1>1 DEF Failed, Report, ChannelOf, q
  <2> HIDE DEF rep
  <2>3. rep \in ChannelOf(G) /\ rep.immediates = q /\ rep.open = ch.open /\ rep.told = ch.told
        /\ rep.status = ch.status /\ rep.lastRefreshFailed
    BY <1>1, <2>1, <2>2 DEF ChannelOf
  <2>4. Reported(ch, rep, UNAVAILABLE) /\ Memory(rep) = UNAVAILABLE
    BY <2>3 DEF Reported, Memory, q
  <2>6. Sound(G, rep)
    BY <1>1, <2>3, <2>4, ClientAssumption, ReportedSound
  <2> QED BY <2>3, <2>6 DEF rep
<1>3. ASSUME found # UNAVAILABLE, found # {}
      PROVE  Sound(G, Updated(ch, found)) /\ Updated(ch, found).open = ch.open
  <2> DEFINE rep == Updated(ch, found)
             q == Append(ch.immediates, found)
  <2>0. found \in Queueable(G) /\ found \in SUBSET G
    BY <1>3 DEF Sayable, Queueable
  <2>1. q \in Queues(G)
    BY <1>1, <2>0, QueueGrows
  <2> HIDE DEF q
  <2>2. rep = [[ch EXCEPT !.status = "ready", !.endpoints = found, !.lastRefreshFailed = FALSE]
                 EXCEPT !.immediates = q]
    BY <1>1 DEF Updated, Report, ChannelOf, q
  <2> HIDE DEF rep
  <2>3. rep \in ChannelOf(G) /\ rep.immediates = q /\ rep.open = ch.open /\ rep.told = ch.told
        /\ rep.status = "ready" /\ ~rep.lastRefreshFailed /\ rep.endpoints = found
    BY <1>1, <2>0, <2>1, <2>2 DEF ChannelOf
  <2>4. Reported(ch, rep, found) /\ Memory(rep) = found
    BY <2>3 DEF Reported, Memory, q
  <2>6. Sound(G, rep)
    BY <1>1, <2>0, <2>3, <2>4, ReportedSound
  <2> QED BY <2>3, <2>6 DEF rep
<1>4. \/ Refreshed(ch, found) = Failed(ch)
      \/ Refreshed(ch, found) = ch
      \/ found # UNAVAILABLE /\ found # {} /\ Refreshed(ch, found) = Updated(ch, found)
  BY DEF Refreshed
<1> QED BY <1>2, <1>3, <1>4, Zenon

\* The channel after its first immediate, a report.
Emitted(ch) ==
    [(IF ch.status = "closed" THEN ch ELSE Listener(ch, Head(ch.immediates)))
       EXCEPT !.immediates = Tail(@)]

LEMMA EmittedSound ==
    ASSUME NEW G, NEW ch, Sound(G, ch), ch.immediates # <<>>, Head(ch.immediates) # Refresh
    PROVE  Sound(G, Emitted(ch)) /\ Emitted(ch).open = ch.open
<1> DEFINE new == Emitted(ch)
           q == Tail(ch.immediates)
           h == Head(ch.immediates)
<1>1. /\ ch \in ChannelOf(G) /\ q \in Queues(G) /\ h \in Tells(G)
      /\ Len(ch.immediates) \in Nat /\ Len(q) = Len(ch.immediates) - 1
  BY QueueShrinks DEF Sound, Queueable, Tells
<1> HIDE DEF q, h
<1>l. Len(q) <= MaxImmediates
  BY <1>1, ClientAssumption DEF Sound
<1>2. CASE ch.status = "closed"
  <2>1. new = [ch EXCEPT !.immediates = q]
    BY <1>2 DEF Emitted, q
  <2> HIDE DEF new
  <2>2. /\ new \in ChannelOf(G) /\ new.open = ch.open /\ new.immediates = q
        /\ new.status = ch.status
    BY <2>1, <1>1 DEF ChannelOf
  <2> QED BY <2>2, <1>l, <1>2 DEF Sound, new
<1>3. CASE ch.status # "closed"
  <2> DEFINE ad == IF h = UNAVAILABLE THEN ch.addresses ELSE h
  <2>1. ad \in SUBSET G
    BY <1>1 DEF Tells, ChannelOf
  <2>2. Listener(ch, h) = [ch EXCEPT !.told = h, !.addresses = ad]
    BY <1>1 DEF Listener, ChannelOf
  <2> HIDE DEF ad
  <2>3. new = [[ch EXCEPT !.told = h, !.addresses = ad] EXCEPT !.immediates = q]
    BY <1>1, <1>3, <2>2 DEF Emitted, q, h, ChannelOf
  <2> HIDE DEF new
  <2>4. /\ new \in ChannelOf(G) /\ new.open = ch.open /\ new.immediates = q /\ new.told = h
        /\ new.status = ch.status /\ new.endpoints = ch.endpoints
        /\ new.lastRefreshFailed = ch.lastRefreshFailed
    BY <2>3, <2>1, <1>1 DEF ChannelOf
  <2>5. ASSUME new.status # "closed" PROVE SaidLast(new, Memory(new))
    <3>1. LastSaid(ch.immediates, ch.told, Memory(ch)) /\ Memory(new) = Memory(ch)
      BY <2>5, <2>4, SaidLastIs DEF Sound, Memory
    <3> DEFINE T == Queueable(G) \cup {Refresh}
    <3>2. ch.immediates \in Seq(T)
      BY <1>1 DEF ChannelOf, Queues
    <3> HIDE DEF T
    <3>3. LastSaid(Tail(ch.immediates), h, Memory(ch))
      BY <3>1, <3>2, LastOfTail DEF h
    <3> QED BY <3>1, <3>3, <2>4, SaidLastIs DEF q
  <2> QED BY <2>4, <2>5, <1>l, <1>3 DEF Sound, new
<1> QED BY <1>2, <1>3

\* The channel after its first immediate, a refresh.
Popped(ch) == [ch EXCEPT !.immediates = Tail(@)]

LEMMA PoppedSound ==
    ASSUME NEW G, NEW ch, Sound(G, ch), ch.immediates # <<>>, Head(ch.immediates) = Refresh
    PROVE  Sound(G, Popped(ch)) /\ Popped(ch).open = ch.open
<1> DEFINE new == Popped(ch)
           q == Tail(ch.immediates)
<1>1. /\ ch \in ChannelOf(G) /\ q \in Queues(G)
      /\ Len(ch.immediates) \in Nat /\ Len(q) = Len(ch.immediates) - 1
  BY QueueShrinks DEF Sound
<1> HIDE DEF q
<1>2. Len(q) <= MaxImmediates
  BY <1>1, ClientAssumption DEF Sound
<1>3. new = [ch EXCEPT !.immediates = q]
  BY DEF Popped, q
<1> HIDE DEF new
<1>4. /\ new \in ChannelOf(G) /\ new.open = ch.open /\ new.immediates = q /\ new.told = ch.told
      /\ new.status = ch.status /\ new.endpoints = ch.endpoints
      /\ new.lastRefreshFailed = ch.lastRefreshFailed
  BY <1>1, <1>3 DEF ChannelOf
<1>5. ASSUME new.status # "closed" PROVE SaidLast(new, Memory(new))
  <2>1. LastSaid(ch.immediates, ch.told, Memory(ch)) /\ Memory(new) = Memory(ch)
    BY <1>4, <1>5, SaidLastIs DEF Sound, Memory
  <2> DEFINE T == Queueable(G) \cup {Refresh}
  <2>2. ch.immediates \in Seq(T)
    BY <1>1 DEF ChannelOf, Queues
  <2> HIDE DEF T
  <2>3. LastSaid(Tail(ch.immediates), ch.told, Memory(ch))
    BY <2>1, <2>2, LastOfTail
  <2> QED BY <2>1, <2>3, <1>4, SaidLastIs DEF q
<1> QED BY <1>2, <1>4, <1>5 DEF Sound, new

\* A channel that goes idle.
LEMMA IdledSound ==
    ASSUME NEW G, NEW ch, Sound(G, ch)
    PROVE  /\ Sound(G, Idled(ch)) /\ Idled(ch).open = ch.open
           /\ Idled(ch).status = "closed"
<1>1. ch \in ChannelOf(G) /\ Len(ch.immediates) <= MaxImmediates
  BY DEF Sound
<1> DEFINE d == destroy(ch)
           new == Idled(ch)
<1>2. /\ d \in ChannelOf(G) /\ d.immediates = ch.immediates /\ d.open = ch.open
      /\ d.status = "closed"
  BY <1>1 DEF destroy, ChannelOf
<1>3. new = [d EXCEPT !.told = {}, !.addresses = {}]
  BY DEF Idled
<1> HIDE DEF d, new
<1>4. {} \in Tells(G) /\ {} \in SUBSET G
  BY DEF Tells
<1>5. /\ new \in ChannelOf(G) /\ new.open = ch.open /\ new.immediates = ch.immediates
      /\ new.status = "closed"
  BY <1>2, <1>3, <1>4 DEF ChannelOf
<1> QED BY <1>1, <1>5 DEF Sound, new

\* The channel after the pool closed it.
Closed(ch) == [Idled(ch) EXCEPT !.open = FALSE]

LEMMA ClosedSound ==
    ASSUME NEW G, NEW ch, Sound(G, ch)
    PROVE  Sound(G, Closed(ch)) /\ ~Closed(ch).open /\ Closed(ch).status = "closed"
<1> DEFINE d == Idled(ch)
           new == Closed(ch)
<1>1. Sound(G, d) /\ d.status = "closed"
  BY IdledSound
<1>2. new = [d EXCEPT !.open = FALSE]
  BY DEF Closed
<1> HIDE DEF d, new
<1>3. /\ new \in ChannelOf(G) /\ ~new.open /\ new.immediates = d.immediates
      /\ new.status = "closed"
  BY <1>1, <1>2 DEF Sound, ChannelOf
<1> QED BY <1>1, <1>3 DEF Sound, new

-----------------------------------------------------------------------------
(* All channels, the pool and the requests *)

ChannelsInv ==
    /\ channels \in Seq(ChannelOf(Good)) /\ Len(channels) <= MaxChannels
    /\ \A c \in Created : Sound(Good, channels[c])

\* The open channel is the pool's; a client has it, and calls wait on no other.
OwnInv ==
    /\ pool \in {0} \cup Created
    /\ \A c \in Created : channels[c].open <=> c = pool
    /\ pool # 0 => pool \in clients
    /\ clients \subseteq Created
    /\ calls \in [Calls -> {NoCall, pool}]

\* A request of a channel that waits has asked, and brings what may be said.
RequestsInv ==
    /\ requests \in [1 .. MaxRequests ->
                      [channel : {0} \cup Created, outcome : Sayable(Good) \cup {Pending}]]
    /\ \A r \in Asked : Asks

FixedInv ==
    /\ process \in Processes /\ listing \in DOMAIN Listings
    /\ events \in 0 .. MaxEvents

ClientInv == FixedInv /\ ChannelsInv /\ OwnInv /\ RequestsInv

LEMMA ClientInvInit == Init => ClientInv
<1> SUFFICES ASSUME Init PROVE ClientInv
  OBVIOUS
<1> USE ClientAssumption DEF Init
<1>1. Len(channels) = 0 /\ Created = {}
  BY DEF Created
<1>2. FixedInv
  BY DEF FixedInv
<1>3. ChannelsInv
  BY <1>1 DEF ChannelsInv
<1>4. OwnInv
  BY <1>1 DEF OwnInv
<1>5. Asked = {}
  BY DEF Asked, NoRequest
<1>6. RequestsInv
  BY <1>1, <1>5 DEF RequestsInv, NoRequest
<1> QED BY <1>2, <1>3, <1>4, <1>6 DEF ClientInv

LEMMA GoodKept == ASSUME process' = process PROVE Good' = Good /\ (Asks' <=> Asks)
BY DEF Good, IsTargets, target, env, Asks

Replaced(c, ch) == channels' = [channels EXCEPT ![c] = ch]

LEMMA OneChannel ==
    ASSUME ChannelsInv, process' = process, NEW c \in Created, NEW ch,
           Sound(Good, ch), Replaced(c, ch)
    PROVE  /\ ChannelsInv' /\ Created' = Created
           /\ channels'[c] = ch /\ \A d \in Created \ {c} : channels'[d] = channels[d]
<1> DEFINE T == ChannelOf(Good)
<1>1. channels \in Seq(T) /\ ch \in T /\ Good' = Good
  BY GoodKept DEF ChannelsInv, Sound
<1> HIDE DEF T
<1>2. /\ channels' \in Seq(T) /\ Len(channels') = Len(channels)
      /\ channels'[c] = ch /\ \A d \in Created \ {c} : channels'[d] = channels[d]
      /\ Created' = Created
  BY <1>1 DEF Replaced, Created
<1>3. \A d \in Created : Sound(Good, channels'[d])
  BY <1>2 DEF ChannelsInv
<1>4. Len(channels') <= MaxChannels
  BY <1>2 DEF ChannelsInv
<1>5. ChannelsInv'
  BY <1>1, <1>2, <1>3, <1>4 DEF ChannelsInv, T
<1> QED BY <1>2, <1>5

LEMMA ChannelStep ==
    ASSUME ClientInv, process' = process, NEW c \in Created, NEW ch,
           Sound(Good, ch), ch.open = channels[c].open, Replaced(c, ch),
           pool' = pool, clients' = clients, calls' \in [Calls -> {NoCall, pool}]
    PROVE  ChannelsInv' /\ OwnInv' /\ Created' = Created
<1>1. /\ ChannelsInv' /\ Created' = Created
      /\ channels'[c] = ch /\ \A d \in Created \ {c} : channels'[d] = channels[d]
  BY OneChannel DEF ClientInv
<1>2. \A d \in Created : channels'[d].open = channels[d].open
  BY <1>1
<1>3. OwnInv'
  BY <1>1, <1>2 DEF OwnInv, ClientInv
<1> QED BY <1>1, <1>3

LEMMA ChannelsStay ==
    ASSUME ClientInv, process' = process, channels' = channels,
           pool' = pool, clients' = clients, calls' \in [Calls -> {NoCall, pool}]
    PROVE  ChannelsInv' /\ OwnInv' /\ Created' = Created
<1>1. Created' = Created /\ Good' = Good
  BY GoodKept DEF Created
<1>2. ChannelsInv'
  BY <1>1 DEF ChannelsInv, ClientInv
<1>3. OwnInv'
  BY <1>1 DEF OwnInv, ClientInv
<1> QED BY <1>1, <1>2, <1>3

LEMMA RequestsStay ==
    ASSUME RequestsInv, process' = process, requests' = requests, Created \subseteq Created'
    PROVE  RequestsInv'
<1>1. Good' = Good /\ (Asks' <=> Asks)
  BY GoodKept
<1>2. Asked' = Asked
  BY DEF Asked
<1> DEFINE O == Sayable(Good) \cup {Pending}
<1>3. requests \in [1 .. MaxRequests -> [channel : {0} \cup Created, outcome : O]]
  BY DEF RequestsInv
<1> HIDE DEF O
<1>4. requests' \in [1 .. MaxRequests -> [channel : {0} \cup Created', outcome : O]]
  BY <1>3
<1> QED BY <1>1, <1>2, <1>4 DEF RequestsInv, O

Becomes(r, req) == requests' = [requests EXCEPT ![r] = req]

LEMMA RequestStep ==
    ASSUME RequestsInv, process' = process, Created' = Created, NEW r, NEW req,
           req \in [channel : {0} \cup Created, outcome : Sayable(Good) \cup {Pending}],
           req.channel # 0 /\ req.outcome = Pending => Asks,
           Becomes(r, req)
    PROVE  RequestsInv'
<1>1. Good' = Good /\ (Asks' <=> Asks)
  BY GoodKept
<1> DEFINE V == [channel : {0} \cup Created, outcome : Sayable(Good) \cup {Pending}]
<1>2. requests \in [1 .. MaxRequests -> V] /\ req \in V
  BY DEF RequestsInv
<1> HIDE DEF V
<1>3. requests' \in [1 .. MaxRequests -> V]
  BY <1>2 DEF Becomes
<1>4. DOMAIN requests' = DOMAIN requests
      /\ \A s \in DOMAIN requests : requests'[s] = requests[s] \/ requests'[s] = req
  BY <1>2 DEF Becomes
<1>5. ASSUME NEW s \in Asked' PROVE Asks
  <2>1. s \in DOMAIN requests /\ requests'[s].channel # 0 /\ requests'[s].outcome = Pending
    BY <1>4, <1>5 DEF Asked
  <2>2. CASE requests'[s] = requests[s]
    BY <2>1, <2>2 DEF RequestsInv, Asked
  <2>3. CASE requests'[s] = req
    BY <2>1, <2>3
  <2> QED BY <1>4, <2>1, <2>2, <2>3
<1> QED BY <1>1, <1>3, <1>5 DEF RequestsInv, V

LEMMA RefreshStep ==
    ASSUME RequestsInv, process' = process, Created' = Created,
           NEW c \in Created, doRefresh(c)
    PROVE  RequestsInv'
<1>1. CASE requests' = requests
  BY <1>1, RequestsStay
<1>2. CASE requests' # requests
  <2> DEFINE out == IF Asks THEN Pending ELSE UNAVAILABLE
  <2>1. PICK r : Becomes(r, [channel |-> c, outcome |-> out])
    BY <1>2 DEF doRefresh, Becomes
  <2>2. out \in Sayable(Good) \cup {Pending} /\ (out = Pending => Asks)
    BY ClientAssumption DEF Sayable
  <2> HIDE DEF out
  <2> DEFINE req == [channel |-> c, outcome |-> out]
  <2>3. req \in [channel : {0} \cup Created, outcome : Sayable(Good) \cup {Pending}]
        /\ req.outcome = out
    BY <2>2
  <2>4. Becomes(r, req)
    BY <2>1
  <2> HIDE DEF req
  <2> QED BY <2>2, <2>3, <2>4, RequestStep
<1> QED BY <1>1, <1>2

LEMMA ClientInvNext == ClientInv /\ [Next]_vars => ClientInv'
<1> SUFFICES ASSUME ClientInv, [Next]_vars PROVE ClientInv'
  OBVIOUS
<1> USE DEF ClientInv
<1>t. calls \in [Calls -> {NoCall, pool}]
  BY DEF OwnInv
<1>s. \A c \in Created : Sound(Good, channels[c])
  BY DEF ChannelsInv
<1>1. ASSUME NEW s \in ServiceNames, client(s) PROVE ClientInv'
  <2>1. process' = process /\ FixedInv'
    BY <1>1 DEF client, FixedInv
  <2>2. CASE pool # 0
    <3>1. channels' = channels /\ pool' = pool /\ clients' = clients \cup {pool}
      BY <1>1, <2>2 DEF client, poolGet
    <3>2. clients' = clients
      BY <3>1, <2>2 DEF OwnInv
    <3>3. ChannelsInv' /\ OwnInv' /\ Created' = Created
      BY <1>1, <1>t, <2>1, <3>1, <3>2, ChannelsStay DEF client
    <3> QED BY <1>1, <2>1, <3>3, RequestsStay DEF client
  <2>3. CASE pool = 0
    <3> DEFINE n == Len(channels) + 1
               T == ChannelOf(Good)
    <3>1. /\ channels' = Append(channels, NewChannel) /\ pool' = n /\ clients' = clients \cup {n}
          /\ Len(channels) < MaxChannels /\ calls' = calls
      BY <1>1, <2>3 DEF client, poolGet, CanGet
    <3>2. Sound(Good, NewChannel) /\ NewChannel.open /\ NewChannel \in T /\ channels \in Seq(T)
      BY NewSound DEF ChannelsInv, Sound
    <3> HIDE DEF T
    <3>3. /\ channels' \in Seq(T) /\ Len(channels') = n /\ channels'[n] = NewChannel
          /\ Created' = Created \cup {n} /\ n \notin Created
          /\ \A c \in Created : channels'[c] = channels[c]
      BY <3>1, <3>2 DEF Created
    <3>4. n \in Nat /\ n # 0 /\ n <= MaxChannels
      BY <3>1, <3>2, ClientAssumption
    <3> HIDE DEF n
    <3>5. ChannelsInv'
      <4>1. \A c \in Created' : Sound(Good, channels'[c])
        BY <1>s, <3>2, <3>3
      <4> QED BY <2>1, <3>3, <3>4, <4>1, GoodKept DEF ChannelsInv, T
    <3>6. OwnInv'
      <4>2. \A c \in Created : c # 0
        BY <3>2 DEF Created
      <4>3. \A c \in Created : ~channels[c].open
        BY <2>3, <4>2 DEF OwnInv
      <4>4. \A c \in Created' : channels'[c].open <=> c = n
        BY <4>3, <3>2, <3>3
      <4>5. calls' \in [Calls -> {NoCall, pool'}]
        BY <1>t, <2>3, <3>1 DEF NoCall
      <4> QED BY <3>1, <3>3, <4>4, <4>5 DEF OwnInv
    <3>7. requests' = requests
      BY <1>1 DEF client
    <3> QED BY <2>1, <3>3, <3>5, <3>6, <3>7, RequestsStay
  <2> QED BY <2>2, <2>3
<1>2. ASSUME closeAll PROVE ClientInv'
  <2>1. /\ process' = process /\ FixedInv' /\ pool # 0 /\ pool \in Created /\ pool' = 0
        /\ clients' = clients /\ requests' = requests
    BY <1>2 DEF closeAll, FixedInv, OwnInv
  <2> DEFINE ch == Closed(channels[pool])
  <2>2. Replaced(pool, ch)
    BY <1>2 DEF closeAll, Replaced, Closed
  <2>3. Sound(Good, ch) /\ ~ch.open
    BY <1>s, <2>1, ClosedSound
  <2> HIDE DEF ch
  <2>4. /\ ChannelsInv' /\ Created' = Created
        /\ channels'[pool] = ch /\ \A d \in Created \ {pool} : channels'[d] = channels[d]
    BY <2>1, <2>2, <2>3, OneChannel
  <2>5. OwnInv'
    <3>1. \A c \in Created : c # 0
      BY DEF Created, ChannelsInv
    <3>2. \A c \in Created' : channels'[c].open <=> c = pool'
      BY <2>1, <2>3, <2>4, <3>1 DEF OwnInv
    <3>3. calls' \in [Calls -> {NoCall, pool'}]
      BY <1>2, <1>t, <2>1 DEF closeAll, NoCall
    <3> QED BY <2>1, <2>4, <3>2, <3>3 DEF OwnInv
  <2> QED BY <2>1, <2>4, <2>5, RequestsStay
<1>3. ASSUME NEW c \in Created, updateResolution(c) PROVE ClientInv'
  <2> DEFINE ch == Report(channels[c], Refresh)
  <2>1. Sound(Good, ch) /\ ch.open = channels[c].open
    BY <1>s, <1>3, NudgedSound DEF updateResolution, CanQueue
  <2>2. Replaced(c, ch)
    BY <1>3 DEF updateResolution, Queue, Replaced, Report
  <2> HIDE DEF ch
  <2>3. /\ process' = process /\ pool' = pool /\ clients' = clients /\ calls' = calls
        /\ requests' = requests /\ FixedInv'
    BY <1>3 DEF updateResolution, FixedInv
  <2>4. ChannelsInv' /\ OwnInv' /\ Created' = Created
    BY <1>t, <2>1, <2>2, <2>3, ChannelStep
  <2> QED BY <2>3, <2>4, RequestsStay
<1>4. ASSUME NEW c \in Created, Tick(c) PROVE ClientInv'
  <2>1. /\ process' = process /\ pool' = pool /\ clients' = clients /\ calls' = calls
        /\ channels' = channels /\ FixedInv' /\ doRefresh(c)
    BY <1>4 DEF Tick, FixedInv
  <2>2. ChannelsInv' /\ OwnInv' /\ Created' = Created
    BY <1>t, <2>1, ChannelsStay
  <2> QED BY <2>1, <2>2, RefreshStep
<1>5. ASSUME NEW c \in Created, runRefresh(c) PROVE ClientInv'
  <2> DEFINE ch == Popped(channels[c])
  <2>1. Sound(Good, ch) /\ ch.open = channels[c].open
    BY <1>s, <1>5, PoppedSound DEF runRefresh
  <2>2. Replaced(c, ch)
    BY <1>5 DEF runRefresh, Replaced, Popped
  <2> HIDE DEF ch
  <2>3. /\ process' = process /\ pool' = pool /\ clients' = clients /\ calls' = calls
        /\ FixedInv' /\ doRefresh(c)
    BY <1>5 DEF runRefresh, FixedInv
  <2>4. ChannelsInv' /\ OwnInv' /\ Created' = Created
    BY <1>t, <2>1, <2>2, <2>3, ChannelStep
  <2> QED BY <2>3, <2>4, RefreshStep
<1>6. ASSUME NEW c \in Created, emit(c) PROVE ClientInv'
  <2> DEFINE ch == Emitted(channels[c])
  <2>1. Sound(Good, ch) /\ ch.open = channels[c].open
    BY <1>s, <1>6, EmittedSound DEF emit
  <2>2. Replaced(c, ch)
    BY <1>6 DEF emit, Replaced, Emitted
  <2> HIDE DEF ch
  <2>3. /\ process' = process /\ pool' = pool /\ clients' = clients /\ calls' = calls
        /\ requests' = requests /\ FixedInv'
    BY <1>6 DEF emit, FixedInv
  <2>4. ChannelsInv' /\ OwnInv' /\ Created' = Created
    BY <1>t, <2>1, <2>2, <2>3, ChannelStep
  <2> QED BY <2>3, <2>4, RequestsStay
<1> DEFINE V == [channel : {0} \cup Created, outcome : Sayable(Good) \cup {Pending}]
<1>r. \A r \in DOMAIN requests : requests[r] \in V
  BY DEF RequestsInv
<1>7. ASSUME NEW r \in DOMAIN requests, Serve(r) PROVE ClientInv'
  <2>1. /\ process' = process /\ pool' = pool /\ clients' = clients /\ calls' = calls
        /\ channels' = channels /\ FixedInv' /\ r \in Asked /\ Answers(r, Finds)
    BY <1>7 DEF Serve, FixedInv
  <2>2. ChannelsInv' /\ OwnInv' /\ Created' = Created
    BY <1>t, <2>1, ChannelsStay
  <2>3. Finds \in Sayable(Good) /\ Finds # Pending
    BY <2>1, FindsSound DEF RequestsInv, Asks, FixedInv
  <2> DEFINE req == [requests[r] EXCEPT !.outcome = Finds]
  <2>4. req \in V /\ req.outcome = Finds
    BY <1>r, <2>3
  <2>5. Becomes(r, req)
    BY <2>1 DEF Answers, Becomes
  <2> HIDE DEF req
  <2> QED BY <2>1, <2>2, <2>3, <2>4, <2>5, RequestStep
<1>8. ASSUME NEW r \in DOMAIN requests, Fault(r) PROVE ClientInv'
  <2>1. /\ process' = process /\ pool' = pool /\ clients' = clients /\ calls' = calls
        /\ channels' = channels /\ r \in Asked
    BY <1>8 DEF Fault
  <2>f. FixedInv'
    BY <1>8, ClientAssumption DEF Fault, FixedInv
  <2>2. ChannelsInv' /\ OwnInv' /\ Created' = Created
    BY <1>t, <2>1, ChannelsStay
  <2>3. Answers(r, UNAVAILABLE) /\ UNAVAILABLE \in Sayable(Good) /\ UNAVAILABLE # Pending
    BY <1>8, FaultSound, ClientAssumption DEF Fault, Sayable
  <2> DEFINE req == [requests[r] EXCEPT !.outcome = UNAVAILABLE]
  <2>4. req \in V /\ req.outcome = UNAVAILABLE
    BY <1>r, <2>3
  <2>5. Becomes(r, req)
    BY <2>3 DEF Answers, Becomes
  <2> HIDE DEF req
  <2> QED BY <2>1, <2>f, <2>2, <2>3, <2>4, <2>5, RequestStep
<1>9. ASSUME NEW r \in DOMAIN requests, Land(r) PROVE ClientInv'
  <2> DEFINE c == requests[r].channel
             ch == Refreshed(channels[c], requests[r].outcome)
  <2>1. c \in Created /\ requests[r].outcome \in Sayable(Good)
    BY <1>9, <1>r DEF Land
  <2>2. Sound(Good, ch) /\ ch.open = channels[c].open
    BY <1>s, <1>9, <2>1, RefreshedSound DEF Land, CanQueue
  <2>3. Replaced(c, ch)
    BY <1>9 DEF Land, Replaced
  <2>4. /\ process' = process /\ pool' = pool /\ clients' = clients /\ calls' = calls
        /\ FixedInv' /\ Becomes(r, NoRequest)
    BY <1>9 DEF Land, FixedInv, Becomes
  <2>5. NoRequest \in V /\ NoRequest.channel = 0
    BY DEF NoRequest
  <2> HIDE DEF ch, c
  <2>6. ChannelsInv' /\ OwnInv' /\ Created' = Created
    BY <1>t, <2>1, <2>2, <2>3, <2>4, ChannelStep
  <2> QED BY <2>4, <2>5, <2>6, RequestStep
<1>10. ASSUME Rollout PROVE ClientInv'
  <2>1. /\ process' = process /\ pool' = pool /\ clients' = clients /\ calls' = calls
        /\ channels' = channels /\ requests' = requests
    BY <1>10 DEF Rollout
  <2>2. FixedInv'
    BY <1>10, ClientAssumption DEF Rollout, FixedInv
  <2>3. ChannelsInv' /\ OwnInv' /\ Created' = Created
    BY <1>t, <2>1, ChannelsStay
  <2> QED BY <2>1, <2>2, <2>3, RequestsStay
<1>p. ASSUME NEW c \in Created, CanQueue(c), Probed(c), process' = process, pool' = pool,
             clients' = clients, calls' \in [Calls -> {NoCall, pool}], requests' = requests
      PROVE  ChannelsInv' /\ OwnInv' /\ RequestsInv'
  <2>1. PICK ch \in probeChannel(channels[c]) : Replaced(c, ch)
    BY <1>p DEF Probed, Replaced
  <2>2. ch = channels[c] \/ ch = Report(channels[c], Refresh)
    BY <2>1 DEF probeChannel
  <2>3. Sound(Good, ch) /\ ch.open = channels[c].open
    BY <1>s, <1>p, <2>2, NudgedSound DEF CanQueue
  <2>4. ChannelsInv' /\ OwnInv' /\ Created' = Created
    BY <1>p, <2>1, <2>3, ChannelStep
  <2> QED BY <1>p, <2>4, RequestsStay
<1>11. ASSUME NEW u \in Calls, callUnary(u) PROVE ClientInv'
  <2>1. PICK c \in clients : /\ CanQueue(c) /\ Probed(c)
                             /\ calls' = [calls EXCEPT ![u] = IF channels[c].open THEN c ELSE NoCall]
    BY <1>11 DEF callUnary
  <2>2. c \in Created /\ (channels[c].open => c = pool)
    BY DEF OwnInv
  <2>3. calls' \in [Calls -> {NoCall, pool}]
    BY <1>t, <2>1, <2>2
  <2>4. /\ process' = process /\ pool' = pool /\ clients' = clients /\ requests' = requests
        /\ FixedInv'
    BY <1>11 DEF callUnary, FixedInv
  <2> QED BY <1>p, <2>1, <2>2, <2>3, <2>4
<1>12. ASSUME NEW u \in Calls, CallServed(u) PROVE ClientInv'
  <2>1. /\ process' = process /\ pool' = pool /\ clients' = clients /\ requests' = requests
        /\ channels' = channels /\ FixedInv'
    BY <1>12 DEF CallServed, FixedInv
  <2>2. calls' \in [Calls -> {NoCall, pool}]
    BY <1>12, <1>t DEF CallServed
  <2>3. ChannelsInv' /\ OwnInv' /\ Created' = Created
    BY <2>1, <2>2, ChannelsStay
  <2> QED BY <2>1, <2>3, RequestsStay
<1>13. ASSUME NEW u \in Calls, CallFails(u) PROVE ClientInv'
  <2>1. /\ process' = process /\ pool' = pool /\ clients' = clients /\ requests' = requests
        /\ FixedInv' /\ CanQueue(calls[u]) /\ Probed(calls[u])
    BY <1>13 DEF CallFails, FixedInv
  <2>2. calls' \in [Calls -> {NoCall, pool}]
    BY <1>13, <1>t DEF CallFails
  <2>3. calls[u] \in Created
    BY <1>13, <1>t DEF CallFails, OwnInv, NoCall
  <2> QED BY <1>p, <2>1, <2>2, <2>3
<1>15. ASSUME NEW c \in Created, enterIdle(c) PROVE ClientInv'
  <2> DEFINE ch == Idled(channels[c])
  <2>1. Sound(Good, ch) /\ ch.open = channels[c].open
    BY <1>s, IdledSound
  <2>2. Replaced(c, ch)
    BY <1>15 DEF enterIdle, Replaced
  <2> HIDE DEF ch
  <2>3. /\ process' = process /\ pool' = pool /\ clients' = clients /\ calls' = calls
        /\ requests' = requests /\ FixedInv'
    BY <1>15 DEF enterIdle, FixedInv
  <2>4. ChannelsInv' /\ OwnInv' /\ Created' = Created
    BY <1>t, <2>1, <2>2, <2>3, ChannelStep
  <2> QED BY <2>3, <2>4, RequestsStay
<1>14. ASSUME UNCHANGED vars PROVE ClientInv'
  <2>1. /\ process' = process /\ pool' = pool /\ clients' = clients /\ calls' = calls
        /\ channels' = channels /\ requests' = requests /\ FixedInv'
    BY <1>14 DEF vars, FixedInv
  <2>2. ChannelsInv' /\ OwnInv' /\ Created' = Created
    BY <1>t, <2>1, ChannelsStay
  <2> QED BY <2>1, <2>2, RequestsStay
<1> HIDE DEF ClientInv
<1> QED BY <1>1, <1>2, <1>3, <1>4, <1>5, <1>6, <1>7, <1>8, <1>9, <1>10, <1>11, <1>12, <1>13, <1>14, <1>15
     DEF Next, Resolver

-----------------------------------------------------------------------------
(* Theorems *)

LEMMA ClientInvHolds == Spec => []ClientInv
BY ClientInvInit, ClientInvNext, PTL DEF Spec

\* The pool owns the channels: at most one is open, the pool's; a client has it
\* (createClient finds the constructor before it makes the channel), and a call
\* waits on no other, for any number of calls, channels and failures.
THEOREM ChannelsOwned == Spec => []PoolOwnsChannels
<1>1. ClientInv => PoolOwnsChannels
  <2> SUFFICES ASSUME ClientInv PROVE PoolOwnsChannels
    OBVIOUS
  <2>1. OwnInv
    BY DEF ClientInv
  <2>2. \A c \in Created : c # 0
    BY DEF ClientInv, ChannelsInv, Created
  <2>3. OpenChannels = {pool} \ {0}
    BY <2>1, <2>2 DEF OwnInv, OpenChannels
  <2>4. OpenChannels \subseteq clients
    BY <2>1, <2>3 DEF OwnInv
  <2>5. Range(calls) \subseteq OpenChannels \cup {NoCall}
    BY <2>1, <2>3 DEF OwnInv, Range, NoCall
  <2> QED BY <2>3, <2>4, <2>5 DEF PoolOwnsChannels
<1> QED BY <1>1, ClientInvHolds, PTL

\* What a resolver publishes is sound, whatever answers arrive and in whatever
\* order: only addresses of the servers its target names, and what it
\* remembers is what it said last (_doRefresh and its setImmediate reports).
THEOREM EndpointsAreSound == Spec => []EndpointsSound
<1>1. ClientInv => EndpointsSound
  <2> SUFFICES ASSUME ClientInv PROVE EndpointsSound
    OBVIOUS
  <2> USE DEF ClientInv
  <2>1. ASSUME NEW c \in Created
        PROVE  /\ channels[c].status \in {"unresolved", "ready", "closed"}
               /\ channels[c].endpoints \subseteq Addresses
               /\ Len(channels[c].immediates) <= MaxImmediates
               /\ channels[c].told = UNAVAILABLE \/ channels[c].told \subseteq Addresses
               /\ \A a \in channels[c].addresses : IsTargets(a)
    <3>1. channels[c] \in ChannelOf(Good) /\ Len(channels[c].immediates) <= MaxImmediates
      BY DEF ChannelsInv, Sound
    <3>2. Good \subseteq Addresses /\ \A a \in Good : IsTargets(a)
      BY DEF Good
    <3> QED BY <3>1, <3>2 DEF ChannelOf, Tells
  <2>2. TypeOK
    <3>1. \A r \in DOMAIN requests : requests[r].channel \in {0} \cup Created
      BY DEF RequestsInv
    <3>2. calls \in [Calls -> {NoCall} \cup Created]
      BY DEF OwnInv, NoCall
    <3> QED BY <2>1, <3>1, <3>2 DEF TypeOK, FixedInv, OwnInv, ChannelsInv
  <2>3. OnlyOwnEndpoints
    BY <2>1 DEF OnlyOwnEndpoints
  <2>4. MemoryIsWhatWasSaid
    BY DEF MemoryIsWhatWasSaid, ChannelsInv, Sound, Memory
  <2> QED BY <2>2, <2>3, <2>4 DEF EndpointsSound
<1> QED BY <1>1, ClientInvHolds, PTL

\* A step of one channel keeps it supplied.
Supplied(ch, new) == ch.addresses # {} => new.addresses # {} \/ new.status = "closed"

LEMMA EmittedSupplied ==
    ASSUME NEW G, NEW ch, Sound(G, ch), ch.immediates # <<>>, Head(ch.immediates) # Refresh
    PROVE  Supplied(ch, Emitted(ch))
<1> DEFINE new == Emitted(ch)
           q == Tail(ch.immediates)
           h == Head(ch.immediates)
<1>1. ch \in ChannelOf(G) /\ (h = UNAVAILABLE \/ h # {})
  BY QueueShrinks DEF Sound, Queueable
<1> HIDE DEF q, h
<1>2. CASE ch.status = "closed"
  <2>1. new = [ch EXCEPT !.immediates = q]
    BY <1>2 DEF Emitted, q
  <2> HIDE DEF new
  <2> QED BY <2>1, <1>1 DEF ChannelOf, Supplied, new
<1>3. CASE ch.status # "closed"
  <2> DEFINE ad == IF h = UNAVAILABLE THEN ch.addresses ELSE h
  <2>2. Listener(ch, h) = [ch EXCEPT !.told = h, !.addresses = ad]
    BY <1>1 DEF Listener, ChannelOf
  <2> HIDE DEF ad
  <2>3. new = [[ch EXCEPT !.told = h, !.addresses = ad] EXCEPT !.immediates = q]
    BY <1>1, <1>3, <2>2 DEF Emitted, q, h, ChannelOf
  <2> HIDE DEF new
  <2>4. new.addresses = ad
    BY <2>3, <1>1 DEF ChannelOf
  <2> QED BY <1>1, <2>4 DEF Supplied, ad, new
<1> QED BY <1>2, <1>3

LEMMA SameAddresses ==
    ASSUME NEW G, NEW ch \in ChannelOf(G), NEW found
    PROVE  /\ Report(ch, found).addresses = ch.addresses
           /\ Popped(ch).addresses = ch.addresses
           /\ Refreshed(ch, found).addresses = ch.addresses
<1>1. Report(ch, found).addresses = ch.addresses /\ Popped(ch).addresses = ch.addresses
  BY DEF Report, Popped, ChannelOf
<1>2. Failed(ch).addresses = ch.addresses
  BY DEF Failed, Report, ChannelOf
<1>3. Updated(ch, found).addresses = ch.addresses
  BY DEF Updated, Report, ChannelOf
<1>4. Refreshed(ch, found) \in {Failed(ch), ch, Updated(ch, found)}
  BY DEF Refreshed
<1> QED BY <1>1, <1>2, <1>3, <1>4, Zenon

LEMMA SuppliedNext ==
    ASSUME ClientInv, [Next]_vars
    PROVE  \A c \in Created : Supplied(channels[c], channels'[c])
<1>s. /\ ChannelsInv /\ OwnInv
      /\ \A c \in Created : Sound(Good, channels[c]) /\ channels[c] \in ChannelOf(Good)
  BY DEF ClientInv, ChannelsInv, Sound
<1>0. ASSUME channels' = channels PROVE \A c \in Created : Supplied(channels[c], channels'[c])
  BY <1>0 DEF Supplied
<1>1. ASSUME NEW d \in Created, NEW ch, Replaced(d, ch), Supplied(channels[d], ch)
      PROVE  \A c \in Created : Supplied(channels[c], channels'[c])
  <2>1. \A c \in Created : channels'[c] = IF c = d THEN ch ELSE channels[c]
    BY <1>s, <1>1 DEF Replaced, Created, ChannelsInv
  <2> QED BY <1>1, <2>1 DEF Supplied
<1> DEFINE P == \A c \in Created : Supplied(channels[c], channels'[c])
<1> SUFFICES P
  OBVIOUS
<1> HIDE DEF P
<1>2. ASSUME NEW s \in ServiceNames, client(s) PROVE P
  <2>1. channels' = channels \/ channels' = Append(channels, NewChannel)
    BY <1>2 DEF client, poolGet
  <2>2. CASE channels' = Append(channels, NewChannel)
    <3>1. \A c \in Created : channels'[c] = channels[c]
      BY <1>s, <2>2 DEF Created, ChannelsInv
    <3> QED BY <3>1 DEF P, Supplied
  <2> QED BY <1>0, <2>1, <2>2 DEF P
<1>3. ASSUME closeAll PROVE P
  <2>1. Replaced(pool, Closed(channels[pool])) /\ pool \in Created
    BY <1>3, <1>s DEF closeAll, Replaced, Closed, OwnInv
  <2>2. Closed(channels[pool]).status = "closed"
    BY <1>s, <2>1, ClosedSound
  <2> QED BY <1>1, <2>1, <2>2 DEF P, Supplied
<1>4. ASSUME NEW c \in Created, updateResolution(c) PROVE P
  <2>1. Replaced(c, Report(channels[c], Refresh))
    BY <1>4 DEF updateResolution, Queue, Replaced, Report
  <2>2. Supplied(channels[c], Report(channels[c], Refresh))
    BY <1>s, SameAddresses DEF Supplied
  <2> QED BY <1>1, <2>1, <2>2 DEF P
<1>5. ASSUME NEW c \in Created, runRefresh(c) PROVE P
  <2>1. Replaced(c, Popped(channels[c]))
    BY <1>5 DEF runRefresh, Replaced, Popped
  <2>2. Supplied(channels[c], Popped(channels[c]))
    BY <1>s, SameAddresses DEF Supplied
  <2> QED BY <1>1, <2>1, <2>2 DEF P
<1>6. ASSUME NEW c \in Created, emit(c) PROVE P
  <2>1. Replaced(c, Emitted(channels[c]))
    BY <1>6 DEF emit, Replaced, Emitted
  <2>2. Supplied(channels[c], Emitted(channels[c]))
    BY <1>s, <1>6, EmittedSupplied DEF emit
  <2> QED BY <1>1, <2>1, <2>2 DEF P
<1>7. ASSUME NEW r \in DOMAIN requests, Land(r) PROVE P
  <2> DEFINE c == requests[r].channel
             found == requests[r].outcome
  <2>1. c \in Created /\ Replaced(c, Refreshed(channels[c], found))
    BY <1>7 DEF Land, Replaced, ClientInv, RequestsInv
  <2> HIDE DEF c, found
  <2>2. Supplied(channels[c], Refreshed(channels[c], found))
    BY <1>s, <2>1, SameAddresses DEF Supplied
  <2> QED BY <1>1, <2>1, <2>2 DEF P
<1>8. ASSUME NEW c \in Created, Probed(c) PROVE P
  <2>1. PICK ch \in probeChannel(channels[c]) : Replaced(c, ch)
    BY <1>8 DEF Probed, Replaced
  <2>2. ch = channels[c] \/ ch = Report(channels[c], Refresh)
    BY <2>1 DEF probeChannel
  <2>3. Supplied(channels[c], ch)
    BY <1>s, <2>2, SameAddresses DEF Supplied
  <2> QED BY <1>1, <2>1, <2>3 DEF P
<1>9. ASSUME NEW u \in Calls, callUnary(u) PROVE P
  BY <1>8, <1>9, <1>s DEF callUnary, OwnInv
<1>10. ASSUME NEW u \in Calls, CallFails(u) PROVE P
  <2>1. calls[u] \in Created /\ Probed(calls[u])
    BY <1>10, <1>s DEF CallFails, OwnInv, NoCall
  <2> QED BY <1>8, <2>1
<1>12. ASSUME NEW c \in Created, enterIdle(c) PROVE P
  <2>1. Replaced(c, Idled(channels[c]))
    BY <1>12 DEF enterIdle, Replaced
  <2>2. Idled(channels[c]).status = "closed"
    BY <1>s, IdledSound
  <2> QED BY <1>1, <2>1, <2>2 DEF P, Supplied
<1>11. \/ channels' = channels
       \/ (\E s \in ServiceNames : client(s)) \/ closeAll
       \/ \E c \in Created : updateResolution(c) \/ runRefresh(c) \/ emit(c) \/ enterIdle(c)
       \/ \E r \in DOMAIN requests : Land(r)
       \/ \E u \in Calls : callUnary(u) \/ CallFails(u)
  BY DEF Next, Resolver, vars, Tick, Serve, Fault, Rollout, CallServed
<1> QED BY <1>0, <1>2, <1>3, <1>4, <1>5, <1>6, <1>7, <1>9, <1>10, <1>11, <1>12 DEF P

\* A channel that has had addresses is never told an empty list (Updated in
\* _doRefresh), whatever the deploy service lists and whenever answers land:
\* only the end of its balancer takes them.
THEOREM ChannelsStaySupplied == Spec => NeverLeftEmpty
<1>1. ClientInv /\ [Next]_vars =>
        [\A c \in Created : channels[c].addresses # {} =>
            channels'[c].addresses # {} \/ channels'[c].status = "closed"]_vars
  BY SuppliedNext DEF Supplied
<1> QED BY <1>1, ClientInvHolds, PTL DEF Spec, NeverLeftEmpty
=============================================================================
