---------------------------- MODULE EndpointLookup ----------------------------
(***************************************************************************)
(* How a Dominion target becomes a list of addresses: common/js/resolver,  *)
(* and the URI handling of common/js/grpc/resolver.  Everything here is a  *)
(* pure function of the target, the process environment and one answer of  *)
(* the deploy service; GrpcClient.tla asks the questions over time.        *)
(*                                                                         *)
(* A text that the code splits is given already split: the path of a       *)
(* target is the sequence of its slash-separated segments and              *)
(* DOMINION_ENVIRONMENT the sequence of its dot-separated ones, so an      *)
(* empty piece is the empty string.  A field or variable that is not there *)
(* is Absent, a number that is not a number is Named.                      *)
(***************************************************************************)
EXTENDS Integers, Sequences, FiniteSets, SequencesExt

CONSTANTS Absent,   \* undefined, null, a missing JSON field
          Named     \* a port or an instance that is not a row of digits

ASSUME LookupAssumption == Absent # Named

-----------------------------------------------------------------------------
(* A computation that may throw: the name of the error class, or a value.  *)
Throws(error) == [error |-> error, value |-> {}]
Returns(value) == [error |-> "", value |-> value]

MAX_PORT == 65535

parseTarget(raw) ==
  IF \/ raw.scheme \notin {"", "dominion:///"}
     \/ Len(raw.path) # 2
     \/ raw.path[1] = ""
     \/ raw.path[2] = ""
     \/ raw.port \in {Absent, Named}
     \/ raw.port \notin 0 .. MAX_PORT
    THEN Throws("InvalidTargetError")
    ELSE Returns([app |-> raw.path[1], service |-> raw.path[2], port |-> raw.port])

(* The ordinal of a dominion-stateful target, from ?instance=.             *)
parseInstanceFromPath(uri) ==
  IF uri.instance \in {Absent, Named} THEN Throws("Error") ELSE Returns(uri.instance)

parseDominionEnvironment(env) ==
  LET parts == env.DOMINION_ENVIRONMENT
  IN IF parts \in {<<>>, <<"">>}
       THEN Throws("MissingEnvironmentError")
       ELSE IF Len(parts) = 1 \/ Head(parts) = "" \/ Tail(parts) = <<"">>
              THEN Throws("InvalidEnvironmentError")
              ELSE Returns([scope |-> Head(parts), environment |-> Tail(parts)])

validateServiceApp(target, env) ==
  CASE env.SERVICE_APP \in {Absent, ""}    -> Throws("MissingEnvironmentError")
    [] target.app # env.SERVICE_APP        -> Throws("InvalidTargetError")
    [] OTHER                               -> Returns(target)

buildResourceName(env, target) ==
  <<env.scope, env.environment, target.app, target.service>>

-----------------------------------------------------------------------------
(* The deploy API's JSON, which may name its fields in camel or snake case.*)
Either(a, b, default) == CASE a # Absent -> a [] b # Absent -> b [] OTHER -> default

mapServiceEndpoints(raw) ==
  [endpoints         |-> Either(raw.endpoints, Absent, <<>>),
   isStateful        |-> Either(raw.isStateful, raw.is_stateful, FALSE),
   statefulInstances |-> Either(raw.statefulInstances, raw.stateful_instances, <<>>)]

(* One exchange with the deploy service: an HTTP status with a body, or no *)
(* response.  A body that is not JSON is Named.                            *)
NoResponse == [status |-> 0, body |-> Absent]

getServiceEndpoints(answer) ==
  CASE answer = NoResponse \/ answer.status \notin 200..299 \cup {404} ->
                                                  Throws("DeployServiceError")
    [] answer.status = 404                     -> Throws("ServiceNotFoundError")
    [] answer.status \in 200..299 /\ answer.body = Named -> Throws("SyntaxError")
    [] OTHER                                   -> Returns(mapServiceEndpoints(answer.body))

(* The code returns the matching addresses sorted and without duplicates,  *)
(* which is as much as a set says.                                         *)
filterEndpoints(endpoints, port) == {e \in Range(endpoints) : e.port = port}

-----------------------------------------------------------------------------
(* The part of a lookup that comes before the request: the target and the  *)
(* resource to ask for, or the first error.                                *)
Query(raw, env) ==
  LET target == parseTarget(raw)
      valid  == validateServiceApp(target.value, env)
      parsed == parseDominionEnvironment(env)
  IN CASE target.error # "" -> target
       [] target.error = "" /\ valid.error # "" -> valid
       [] target.error = "" /\ valid.error = "" /\ parsed.error # "" -> parsed
       [] OTHER -> Returns([port |-> raw.port,
                            resource |-> buildResourceName(parsed.value, valid.value)])

(* createResolver().resolve, given the deploy service's answer.            *)
resolve(query, answer) ==
  LET listed == getServiceEndpoints(answer)
  IN IF listed.error # ""
       THEN listed
       ELSE Returns(filterEndpoints(listed.value.endpoints, query.port))

(* The first instance listed with the ordinal, as Array.find.              *)
InstanceAt(instances, ordinal) == SelectInSeq(instances, LAMBDA i : i.index = ordinal)

(* createStatefulResolver().resolveInstance, given the answer.             *)
resolveInstance(query, ordinal, answer) ==
  LET listed == getServiceEndpoints(answer)
      instances == listed.value.statefulInstances
      i == InstanceAt(instances, ordinal)
      filtered == filterEndpoints(instances[i].endpoints, query.port)
  IN IF listed.error # ""
       THEN listed
       ELSE CASE ~listed.value.isStateful -> Throws("ServiceNotStatefulError")
              [] listed.value.isStateful /\ i = 0 -> Throws("StatefulInstanceNotFoundError")
              [] listed.value.isStateful /\ i # 0 /\ filtered = {} ->
                   Throws("StatefulInstanceNoReadyEndpointsError")
              [] OTHER -> Returns(filtered)
===============================================================================
