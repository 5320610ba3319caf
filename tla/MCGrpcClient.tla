----------------------------- MODULE MCGrpcClient -----------------------------
(***************************************************************************)
(* GrpcClient for TLC: the app "game" with a stateless service and a       *)
(* stateful one, three listings of them, and targets good and bad.         *)
(***************************************************************************)
EXTENDS GrpcClient

Host(app, service, n) == [app |-> app, service |-> service, instance |-> n]
At(host, port) == [host |-> host, port |-> port]

MCOwner == [m0 |-> Host("game", "memory", 0), m1 |-> Host("game", "memory", 1),
            s0 |-> Host("game", "shard", 0), s1 |-> Host("game", "shard", 1),
            c0 |-> Host("chess", "memory", 0)]

(* The addresses of one server: its own port, and one without.             *)
Both(host) == <<At(host, 1), At(host, 2), At(host, 1)>>

(* Answers with the field names of either convention.                      *)
Camel(endpoints, stateful, instances) ==
  [endpoints |-> endpoints, isStateful |-> stateful, is_stateful |-> Absent,
   statefulInstances |-> instances, stateful_instances |-> Absent]
Snake(endpoints, stateful, instances) ==
  [endpoints |-> endpoints, isStateful |-> Absent, is_stateful |-> stateful,
   statefulInstances |-> Absent, stateful_instances |-> instances]

Memory == <<"prod", <<"eu">>, "game", "memory">>
Shard == <<"prod", <<"eu">>, "game", "shard">>
Elsewhere == <<"prod", <<"eu">>, "chess", "memory">>

Instance(i, endpoints) == [index |-> i, endpoints |-> endpoints]

Of(memory, shard) ==
  (Memory :> memory) @@ (Shard :> shard)
  @@ (Elsewhere :> Camel(<<At("c0", 1)>>, FALSE, Absent))

MCListings ==
  <<Of(Camel(Both("m0"), FALSE, <<>>),
      Camel(Absent, TRUE, <<Instance(1, Both("s1")), Instance(0, Both("s0"))>>)),
   (Memory :> Snake(Both("m1") \o Both("m0"), Absent, Absent)),
   Of(Camel(Absent, Absent, Absent),
      Snake(<<>>, TRUE, <<Instance(0, <<>>), Instance(1, Both("s1"))>>))>>

Uri(path, port) == [scheme |-> "", path |-> path, port |-> port, stateful |-> FALSE,
                    instance |-> Absent]
Stateful(path, port, i) == [Uri(path, port) EXCEPT !.stateful = TRUE, !.instance = i]

MCTargets ==
  <<Uri(<<"game", "memory">>, 1), Stateful(<<"game", "shard">>, 1, 0),
   Uri(<<"chess", "memory">>, 1), Uri(<<"game", "memory">>, Named),
   Uri(<<"game", "memory">>, 65536), Uri(<<"game", "", "memory">>, 1),
   Stateful(<<"game", "shard">>, 1, Absent)>>

Env(app, parts) == [SERVICE_APP |-> app, DOMINION_ENVIRONMENT |-> parts]
MCEnvironments == <<Env("game", <<"prod", "eu">>), Env("game", <<"prod">>), Env(Absent, <<>>)>>

(* Every target in a good environment, and one target in the bad ones.     *)
MCProcesses ==
  [env : {1}, target : DOMAIN MCTargets] \cup [env : {2, 3}, target : {1}]
===============================================================================
