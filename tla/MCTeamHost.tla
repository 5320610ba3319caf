---------------------------- MODULE MCTeamHost ----------------------------
(* A scene of one role, its preset and one of another role, and requests of  *)
(* each kind validation tells apart.                                         *)
EXTENDS TeamHost

MCPresetRole == [pa |-> "player", px |-> "planner"]

Member(role, preset, model) ==
    [role |-> role, template |-> "saolei", preset |-> preset, model |-> model]
Request(members, masked) ==
    [template |-> "saolei", members |-> members, masked |-> masked, mask |-> {}]

MCRequests ==
    {Request(<<Member("player", "pa", "glm")>>, FALSE),
     Request(<<Member("player", "pa", "")>>, TRUE),
     Request(<<Member("player", "pa", ""), Member("player", "pa", "")>>, FALSE),
     Request(<<Member("player", "px", "")>>, FALSE),
     Request(<<Member("player", "pa", "old")>>, FALSE)}

ASSUME RequestAssumption == \A q \in Requests : RequestShape(q)
===========================================================================
