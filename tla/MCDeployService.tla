-------------------------- MODULE MCDeployService --------------------------
(* The deploy service on small instances. *)
EXTENDS DeployService, TLC

CONSTANTS e1, e2, w1, w2

\* Two versions of one workload: updates change what runs, not which workloads.
TwoVersions == {[w \in {w1} |-> 1], [w \in {w1} |-> 2]}

\* The second desired state also adds a workload.
AddsWorkload == {[w \in {w1} |-> 1], [w \in {w1, w2} |-> 2]}

OneVersion == {[w \in {w1} |-> 1]}

ClientSymmetry == Permutations(Client)
===========================================================================
