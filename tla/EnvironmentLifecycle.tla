------------------------ MODULE EnvironmentLifecycle ------------------------
(***************************************************************************)
(* What the deploy service promises to a reader of the stored              *)
(* environments, GetEnvironment and the pollers built on it: how the       *)
(* generation, the desired target, the state and the observed generation   *)
(* of a document may change.  The contract is the Repository interface     *)
(* (domain/repository.go) and CanTransition (domain/state.go); queue,      *)
(* worker, requests and failures do not appear.                            *)
(***************************************************************************)
EXTENDS Naturals

CONSTANTS Env, None

VARIABLE env        \* env[e]: [gen, desired, state, observed], or None

\* The transitions state.go allows.
CanTransition(from, to) ==
    \/ from = "Pending" /\ to = "Reconciling"
    \/ from = "Reconciling" /\ to \in {"Reconciling", "Ready", "Failed", "WaitingRollout"}
    \/ from = "WaitingRollout" /\ to \in {"Ready", "Failed"}
    \/ from \in {"Ready", "Failed"} /\ to = "Reconciling"
    \/ from \in {"Pending", "Reconciling", "Ready", "Failed", "WaitingRollout"} /\ to = "Deleting"

Initial == [gen |-> 1, desired |-> "Present", state |-> "Pending", observed |-> 0]

LifecycleInit == env = [e \in Env |-> None]

Create(e) ==
    /\ env[e] = None
    /\ env' = [env EXCEPT ![e] = Initial]

\* A user's write: the generation moves by one, the status stays.
SetDesired(e) ==
    /\ env[e] # None
    /\ \E d \in {"Present", "Absent"} :
         env' = [env EXCEPT ![e] = [gen |-> @.gen + 1, desired |-> d,
                                    state |-> @.state, observed |-> @.observed]]

\* A worker's write: the generation and the target stay.  The state follows
\* CanTransition, is repeated, or becomes Failed when retries are exhausted;
\* the observed generation only ever jumps to the current one, and does so
\* whenever the state says the current generation was dealt with.
Advance(e) ==
    /\ env[e] # None
    /\ \E s \in {"Reconciling", "WaitingRollout", "Ready", "Failed", "Deleting"},
          o \in {env[e].observed, env[e].gen} :
         /\ CanTransition(env[e].state, s) \/ s = env[e].state \/ s = "Failed"
         /\ s \in {"Ready", "Failed"} => o = env[e].gen
         /\ s = "WaitingRollout" /\ env[e].state = "Reconciling" => o = env[e].gen
         /\ s = "Deleting" => env[e].desired = "Absent"
         /\ env' = [env EXCEPT ![e] = [gen |-> @.gen, desired |-> @.desired, state |-> s, observed |-> o]]

Remove(e) ==
    /\ env[e] # None
    /\ env[e].state = "Deleting"
    /\ env' = [env EXCEPT ![e] = None]

LifecycleNext == \E e \in Env : Create(e) \/ SetDesired(e) \/ Advance(e) \/ Remove(e)

LifecycleSpec == LifecycleInit /\ [][LifecycleNext]_env
=============================================================================
