----------------------------- MODULE SaoleiHooks -----------------------------
(***************************************************************************)
(* The hook scripts of a team: the planner's saolei_hook tool on the       *)
(* registry, and the run of the registered hooks on a board.               *)
(*                                                                         *)
(* A script is what it does: why it does not compile, or what its run      *)
(* returns or meets.                                                       *)
(***************************************************************************)
EXTENDS Integers, FiniteSets, Functions

CONSTANTS
  HookNames, HookScripts,  \* the names and scripts a planner uses
  MaxHooks                 \* MAX_HOOKS

ASSUME HookAssumption == MaxHooks \in Nat

VARIABLES
  hooks,      \* the registry: the entry of every registered name
  nextOrder,  \* the position the next new name gets
  announced   \* the announcements of the last board change, by hook

hookVars == <<hooks, nextOrder, announced>>

COMPILE_REJECTIONS == {"tooLong", "banned", "syntax"}
OUTCOMES           == {"text", "longText", "emptyText", "undefined", "unserializable",
                       "throws", "spins"}

ASSUME ScriptAssumption == HookScripts \subseteq COMPILE_REJECTIONS \cup OUTCOMES

HookEntry(script, order) == [script |-> script, order |-> order]

\* No entries, no announcements.
None == [n \in {} |-> n]

HookInit ==
  /\ hooks = None
  /\ nextOrder = 0
  /\ announced = None

Registered(name) == name \in DOMAIN hooks

compileHookScript(script) == script \notin COMPILE_REJECTIONS

\* The registration checks passed: a known name keeps its position, a new one
\* goes to the end.
set(name, script) ==
  /\ name # ""
  /\ Registered(name) \/ Cardinality(DOMAIN hooks) < MaxHooks
  /\ compileHookScript(script)
  /\ \E order \in {IF Registered(name) THEN hooks[name].order ELSE nextOrder} :
       hooks' = [n \in DOMAIN hooks \cup {name} |->
                   IF n = name THEN HookEntry(script, order) ELSE hooks[n]]
  /\ nextOrder' = IF Registered(name) THEN nextOrder ELSE nextOrder + 1

remove(name) ==
  /\ Registered(name)
  /\ hooks' = Restrict(hooks, DOMAIN hooks \ {name})
  /\ UNCHANGED nextOrder

ACCEPTED_FIELDS == [set |-> {"name", "script"}, remove |-> {"name"}, list |-> {}]

\* An unknown action, a field the action does not take and a missing one are
\* refused.
normalizeCall(args) ==
  /\ args.action \in DOMAIN ACCEPTED_FIELDS
  /\ DOMAIN args = ACCEPTED_FIELDS[args.action] \cup {"action"}

\* One call of the tool.  A refused call, a refused write and list leave the
\* registry as it is.
executeSaoleiHook(args) ==
  \/ /\ normalizeCall(args)
     /\ args.action = "set"
     /\ set(args.name, args.script)
     /\ UNCHANGED announced
  \/ /\ normalizeCall(args)
     /\ args.action = "remove"
     /\ remove(args.name)
     /\ UNCHANGED announced

HookCalls ==
  [action : {"set"}, name : HookNames, script : HookScripts] \cup
  [action : {"remove"}, name : HookNames]

-----------------------------------------------------------------------------
(* A board change: every hook runs, in the order of registration; an empty *)
(* result announces nothing.                                               *)

\* The result of a script that returned.
classifyOutput(script) ==
  CASE script = "text" -> "output"
    [] script = "longText" -> "truncated"
    [] script = "emptyText" -> "empty"
    [] script \in {"undefined", "unserializable"} -> "error"

\* A run on a snapshot of the board, within its time.
runHookScript(script, state) ==
  [state |-> state,
   kind  |-> CASE script = "spins" -> "timeout"
               [] script = "throws" -> "error"
               [] OTHER -> classifyOutput(script)]

\* The hooks that have something to announce about a board.
announcementFor(state) ==
  {n \in DOMAIN hooks : runHookScript(hooks[n].script, state).kind # "empty"}

\* What the handler announces; when the announcement of a hook fails, the
\* event ends before it.
onBoardChange(state, fails) ==
  [n \in {m \in announcementFor(state) :
            \A f \in fails : hooks[m].order < hooks[f].order} |->
     runHookScript(hooks[n].script, state)]

=============================================================================
