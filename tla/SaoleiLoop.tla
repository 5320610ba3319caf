---------------------------- MODULE SaoleiLoop ----------------------------
(***************************************************************************)
(* The minesweeper team loop: the activity graph (flow.ts), the pump that   *)
(* drives it (orchestrator.ts), the members (agent-member.ts, announcer.ts) *)
(* and the relay of what members say to each other (team/team.ts).          *)
(*                                                                          *)
(* JavaScript runs one callback at a time and finishes all promise          *)
(* reactions before the next one.  So the pump moves by actions of its own  *)
(* (PumpRun, PumpDecide, PumpExecute) and every other action waits until    *)
(* the pump is at rest or awaits a turn (Settled).                          *)
(*                                                                          *)
(* The agent a member drives is a library; it is modelled by what           *)
(* agent-member.ts relies on: a turn claims the whole inbox when it starts  *)
(* and at a step boundary, it does not end well while user input waits, and *)
(* cancelling it empties the inbox.                                         *)
(***************************************************************************)
EXTENDS Naturals, FiniteSets, Sequences

CONSTANTS
    UserMessages,   \* texts the user sends, each at most once
    RoundStop,      \* ROUND_STOP_INTERVAL
    MaxUnits,       \* bound: broadcast units (speeches and tool units)
    MaxTerminals,   \* bound: games that end
    MaxFailures,    \* bound: turns that fail
    MaxThrows       \* bound: technical throws (assembly, rendering, injection)

ASSUME LoopAssumption ==
    /\ RoundStop \in Nat \ {0}
    /\ MaxUnits \in Nat /\ MaxTerminals \in Nat
    /\ MaxFailures \in Nat /\ MaxThrows \in Nat
    /\ MaxTerminals <= MaxUnits
    /\ \A u \in UserMessages : u \notin 1..MaxUnits

VARIABLES
    life,       \* "none", "building", "live", "disposing" or "disposed"
    created,    \* members whose agent exists
    flow,       \* the Flow object with its facts
    terminal,   \* the latest terminal record of the game runtime, 0 for null
    statsSent,  \* the announcer's statsSentFor
    turn,       \* turn[m]: "none", "woken" (batch handed over), "running"
    hold,       \* hold[m]: the turn in flight is a drive of the flow
    held,       \* held[m]: input of the last drive, while it may be replayed
    abort,      \* abort[m]: abortRequested
    inbox,      \* inbox[m]: messages the agent has not claimed
    landed,     \* user messages a cancel took back
    units,      \* the productions in all members' logs, in order
    drained,    \* drained[m]: units drain took and m's log may not show
    seen,       \* seen[m][x]: how often x entered m's log
    pump,       \* "none", "run", "decide", "execute", "external", "drive"
    externalPending,
    wake,       \* the outcome the pump carries, "null" for an external wake
    lastError,  \* "none", "member-turn" or "orchestration"
    sent,       \* user messages accepted so far
    failures, throws,
    cancelAsked,\* history: the user cancelled while m's turn was in flight
    missed,     \* history: <<m, n>>, injecting n into m's turn failed
    abandoned,  \* history: <<m, x>>, x handed to m and taken away unclaimed
    replayed    \* history: <<m, x>>, x handed to m again from its held set

flowVars  == <<flow, terminal, statsSent>>
turnVars  == <<turn, hold, held, abort, inbox>>
teamVars  == <<units, drained, seen>>
pumpVars  == <<pump, externalPending, wake>>
histVars  == <<failures, throws, cancelAsked, missed, abandoned, replayed>>
vars == <<life, created, flowVars, turnVars, landed, teamVars, pumpVars, lastError, sent, histVars>>

Agents   == {"player", "planner"}
Members  == Agents \cup {"announcer"}
Activities == {"plan", "play", "announce", "review", "rest"}
Outcomes == {"none", "settled", "resting", "failed", "aborted"}

MemberOf == [plan |-> "planner", play |-> "player", announce |-> "announcer",
             review |-> "planner", rest |-> "player"]
activeMember == MemberOf[flow.pos]

\* A message is user input, a broadcast built by drain, or the copy of a
\* broadcast that the in-flight path injected.
User(u)    == [kind |-> "user", of |-> u]
Drained(n) == [kind |-> "drained", of |-> n]
Fast(n)    == [kind |-> "fast", of |-> n]
Unit       == 1..MaxUnits
Message    == {User(u) : u \in UserMessages} \cup {Drained(n) : n \in Unit}
                 \cup {Fast(n) : n \in Unit}
IsUser(x)  == x.kind = "user"
Of(S)      == {x.of : x \in S}

-----------------------------------------------------------------------------
(* team.ts: what a member has not consumed is derived from the logs.        *)

busy(m) == m \in Agents /\ turn[m] # "none"

\* reconcile: productions of the others that neither m's log nor an earlier
\* drain has taken.
Pending(m) ==
    {n \in DOMAIN units : units[n].from # m /\ seen[m][n] = 0 /\ n \notin drained[m]}

\* drain: reconcile closes the marks the log shows, then all pending is taken.
DrainMark(m, S) == {n \in drained[m] : seen[m][n] = 0} \cup S

\* relay: the logs carry the unit; a receiver with a turn in flight also gets
\* a copy for its next step.
Relay(from, about, delivered) ==
    /\ units' = Append(units, [from |-> from, about |-> about])
    /\ inbox' = [m \in Agents |->
                    IF m \in delivered THEN inbox[m] \cup {Fast(Len(units) + 1)}
                                       ELSE inbox[m]]
    /\ UNCHANGED <<drained, seen>>

\* Bound: a speech leaves room for the announcements to come.
Room == Len(units) + (MaxTerminals - Cardinality({n \in DOMAIN units : units[n].about # 0}))
           < MaxUnits

Receivers(from) == {m \in Agents \ {from} : busy(m)}

\* relay and deliverInFlight of a message of the announcer: an injection that
\* throws is swallowed with a warning, and the pending list keeps the unit.
Announce(about) ==
    \E delivered \in SUBSET Receivers("announcer") :
       LET failed == Receivers("announcer") \ delivered
       IN  /\ Relay("announcer", about, delivered)
           /\ missed' = missed \cup {<<m, Len(units) + 1>> : m \in failed}
           /\ IF failed = {} THEN UNCHANGED throws
                             ELSE throws < MaxThrows /\ throws' = throws + 1

-----------------------------------------------------------------------------
(* agent-member.ts                                                           *)

\* Mutant of StartTurn: broadcasts left over from an earlier turn stay in the
\* inbox.
StartTurnUnswept(m, batch, h) ==
    /\ turn'  = [turn EXCEPT ![m] = "woken"]
    /\ hold'  = [hold EXCEPT ![m] = h]
    /\ held'  = [held EXCEPT ![m] = IF h THEN batch ELSE @]
    /\ abort' = [abort EXCEPT ![m] = FALSE]
    /\ inbox' = [inbox EXCEPT ![m] = @ \cup batch]

\* sweepBroadcastResidue and runTurn: old broadcasts leave the inbox, the
\* batch enters it, and a drive of the flow is kept for a replay.
StartTurn(m, batch, h) ==
    /\ turn'  = [turn EXCEPT ![m] = "woken"]
    /\ hold'  = [hold EXCEPT ![m] = h]
    /\ held'  = [held EXCEPT ![m] = IF h THEN batch ELSE @]
    /\ abort' = [abort EXCEPT ![m] = FALSE]
    /\ inbox' = [inbox EXCEPT ![m] = {x \in @ : IsUser(x)} \cup batch]

\* Drained broadcasts of a delivery's turn, which no held set keeps, that leave
\* m's inbox unclaimed.
Forsaken(m, gone) ==
    {<<m, x.of>> : x \in {y \in gone : y.kind = "drained" /\ ~hold[m]}}

\* Drained broadcasts of m's held set that no turn has claimed.  Fresh input
\* that is driven instead displaces them for good: drain took them.
Unread(m) == {<<m, x.of>> : x \in {y \in held[m] : y.kind = "drained" /\ seen[m][y.of] = 0}}

\* defaultInput: fresh input, else the held set.
FreshInput(m)   == {Drained(n) : n \in Pending(m)} \cup {User(u) : u \in landed}
DefaultInput(m) == IF FreshInput(m) # {} THEN FreshInput(m) ELSE held[m]

-----------------------------------------------------------------------------
(* flow.ts                                                                   *)

paused == flow.outcome \in {"failed", "aborted"}

HasUnreviewedTerminal(f) == terminal # 0 /\ terminal # f.reviewed

\* Mutant of NextActivity: one round too many.
NextActivityLateStop(f) ==
    CASE f.pos = "plan"     -> "play"
      [] f.pos = "announce" -> "review"
      [] f.pos = "review"   -> IF f.rounds <= RoundStop THEN "play" ELSE "rest"
      [] OTHER              -> IF HasUnreviewedTerminal(f) THEN "announce" ELSE "play"

\* SAOLEI_ACTIVITIES: the outgoing edge of each activity.
NextActivity(f) ==
    CASE f.pos = "plan"     -> "play"
      [] f.pos = "play"     -> IF HasUnreviewedTerminal(f) THEN "announce" ELSE "play"
      [] f.pos = "announce" -> "review"
      [] f.pos = "review"   -> IF f.rounds < RoundStop THEN "play" ELSE "rest"
      [] f.pos = "rest"     -> IF HasUnreviewedTerminal(f) THEN "announce" ELSE "play"

\* onSettle: facts written when an activity of the flow succeeds.
OnSettle(f) ==
    CASE f.pos = "announce" -> [f EXCEPT !.statsSentFor = terminal]
      [] f.pos = "review"   -> [f EXCEPT !.reviewed = terminal, !.rounds = @ + 1]
      [] OTHER              -> f

\* judge: move along the edge and apply onEnter.
Judge(f) ==
    LET target == NextActivity(f)
    IN  [f EXCEPT !.pos = target, !.outcome = "none",
                  !.rounds = IF target = "rest" THEN 0 ELSE @]

\* decide: the flow after one wake, and whether an activity is to be started.
Decide(w) ==
    LET woken  == IF w = "null" THEN flow ELSE [flow EXCEPT !.outcome = w]
        told   == [IF w = "settled" THEN OnSettle(woken) ELSE woken
                      EXCEPT !.retrying = FALSE]
        frozen == told.outcome \in {"failed", "aborted"}
    IN  CASE frozen /\ w = "null"  -> [flow |-> [told EXCEPT !.retrying = TRUE], start |-> TRUE]
          [] frozen /\ w # "null"  -> [flow |-> told, start |-> FALSE]
          [] ~frozen /\ w = "resting" /\ ~flow.retrying -> [flow |-> told, start |-> FALSE]
          [] OTHER                 -> [flow |-> Judge(told), start |-> TRUE]

-----------------------------------------------------------------------------
(* orchestrator.ts                                                           *)

FlowInit == [pos |-> "plan", outcome |-> "none", retrying |-> FALSE,
             reviewed |-> 0, rounds |-> 0, statsSentFor |-> 0]

Init ==
    /\ life = "none" /\ created = {}
    /\ flow = FlowInit
    /\ terminal = 0 /\ statsSent = 0
    /\ turn = [m \in Agents |-> "none"] /\ hold = [m \in Agents |-> FALSE]
    /\ held = [m \in Agents |-> {}] /\ abort = [m \in Agents |-> FALSE]
    /\ inbox = [m \in Agents |-> {}] /\ landed = {}
    /\ units = <<>> /\ drained = [m \in Agents |-> {}]
    /\ seen = [m \in Agents |-> [x \in Unit \cup UserMessages |-> 0]]
    /\ pump = "none" /\ externalPending = FALSE /\ wake = "null"
    /\ lastError = "none" /\ sent = {}
    /\ failures = 0 /\ throws = 0
    /\ cancelAsked = [m \in Agents |-> FALSE]
    /\ missed = {} /\ abandoned = {} /\ replayed = {}

\* No promise reaction is outstanding.
Settled == pump \in {"none", "external", "drive"}

loopVars == <<flowVars, turnVars, teamVars, pumpVars, sent, histVars>>

\* materialize: refused unless nothing is materialized.
Materialize ==
    /\ life = "none"
    /\ life' = "building"
    /\ UNCHANGED <<created, landed, lastError, loopVars>>

\* createMember: compose the preset, create the agent, set its scope up; the
\* planner follows the player.
CreateMember(m) ==
    /\ life = "building" /\ m \notin created
    /\ m = "planner" => "player" \in created
    /\ created' = created \cup {m}
    /\ UNCHANGED <<life, landed, lastError, loopVars>>

\* Both members exist: the team is registered and the flow rests at plan.
RegisterTeam ==
    /\ life = "building" /\ created = Agents
    /\ life' = "live"
    /\ landed' = {} /\ lastError' = "none"
    /\ UNCHANGED <<created, loopVars>>

\* Composing, creating, the memory prefetch or the registration fails: the
\* members created so far are released and the caller may try again.
MaterializeFails ==
    /\ life = "building"
    /\ life' = "none" /\ created' = {}
    /\ UNCHANGED <<landed, lastError, loopVars>>

\* Mutant of RequestPump: the wake is recorded and no pump is started.
RequestPumpIdle == externalPending' = TRUE /\ UNCHANGED <<pump, wake>>

\* requestPump, after a delivery that opened a turn.
RequestPump ==
    /\ externalPending' = TRUE
    /\ pump' = IF pump = "none" THEN "run" ELSE pump
    /\ UNCHANGED wake

\* Mutant of Steer: the text waits for the next drive instead of the next step.
SteerLands(u) ==
    /\ busy(activeMember)
    /\ landed' = landed \cup {u}
    /\ UNCHANGED <<flow, turnVars, drained, pumpVars, lastError, throws, abandoned>>

\* submit while the member's turn is in flight: landed messages and the text
\* go into the inbox of the running turn.
Steer(u) ==
    LET m == activeMember
    IN  /\ busy(m)
        /\ inbox' = [inbox EXCEPT ![m] = @ \cup {User(v) : v \in landed \cup {u}}]
        /\ landed' = {}
        /\ UNCHANGED <<flow, turn, hold, held, abort, drained, pumpVars, lastError,
                       throws, abandoned>>

\* submit at rest: pending broadcasts, landed messages and the text open a turn.
Deliver(u) ==
    LET m == activeMember
        batch == FreshInput(m) \cup {User(u)}
    IN  /\ m \in Agents /\ ~busy(m)
        /\ drained' = [drained EXCEPT ![m] = DrainMark(m, Pending(m))]
        /\ landed' = {}
        /\ abandoned' = abandoned \cup Forsaken(m, {x \in inbox[m] : ~IsUser(x)})
        /\ StartTurn(m, batch, FALSE)
        /\ RequestPump
        /\ UNCHANGED <<flow, lastError, throws>>

\* submit at rest, with a broadcast that cannot be built: drain throws after
\* some units were marked, and the failure freezes the flow.
DeliverThrows(u) ==
    LET m == activeMember
    IN  /\ m \in Agents /\ ~busy(m)
        /\ throws < MaxThrows /\ throws' = throws + 1
        /\ \E built \in SUBSET Pending(m) :
              /\ built # Pending(m)
              /\ drained' = [drained EXCEPT ![m] = DrainMark(m, built)]
              /\ abandoned' = abandoned \cup {<<m, n>> : n \in built} \cup {<<m, u>>}
        /\ lastError' = "orchestration"
        /\ flow' = [flow EXCEPT !.outcome = "failed", !.retrying = FALSE]
        /\ UNCHANGED <<turnVars, landed, pumpVars>>

\* submit while the announcer has the activation: its deliver is a no-op.
DeliverToAnnouncer(u) ==
    /\ activeMember = "announcer"
    /\ abandoned' = abandoned \cup {<<"announcer", u>>}
    /\ RequestPump
    /\ UNCHANGED <<flow, turnVars, landed, drained, lastError, throws>>

Submit(u) ==
    /\ life = "live" /\ Settled
    /\ u \notin sent /\ sent' = sent \cup {u}
    /\ Steer(u) \/ Deliver(u) \/ DeliverThrows(u) \/ DeliverToAnnouncer(u)
    /\ UNCHANGED <<life, created, terminal, statsSent, units, seen, failures, cancelAsked,
                   missed, replayed>>

\* landUnclaimed: the user messages that wait in m's inbox.
LandUnclaimed(m) == IF m \in Agents THEN Of({x \in inbox[m] : IsUser(x)}) ELSE {}

\* Mutant of Cancel: unclaimed user messages are dropped with the inbox.
CancelDrops ==
    /\ life = "live" /\ Settled /\ ~paused /\ busy(activeMember)
    /\ abort' = [abort EXCEPT ![activeMember] = TRUE]
    /\ inbox' = [inbox EXCEPT ![activeMember] = {}]
    /\ UNCHANGED <<life, created, flowVars, turn, hold, held, landed, teamVars, pumpVars,
                   lastError, sent, histVars>>

\* cancel: nothing happens while the flow is frozen.  Otherwise unclaimed user
\* messages are taken back, and the turn in flight is cancelled or, at rest,
\* the flow is frozen at once.
Cancel ==
    LET m == activeMember
    IN  /\ life = "live" /\ Settled
        /\ cancelAsked' = [k \in Agents |-> cancelAsked[k] \/ busy(k)]
        /\ IF paused
           THEN UNCHANGED <<flow, turnVars, landed, abandoned>>
           ELSE /\ landed' = landed \cup LandUnclaimed(m)
                /\ IF busy(m)
                   THEN /\ abort' = [abort EXCEPT ![m] = TRUE]
                        /\ inbox' = [inbox EXCEPT ![m] = {}]
                        /\ abandoned' = abandoned \cup
                              Forsaken(m, inbox[m])
                        /\ UNCHANGED <<flow, turn, hold, held>>
                   ELSE /\ flow' = [flow EXCEPT !.outcome = "aborted"]
                        /\ UNCHANGED <<turnVars, abandoned>>
        /\ UNCHANGED <<life, created, terminal, statsSent, teamVars, pumpVars, lastError,
                       sent, failures, throws, missed, replayed>>

\* Mutant of Dispose: the turn in flight is left to end by itself.
DisposeWaits ==
    /\ life = "live" /\ Settled
    /\ life' = "disposing"
    /\ landed' = {}
    /\ UNCHANGED <<created, flowVars, turnVars, teamVars, pumpVars, lastError, sent, histVars>>

\* dispose: the turn in flight is aborted and cancelled; then the pump ends.
Dispose ==
    /\ life = "live" /\ Settled
    /\ life' = "disposing"
    /\ landed' = {}
    /\ abort' = [m \in Agents |-> abort[m] \/ busy(m)]
    /\ inbox' = [m \in Agents |-> IF busy(m) THEN {} ELSE inbox[m]]
    /\ UNCHANGED <<created, flowVars, turn, hold, held, teamVars, pumpVars, lastError, sent, histVars>>

\* dispose after whenQuiescent: the registration and the members are released.
Release ==
    /\ life = "disposing" /\ pump = "none"
    /\ life' = "disposed" /\ created' = {}
    /\ lastError' = "none"
    /\ UNCHANGED <<landed, loopVars>>

\* runPump, first half: the turn a delivery opened is awaited, or the outcome
\* of the flow's own drive is taken.
PumpRun ==
    /\ pump = "run"
    /\ externalPending' = FALSE
    /\ IF externalPending /\ busy(activeMember)
       THEN pump' = "external" /\ UNCHANGED <<wake, lastError>>
       ELSE /\ pump' = "decide"
            /\ wake' = IF externalPending THEN "resting" ELSE wake
            /\ lastError' = IF externalPending THEN "none" ELSE lastError
    /\ UNCHANGED <<life, created, flowVars, turnVars, landed, teamVars, sent, histVars>>

\* runPump, second half: the wake is decided.
PumpDecide ==
    /\ pump = "decide"
    /\ flow' = Decide(wake).flow
    /\ pump' = IF Decide(wake).start THEN "execute" ELSE "none"
    /\ wake' = "null"
    /\ UNCHANGED <<life, created, terminal, statsSent, turnVars, landed, teamVars,
                   externalPending, lastError, sent, histVars>>

\* settleError and recordFailure for an outcome of a member.
ErrorAfter(outcome) == IF outcome = "failed" THEN "member-turn" ELSE "none"

\* execute, an activity that completes at once: rest, nothing to say to an
\* agent, or a record that was announced before.
ExecuteAtOnce ==
    LET m == activeMember
        outcome == IF m = "announcer" THEN "settled" ELSE "resting"
    IN  /\ \/ flow.pos = "rest"
           \/ m = "announcer" /\ terminal \in {0, statsSent}
           \/ flow.pos # "rest" /\ m \in Agents /\ ~busy(m) /\ DefaultInput(m) = {}
        /\ wake' = outcome /\ pump' = "run"
        /\ lastError' = IF flow.pos = "rest" THEN lastError ELSE "none"
        /\ UNCHANGED <<statsSent, turnVars, landed, teamVars, throws, missed, abandoned,
                       replayed>>

\* execute, announce: the announcer speaks the latest record.
ExecuteAnnounce ==
    /\ flow.pos = "announce" /\ terminal \notin {0, statsSent}
    /\ wake' = "settled" /\ pump' = "run" /\ lastError' = "none"
    /\ Announce(terminal)
    /\ statsSent' = terminal
    /\ UNCHANGED <<turn, hold, held, abort, landed, abandoned, replayed>>

\* execute, announce, when the record cannot be rendered.
ExecuteAnnounceThrows ==
    /\ flow.pos = "announce" /\ terminal \notin {0, statsSent}
    /\ throws < MaxThrows /\ throws' = throws + 1
    /\ wake' = "failed" /\ pump' = "run" /\ lastError' = "member-turn"
    /\ UNCHANGED <<statsSent, turnVars, landed, teamVars, missed, abandoned, replayed>>

\* execute, an agent activity with input: the member's turn is started.
ExecuteDrive ==
    LET m == activeMember
        fresh == FreshInput(m)
    IN  /\ flow.pos # "rest" /\ m \in Agents /\ ~busy(m)
        /\ DefaultInput(m) # {}
        /\ drained' = [drained EXCEPT ![m] = DrainMark(m, Pending(m))]
        /\ landed' = {}
        /\ abandoned' = abandoned \cup Forsaken(m, {x \in inbox[m] : ~IsUser(x)})
                               \cup (IF fresh = {} THEN {} ELSE Unread(m))
        /\ replayed' = IF fresh = {} THEN replayed \cup {<<m, x.of>> : x \in held[m]} ELSE replayed
        /\ StartTurn(m, DefaultInput(m), TRUE)
        /\ pump' = "drive" /\ wake' = "null"
        /\ UNCHANGED <<statsSent, units, seen, lastError, throws, missed>>

\* execute, a technical throw before the turn: the input cannot be built, or a
\* turn is in flight already.
ExecuteThrows ==
    LET m == activeMember
    IN  /\ flow.pos # "rest" /\ m \in Agents
        /\ \/ busy(m) /\ UNCHANGED <<drained, throws, abandoned>>
           \/ /\ ~busy(m) /\ throws < MaxThrows /\ throws' = throws + 1
              /\ \E built \in SUBSET Pending(m) :
                    /\ built # Pending(m)
                    /\ drained' = [drained EXCEPT ![m] = DrainMark(m, built)]
                    /\ abandoned' = abandoned \cup {<<m, n>> : n \in built}
        /\ wake' = "failed" /\ pump' = "run" /\ lastError' = "orchestration"
        /\ UNCHANGED <<statsSent, turnVars, landed, units, seen, missed, replayed>>

PumpExecute ==
    /\ pump = "execute"
    /\ \/ ExecuteAtOnce \/ ExecuteAnnounce \/ ExecuteAnnounceThrows
       \/ ExecuteDrive \/ ExecuteThrows
    /\ UNCHANGED <<life, created, flow, terminal, externalPending, sent, failures, cancelAsked>>

-----------------------------------------------------------------------------
(* The agent behind a member.                                                *)

\* The turn claims its inbox: at its start, or at a step boundary.
Claim(m) ==
    /\ Settled /\ turn[m] # "none"
    /\ turn[m] = "woken" \/ inbox[m] # {}
    /\ turn' = [turn EXCEPT ![m] = "running"]
    /\ seen' = [seen EXCEPT ![m] = [x \in DOMAIN @ |->
                   @[x] + Cardinality({y \in inbox[m] : y.of = x})]]
    /\ inbox' = [inbox EXCEPT ![m] = {}]
    /\ UNCHANGED <<life, created, flowVars, hold, held, abort, landed, units, drained,
                   pumpVars, lastError, sent, histVars>>

\* A speech or a completed tool call of the running turn.
Speak(m) ==
    /\ Settled /\ turn[m] = "running" /\ Room
    /\ Relay(m, 0, {})
    /\ UNCHANGED <<life, created, flowVars, turn, hold, held, abort, landed, pumpVars,
                   lastError, sent, histVars>>

\* A board change of the player runs a hook, whose result is announced.
HookAnnounce ==
    /\ Settled /\ turn["player"] = "running" /\ Room
    /\ Announce(0)
    /\ UNCHANGED <<life, created, flowVars, turn, hold, held, abort, landed, pumpVars,
                   lastError, sent, failures, cancelAsked, abandoned, replayed>>

\* A game of the player ends; only the latest record is kept.
GameEnds ==
    /\ Settled /\ turn["player"] = "running" /\ terminal < MaxTerminals
    /\ terminal' = terminal + 1
    /\ UNCHANGED <<life, created, flow, statsSent, turnVars, landed, teamVars, pumpVars,
                   lastError, sent, histVars>>

\* Where the pump continues after the turn it awaited; a disposed loop ends it.
PumpAfterAwait == IF life # "live" THEN "none" ELSE IF pump = "external" THEN "decide" ELSE "run"

\* The agent becomes idle: runTurn reads the abort mark, then the failure.
TurnEnds(m, failed) ==
    LET outcome == IF abort[m] THEN "aborted" ELSE IF failed THEN "failed" ELSE "settled"
    IN  /\ Settled /\ turn[m] # "none"
        /\ failed => failures < MaxFailures
        /\ ~failed /\ ~abort[m] => turn[m] = "running" /\ inbox[m] = {}
        /\ turn' = [turn EXCEPT ![m] = "none"]
        /\ abort' = [abort EXCEPT ![m] = FALSE]
        /\ held' = [held EXCEPT ![m] = IF hold[m] /\ outcome = "settled" THEN {} ELSE @]
        /\ failures' = IF failed THEN failures + 1 ELSE failures
        /\ cancelAsked' = [cancelAsked EXCEPT ![m] = FALSE]
        /\ lastError' = IF life = "live" \/ pump = "drive" THEN ErrorAfter(outcome) ELSE lastError
        /\ wake' = IF pump = "external" /\ outcome = "settled" THEN "null" ELSE outcome
        /\ pump' = PumpAfterAwait
        /\ UNCHANGED <<life, created, flowVars, hold, inbox, landed, teamVars, externalPending,
                       sent, throws, missed, abandoned, replayed>>

Next ==
    \/ Materialize \/ RegisterTeam \/ MaterializeFails \/ Cancel \/ Dispose \/ Release
    \/ PumpRun \/ PumpDecide \/ PumpExecute
    \/ \E u \in UserMessages : Submit(u)
    \/ \E m \in Agents : CreateMember(m) \/ Claim(m) \/ Speak(m) \/ \E f \in BOOLEAN : TurnEnds(m, f)
    \/ HookAnnounce \/ GameEnds

Spec == Init /\ [][Next]_vars

\* Promise reactions run; a turn in flight claims its input and ends.
LoopFairness ==
    /\ WF_vars(PumpRun) /\ WF_vars(PumpDecide) /\ WF_vars(PumpExecute) /\ WF_vars(Release)
    /\ \A m \in Agents : WF_vars(Claim(m)) /\ WF_vars(\E f \in BOOLEAN : TurnEnds(m, f))

FairSpec == Spec /\ LoopFairness

-----------------------------------------------------------------------------
TypeOK ==
    /\ life \in {"none", "building", "live", "disposing", "disposed"}
    /\ created \subseteq Agents
    /\ flow \in [pos : Activities, outcome : Outcomes, retrying : BOOLEAN,
                 reviewed : 0..MaxTerminals, rounds : Nat, statsSentFor : 0..MaxTerminals]
    /\ terminal \in 0..MaxTerminals /\ statsSent \in 0..MaxTerminals
    /\ turn \in [Agents -> {"none", "woken", "running"}]
    /\ hold \in [Agents -> BOOLEAN] /\ abort \in [Agents -> BOOLEAN]
    /\ held \in [Agents -> SUBSET Message] /\ inbox \in [Agents -> SUBSET Message]
    /\ landed \subseteq UserMessages /\ sent \subseteq UserMessages
    /\ units \in Seq([from : Members, about : 0..MaxTerminals]) /\ Len(units) <= MaxUnits
    /\ drained \in [Agents -> SUBSET Unit]
    /\ seen \in [Agents -> [Unit \cup UserMessages -> Nat]]
    /\ pump \in {"none", "run", "decide", "execute", "external", "drive"}
    /\ externalPending \in BOOLEAN /\ wake \in Outcomes \cup {"null"}
    /\ lastError \in {"none", "member-turn", "orchestration"}
    /\ missed \subseteq Agents \X Unit

\* "At most one member driven at a time": the turn in flight is the active
\* member's and the pump awaits it; so the guards of startTurn never throw and
\* no delivery finds a pump that would take its wake for another.
OneDriver ==
    /\ \A m \in Agents : busy(m) => m = activeMember /\ pump \in {"run", "external", "drive"}
    /\ pump \in {"external", "drive"} => busy(activeMember)
    /\ externalPending => pump = "run"
    /\ lastError = "orchestration" => throws > 0

\* A user message that was accepted is in exactly one place: an inbox, the
\* landed set, a member's log, or among those given up for a stated reason.
Places(u) ==
    Cardinality({m \in Agents : User(u) \in inbox[m]})
      + (IF u \in landed THEN 1 ELSE 0)
      + seen["player"][u] + seen["planner"][u]
      + Cardinality({m \in Members : <<m, u>> \in abandoned})
UserMessageOnce ==
    life = "live" => \A u \in sent : Places(u) = 1

\* No member reads a broadcast twice, unless the drive that read it failed or
\* was aborted and its input was replayed.
BroadcastOnce ==
    \A m \in Agents, n \in DOMAIN units : seen[m][n] <= 1 \/ <<m, n>> \in replayed

\* A broadcast no turn has read yet can still be derived, also when injecting it
\* into a running turn failed, or is in the batch or the held set of its
\* receiver; it is gone only if the batch it was drained for never reached a
\* turn and was not kept, or its held set gave way to newer input (HeldWins
\* says when).
BroadcastNotLost ==
    life = "live" =>
      \A m \in Agents, n \in DOMAIN units :
         units[n].from # m /\ seen[m][n] = 0 =>
            \/ n \in Pending(m)
            \/ Drained(n) \in inbox[m] \cup held[m]
            \/ <<m, n>> \in abandoned

\* When the flow restarts an activity, the input of its failed drive is what
\* is driven: the only newer input that displaces it is a broadcast whose
\* injection into the turn before the restart failed.
HeldWins ==
    \A m \in Agents :
       pump = "execute" /\ activeMember = m /\ flow.pos # "rest" /\ held[m] # {}
          => FreshInput(m) \subseteq {Drained(n) : n \in {k \in Unit : <<m, k>> \in missed}}

\* "a non-empty fresh drain coinciding with a held set cannot occur" (the
\* comment of defaultInput): refuted by DisplacedInput.cfg.
HeldInputWins ==
    \A m \in Agents :
       pump = "execute" /\ activeMember = m /\ flow.pos # "rest" /\ held[m] # {}
          => FreshInput(m) = {}

\* A record counts as reviewed only if it was announced, once, and the planner
\* read that announcement.
ReviewReadsRecord ==
    /\ \A n, k \in DOMAIN units : units[n].about = units[k].about /\ n # k => units[n].about = 0
    /\ flow.reviewed # 0 =>
          \E n \in DOMAIN units :
             /\ units[n].about = flow.reviewed
             /\ seen["planner"][n] > 0 \/ <<"planner", n>> \in abandoned

\* The natural stop: the flow drives the player only while fewer rounds than
\* the limit were completed.
NaturalStop == turn["player"] # "none" /\ hold["player"] => flow.rounds < RoundStop

\* A turn the user cancelled does not run on: it will be reported aborted.
CancelStopsTurn == \A m \in Agents : cancelAsked[m] => abort[m]

\* A drained broadcast is never taken away unclaimed: what no turn consumed
\* "stays carried by the team pending baseline".
NothingAbandoned == abandoned = {}

\* No half-materialized team: an agent exists only while a team is being built,
\* lives or is being disposed, and a live team has all of its members.
NoHalfTeam ==
    /\ life \in {"none", "disposed"} => created = {}
    /\ life \in {"live", "disposing"} => created = Agents

\* The members are released only after the turn in flight has ended.
ReleasedIdle == life = "disposed" => pump = "none" /\ \A m \in Agents : ~busy(m)

-----------------------------------------------------------------------------
(* scene-saolei.ts: the loop behind the host's orchestration contract.       *)

Scene == INSTANCE SceneOrchestration WITH Roles <- Agents

\* snapshot and whenQuiescent, as the adapter hands them to the host.
Observed ==
    [life     |-> IF life = "building" THEN "none" ELSE life,
     active   |-> IF \E m \in Agents : busy(m) THEN CHOOSE m \in Agents : busy(m)
                                              ELSE Scene!Nobody,
     aborting |-> \E m \in Agents : busy(m) /\ abort[m],
     running  |-> pump # "none",
     paused   |-> paused,
     error    |-> lastError]

\* What the host sees of the loop obeys the orchestration contract it relies
\* on to end streams and to label turns.
ImplementsScene ==
    /\ Observed = Scene!NewScene
    /\ [][Scene!SceneStep(Observed, Observed')]_Observed

\* The automatic loop always comes to rest, whatever the members do.
ComesToRest == []<>(pump = "none")

\* An accepted message reaches a turn, or the flow is frozen with it.
UserMessageRead ==
    \A u \in UserMessages :
       u \in sent ~> \/ seen["player"][u] + seen["planner"][u] > 0
                     \/ \E m \in Members : <<m, u>> \in abandoned
                     \/ paused \/ life # "live"

-----------------------------------------------------------------------------
(* What the loop promises as a whole. *)

\* The members are in one hand: one of them is driven at a time, none exists
\* without its team, none is released under a turn.
MembersInHand == TypeOK /\ OneDriver /\ NoHalfTeam /\ ReleasedIdle

\* What a member says reaches every other one, once, and not after newer input,
\* the stated cases apart.
BroadcastDelivered == BroadcastOnce /\ BroadcastNotLost /\ HeldWins

\* The activity graph does what its prompts tell the members: a game is
\* reviewed on its record, and the loop stops after its rounds.
FlowHonest == ReviewReadsRecord /\ NaturalStop

\* An accepted message is read, and the automatic loop comes to rest again.
LoopAdvances == UserMessageRead /\ ComesToRest
=============================================================================
