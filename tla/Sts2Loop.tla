----------------------------- MODULE Sts2Loop -----------------------------
(***************************************************************************)
(* The single-agent orchestration of the sts2 scene: Sts2Orchestrator       *)
(* (orchestrator.ts) over MainAgentDriver (drive.ts) and the envelope       *)
(* stream of the main member (events.ts).                                   *)
(*                                                                          *)
(* Every handler runs to its end before the next one.  The agent is a       *)
(* library, modelled by what drive.ts says of it: a turn claims the whole   *)
(* inbox when it starts and at a step boundary, it does not end well while   *)
(* input waits, cancelling it empties the inbox, and a failed turn leaves    *)
(* what it did not claim in the inbox.                                      *)
(***************************************************************************)
EXTENDS Naturals, Sequences, SequencesExt

CONSTANTS
    UserMessages,   \* texts the user sends, each at most once
    EngineCodes,    \* engine codes a turn may fail with
    HttpCodes,      \* those that start with "HTTP_"
    MaxFailures     \* bound: turns that fail, and materializations that fail

ASSUME Sts2Assumption == MaxFailures \in Nat /\ HttpCodes \subseteq EngineCodes /\ "none" \notin EngineCodes

VARIABLES
    life,       \* "none", "building", "live", "disposing" or "disposed"
    agent,      \* the agent exists
    turn,       \* "none", "woken" (batch handed over) or "running"
    inbox,      \* messages the agent has not claimed, in order
    log,        \* messages the agent has claimed, in order
    steered, held, abortHeld,
    abortRequested, frozen,
    lastTurnFailure,    \* engine code of this turn's failure, "none" for null
    lastTurnError,      \* code of the last failed turn, "none" for null
    stream,     \* the envelope stream is subscribed to the agent
    sent,       \* user messages accepted so far
    failures,
    taken,      \* history: messages a cancel removed from the inbox unclaimed
    redone,     \* history: claimed messages that a cancel put in the held set
    raised,     \* history: the engine code the current or last turn raised
    cancelled   \* history: the current or last turn was cancelled

driveVars == <<steered, held, abortHeld, abortRequested, frozen, lastTurnFailure, lastTurnError>>
turnHist  == <<raised, cancelled>>
histVars  == <<failures, taken, redone, turnHist>>
vars == <<life, agent, turn, inbox, log, driveVars, stream, sent, histVars>>

MAIN_MEMBER_ROLE == "main"
MainDriveOutcome == {"settled", "aborted", "failed"}
MainDriveErrorCode ==
    {"TRANSIENT", "QUOTA", "CREDENTIAL", "CONFIG", "INPUT_TOO_LARGE", "INTERNAL"}

\* mapEngineCode: the recovery class of an engine code; an unknown or absent
\* code is an implementation failure.
mapEngineCode(code) ==
    CASE code \in {"RATE_LIMIT", "SERVER", "TIMEOUT", "TRANSPORT", "EMPTY_RESPONSE"} -> "TRANSIENT"
      [] code \in {"QUOTA", "ACCOUNT_QUOTA"} -> "QUOTA"
      [] code \in {"INVALID_CREDENTIAL", "MISSING_CREDENTIAL", "AUTH"} -> "CREDENTIAL"
      [] code \in {"NO_ADAPTER", "INVALID_REQUEST", "UNSUPPORTED_CONTENT", "UNSUPPORTED"}
                     \cup HttpCodes -> "CONFIG"
      [] code \in {"CONTEXT_WINDOW_EXCEEDED", "IMAGE_OFFLOAD_REQUIRED"} -> "INPUT_TOO_LARGE"
      [] OTHER -> "INTERNAL"

\* Whether a submitted turn is still in flight.
busy == turn # "none"
\* The snapshot's queued fact.
pendingInput == Len(steered)

Init ==
    /\ life = "none" /\ agent = FALSE /\ turn = "none"
    /\ inbox = <<>> /\ log = <<>>
    /\ steered = <<>> /\ held = <<>> /\ abortHeld = <<>>
    /\ abortRequested = FALSE /\ frozen = FALSE
    /\ lastTurnFailure = "none" /\ lastTurnError = "none"
    /\ stream = FALSE /\ sent = {}
    /\ failures = 0 /\ taken = {} /\ redone = {} /\ raised = "none" /\ cancelled = FALSE

-----------------------------------------------------------------------------
(* orchestrator.ts: materialization                                          *)

\* materialize: refused once disposed or materialized; the preset is composed.
Materialize ==
    /\ life = "none"
    /\ life' = "building"
    /\ UNCHANGED <<agent, turn, inbox, log, driveVars, stream, sent, histVars>>

\* The agent is created with its route and its scope.
CreateAgent ==
    /\ life = "building" /\ ~agent
    /\ agent' = TRUE
    /\ UNCHANGED <<life, turn, inbox, log, driveVars, stream, sent, histVars>>

\* events.ts: the envelope stream of the agent begins and ends.
OpenStream == stream' = TRUE
EndStream  == stream' = FALSE

\* The envelope stream subscribes and the driver takes the agent.
Commit ==
    /\ life = "building" /\ agent
    /\ life' = "live" /\ OpenStream
    /\ UNCHANGED <<agent, turn, inbox, log, driveVars, sent, histVars>>

\* Composing or creating fails: a created agent is released, the caller retries.
MaterializeFails ==
    /\ life = "building" /\ failures < MaxFailures
    /\ life' = "none" /\ agent' = FALSE /\ failures' = failures + 1
    /\ UNCHANGED <<turn, inbox, log, driveVars, stream, sent, taken, redone, turnHist>>

-----------------------------------------------------------------------------
(* drive.ts                                                                  *)

\* submit at rest, startTurn and runTurn up to its await: the held set and the
\* text are handed over as one batch and the driver thaws.
StartTurn(u) ==
    /\ turn' = "woken"
    /\ inbox' = Append(inbox \o held, u)
    /\ held' = <<>> /\ frozen' = FALSE
    /\ abortRequested' = FALSE /\ abortHeld' = <<>> /\ lastTurnFailure' = "none"
    /\ raised' = "none" /\ cancelled' = FALSE
    /\ UNCHANGED <<steered, lastTurnError>>

\* submit in flight: the text is steered into the inbox and counted.
Steer(u) ==
    /\ inbox' = Append(inbox, u)
    /\ steered' = Append(steered, u)
    /\ UNCHANGED <<turn, held, abortHeld, abortRequested, frozen, lastTurnFailure, lastTurnError, turnHist>>

Submit(u) ==
    /\ life = "live" /\ u \notin sent
    /\ sent' = sent \cup {u}
    /\ IF busy THEN Steer(u) ELSE StartTurn(u)
    /\ UNCHANGED <<life, agent, log, stream, failures, taken, redone>>

\* Mutant of CancelTurn: the driver freezes and the agent is not cancelled.
CancelTurnFreezes ==
    /\ frozen' = TRUE
    /\ UNCHANGED <<inbox, steered, abortHeld, abortRequested, taken, redone, cancelled>>

\* cancel, of the user or of dispose: freeze, keep what was steered, and cancel
\* the agent, which empties its inbox.
CancelTurn ==
    /\ frozen' = TRUE
    /\ IF ~busy \/ abortRequested
       THEN UNCHANGED <<inbox, steered, abortHeld, abortRequested, taken, redone, cancelled>>
       ELSE /\ abortRequested' = TRUE /\ cancelled' = TRUE
            /\ abortHeld' = steered /\ steered' = <<>>
            /\ inbox' = <<>>
            /\ taken' = taken \cup (ToSet(inbox) \ ToSet(steered))
            /\ redone' = redone \cup (ToSet(steered) \ ToSet(inbox))

Cancel ==
    /\ life = "live"
    /\ CancelTurn
    /\ UNCHANGED <<life, agent, turn, log, held, lastTurnFailure, lastTurnError, stream, sent,
                   failures, raised>>

\* The elements of s that are in S, in their order.  (SelectSeq, written as the
\* recursive function it is, so that it can be reasoned about.)
Select(s, S) ==
    LET kept[n \in 0..Len(s)] ==
            IF n = 0 THEN <<>>
            ELSE IF s[n] \in S THEN Append(kept[n - 1], s[n]) ELSE kept[n - 1]
    IN  kept[Len(s)]

\* takeUnclaimed: steered messages still in the inbox, taken out of it.
Unclaimed(s) == Select(s, ToSet(inbox))
InboxWithout(s) == Select(inbox, UserMessages \ ToSet(s))

\* The parts of runTurn after its await that its mutants share.
Cleared == turn' = "none" /\ steered' = <<>> /\ abortRequested' = FALSE /\ lastTurnFailure' = "none"
Latched(outcome) ==
    /\ lastTurnError' = IF outcome = "failed" THEN mapEngineCode(lastTurnFailure) ELSE "none"
    /\ frozen' = (frozen \/ outcome = "failed")

\* Mutant of Settle: an aborted turn keeps the error of the turn before.
SettleKeepsError(outcome) ==
    /\ Cleared
    /\ lastTurnError' = IF outcome = "failed" THEN mapEngineCode(lastTurnFailure) ELSE lastTurnError
    /\ frozen' = (frozen \/ outcome = "failed")
    /\ held' = IF outcome = "settled" THEN held ELSE Unclaimed(steered) \o abortHeld \o held
    /\ inbox' = IF outcome = "settled" THEN inbox ELSE InboxWithout(steered)
    /\ abortHeld' = <<>>

\* runTurn after its await, and clearActive.
Settle(outcome) ==
    /\ Cleared /\ Latched(outcome)
    /\ CASE outcome = "aborted" ->
              /\ held' = Unclaimed(steered) \o abortHeld \o held
              /\ inbox' = InboxWithout(steered)
              /\ abortHeld' = <<>>
         [] outcome = "failed" ->
              /\ held' = Unclaimed(steered) \o held
              /\ inbox' = InboxWithout(steered)
              /\ UNCHANGED abortHeld
         [] OTHER -> UNCHANGED <<held, inbox, abortHeld>>

\* agent/error: the turn has failed and goes idle next.
TurnFails(code) ==
    /\ busy /\ lastTurnFailure = "none"
    /\ failures < MaxFailures /\ failures' = failures + 1
    /\ lastTurnFailure' = code /\ raised' = code
    /\ UNCHANGED <<life, agent, turn, inbox, log, steered, held, abortHeld, abortRequested, frozen,
                   lastTurnError, stream, sent, taken, redone, cancelled>>

\* The agent becomes idle: the abort mark is read before the failure.
TurnEnds ==
    LET outcome == IF abortRequested THEN "aborted"
                   ELSE IF lastTurnFailure # "none" THEN "failed" ELSE "settled"
    IN  /\ busy
        /\ outcome = "settled" => turn = "running" /\ inbox = <<>>
        /\ Settle(outcome)
        /\ UNCHANGED <<life, agent, log, stream, sent, histVars>>

\* Mutant of Claim: input is claimed when a turn starts and never later.
ClaimAtStart ==
    /\ turn = "woken" /\ lastTurnFailure = "none"
    /\ turn' = "running"
    /\ log' = log \o inbox /\ inbox' = <<>>
    /\ UNCHANGED <<life, agent, driveVars, stream, sent, histVars>>

\* The turn claims its inbox; one that has failed claims nothing more.
Claim ==
    /\ busy /\ (turn = "woken" \/ inbox # <<>>) /\ lastTurnFailure = "none"
    /\ turn' = "running"
    /\ log' = log \o inbox /\ inbox' = <<>>
    /\ UNCHANGED <<life, agent, driveVars, stream, sent, histVars>>

-----------------------------------------------------------------------------
(* orchestrator.ts: dispose                                                  *)

\* dispose up to its await: the driver is detached, the turn is cancelled.
Dispose ==
    /\ life = "live"
    /\ life' = "disposing"
    /\ IF busy THEN CancelTurn
               ELSE UNCHANGED <<inbox, steered, abortHeld, abortRequested, frozen, taken, redone,
                               cancelled>>
    /\ UNCHANGED <<agent, turn, log, held, lastTurnFailure, lastTurnError, stream, sent, failures, raised>>

\* The turn has settled: the stream ends and the agent is released.
Release ==
    /\ life = "disposing" /\ ~busy
    /\ life' = "disposed" /\ agent' = FALSE /\ EndStream
    /\ UNCHANGED <<turn, inbox, log, driveVars, sent, histVars>>

Next ==
    \/ Materialize \/ CreateAgent \/ Commit \/ MaterializeFails
    \/ Cancel \/ Claim \/ Dispose \/ Release
    \/ \E u \in UserMessages : Submit(u)
    \/ TurnEnds \/ \E code \in EngineCodes : TurnFails(code)

\* A turn in flight claims its input and ends; promise reactions run.
FairSpec ==
    /\ Init /\ [][Next]_vars
    /\ WF_vars(Claim) /\ WF_vars(TurnEnds) /\ WF_vars(Release)

-----------------------------------------------------------------------------
TypeOK ==
    /\ life \in {"none", "building", "live", "disposing", "disposed"}
    /\ turn \in {"none", "woken", "running"}
    /\ \A s \in {inbox, log, steered, held, abortHeld} : s \in Seq(UserMessages)
    /\ agent \in BOOLEAN /\ abortRequested \in BOOLEAN /\ frozen \in BOOLEAN
    /\ lastTurnFailure \in EngineCodes \cup {"none"}
    /\ lastTurnError \in MainDriveErrorCode \cup {"none"}
    /\ stream \in BOOLEAN /\ sent \subseteq UserMessages

\* An accepted message is in the inbox, in a held set or in the log; it is gone
\* only if a cancel emptied the inbox before the turn that it opened claimed it.
InputKept ==
    life = "live" =>
       sent \ taken \subseteq ToSet(inbox) \cup ToSet(held) \cup ToSet(abortHeld) \cup ToSet(log)

\* No message waits in two places: what the next delivery replays is not also
\* in the agent's inbox (the comment of runTurn on a failed turn).
HeldOnce == ToSet(inbox) \cap (ToSet(held) \cup ToSet(abortHeld)) = {}

\* The agent reads a message twice only if a cancel put it back after the turn
\* had claimed it.
ReadOnce ==
    \A i, k \in DOMAIN log : log[i] = log[k] /\ i # k => log[i] \in redone

\* At rest nothing counts as queued and held input means a frozen driver, so
\* the host's watcher never spins on a snapshot that cannot change.
RestIsQuiet == ~busy => pendingInput = 0 /\ abortHeld = <<>> /\ (held # <<>> => frozen)

\* The failure on record is the last turn's own: it was not cancelled, it
\* raised an error of that recovery class, and the driver froze on it.
FailureIsLastTurns ==
    ~busy => IF raised # "none" /\ ~cancelled
             THEN lastTurnError = mapEngineCode(raised) /\ frozen
             ELSE lastTurnError = "none"

\* The agent and its envelope stream outlive the turn: no turn runs on a
\* released agent, and no agent is left behind.
AgentOutlivesTurn ==
    /\ busy => agent /\ stream
    /\ life \in {"none", "disposed"} => ~agent

\* "The next delivery resumes from exactly the unconsumed input" (cancel): what
\* is held for a replay was not read before.
ReplaysUnconsumed == ~busy /\ frozen => ToSet(held) \cap ToSet(log) = {}

Scene == INSTANCE SceneOrchestration WITH Roles <- {MAIN_MEMBER_ROLE}

\* snapshot and whenQuiescent.
Observed ==
    [life     |-> IF life = "building" THEN "none" ELSE life,
     active   |-> IF busy THEN MAIN_MEMBER_ROLE ELSE Scene!Nobody,
     aborting |-> busy /\ abortRequested,
     running  |-> busy,
     paused   |-> frozen,
     error    |-> IF lastTurnError # "none" /\ life # "disposed" THEN "member-turn" ELSE "none"]

\* The driver keeps the contract the host relies on to end streams and to
\* label turns.
ImplementsScene ==
    /\ Observed = Scene!NewScene
    /\ [][Scene!SceneStep(Observed, Observed')]_Observed

\* A message accepted is read, unless the driver is frozen with it or a cancel
\* took it from the inbox.
InputRead ==
    \A u \in UserMessages :
       u \in sent ~> Contains(log, u) \/ frozen \/ u \in taken \/ life # "live"

\* Through cancels, failures and replays a message accepted is kept in one
\* place and read once, within what a cancel puts back.
InputAccounted == InputKept /\ HeldOnce /\ ReadOnce

\* A turn leaves behind exactly its own traces, however it ends: the failure on
\* record is its own, nothing counts as queued, every message accepted is
\* accounted for, and the agent is released after it.
TurnSettles ==
    TypeOK /\ RestIsQuiet /\ FailureIsLastTurns /\ AgentOutlivesTurn /\ InputAccounted
=============================================================================
