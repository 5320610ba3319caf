------------------------------ MODULE SaoleiGame ------------------------------
(***************************************************************************)
(* The game runtime of a team and the player's three tools on it: a call   *)
(* validates, dispatches and recognizes one operation after another, then  *)
(* logs the batch, runs the hooks and answers.                             *)
(*                                                                         *)
(* A call is suspended only while it awaits a dispatch.  Its steps between *)
(* two awaits are actions of their own; nothing else of the process runs   *)
(* among them (Quiet).  The answer's text is left out, its facts are kept. *)
(***************************************************************************)
EXTENDS SaoleiVision, DesktopBridge, SaoleiHooks

CONSTANTS
  Batches,      \* the operation lists a player asks for
  MaxCalls,     \* bound on the calls of the player
  MaxFaults     \* bound on everything that goes wrong

ASSUME GameAssumption ==
  /\ Batches \subseteq Seq(CellOperation)
  /\ MaxCalls \in Nat /\ MaxFaults \in Nat

VARIABLES
  recognized,        \* the latest board, NoBoard when invalidated
  board,             \* the recognition engine's board of this game
  initState,         \* this game's first board
  operationsByType,  \* successful dispatches of this game
  gameLog,           \* the steps of this game
  gameEvent,         \* the latest terminal record
  call,              \* the player's call
  answer,            \* what the last call told the player
  calls,             \* calls made
  faults             \* faults met

gameVars == <<recognized, board, initState, operationsByType, gameLog, gameEvent>>
callVars == <<call, answer, calls>>

NoBoard == [noBoard |-> TRUE]
NoEvent == [noEvent |-> TRUE]
NoneByType == [t \in OperationType |-> 0]

\* What goes to the desktop.
KEY_F2 == [click |-> "F2"]
OPERATION_ACTIONS == [click |-> "LEFT_CLICK", flag |-> "RIGHT_CLICK", chord |-> "LEFT_RIGHT_PRESS"]
mouseMoveAndClick(op) ==
  [click |-> OPERATION_ACTIONS[op.type], at |-> center(op.cell[1], op.cell[2])]

\* A step of this game; its operation list is left out.
GameLogEntry(tool, state, status) == [tool |-> tool, state |-> state, status |-> status]

\* No call; first is the last tool id minted before the call just over.
Idle(first) == [pc |-> "idle", first |-> first]
NoAnswer == [kind |-> "none"]
Started(concludes) == [kind |-> "started", concludesTurn |-> concludes]
Operated(executed, skipped, stopped, concludes) ==
  [kind |-> "operated", executed |-> executed, skipped |-> skipped,
   stopped |-> stopped, concludesTurn |-> concludes]
Rejected(reason) == [kind |-> "rejected", reason |-> reason]
Unrecognizable   == [kind |-> "unrecognizable"]
Failure          == [kind |-> "error"]

concludeMarker(s) == gameStatus(s) \in {"won", "lost"}

GameInit ==
  /\ recognized = NoBoard /\ board = NoBoard /\ initState = NoBoard
  /\ operationsByType = NoneByType
  /\ gameLog = <<>>
  /\ gameEvent = NoEvent
  /\ call = Idle(0) /\ answer = NoAnswer
  /\ calls = 0 /\ faults = 0

Fault == faults < MaxFaults /\ faults' = faults + 1

-----------------------------------------------------------------------------
(* A call of a tool.                                                       *)

Call(kind, ops, aborted) ==
  [pc |-> "step", kind |-> kind, ops |-> ops, next |-> 1, executed |-> 0, skipped |-> 0,
   id |-> 0, first |-> minted, aborted |-> aborted, stopped |-> "none", ended |-> FALSE]

Begin ==
  /\ call.pc = "idle"
  /\ calls < MaxCalls
  /\ calls' = calls + 1
  /\ announced' = None
  /\ UNCHANGED <<hooks, nextOrder>>

\* The signal of a call may have fired before the call starts.
SignalFired(aborted) == IF aborted THEN Fault ELSE UNCHANGED faults

saolei_init ==
  /\ Begin
  /\ \E aborted \in BOOLEAN :
       /\ SignalFired(aborted)
       /\ dispatch(KEY_F2, aborted)
       /\ call' = [Call("init", <<>>, aborted) EXCEPT !.pc = "await", !.id = AwaitedId]
  /\ answer' = NoAnswer
  /\ UNCHANGED gameVars

\* The argument forms of saolei_operate: one complete operation or a batch.
normalizeOperateArgs(args) ==
  CASE args.single # "absent" /\ args.batch -> "ambiguous"
    [] args.single = "partial" /\ ~args.batch -> "incomplete"
    [] args.single = "absent" /\ ~args.batch -> "missing"
    [] OTHER -> "ok"

OperateForms == [single : {"absent", "partial", "complete"}, batch : BOOLEAN]

\* A refused form, an empty batch and saolei_remain are answered at once and
\* change nothing.
saolei_operate ==
  /\ Begin
  /\ \E args \in OperateForms, ops \in Batches, aborted \in BOOLEAN :
       /\ normalizeOperateArgs(args) = "ok"
       /\ args.single = "complete" => Len(ops) = 1
       /\ ops # <<>>
       /\ SignalFired(aborted)
       /\ call' = Call("operate", ops, aborted)
       /\ answer' = NoAnswer
  /\ UNCHANGED <<gameVars, bridgeVars>>

-----------------------------------------------------------------------------
(* The batch loop.                                                         *)

Op == call.ops[call.next]
AfterOp == IF call.next = Len(call.ops) THEN "finish" ELSE "step"

\* executeOperation up to its await.
executeOperation ==
  /\ call.pc = "step"
  /\ LET verdict == IF recognized = NoBoard THEN "no_active_game"
                    ELSE validateMove(recognized, Op)
     IN \/ /\ verdict \in SKIP_REASONS
           /\ call' = [call EXCEPT !.skipped = @ + 1, !.pc = AfterOp, !.next = @ + 1]
           /\ UNCHANGED bridgeVars
        \/ /\ verdict \in STOP_REASONS
           /\ call' = [call EXCEPT !.stopped = verdict, !.pc = "finish"]
           /\ UNCHANGED bridgeVars
        \/ /\ verdict = "ok"
           /\ dispatch(mouseMoveAndClick(Op), call.aborted)
           /\ call' = [call EXCEPT !.pc = "await", !.id = AwaitedId]
  /\ UNCHANGED <<gameVars, hookVars, answer, calls, faults>>

\* What recognition returns for a window: its board; when something covers a
\* digit of the counter, the board without it; or nothing (it throws).
Seen(shot) == recognizeBoard(Screenshot(shot))
Misread(shot) ==
  {recognizeBoard([Screenshot(shot) EXCEPT !.counter[1] = {}]), NoBoard}

recognize(shot, seen) ==
  \/ seen = Seen(shot) /\ UNCHANGED faults
  \/ seen \in Misread(shot) /\ Fault

\* The engine: a new game's first screenshot seeds it, a later one must be
\* compatible with the board it holds.
Update(seen) ==
  IF seen = NoBoard \/ board = NoBoard \/ ~checkCompatible(board, seen) THEN NoBoard
  ELSE seen

Answered(a) == call' = Idle(call.first) /\ answer' = a

\* The continuation of an awaited dispatch that failed.
dispatchFailed ==
  /\ call.pc = "await"
  /\ \E r \in settled :
       /\ r.id = call.id
       /\ r.result.status = "FAILED"
       /\ settled' = settled \ {r}
       /\ Answered(Failure)
  /\ UNCHANGED <<gameVars, hookVars, calls, faults, connections, heartbeat, streams,
                 events, down, pending, minted>>

\* init's continuation: recognize, then reset the per-game tracking.
initRecognized ==
  /\ call.pc = "await" /\ call.kind = "init"
  /\ \E r \in settled :
       /\ r.id = call.id
       /\ r.result.status # "FAILED"
       /\ settled' = settled \ {r}
       /\ \/ /\ r.result.screenshot = NoShot
             /\ recognized' = NoBoard
             /\ Answered(Unrecognizable)
             /\ UNCHANGED <<board, initState, operationsByType, gameLog, gameEvent, faults>>
          \/ /\ r.result.screenshot # NoShot
             /\ \E seen \in {Seen(r.result.screenshot)} \cup Misread(r.result.screenshot) :
                  /\ recognize(r.result.screenshot, seen)
                  /\ recognized' = seen
                  /\ IF seen = NoBoard
                       THEN /\ Answered(Unrecognizable)
                            /\ UNCHANGED <<board, initState, operationsByType, gameLog>>
                       ELSE /\ board' = seen
                            /\ initState' = seen
                            /\ operationsByType' = NoneByType
                            /\ gameLog' = <<GameLogEntry("saolei_init", seen, "playing")>>
                            /\ Answered(Started(concludeMarker(seen)))
             /\ UNCHANGED gameEvent
  /\ UNCHANGED <<hookVars, calls, connections, heartbeat, streams, events, down, pending,
                 minted>>

\* The operation's continuation: recognize, count, and go on or end the batch.
operationRecognized ==
  /\ call.pc = "await" /\ call.kind = "operate"
  /\ \E r \in settled :
       /\ r.id = call.id
       /\ r.result.status # "FAILED"
       /\ settled' = settled \ {r}
       /\ \/ /\ r.result.screenshot = NoShot
             /\ recognized' = NoBoard
             /\ Answered(Unrecognizable)
             /\ UNCHANGED <<board, operationsByType, faults>>
          \/ /\ r.result.screenshot # NoShot
             /\ \E seen \in {Seen(r.result.screenshot)} \cup Misread(r.result.screenshot) :
                  LET state == Update(seen)
                  IN /\ recognize(r.result.screenshot, seen)
                     /\ recognized' = state
                     /\ IF state = NoBoard
                          THEN /\ Answered(Unrecognizable)
                               /\ UNCHANGED <<board, operationsByType>>
                          ELSE /\ board' = state
                               /\ operationsByType' = [operationsByType EXCEPT ![Op.type] = @ + 1]
                               /\ call' = [call EXCEPT
                                    !.executed = @ + 1, !.next = @ + 1, !.id = 0,
                                    !.ended = gameStatus(state) # "playing",
                                    !.stopped = IF gameStatus(state) = "playing" THEN @
                                                ELSE gameStatus(state),
                                    !.pc = IF gameStatus(state) = "playing" THEN AfterOp
                                           ELSE "finish"]
                               /\ UNCHANGED answer
  /\ UNCHANGED <<initState, gameLog, gameEvent, hookVars, calls, connections, heartbeat,
                 streams, events, down, pending, minted>>

\* The entry of a finished batch, and the terminal one after it.
Entries ==
  <<GameLogEntry("saolei_operate", recognized, gameStatus(recognized))>> \o
  IF call.ended THEN <<GameLogEntry("(game-end)", recognized, gameStatus(recognized))>>
  ELSE <<>>

\* The terminal record of a batch that ended the game.
GameEvent ==
  IF ~call.ended THEN gameEvent
  ELSE [status |-> call.stopped,
        stats |-> computeGameStats(initState, recognized, operationsByType)]

\* The tail of operate: log the batch, run the hooks on a board it changed in a
\* game that goes on, record the end of the game, answer.  The announcement of
\* one hook may fail.
Finish(fails) ==
  /\ call.pc = "finish"
  /\ IF fails = {} THEN UNCHANGED faults ELSE Fault
  /\ \/ /\ recognized = NoBoard
        /\ Answered(Rejected("no_active_game"))
        /\ UNCHANGED <<gameLog, gameEvent, announced>>
     \/ /\ recognized # NoBoard
        /\ gameLog' = gameLog \o Entries
        /\ announced' = IF call.executed > 0 /\ gameStatus(recognized) = "playing"
                          THEN onBoardChange(recognized, fails) ELSE announced
        /\ gameEvent' = GameEvent
        /\ Answered(Operated(call.executed, call.skipped, call.stopped,
                             concludeMarker(recognized)))
  /\ UNCHANGED <<hooks, nextOrder, calls, recognized, board, initState, operationsByType,
                 bridgeVars>>

-----------------------------------------------------------------------------

Runs == \/ executeOperation
        \/ dispatchFailed \/ initRecognized \/ operationRecognized
        \/ \E fails \in {{}} \cup {{n} : n \in announcementFor(recognized)} : Finish(fails)

\* No continuation of the player's call is due.
Quiet == \/ call.pc = "idle"
         \/ call.pc = "await" /\ \A r \in settled : r.id # call.id

=============================================================================
