------------------------------- MODULE Desktop -------------------------------
(***************************************************************************)
(* The player's calls end to end: the game runtime dispatches through the  *)
(* bridge, the desktop application executes on the Minesweeper window and  *)
(* returns a receipt with a screenshot.                                    *)
(*                                                                         *)
(* Streams break, frames and receipts are lost, receipts come late, the    *)
(* desktop reconnects, signals abort and timers fire.                      *)
(***************************************************************************)
EXTENDS SaoleiGame

CONSTANT
  PlannerCalls  \* bound: the hook calls the planner may choose from, one set per
                \* turn, and after how many calls of the player it has that turn

VARIABLES
  app,        \* the desktop application
  screen,     \* the Minesweeper window
  performed,  \* tool ids of this call's operations performed on it
  hookCalls

desktopVars == <<app, screen, performed, hookCalls>>
vars == <<bridgeVars, hookVars, gameVars, callVars, faults, desktopVars>>

\* The uplink retries a receipt the bridge has no stream for.
sendFrameRetryAttempts == 3

\* The application's stream (NoStream when its bridge is closed), and its
\* reader: none, reading, sending a receipt, or returned.
NoReceipt == [noReceipt |-> TRUE]
App(stream, reader) == [stream |-> stream, reader |-> reader, receipt |-> NoReceipt, attempt |-> 1]

Init ==
  /\ BridgeInit /\ HookInit /\ GameInit
  /\ app = App(NoStream, "none")
  /\ screen \in NewScreens
  /\ performed = {}
  /\ hookCalls = 0

OutsideApp == <<hookVars, gameVars, callVars, hookCalls>>

-----------------------------------------------------------------------------
(* The desktop application.                                                *)

\* The client side of a stream goes away: what was written on it and not read
\* is lost, the server hears of it later.
Broken(s) ==
  /\ streams' = [streams EXCEPT ![s] = "gone"]
  /\ events' = [events EXCEPT ![s] = 2]
  /\ down' = [down EXCEPT ![s] = <<>>]
  /\ UNCHANGED <<connections, heartbeat, pending, minted, settled>>

\* Connect and CloseAgent close the old bridge first: its reader returns, once
\* it is done with a receipt.  Closing one that still works counts as a fault.
CloseBridge ==
  /\ app.stream # NoStream
  /\ IF streams[app.stream] = "open" /\ app.reader # "returned" THEN Fault
     ELSE UNCHANGED faults
  /\ app' = IF app.reader = "sending" THEN [app EXCEPT !.stream = NoStream]
            ELSE App(NoStream, "none")
  /\ IF streams[app.stream] = "open" THEN Broken(app.stream) ELSE UNCHANGED bridgeVars
  /\ UNCHANGED <<OutsideApp, screen, performed>>

Connect ==
  /\ app.stream = NoStream /\ app.reader = "none"
  /\ \E s \in Streams :
       /\ \A t \in 1..(s - 1) : streams[t] # "new"
       /\ Stream(s)
       /\ app' = App(s, "reading")
  /\ UNCHANGED <<OutsideApp, faults, screen, performed>>

\* The network drops the stream.
Break(s) ==
  /\ streams[s] = "open"
  /\ Fault
  /\ Broken(s)
  /\ UNCHANGED <<OutsideApp, app, screen, performed>>

\* RecvFrame fails on a stream that is over.
RecvError ==
  /\ app.reader = "reading"
  /\ streams[app.stream] # "open" /\ down[app.stream] = <<>>
  /\ app' = [app EXCEPT !.reader = "returned"]
  /\ UNCHANGED <<OutsideApp, bridgeVars, faults, screen, performed>>

Screens(op) ==
  IF op = KEY_F2 THEN NewScreens ELSE {Performed(screen, op.click, CellAt(op.at))}

Sending(id, status, shot) ==
  app' = [app EXCEPT !.reader = "sending", !.attempt = 1,
                     !.receipt = Resolution(id, OperationResult(status, "", shot))]

\* An operation: executed, then captured.  The window may be gone, the capture
\* may fail.
executeAgentOperation ==
  /\ app.reader = "reading" /\ down[app.stream] # <<>>
  /\ LET frame == Head(down[app.stream])
     IN /\ down' = [down EXCEPT ![app.stream] = Tail(@)]
        /\ \/ /\ screen' \in Screens(frame.op)
              /\ performed' = performed \cup ({frame.id} \ 0..call.first)
              /\ \/ Sending(frame.id, "SUCCEEDED", screen') /\ UNCHANGED faults
                 \/ Sending(frame.id, "SUCCEEDED", NoShot) /\ Fault
           \/ /\ Sending(frame.id, "FAILED", NoShot) /\ Fault
              /\ UNCHANGED <<screen, performed>>
  /\ UNCHANGED <<OutsideApp, connections, heartbeat, streams, events, pending, minted,
                 settled>>

\* The receipt goes up: delivered, refused and tried again, or lost on the way
\* up or its answer on the way down, which ends the reader.
sendResultFrame ==
  /\ app.reader = "sending" /\ app.stream # NoStream
  /\ LET ends == App(app.stream, "returned")
     IN \/ /\ SendFrame(app.receipt)
           /\ UNCHANGED faults
           /\ \/ /\ SendFrameCode = "OK"
                 /\ app' = App(app.stream, "reading")
              \/ /\ SendFrameCode = "FAILED_PRECONDITION"
                 /\ app' = IF app.attempt = sendFrameRetryAttempts THEN ends
                           ELSE [app EXCEPT !.attempt = @ + 1]
        \/ Fault /\ SendFrame(app.receipt) /\ app' = ends
        \/ Fault /\ app' = ends /\ UNCHANGED bridgeVars
  /\ UNCHANGED <<OutsideApp, screen, performed>>

\* A closed bridge has no address to send to.
SendFails ==
  /\ app.reader = "sending" /\ app.stream = NoStream
  /\ app' = App(NoStream, "none")
  /\ UNCHANGED <<OutsideApp, bridgeVars, faults, screen, performed>>

-----------------------------------------------------------------------------
(* The bridge's own events, the player's cancel, and the planner's calls.  *)

\* The desktop is still about to send the receipt of a dispatch.
Answering(id) ==
  /\ app.stream # NoStream
  /\ \/ app.reader = "sending" /\ app.receipt.id = id
     \/ /\ app.reader \in {"reading", "sending"}
        /\ \E i \in DOMAIN down[app.stream] : down[app.stream][i].id = id

\* A timer that overtakes a receipt on its way is a fault.
TimerFires ==
  /\ \E id \in pending :
       /\ timeout(id)
       /\ IF Answering(id) THEN Fault ELSE UNCHANGED faults
  /\ UNCHANGED <<OutsideApp, app, screen, performed>>

BridgeEvent ==
  /\ \/ \E s \in Streams : disconnect(s) /\ UNCHANGED faults
     \/ \E id \in pending : onAbort(id) /\ Fault
  /\ UNCHANGED <<OutsideApp, app, screen, performed>>

Plan ==
  /\ call.pc = "idle"
  /\ hookCalls < Len(PlannerCalls)
  /\ hookCalls' = hookCalls + 1
  /\ calls = PlannerCalls[hookCalls + 1].after
  /\ \E args \in HookCalls \cap PlannerCalls[hookCalls + 1].calls : executeSaoleiHook(args)
  /\ UNCHANGED <<bridgeVars, gameVars, callVars, faults, app, screen, performed>>

Play == /\ saolei_init \/ saolei_operate
        /\ performed' = {}
        /\ UNCHANGED <<app, screen, hookCalls>>

Continue == Runs /\ UNCHANGED desktopVars

AppStep == \/ RecvError \/ executeAgentOperation
           \/ sendResultFrame \/ SendFails

\* The steps of the application and the network commute with the steps of a
\* call between two awaits, so they too wait until these are done.
Next ==
  \/ Continue
  \/ /\ Quiet
     /\ \/ Play \/ Plan \/ BridgeEvent \/ TimerFires
        \/ AppStep \/ Connect \/ CloseBridge
        \/ \E s \in Streams : Break(s)

\* Continuations run, the desktop's reader goes on, timers fire.
Fairness ==
  /\ WF_vars(Continue)
  /\ WF_vars(Quiet /\ AppStep)
  /\ WF_vars(Quiet /\ TimerFires)

Spec == Init /\ [][Next]_vars /\ Fairness

-----------------------------------------------------------------------------
(* Properties.                                                             *)

\* The types of the bridge, the runtime and the application; a resolution is
\* always the one the call awaits.
DesktopTypeOK ==
  /\ connections \in Streams \cup {NoStream}
  /\ heartbeat \subseteq Streams
  /\ streams \in [Streams -> {"new", "open", "ended", "gone"}]
  /\ events \in [Streams -> 0..2]
  /\ pending \subseteq 1..minted
  /\ \A r \in settled : call.pc = "await" /\ r.id = call.id
  /\ recognized # NoBoard => recognized \in GameState
  /\ board # NoBoard => board \in GameState
  /\ gameEvent # NoEvent => gameEvent.status \in {"won", "lost"}
  /\ call.pc \in {"idle", "step", "await", "finish"}
  /\ app.stream \in Streams \cup {NoStream}
  /\ app.reader \in {"none", "reading", "sending", "returned"}
  /\ performed \subseteq 1..minted

\* A late close of a taken over stream never clears the fresh registration
\* (bridge.ts disconnect): a session whose stream is open and has nothing left
\* to report is connected, and beats on that stream alone.
LiveStreamIsRegistered ==
  /\ \A s \in Streams : streams[s] = "open" /\ events[s] = 0 => connections = s
  /\ heartbeat = {connections} \ {NoStream}

\* Every dispatch in flight is the one its caller awaits, and the session is
\* connected: abort, timeout, a failed write, a receipt and a disconnect each
\* leave nothing behind (bridge.ts dispatch, handleResult, disconnect).
InFlightIsAwaited ==
  pending # {} => /\ isDesktopConnected
                  /\ call.pc = "await" /\ pending = {call.id}

\* A successful answer tells what happened on the desktop: it counts exactly
\* the operations of this call that were performed, and the board it shows is
\* the window's, cell by cell (a receipt of an earlier
\* dispatch, or a duplicate, never stands for this one).
AnswerTellsDesktop ==
  answer.kind = "operated" /\ call.pc = "idle" /\ answer.executed > 0 =>
    /\ answer.executed = Cardinality(performed)
    /\ \A c \in Cells : recognized.grid[c] = screen.grid[c]

\* The status the runtime derives is the window's: a game is won or lost for
\* the player only if it is on the desktop (win.ts, board.ts gameStatus), also
\* when the counter could not be read.
NoFalseEnd ==
  [][recognized' # recognized /\ recognized' # NoBoard =>
       /\ gameStatus(recognized') = "won" =>
            \A c \in Cells \ screen.mines : screen.grid[c] \in REVEALED_NUMBERS
       /\ gameStatus(recognized') = "lost" =>
            \E c \in screen.mines : screen.grid[c] = "HIT_MINE"]_vars

\* A game ends once: after its (game-end) entry the log shows the same board
\* and no second end, and the terminal record is that end (runtime.ts operate).
OneEndPerGame ==
  \A i, j \in DOMAIN gameLog :
    gameLog[i].tool = "(game-end)" =>
      /\ gameEvent.status = gameLog[i].status
      /\ j > i => gameLog[j].tool # "(game-end)" /\ gameLog[j].state = gameLog[i].state

\* Within a game a revealed cell stays what it was, whatever happened to the
\* window in between (recognize.ts updateFromScreenshot): a window whose game
\* was restarted behind the runtime's back is never taken for the old game.
RevealedStays ==
  [][(call.pc = "await" /\ call.kind = "operate" /\ recognized # NoBoard /\ recognized' # NoBoard) =>
       \A c \in Cells : recognized.grid[c] \in REVEALED =>
                          recognized'.grid[c] = recognized.grid[c]]_vars

\* The hooks hear the board of the last batch, as it is logged, and only while
\* the game goes on (runtime.ts onBoardChange, handler.ts).
HooksHearTheBatch ==
  \A n \in DOMAIN announced :
    /\ Last(gameLog).tool = "saolei_operate"
    /\ announced[n].state = Last(gameLog).state
    /\ Last(gameLog).status = "playing"

\* A hook keeps its place for as long as it is registered, whatever happens to
\* the others: updating its script does not move it, and a hook registered anew
\* comes after all others (registry.ts set).
HookOrderKept ==
  [][\A n \in DOMAIN hooks, m \in DOMAIN hooks' :
       IF m \in DOMAIN hooks THEN hooks'[m].order = hooks[m].order
       ELSE hooks'[m].order > hooks[n].order]_vars

\* The remain grid of the window's board counts the mines around a number
\* that are still unmarked, when no flag is wrong (board.ts remainTokenAt).
RemainCounts ==
  (recognized # NoBoard /\ recognized.grid = screen.grid) =>
    LET flags == {c \in Cells : screen.grid[c] = "FLAG"}
    IN flags \subseteq screen.mines =>
         \A c \in DOMAIN Remain(recognized) :
           Remain(recognized)[c] = Cardinality((neighbors(c) \cap screen.mines) \ flags)

\* The statistics of an ended game credit the player with the mines the window
\* shows flagged, when the counter of its first board could be read (board.ts computeGameStats).
FlagsCredited ==
  [][(gameEvent' # gameEvent /\ recognized.grid = screen.grid /\ initState.mineCounter.decoded) =>
       gameEvent'.stats.correctFlags =
         <<Cardinality({c \in screen.mines : screen.grid[c] = "FLAG"})>>]_vars

\* Every call of the player is answered: whatever is lost, the backstop timer
\* ends the dispatch (bridge.ts dispatch).
CallsEnd == []<>(call.pc = "idle")

\* The session's stream and the dispatches on it are owned: the open stream is
\* the registered one, and what is in flight is what the caller awaits.
DispatchOwned == DesktopTypeOK /\ LiveStreamIsRegistered /\ InFlightIsAwaited

\* The player and the planner's hooks are told what happened on the desktop.
ToldWhatHappened == AnswerTellsDesktop /\ RemainCounts /\ HooksHearTheBatch

\* The game the runtime keeps is the window's, its cells, its end and its score,
\* and the hooks on it keep their order.
GameTrue == RevealedStays /\ NoFalseEnd /\ []OneEndPerGame /\ FlagsCredited /\ HookOrderKept
=============================================================================
