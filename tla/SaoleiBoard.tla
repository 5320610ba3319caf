----------------------------- MODULE SaoleiBoard -----------------------------
(***************************************************************************)
(* The board of a game: the recognized GameState of game-saolei-board, the *)
(* rules of the saolei foundation on it (pre-dispatch validation, status,  *)
(* statistics, the remain grid), and the Minesweeper window it is a        *)
(* screenshot of.                                                          *)
(*                                                                         *)
(* UNKNOWN is a status of the type that the rules allow for and the        *)
(* classifier never returns.                                               *)
(***************************************************************************)
EXTENDS Integers, Sequences, FiniteSets, FiniteSetsExt

CONSTANTS
  Width, Height,   \* the dimensions of the window's board
  MineCount        \* its mines

\* The window's counter has three digits.
ASSUME BoardAssumption ==
  /\ Width \in Nat \ {0} /\ Height \in Nat \ {0}
  /\ MineCount \in 0..(Width * Height) /\ MineCount <= 999

Cells == (0..(Width - 1)) \X (0..(Height - 1))

Digit == [n \in 0..8 |-> <<"0", "1", "2", "3", "4", "5", "6", "7", "8">>[n + 1]]
Number(status) == CHOOSE n \in 0..8 : Digit[n] = status

REVEALED_NUMBERS == {Digit[n] : n \in 0..8}
CHORD_NUMBERS    == REVEALED_NUMBERS \ {"0"}
TERMINAL_CELLS   == {"HIT_MINE", "MINE"}
NON_WIN_CELLS    == {"INITIAL", "HIT_MINE", "MINE", "UNKNOWN"}
REVEALED         == REVEALED_NUMBERS \cup TERMINAL_CELLS

CellStatus == REVEALED \cup {"INITIAL", "FLAG", "UNKNOWN"}

Decoded(n)  == [decoded |-> TRUE, value |-> n]
Undecoded   == [decoded |-> FALSE]
MineCounter == {Undecoded} \cup {Decoded(n) : n \in (0 - Width * Height)..(Width * Height)}

GameState == [grid : [Cells -> CellStatus], mineCounter : MineCounter]

neighbors(c) ==
  {d \in Cells \ {c} : /\ d[1] - c[1] \in -1..1
                       /\ d[2] - c[2] \in -1..1}

isTerminalState(s) == \E c \in Cells : s.grid[c] \in TERMINAL_CELLS

\* Mutant: the counter half of the conjunction left out.
isWinByGrid(s) == \A c \in Cells : s.grid[c] \notin NON_WIN_CELLS

\* A win needs the game's own counter to read 000.
isWin(s) ==
  /\ \A c \in Cells : s.grid[c] \notin NON_WIN_CELLS
  /\ s.mineCounter = Decoded(0)

gameStatus(s) ==
  IF isTerminalState(s) THEN "lost" ELSE IF isWin(s) THEN "won" ELSE "playing"

-----------------------------------------------------------------------------
(* One cell operation, and the rule table in front of its dispatch.        *)

OperationType == {"click", "flag", "chord"}
CellOperation == [type : OperationType, cell : Int \X Int]

SKIP_REASONS == {"cell_already_revealed", "cell_is_flagged", "cannot_flag_revealed",
                 "chord_requires_number", "chord_no_unrevealed_neighbor"}
STOP_REASONS == {"out_of_bounds", "no_active_game", "game_over", "game_won"}
MoveRejection == SKIP_REASONS \cup STOP_REASONS

hasInitialOrUnknownNeighbor(s, c) ==
  \E d \in neighbors(c) : s.grid[d] \in {"INITIAL", "UNKNOWN"}

\* The rule of the operation's type on its target cell.
CellRule(s, op) ==
  LET status == s.grid[op.cell]
  IN CASE status = "UNKNOWN" -> "ok"
       [] op.type = "click" /\ status \in REVEALED_NUMBERS -> "cell_already_revealed"
       [] op.type = "click" /\ status = "FLAG" -> "cell_is_flagged"
       [] op.type = "flag" /\ status \in REVEALED_NUMBERS -> "cannot_flag_revealed"
       [] op.type = "chord" /\ status \notin CHORD_NUMBERS -> "chord_requires_number"
       [] /\ op.type = "chord"
          /\ status \in CHORD_NUMBERS
          /\ ~hasInitialOrUnknownNeighbor(s, op.cell) -> "chord_no_unrevealed_neighbor"
       [] OTHER -> "ok"

validateMove(s, op) ==
  CASE op.cell \notin Cells -> "out_of_bounds"
    [] op.cell \in Cells /\ isTerminalState(s) -> "game_over"
    [] op.cell \in Cells /\ ~isTerminalState(s) /\ isWin(s) -> "game_won"
    [] OTHER -> CellRule(s, op)

-----------------------------------------------------------------------------
(* What is computed from a board.                                          *)

\* The mines flagged correctly, from the counter the game started with;
\* avgOpsPerMine in hundredths.
computeGameStats(initState, final, byType) ==
  LET total == byType["click"] + byType["flag"] + byType["chord"]
      shown == Cardinality({c \in Cells : final.grid[c] \in TERMINAL_CELLS})
      known == initState.mineCounter.decoded
      right == IF known THEN initState.mineCounter.value - shown ELSE 0
  IN [operationCount |-> total, operationsByType |-> byType,
      correctFlags  |-> IF known THEN <<right>> ELSE <<>>,
      avgOpsPerMine |-> IF right > 0 THEN <<(200 * total + right) \div (2 * right)>>
                        ELSE <<>>]

\* The remain grid: number minus adjacent flags on the cells 1-8.
remainTokenAt(s, c) ==
  Number(s.grid[c]) - Cardinality({d \in neighbors(c) : s.grid[d] = "FLAG"})

Remain(s) == [c \in {d \in Cells : s.grid[d] \in CHORD_NUMBERS} |-> remainTokenAt(s, c)]

-----------------------------------------------------------------------------
(* Recognition across the screenshots of one game.                         *)

\* Within one game a revealed cell is permanent; UNKNOWN is never evidence.
compatibleCell(a, b) == a = b \/ "UNKNOWN" \in {a, b} \/ a \notin REVEALED

checkCompatible(prev, next) ==
  /\ DOMAIN prev.grid = DOMAIN next.grid
  /\ \A c \in DOMAIN prev.grid : compatibleCell(prev.grid[c], next.grid[c])

-----------------------------------------------------------------------------
(* The Minesweeper window: a program of its own.                           *)

Screen(grid, counter, mines) ==
  [grid |-> grid, mineCounter |-> Decoded(counter), mines |-> mines]

\* F2: a new game, the mines anywhere.
NewScreens ==
  {Screen([c \in Cells |-> "INITIAL"], MineCount, mines) :
     mines \in kSubset(MineCount, Cells)}

AdjacentMines(w, c) == Cardinality(neighbors(c) \cap w.mines)
Playing(w) == /\ \A c \in Cells : w.grid[c] \notin TERMINAL_CELLS
              /\ \E c \in Cells \ w.mines : w.grid[c] \notin REVEALED_NUMBERS

\* The cells a reveal of c opens: with no mine around, the neighbours too.  The
\* smallest set with c that a cascade does not leave.
Cascade(w, c) ==
  LET closed == {S \in SUBSET Cells :
                   /\ c \in S
                   /\ \A e \in S, d \in Cells :
                        (/\ d \in neighbors(e) /\ w.grid[d] = "INITIAL"
                         /\ AdjacentMines(w, e) = 0) => d \in S}
  IN {d \in Cells : \A S \in closed : d \in S}

\* Opening cells: a mine among them loses, the last safe one wins and has the
\* mines flagged.
Opened(w, cells) ==
  LET shown == UNION {Cascade(w, c) : c \in cells}
      grid  == [c \in Cells |-> IF c \in shown THEN Digit[AdjacentMines(w, c)]
                                ELSE w.grid[c]]
      safe  == Cells \ w.mines
  IN IF cells \cap w.mines # {}
       THEN Screen([c \in Cells |->
               IF c \in cells \cap w.mines THEN "HIT_MINE"
               ELSE IF c \in w.mines /\ w.grid[c] # "FLAG" THEN "MINE" ELSE w.grid[c]],
               w.mineCounter.value, w.mines)
     ELSE IF \A c \in safe : grid[c] \in REVEALED_NUMBERS
       THEN Screen([c \in Cells |-> IF c \in w.mines THEN "FLAG" ELSE grid[c]], 0, w.mines)
       ELSE Screen(grid, w.mineCounter.value, w.mines)

\* What a mouse action on a cell does to the window.
Performed(w, click, c) ==
  LET marked(status, n) ==
        Screen([w.grid EXCEPT ![c] = status], w.mineCounter.value + n, w.mines)
      flags == {d \in neighbors(c) : w.grid[d] = "FLAG"}
      rest  == {d \in neighbors(c) : w.grid[d] = "INITIAL"}
  IN CASE ~Playing(w) \/ c \notin Cells -> w
       [] Playing(w) /\ c \in Cells /\ click = "LEFT_CLICK" /\ w.grid[c] = "INITIAL" -> Opened(w, {c})
       [] Playing(w) /\ c \in Cells /\ click = "RIGHT_CLICK" /\ w.grid[c] = "INITIAL" ->
            marked("FLAG", -1)
       [] Playing(w) /\ c \in Cells /\ click = "RIGHT_CLICK" /\ w.grid[c] = "FLAG" ->
            marked("INITIAL", 1)
       [] /\ Playing(w) /\ c \in Cells
          /\ click = "LEFT_RIGHT_PRESS"
          /\ w.grid[c] \in CHORD_NUMBERS
          /\ Number(w.grid[c]) = Cardinality(flags)
          /\ rest # {} -> Opened(w, rest)
       [] OTHER -> w

=============================================================================
