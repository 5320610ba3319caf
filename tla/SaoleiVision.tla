---------------------------- MODULE SaoleiVision ----------------------------
(***************************************************************************)
(* Pixels: where an operation lands on the Minesweeper window, and what    *)
(* the recognition library reads in a screenshot of it.                    *)
(*                                                                         *)
(* The picture of a cell is what the classifier measures on its 32 by 32   *)
(* pixels: white border pixels, red and black centre pixels, the redness   *)
(* of the border and the colours of the centre, three at most, with their  *)
(* pixels.  A counter digit is the set of its lit segments.                *)
(***************************************************************************)
EXTENDS SaoleiBoard

-----------------------------------------------------------------------------
(* Geometry.  Operations are in client space, screenshots include the      *)
(* chrome above it.                                                        *)

BOARD_ORIGIN_X_PX == 24
BOARD_ORIGIN_Y_PX_SCREENSHOT == 200
CHROME_OFFSET_Y_PX == 96
BOARD_ORIGIN_Y_PX == BOARD_ORIGIN_Y_PX_SCREENSHOT - CHROME_OFFSET_Y_PX
CELL_SIZE_PX == 32

center(x, y) ==
  [xPx |-> BOARD_ORIGIN_X_PX + x * CELL_SIZE_PX + CELL_SIZE_PX \div 2,
   yPx |-> BOARD_ORIGIN_Y_PX + y * CELL_SIZE_PX + CELL_SIZE_PX \div 2]

DEFAULT_GEOMETRY == [originXPx |-> 24, originYPx |-> 200, cellSizePx |-> 32]

AtLeastOne(n) == IF n < 1 THEN 1 ELSE n
detectBoardSize(imgWidth, imgHeight) ==
  [width  |-> AtLeastOne((imgWidth - DEFAULT_GEOMETRY.originXPx) \div DEFAULT_GEOMETRY.cellSizePx),
   height |-> AtLeastOne((imgHeight - DEFAULT_GEOMETRY.originYPx) \div DEFAULT_GEOMETRY.cellSizePx)]

cellOrigin(c) ==
  <<DEFAULT_GEOMETRY.originXPx + c[1] * DEFAULT_GEOMETRY.cellSizePx,
    DEFAULT_GEOMETRY.originYPx + c[2] * DEFAULT_GEOMETRY.cellSizePx>>

-----------------------------------------------------------------------------
(* One cell.                                                               *)

RGB(red, green, blue) == [r |-> red, g |-> green, b |-> blue]
Square(n) == n * n
distSq(a, b) == Square(a.r - b.r) + Square(a.g - b.g) + Square(a.b - b.b)

\* The thresholds and the reference colours of the digits.
DEFAULT_COLOR_PROFILE ==
  [background |-> RGB(192, 192, 192), glyphThreshold |-> 40, minGlyphPixels |-> 8,
   bevelWhiteMinPixels |-> 8, flagMinPixels |-> 5, minePixelThreshold |-> 80,
   redBgThreshold |-> 120,
   numberRefs |-> <<RGB(0, 0, 255), RGB(0, 128, 0), RGB(255, 0, 0), RGB(0, 0, 128),
                    RGB(128, 0, 0), RGB(0, 128, 128), RGB(0, 0, 0), RGB(128, 128, 128)>>]

\* The pixels of one colour in the centre of a cell.
Run(colour, pixels) == [colour |-> colour, pixels |-> pixels]
NoRun == Run(DEFAULT_COLOR_PROFILE.background, 0)

\* The reference a colour votes for: the first of the nearest.
Nearest(colour) ==
  LET refs == DEFAULT_COLOR_PROFILE.numberRefs
      d(i) == distSq(colour, refs[i])
  IN CHOOSE i \in DOMAIN refs : \A j \in DOMAIN refs : d(i) <= d(j) /\ (j < i => d(i) < d(j))

\* Pixels that differ from the background.
GlyphPixels(run) ==
  IF distSq(run.colour, DEFAULT_COLOR_PROFILE.background) >
       Square(DEFAULT_COLOR_PROFILE.glyphThreshold) THEN run.pixels ELSE 0

Pixels(centre) ==
  GlyphPixels(centre[1]) + GlyphPixels(centre[2]) + GlyphPixels(centre[3])

Votes(centre, i) ==
  LET vote(run) == IF Nearest(run.colour) = i THEN GlyphPixels(run) ELSE 0
  IN vote(centre[1]) + vote(centre[2]) + vote(centre[3])

\* The digit with the most votes; no two tie in the pictures below.
Winner(centre) ==
  CHOOSE i \in DOMAIN DEFAULT_COLOR_PROFILE.numberRefs :
    \A j \in DOMAIN DEFAULT_COLOR_PROFILE.numberRefs : Votes(centre, j) <= Votes(centre, i)

\* The bevel of an unopened cell first, then the black blob of a mine, then the
\* digits.
classifyCell(picture) ==
  LET beveled == picture.white >= DEFAULT_COLOR_PROFILE.bevelWhiteMinPixels
      mine    == picture.black >= DEFAULT_COLOR_PROFILE.minePixelThreshold
  IN CASE beveled /\ picture.red >= DEFAULT_COLOR_PROFILE.flagMinPixels -> "FLAG"
       [] beveled /\ picture.red < DEFAULT_COLOR_PROFILE.flagMinPixels -> "INITIAL"
       [] ~beveled /\ mine /\ picture.redness >= DEFAULT_COLOR_PROFILE.redBgThreshold -> "HIT_MINE"
       [] ~beveled /\ mine /\ picture.redness < DEFAULT_COLOR_PROFILE.redBgThreshold -> "MINE"
       [] ~beveled /\ ~mine /\ Pixels(picture.centre) < DEFAULT_COLOR_PROFILE.minGlyphPixels -> "0"
       [] OTHER -> Digit[Winner(picture.centre)]

-----------------------------------------------------------------------------
(* The mine counter.                                                       *)

\* The segments of the digits 0 to 9; the lone middle one is a minus.
GLYPH_TABLE ==
  <<{"a", "b", "c", "d", "e", "f"}, {"b", "c"}, {"a", "b", "d", "e", "g"},
    {"a", "b", "c", "d", "g"}, {"b", "c", "f", "g"}, {"a", "c", "d", "f", "g"},
    {"a", "c", "d", "e", "f", "g"}, {"a", "b", "c"},
    {"a", "b", "c", "d", "e", "f", "g"}, {"a", "b", "c", "d", "f", "g"}>>
Minus == {"g"}

\* The digit of a cell; the sets of its lit segments not in the table have none.
Decodes(segments) == \E n \in 0..9 : GLYPH_TABLE[n + 1] = segments
decodeCell(segments) == CHOOSE n \in 0..9 : GLYPH_TABLE[n + 1] = segments

decodeMineCounter(cells) ==
  CASE \E i \in 1..3 : ~Decodes(cells[i]) /\ cells[i] # Minus -> Undecoded
    [] cells[1] = Minus /\ Decodes(cells[2]) /\ Decodes(cells[3]) ->
         Decoded(0 - (10 * decodeCell(cells[2]) + decodeCell(cells[3])))
    [] \A i \in 1..3 : Decodes(cells[i]) ->
         Decoded(100 * decodeCell(cells[1]) + 10 * decodeCell(cells[2]) + decodeCell(cells[3]))

-----------------------------------------------------------------------------
(* What the window draws.                                                  *)

\* The picture of a cell: a raised button, a mine on its background, a digit in
\* its colour.  A mine has a white highlight in its centre.
Picture(white, red, black, redness, centre) ==
  [white |-> white, red |-> red, black |-> black, redness |-> redness, centre |-> centre]
Red   == RGB(255, 0, 0)
White == RGB(255, 255, 255)
Black == RGB(0, 0, 0)
CellPicture(status) ==
  CASE status = "INITIAL"  -> Picture(110, 0, 0, 0, <<NoRun, NoRun, NoRun>>)
    [] status = "FLAG"     -> Picture(110, 30, 40, 0, <<Run(Red, 30), Run(Black, 40), NoRun>>)
    [] status = "HIT_MINE" -> Picture(0, 140, 110, 255,
                                <<Run(Red, 140), Run(Black, 110), Run(White, 6)>>)
    [] status = "MINE"     -> Picture(0, 0, 110, 0, <<Run(Black, 110), Run(White, 6), NoRun>>)
    [] status = "0"        -> Picture(0, 0, 0, 0, <<Run(RGB(192, 192, 192), 256), NoRun, NoRun>>)
    [] status = "3"        -> Picture(0, 60, 0, 0, <<Run(Red, 60), NoRun, NoRun>>)
    [] status = "7"        -> Picture(0, 0, 60, 0, <<Run(Black, 60), NoRun, NoRun>>)
    [] OTHER -> Picture(0, 0, 0, 0,
                  <<Run(DEFAULT_COLOR_PROFILE.numberRefs[Number(status)], 60), NoRun, NoRun>>)

\* The counter's three digits, a minus first when it is below zero; it stops
\* at -99.
CounterSegments(n) ==
  LET digit(k) == GLYPH_TABLE[k + 1]
      abs == IF n < -99 THEN 99 ELSE IF n < 0 THEN 0 - n ELSE n
  IN <<IF n < 0 THEN Minus ELSE digit(abs \div 100), digit((abs \div 10) % 10), digit(abs % 10)>>

\* A picture of the whole window, with a margin right of and below the board.
Margin == 20
Screenshot(w) ==
  [width    |-> BOARD_ORIGIN_X_PX + Width * CELL_SIZE_PX + Margin,
   height   |-> BOARD_ORIGIN_Y_PX_SCREENSHOT + Height * CELL_SIZE_PX + Margin,
   statusAt |-> [p \in {cellOrigin(c) : c \in Cells} |->
                   w.grid[CHOOSE c \in Cells : cellOrigin(c) = p]],
   counter  |-> CounterSegments(w.mineCounter.value)]

\* The cell under a client pixel.
CellAt(p) == <<(p.xPx - BOARD_ORIGIN_X_PX) \div CELL_SIZE_PX,
               (p.yPx - BOARD_ORIGIN_Y_PX) \div CELL_SIZE_PX>>

-----------------------------------------------------------------------------

\* The reading of every status (the classifier on its picture).
Reading == [s \in CellStatus \ {"UNKNOWN"} |-> classifyCell(CellPicture(s))]

\* The board in a screenshot.
recognizeBoard(png) ==
  LET size == detectBoardSize(png.width, png.height)
  IN [grid |-> [c \in (0..(size.width - 1)) \X (0..(size.height - 1)) |->
                  Reading[png.statusAt[cellOrigin(c)]]],
      mineCounter |-> decodeMineCounter(png.counter)]

=============================================================================
