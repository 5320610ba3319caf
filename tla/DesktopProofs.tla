---------------------------- MODULE DesktopProofs ----------------------------
(***************************************************************************)
(* Proofs about the player's calls end to end, for every board, every      *)
(* number of streams, calls, hooks and faults.                             *)
(***************************************************************************)
EXTENDS Desktop, FiniteSetTheorems, TLAPS

---------------------------------------------------------------------------
(* The inductive invariant: the window. *)

\* What a cell of the window can show, and the cells of a board that show flags.
ScreenStatus == CellStatus \ {"UNKNOWN"}
Flags(b) == {c \in Cells : b.grid[c] = "FLAG"}

Windows == [grid : [Cells -> ScreenStatus], mineCounter : {Decoded(n) : n \in Int},
            mines : SUBSET Cells]

\* The numbers are right, only mines explode, and the counter tells the flags.
NumbersRight(w) ==
  \A c \in Cells : w.grid[c] \in REVEALED_NUMBERS =>
                     c \notin w.mines /\ w.grid[c] = Digit[AdjacentMines(w, c)]
ExplosionShown(w) ==
  \A c \in Cells : w.grid[c] \in TERMINAL_CELLS =>
    /\ c \in w.mines
    /\ \E d \in w.mines : w.grid[d] = "HIT_MINE"
    /\ \A d \in w.mines : w.grid[d] \in TERMINAL_CELLS \cup {"FLAG"}
CounterRight(w) == w.mineCounter = Decoded(MineCount - Cardinality(Flags(w)))

WindowInv(w) ==
  /\ w \in Windows
  /\ Cardinality(w.mines) = MineCount
  /\ NumbersRight(w)
  /\ ExplosionShown(w)
  /\ CounterRight(w)

\* The boards recognition can return for such windows.
Shown(n) == IF n < -99 THEN -99 ELSE n
Boards == [grid : [Cells -> ScreenStatus],
           mineCounter : {Undecoded} \cup {Decoded(n) : n \in Int}]
BoardOfWindow(b) ==
  /\ b \in Boards
  /\ b.mineCounter \in {Undecoded, Decoded(Shown(MineCount - Cardinality(Flags(b))))}

---------------------------------------------------------------------------
(* The inductive invariant: the call, the bridge and the frames. *)

CallRecords ==
  [pc : {"step", "await", "finish"}, kind : {"init", "operate"}, ops : Seq(CellOperation),
   next : Nat, executed : Nat, skipped : Nat, id : Nat, first : Nat, aborted : BOOLEAN,
   stopped : {"none", "won", "lost"} \cup STOP_REASONS, ended : BOOLEAN]

Awaiting == call.pc = "await"

CallInv ==
  /\ minted \in Nat
  /\ \/ \E first \in Nat : call = Idle(first)
     \/ call \in CallRecords
  /\ call.first <= minted
  /\ call.pc \in {"step", "finish"} => call.kind = "operate"
  /\ call.pc = "step" \/ (Awaiting /\ call.kind = "operate") => call.next \in 1..Len(call.ops)
  /\ Awaiting => /\ call.id \in {0, minted}
                 /\ call.id # 0 => call.first < call.id

StreamInv ==
  /\ connections \in Streams \cup {NoStream}
  /\ heartbeat = {connections} \ {NoStream}
  /\ streams \in [Streams -> {"new", "open", "ended", "gone"}]
  /\ events \in [Streams -> 0..2]
  /\ app = [stream |-> app.stream, reader |-> app.reader,
            receipt |-> app.receipt, attempt |-> app.attempt]
  /\ app.stream \in Streams \cup {NoStream}
  /\ app.reader \in {"none", "reading", "sending", "returned"}
  /\ app.stream = NoStream => app.reader \in {"none", "sending"}
  /\ \A s \in Streams :
       /\ streams[s] = "open" => connections = s /\ events[s] = 0
       /\ streams[s] = "new" => /\ connections # s /\ app.stream # s
                                /\ events[s] = 0 /\ down[s] = <<>>

DispatchInv ==
  /\ pending # {} => /\ connections # NoStream /\ Awaiting
                     /\ pending = {call.id} /\ call.id # 0 /\ settled = {}
  /\ \A r \in settled : Awaiting /\ r.id = call.id /\ settled = {r}

Ops == {KEY_F2} \cup {mouseMoveAndClick(op) : op \in CellOperation}
Frames == [id : Nat, op : Ops]

FrameInv ==
  /\ down \in [Streams -> Seq(Frames)]
  /\ \A s \in Streams : \A i \in 1..Len(down[s]) :
       /\ down[s][i].id \in 1..minted
       /\ \A j \in 1..Len(down[s]) : i < j => down[s][i].id < down[s][j].id
       /\ (Awaiting /\ call.kind = "init" /\ down[s][i].id = call.id) => down[s][i].op = KEY_F2
  /\ app.stream # NoStream =>
       \A i \in 1..Len(down[app.stream]), p \in performed : p < down[app.stream][i].id

\* What a receipt says of the operation the call awaits.
Performs(r) ==
  r.result.status # "FAILED" =>
    /\ r.id \in performed
    /\ r.result.screenshot \in {NoShot, screen}
    /\ call.kind = "init" => screen \in NewScreens

ReceiptInv ==
  /\ app.reader = "sending" =>
       /\ app.receipt.id \in 1..minted
       /\ Awaiting /\ app.receipt.id = call.id => Performs(app.receipt)
  /\ \A r \in settled : Performs(r)

PerformedInv ==
  /\ performed \subseteq (call.first + 1)..minted
  /\ call.pc \in {"step", "finish"} =>
       /\ performed = (call.first + 1)..minted
       /\ call.executed = minted - call.first
  /\ (Awaiting /\ call.kind = "operate" /\ call.id # 0) =>
       /\ (call.first + 1)..(minted - 1) \subseteq performed
       /\ call.executed = minted - 1 - call.first
  /\ (call.pc = "idle" /\ answer.kind = "operated") =>
       /\ performed = (call.first + 1)..minted
       /\ answer.executed = minted - call.first

---------------------------------------------------------------------------
(* The inductive invariant: the game and the hooks. *)

BoardInv ==
  /\ board # NoBoard => BoardOfWindow(board) /\ initState # NoBoard /\ gameLog # <<>>
  /\ recognized # NoBoard => recognized = board
  /\ initState # NoBoard =>
       /\ BoardOfWindow(initState)
       /\ initState.mineCounter.decoded => initState.mineCounter.value = MineCount
  /\ (call.pc \in {"step", "finish"} /\ call.executed > 0) =>
       recognized # NoBoard /\ recognized.grid = screen.grid
  /\ (call.pc = "idle" /\ answer.kind = "operated" /\ answer.executed > 0) =>
       recognized # NoBoard /\ recognized.grid = screen.grid
  /\ (Awaiting /\ call.kind = "operate") =>
       recognized # NoBoard /\ gameStatus(recognized) = "playing" /\ ~call.ended
  /\ (call.pc = "step" \/ Awaiting) => ~call.ended
  /\ (call.pc = "finish" /\ call.ended) =>
       /\ recognized # NoBoard
       /\ gameStatus(recognized) \in {"won", "lost"}
       /\ call.stopped = gameStatus(recognized)

LogEntries ==
  [tool : {"saolei_init", "saolei_operate", "(game-end)"}, state : Boards,
   status : {"playing", "won", "lost"}]

Ended(i) == gameLog[i].tool = "(game-end)"

LogInv ==
  /\ gameLog \in Seq(LogEntries)
  /\ gameEvent # NoEvent => gameEvent.status \in {"won", "lost"}
  /\ \A i \in 1..Len(gameLog) :
       Ended(i) =>
         /\ gameEvent.status = gameLog[i].status
         /\ gameStatus(gameLog[i].state) # "playing"
         /\ recognized \in {NoBoard, gameLog[i].state}
         /\ call.pc = "finish" => ~call.ended
         /\ \A j \in 1..Len(gameLog) :
              j > i => ~Ended(j) /\ gameLog[j].state = gameLog[i].state

HookInv ==
  /\ nextOrder \in Nat
  /\ \A n \in DOMAIN hooks : hooks[n].order \in 0..(nextOrder - 1)
  /\ call.pc # "idle" => DOMAIN announced = {}
  /\ HooksHearTheBatch

DesktopInv ==
  /\ CallInv /\ StreamInv /\ DispatchInv /\ FrameInv
  /\ WindowInv(screen) /\ ReceiptInv /\ PerformedInv
  /\ BoardInv /\ LogInv /\ HookInv

---------------------------------------------------------------------------
(* The board and its cells. *)

\* The board is finite, of Width * Height cells.
LEMMA CellsFinite ==
    /\ IsFiniteSet(Cells)
    /\ Cardinality(Cells) = Width * Height
    /\ \A S \in SUBSET Cells : IsFiniteSet(S) /\ Cardinality(S) \in 0..(Width * Height)
<1>1. /\ IsFiniteSet(0..(Width - 1)) /\ Cardinality(0..(Width - 1)) = Width
      /\ IsFiniteSet(0..(Height - 1)) /\ Cardinality(0..(Height - 1)) = Height
  BY FS_Interval, BoardAssumption
<1>2. IsFiniteSet(Cells) /\ Cardinality(Cells) = Width * Height
  <2>. DEFINE A == 0..(Width - 1)
              B == 0..(Height - 1)
  <2>1. IsFiniteSet(A) /\ Cardinality(A) = Width /\ IsFiniteSet(B) /\ Cardinality(B) = Height
    BY <1>1
  <2>2. Cells = A \X B
    BY DEF Cells
  <2>. HIDE DEF A, B
  <2>3. IsFiniteSet(A \X B) /\ Cardinality(A \X B) = Cardinality(A) * Cardinality(B)
    BY <2>1, FS_Product, Zenon
  <2>. QED
    BY <2>1, <2>2, <2>3, Zenon
<1>3. ASSUME NEW S \in SUBSET Cells
      PROVE  IsFiniteSet(S) /\ Cardinality(S) \in 0..(Width * Height)
  <2>1. IsFiniteSet(S) /\ Cardinality(S) <= Cardinality(Cells)
    BY <1>2, FS_Subset
  <2>2. Cardinality(S) \in Nat
    BY <2>1, FS_CardinalityType
  <2>3. Width * Height \in Nat
    BY BoardAssumption
  <2>. QED
    BY <1>2, <2>1, <2>2, <2>3
<1>. QED
  BY <1>2, <1>3

\* A cell has at most eight neighbours.
LEMMA NeighborsBound ==
    ASSUME NEW c \in Cells, NEW S \in SUBSET neighbors(c)
    PROVE  IsFiniteSet(S) /\ Cardinality(S) \in 0..8
<1>. DEFINE x == c[1]
            y == c[2]
            f == <<<<x - 1, y - 1>>, <<x, y - 1>>, <<x + 1, y - 1>>, <<x - 1, y>>,
                   <<x + 1, y>>, <<x - 1, y + 1>>, <<x, y + 1>>, <<x + 1, y + 1>>>>
            T == {f[i] : i \in 1..8}
<1>1. x \in Int /\ y \in Int /\ c = <<x, y>>
  BY DEF Cells
<1>2. neighbors(c) \subseteq T
  <2>. SUFFICES ASSUME NEW d \in neighbors(c) PROVE d \in T
    OBVIOUS
  <2>1. d = <<d[1], d[2]>> /\ d[1] \in Int /\ d[2] \in Int /\ d # c
    BY DEF neighbors, Cells
  <2>2. d[1] \in {x - 1, x, x + 1} /\ d[2] \in {y - 1, y, y + 1}
    BY <1>1, <2>1 DEF neighbors
  <2>3. ~(d[1] = x /\ d[2] = y)
    BY <1>1, <2>1
  <2>4. \E i \in 1..8 : d = f[i]
    BY <1>1, <2>1, <2>2, <2>3
  <2>. QED
    BY <2>4
<1>3. f \in Surjection(1..8, T)
  BY DEF Surjection
<1>4. IsFiniteSet(1..8) /\ Cardinality(1..8) = 8
  <2>1. /\ IsFiniteSet(1..8)
        /\ Cardinality(1..8) = IF 1 > 8 THEN 0 ELSE 8 - 1 + 1
    BY FS_Interval, 1 \in Int, 8 \in Int, Zenon
  <2>. QED
    BY <2>1
<1>5. IsFiniteSet(T) /\ Cardinality(T) <= 8
  BY <1>3, <1>4, FS_Surjection
<1>6. S \in SUBSET T
  BY <1>2
<1>7. IsFiniteSet(S) /\ Cardinality(S) <= Cardinality(T)
  BY <1>5, <1>6, FS_Subset
<1>8. Cardinality(S) \in Nat /\ Cardinality(T) \in Nat
  BY <1>5, <1>7, FS_CardinalityType
<1>. QED
  BY <1>5, <1>7, <1>8

\* The digits are different, and none is another status.
LEMMA DigitNumber ==
    /\ \A n \in 0..8 : Digit[n] \in REVEALED_NUMBERS /\ Number(Digit[n]) = n
    /\ \A s \in REVEALED_NUMBERS : Number(s) \in 0..8 /\ Digit[Number(s)] = s
<1>. DEFINE names == <<"0", "1", "2", "3", "4", "5", "6", "7", "8">>
<1>1. \A n \in 0..8 : Digit[n] = names[n + 1]
  BY DEF Digit
<1>2. \A n, m \in 0..8 : Digit[n] = Digit[m] => n = m
  BY <1>1
<1>3. \A n \in 0..8 : Number(Digit[n]) = n
  BY <1>2 DEF Number
<1>. QED
  BY <1>3 DEF REVEALED_NUMBERS
---------------------------------------------------------------------------
(* The classifier. *)

\* The statuses a screenshot shows, one by one.
LEMMA ScreenStatuses ==
    ASSUME NEW s \in ScreenStatus
    PROVE  s \in {"INITIAL", "FLAG", "HIT_MINE", "MINE",
                 "0", "1", "2", "3", "4", "5", "6", "7", "8"}
<1>1. \A n \in 0..8 : Digit[n] = <<"0", "1", "2", "3", "4", "5", "6", "7", "8">>[n + 1]
  BY DEF Digit
<1>2. \A n \in 0..8 : Digit[n] \in {"0", "1", "2", "3", "4", "5", "6", "7", "8"}
  BY <1>1
<1>. QED
  BY <1>2 DEF ScreenStatus, CellStatus, REVEALED, REVEALED_NUMBERS, TERMINAL_CELLS

\* The colours of the digits.
Refs == DEFAULT_COLOR_PROFILE.numberRefs

\* There are eight of them.
LEMMA RefsAre ==
  /\ DOMAIN Refs = 1..8
  /\ Refs[1] = RGB(0, 0, 255) /\ Refs[2] = RGB(0, 128, 0) /\ Refs[3] = RGB(255, 0, 0)
  /\ Refs[4] = RGB(0, 0, 128) /\ Refs[5] = RGB(128, 0, 0) /\ Refs[6] = RGB(0, 128, 128)
  /\ Refs[7] = RGB(0, 0, 0) /\ Refs[8] = RGB(128, 128, 128)
<1>1. Refs = <<RGB(0, 0, 255), RGB(0, 128, 0), RGB(255, 0, 0), RGB(0, 0, 128),
               RGB(128, 0, 0), RGB(0, 128, 128), RGB(0, 0, 0), RGB(128, 128, 128)>>
  BY DEF Refs, DEFAULT_COLOR_PROFILE
<1>. QED
  BY <1>1

\* A reference colour votes for its own digit, and differs from the background.
LEMMA ReferenceVotes ==
    ASSUME NEW k \in 1..8
    PROVE  /\ Nearest(Refs[k]) = k
           /\ distSq(Refs[k], DEFAULT_COLOR_PROFILE.background) > 1600
<1>1. \A i \in 1..8 : distSq(Refs[k], Refs[i]) \in Nat /\ (distSq(Refs[k], Refs[i]) = 0 <=> i = k)
  BY RefsAre DEF distSq, Square, RGB
<1>2. DEFAULT_COLOR_PROFILE.background = RGB(192, 192, 192)
  BY DEF DEFAULT_COLOR_PROFILE
<1>3. distSq(Refs[k], RGB(192, 192, 192)) > 1600
  BY RefsAre DEF distSq, Square, RGB
<1>4. Nearest(Refs[k]) = k
  BY <1>1, RefsAre DEF Nearest, Refs
<1>. QED
  BY <1>2, <1>3, <1>4

\* The picture of a digit is read as that digit.
LEMMA DigitRead ==
    ASSUME NEW k \in 1..8, NEW red, NEW black \in 0..79
    PROVE  classifyCell(Picture(0, red, black, 0, <<Run(Refs[k], 60), NoRun, NoRun>>)) = Digit[k]
<1>. DEFINE p == Picture(0, red, black, 0, <<Run(Refs[k], 60), NoRun, NoRun>>)
<1>1. GlyphPixels(Run(Refs[k], 60)) = 60
  BY ReferenceVotes DEF GlyphPixels, Run, Square, DEFAULT_COLOR_PROFILE
<1>2. GlyphPixels(NoRun) = 0
  BY DEF GlyphPixels, NoRun, Run
<1>3. Pixels(p.centre) = 60
  BY <1>1, <1>2 DEF Pixels, Picture
<1>4. \A i \in 1..8 : Votes(p.centre, i) = IF i = k THEN 60 ELSE 0
  BY <1>1, <1>2, ReferenceVotes DEF Votes, Picture, Run, NoRun
<1>5. Winner(p.centre) = k
  BY <1>4, RefsAre DEF Winner, Refs
<1>6. p.white = 0 /\ p.black = black
  BY DEF Picture
<1>7. /\ DEFAULT_COLOR_PROFILE.bevelWhiteMinPixels = 8
      /\ DEFAULT_COLOR_PROFILE.minePixelThreshold = 80
      /\ DEFAULT_COLOR_PROFILE.minGlyphPixels = 8
  BY DEF DEFAULT_COLOR_PROFILE
<1>. HIDE DEF p
<1>8. classifyCell(p) = Digit[k]
  BY <1>3, <1>5, <1>6, <1>7 DEF classifyCell
<1>. QED
  BY <1>8 DEF p

\* The classifier reads every status in its own picture.
LEMMA ReadingExact == \A s \in ScreenStatus : Reading[s] = s
<1>. SUFFICES ASSUME NEW s \in ScreenStatus PROVE classifyCell(CellPicture(s)) = s
  BY DEF Reading, ScreenStatus
<1>0. GlyphPixels(NoRun) = 0
  BY DEF GlyphPixels, NoRun, Run
<1>1. CASE s = "INITIAL"
  BY <1>1 DEF CellPicture, classifyCell, Picture, DEFAULT_COLOR_PROFILE
<1>2. CASE s = "FLAG"
  BY <1>2 DEF CellPicture, classifyCell, Picture, DEFAULT_COLOR_PROFILE
<1>3. CASE s = "HIT_MINE"
  BY <1>3 DEF CellPicture, classifyCell, Picture, DEFAULT_COLOR_PROFILE
<1>4. CASE s = "MINE"
  BY <1>4 DEF CellPicture, classifyCell, Picture, DEFAULT_COLOR_PROFILE
<1>5. CASE s = "0"
  <2>. DEFINE p == CellPicture(s)
  <2>1. p = Picture(0, 0, 0, 0, <<Run(RGB(192, 192, 192), 256), NoRun, NoRun>>)
    BY <1>5 DEF CellPicture
  <2>2. GlyphPixels(Run(RGB(192, 192, 192), 256)) = 0
    BY DEF GlyphPixels, Run, distSq, Square, RGB, DEFAULT_COLOR_PROFILE
  <2>3. Pixels(p.centre) = 0
    BY <1>0, <2>1, <2>2 DEF Pixels, Picture
  <2>4. p.white = 0 /\ p.black = 0
    BY <2>1 DEF Picture
  <2>. HIDE DEF p
  <2>5. classifyCell(p) = "0"
    BY <2>3, <2>4 DEF classifyCell, DEFAULT_COLOR_PROFILE
  <2>. QED
    BY <1>5, <2>5 DEF p
<1>6. CASE s = "3"
  <2>1. CellPicture(s) = Picture(0, 60, 0, 0, <<Run(Refs[3], 60), NoRun, NoRun>>)
    BY <1>6, RefsAre DEF CellPicture, Red
  <2>2. Digit[3] = "3"
    BY DEF Digit
  <2>3. classifyCell(Picture(0, 60, 0, 0, <<Run(Refs[3], 60), NoRun, NoRun>>)) = Digit[3]
    BY DigitRead
  <2>. QED
    BY <1>6, <2>1, <2>2, <2>3, Zenon
<1>7. CASE s = "7"
  <2>1. CellPicture(s) = Picture(0, 0, 60, 0, <<Run(Refs[7], 60), NoRun, NoRun>>)
    BY <1>7, RefsAre DEF CellPicture, Black
  <2>2. Digit[7] = "7"
    BY DEF Digit
  <2>3. classifyCell(Picture(0, 0, 60, 0, <<Run(Refs[7], 60), NoRun, NoRun>>)) = Digit[7]
    BY DigitRead
  <2>. QED
    BY <1>7, <2>1, <2>2, <2>3, Zenon
<1>8. CASE s \in {"1", "2", "4", "5", "6", "8"}
  <2>1. CellPicture(s) = Picture(0, 0, 0, 0, <<Run(Refs[Number(s)], 60), NoRun, NoRun>>)
    BY <1>8 DEF CellPicture, Refs
  <2>2. PICK k \in 1..8 : Digit[k] = s
    BY <1>8 DEF Digit
  <2>3. Number(s) = k
    BY <2>2, DigitNumber
  <2>4. classifyCell(Picture(0, 0, 0, 0, <<Run(Refs[k], 60), NoRun, NoRun>>)) = Digit[k]
    BY DigitRead
  <2>. QED
    BY <2>1, <2>2, <2>3, <2>4, Zenon
<1>. QED
  BY <1>1, <1>2, <1>3, <1>4, <1>5, <1>6, <1>7, <1>8, ScreenStatuses

---------------------------------------------------------------------------
(* The mine counter. *)

\* The segments of every digit.
LEMMA TableIs ==
  /\ GLYPH_TABLE[1] = {"a", "b", "c", "d", "e", "f"} /\ GLYPH_TABLE[2] = {"b", "c"}
  /\ GLYPH_TABLE[3] = {"a", "b", "d", "e", "g"} /\ GLYPH_TABLE[4] = {"a", "b", "c", "d", "g"}
  /\ GLYPH_TABLE[5] = {"b", "c", "f", "g"} /\ GLYPH_TABLE[6] = {"a", "c", "d", "f", "g"}
  /\ GLYPH_TABLE[7] = {"a", "c", "d", "e", "f", "g"} /\ GLYPH_TABLE[8] = {"a", "b", "c"}
  /\ GLYPH_TABLE[9] = {"a", "b", "c", "d", "e", "f", "g"}
  /\ GLYPH_TABLE[10] = {"a", "b", "c", "d", "f", "g"}
  BY DEF GLYPH_TABLE

\* Whether a segment is lit tells two digits apart.
Lit(n, segment) == segment \in GLYPH_TABLE[n + 1]

\* The digits that light a segment.
LEMMA LitSegments ==
  \A n \in 0..9 :
    /\ Lit(n, "a") <=> n \in {0, 2, 3, 5, 6, 7, 8, 9}
    /\ Lit(n, "b") <=> n \in {0, 1, 2, 3, 4, 7, 8, 9}
    /\ Lit(n, "c") <=> n \in {0, 1, 3, 4, 5, 6, 7, 8, 9}
    /\ Lit(n, "d") <=> n \in {0, 2, 3, 5, 6, 8, 9}
    /\ Lit(n, "e") <=> n \in {0, 2, 6, 8}
    /\ Lit(n, "f") <=> n \in {0, 4, 5, 6, 8, 9}
    /\ Lit(n, "g") <=> n \in {2, 3, 4, 5, 6, 8, 9}
  BY TableIs DEF Lit

\* Every digit decodes, to itself, and none is a minus.
LEMMA DigitDecodes ==
    ASSUME NEW n \in 0..9
    PROVE  /\ Decodes(GLYPH_TABLE[n + 1])
           /\ decodeCell(GLYPH_TABLE[n + 1]) = n
           /\ GLYPH_TABLE[n + 1] # Minus
<1>1. \A m \in 0..9 : GLYPH_TABLE[m + 1] = GLYPH_TABLE[n + 1] => m = n
  <2>. SUFFICES ASSUME NEW m \in 0..9, GLYPH_TABLE[m + 1] = GLYPH_TABLE[n + 1] PROVE m = n
    OBVIOUS
  <2>1. \A x \in {"a", "b", "c", "d", "e", "f", "g"} : Lit(m, x) <=> Lit(n, x)
    BY DEF Lit
  <2>. QED
    BY <2>1, LitSegments
<1>2. Decodes(GLYPH_TABLE[n + 1])
  BY DEF Decodes
<1>3. decodeCell(GLYPH_TABLE[n + 1]) = n
  BY <1>1 DEF decodeCell
<1>4. Lit(n, "b") \/ Lit(n, "c")
  BY LitSegments
<1>5. GLYPH_TABLE[n + 1] # Minus
  BY <1>4 DEF Lit, Minus
<1>. QED
  BY <1>2, <1>3, <1>5

\* A minus is no digit, and a covered cell is neither.
LEMMA MinusAndNothing == ~Decodes(Minus) /\ ~Decodes({}) /\ {} # Minus
<1>1. \A n \in 0..9 : GLYPH_TABLE[n + 1] # Minus /\ GLYPH_TABLE[n + 1] # {}
  <2>. SUFFICES ASSUME NEW n \in 0..9
                PROVE  GLYPH_TABLE[n + 1] # Minus /\ GLYPH_TABLE[n + 1] # {}
    OBVIOUS
  <2>1. Lit(n, "b") \/ Lit(n, "c")
    BY LitSegments
  <2>. QED
    BY <2>1 DEF Lit, Minus
<1>. QED
  BY <1>1 DEF Decodes, Minus

\* What is drawn of a number is read back, up to where the counter stops; with a
\* digit covered, nothing is.
LEMMA CounterRead ==
    ASSUME NEW n \in Int, n <= 999
    PROVE  /\ decodeMineCounter(CounterSegments(n)) = Decoded(Shown(n))
           /\ decodeMineCounter([CounterSegments(n) EXCEPT ![1] = {}]) = Undecoded
<1>. DEFINE abs == IF n < -99 THEN 99 ELSE IF n < 0 THEN 0 - n ELSE n
            h == abs \div 100
            t == (abs \div 10) % 10
            u == abs % 10
            first == IF n < 0 THEN Minus ELSE GLYPH_TABLE[h + 1]
            cells == CounterSegments(n)
<1>1. abs \in 0..999 /\ (n < 0 => abs \in 0..99)
  OBVIOUS
<1>2. cells = <<first, GLYPH_TABLE[t + 1], GLYPH_TABLE[u + 1]>>
  BY DEF CounterSegments
<1>. HIDE DEF abs, cells
<1>3. h \in 0..9 /\ t \in 0..9 /\ u \in 0..9 /\ abs = 100 * h + 10 * t + u
  BY <1>1
<1>4. n < 0 => h = 0 /\ abs = 10 * t + u
  BY <1>1
<1>5. Shown(n) = IF n < 0 THEN 0 - abs ELSE abs
  BY DEF Shown, abs
<1>. HIDE DEF h, t, u
<1>6. /\ Decodes(cells[2]) /\ decodeCell(cells[2]) = t
      /\ Decodes(cells[3]) /\ decodeCell(cells[3]) = u
  BY <1>2, <1>3, DigitDecodes
<1>7. cells[1] = first
  BY <1>2
<1>10. decodeMineCounter([cells EXCEPT ![1] = {}]) = Undecoded
  <2>1. [cells EXCEPT ![1] = {}][1] = {}
    BY <1>2
  <2>2. \E i \in 1..3 : ~Decodes([cells EXCEPT ![1] = {}][i]) /\ [cells EXCEPT ![1] = {}][i] # Minus
    BY <2>1, MinusAndNothing
  <2>. HIDE DEF cells
  <2>3. \A e : (\E i \in 1..3 : ~Decodes(e[i]) /\ e[i] # Minus)
            /\ ~Decodes(e[1]) /\ e[1] # Minus => decodeMineCounter(e) = Undecoded
    BY DEF decodeMineCounter
  <2>. QED
    BY <2>1, <2>2, <2>3, MinusAndNothing
<1>8. CASE n < 0
  <2>1. cells[1] = Minus /\ ~Decodes(cells[1])
    BY <1>7, <1>8, MinusAndNothing
  <2>2. ~(\E i \in 1..3 : ~Decodes(cells[i]) /\ cells[i] # Minus)
    BY <2>1, <1>6
  <2>3. decodeMineCounter(cells) = Decoded(0 - (10 * t + u))
    BY <2>1, <2>2, <1>6 DEF decodeMineCounter
  <2>4. 0 - (10 * t + u) = Shown(n)
    BY <1>4, <1>5, <1>8
  <2>5. decodeMineCounter(cells) = Decoded(Shown(n))
    BY <2>3, <2>4
  <2>. QED
    BY <2>5, <1>10 DEF cells
<1>9. CASE ~(n < 0)
  <2>1. cells[1] # Minus /\ Decodes(cells[1]) /\ decodeCell(cells[1]) = h
    BY <1>3, <1>7, <1>9, DigitDecodes
  <2>2. \A i \in 1..3 : Decodes(cells[i])
    BY <2>1, <1>6
  <2>3. decodeMineCounter(cells) = Decoded(100 * h + 10 * t + u)
    BY <2>1, <2>2, <1>6 DEF decodeMineCounter
  <2>4. 100 * h + 10 * t + u = Shown(n)
    BY <1>3, <1>5, <1>9
  <2>5. decodeMineCounter(cells) = Decoded(Shown(n))
    BY <2>3, <2>4
  <2>. QED
    BY <2>5, <1>10 DEF cells
<1>. QED
  BY <1>8, <1>9

---------------------------------------------------------------------------
(* What recognition returns for a window. *)

\* The grid found in a picture of the window is its own.
LEMMA GridRead ==
    ASSUME NEW w \in Windows, NEW png, png.width = Screenshot(w).width,
           png.height = Screenshot(w).height, png.statusAt = Screenshot(w).statusAt
    PROVE  recognizeBoard(png) =
             [grid |-> w.grid, mineCounter |-> decodeMineCounter(png.counter)]
<1>. DEFINE size == detectBoardSize(png.width, png.height)
<1>1. png.width = 24 + Width * 32 + 20 /\ png.height = 200 + Height * 32 + 20
  BY DEF Screenshot, BOARD_ORIGIN_X_PX, BOARD_ORIGIN_Y_PX_SCREENSHOT, CELL_SIZE_PX, Margin
<1>2. size.width = Width /\ size.height = Height
  <2>1. /\ DEFAULT_GEOMETRY.originXPx = 24 /\ DEFAULT_GEOMETRY.originYPx = 200
        /\ DEFAULT_GEOMETRY.cellSizePx = 32
    BY DEF DEFAULT_GEOMETRY
  <2>2. \A n \in Nat \ {0} : (n * 32 + 20) \div 32 = n
    OBVIOUS
  <2>3. /\ png.width - 24 = Width * 32 + 20
        /\ png.height - 200 = Height * 32 + 20
    BY <1>1, BoardAssumption
  <2>4. (png.width - 24) \div 32 = Width /\ (png.height - 200) \div 32 = Height
    BY <2>2, <2>3, BoardAssumption
  <2>. QED
    BY <2>1, <2>4, BoardAssumption DEF detectBoardSize, AtLeastOne
<1>3. \A c, d \in Cells : cellOrigin(c) = cellOrigin(d) => c = d
  <2>. SUFFICES ASSUME NEW c \in Cells, NEW d \in Cells, cellOrigin(c) = cellOrigin(d)
                PROVE  c = d
    OBVIOUS
  <2>1. /\ c = <<c[1], c[2]>> /\ c[1] \in Int /\ c[2] \in Int
        /\ d = <<d[1], d[2]>> /\ d[1] \in Int /\ d[2] \in Int
    BY DEF Cells
  <2>2. c[1] * 32 = d[1] * 32 /\ c[2] * 32 = d[2] * 32
    BY <2>1 DEF cellOrigin, DEFAULT_GEOMETRY
  <2>. QED
    BY <2>1, <2>2
<1>4. \A c \in Cells : png.statusAt[cellOrigin(c)] = w.grid[c]
  <2>. SUFFICES ASSUME NEW c \in Cells PROVE png.statusAt[cellOrigin(c)] = w.grid[c]
    OBVIOUS
  <2>1. (CHOOSE d \in Cells : cellOrigin(d) = cellOrigin(c)) = c
    BY <1>3
  <2>2. png.statusAt = [p \in {cellOrigin(d) : d \in Cells} |->
                          w.grid[CHOOSE d \in Cells : cellOrigin(d) = p]]
    BY DEF Screenshot
  <2>. QED
    BY <2>1, <2>2
<1>5. \A c \in Cells : Reading[png.statusAt[cellOrigin(c)]] = w.grid[c]
  BY <1>4, ReadingExact DEF Windows
<1>6. [c \in Cells |-> Reading[png.statusAt[cellOrigin(c)]]] = w.grid
  <2>. DEFINE g == [c \in Cells |-> Reading[png.statusAt[cellOrigin(c)]]]
  <2>1. \A c \in Cells : g[c] = w.grid[c]
    BY <1>5
  <2>2. w.grid \in [Cells -> ScreenStatus] /\ DOMAIN g = Cells
    BY DEF Windows
  <2>. HIDE DEF g
  <2>3. w.grid = [c \in Cells |-> w.grid[c]]
    BY <2>2
  <2>4. g = [c \in Cells |-> g[c]]
    BY DEF g
  <2>5. [c \in Cells |-> w.grid[c]] = [c \in Cells |-> g[c]]
    BY <2>1
  <2>. QED
    BY <2>3, <2>4, <2>5 DEF g
<1>7. (0..(size.width - 1)) \X (0..(size.height - 1)) = Cells
  BY <1>2, Zenon DEF Cells
<1>8. recognizeBoard(png).grid = w.grid
  BY <1>6, <1>7, Zenon DEF recognizeBoard
<1>. QED
  BY <1>6, <1>7, Zenon DEF recognizeBoard

\* Recognition sees the window, or everything but its counter, or nothing.
LEMMA SeenWindow ==
    ASSUME NEW w \in Windows, w.mineCounter.value <= 999
    PROVE  /\ Seen(w) = [grid |-> w.grid, mineCounter |-> Decoded(Shown(w.mineCounter.value))]
           /\ Misread(w) = {[grid |-> w.grid, mineCounter |-> Undecoded], NoBoard}
<1>. DEFINE png == Screenshot(w)
            bad == [png EXCEPT !.counter[1] = {}]
<1>1. w.mineCounter.value \in Int
  BY DEF Windows, Decoded
<1>2. png.counter = CounterSegments(w.mineCounter.value)
  BY DEF Screenshot
<1>3. Seen(w) = [grid |-> w.grid, mineCounter |-> decodeMineCounter(png.counter)]
  <2>1. recognizeBoard(png) = [grid |-> w.grid, mineCounter |-> decodeMineCounter(png.counter)]
    BY GridRead, Zenon
  <2>. QED
    BY <2>1 DEF Seen
<1>4. /\ bad.width = png.width /\ bad.height = png.height /\ bad.statusAt = png.statusAt
      /\ bad.counter = [png.counter EXCEPT ![1] = {}]
  BY DEF Screenshot
<1>5. recognizeBoard(bad) = [grid |-> w.grid, mineCounter |-> decodeMineCounter(bad.counter)]
  <2>. HIDE DEF bad, png
  <2>. QED
    BY <1>4, GridRead, Zenon DEF png
<1>6. /\ decodeMineCounter(png.counter) = Decoded(Shown(w.mineCounter.value))
      /\ decodeMineCounter(bad.counter) = Undecoded
  <2>. HIDE DEF bad, png
  <2>. QED
    BY <1>1, <1>2, <1>4, CounterRead
<1>7. Misread(w) = {recognizeBoard(bad), NoBoard}
  BY DEF Misread
<1>. QED
  BY <1>3, <1>5, <1>6, <1>7, Zenon

---------------------------------------------------------------------------
(* What a board says of the window it was read from. *)

\* The kinds of status are apart.
LEMMA StatusKinds ==
    /\ ScreenStatus = REVEALED_NUMBERS \cup TERMINAL_CELLS \cup {"INITIAL", "FLAG"}
    /\ TERMINAL_CELLS = {"HIT_MINE", "MINE"}
    /\ "INITIAL" \notin REVEALED_NUMBERS /\ "FLAG" \notin REVEALED_NUMBERS
    /\ "HIT_MINE" \notin REVEALED_NUMBERS /\ "MINE" \notin REVEALED_NUMBERS
    /\ "UNKNOWN" \notin REVEALED_NUMBERS
    /\ CHORD_NUMBERS \subseteq REVEALED_NUMBERS
<1>1. \A n \in 0..8 : Digit[n] \in {"0", "1", "2", "3", "4", "5", "6", "7", "8"}
  BY DEF Digit
<1>2. \A s \in REVEALED_NUMBERS : s \in {"0", "1", "2", "3", "4", "5", "6", "7", "8"}
  BY <1>1 DEF REVEALED_NUMBERS
<1>3. /\ "INITIAL" \notin REVEALED_NUMBERS /\ "FLAG" \notin REVEALED_NUMBERS
      /\ "HIT_MINE" \notin REVEALED_NUMBERS /\ "MINE" \notin REVEALED_NUMBERS
      /\ "UNKNOWN" \notin REVEALED_NUMBERS
  BY <1>2
<1>4. TERMINAL_CELLS = {"HIT_MINE", "MINE"}
  BY DEF TERMINAL_CELLS
<1>5. ScreenStatus = REVEALED_NUMBERS \cup TERMINAL_CELLS \cup {"INITIAL", "FLAG"}
  BY <1>3, <1>4 DEF ScreenStatus, CellStatus, REVEALED
<1>. QED
  BY <1>3, <1>4, <1>5 DEF CHORD_NUMBERS

\* The counter of a window is an integer of at most three digits.
LEMMA CounterValue ==
    ASSUME NEW w, WindowInv(w)
    PROVE  /\ Cardinality(Flags(w)) \in 0..(Width * Height)
           /\ w.mineCounter.value = MineCount - Cardinality(Flags(w))
           /\ w.mineCounter.value \in Int /\ w.mineCounter.value <= 999
<1>1. Flags(w) \in SUBSET Cells
  BY DEF Flags
<1>2. Cardinality(Flags(w)) \in 0..(Width * Height)
  BY <1>1, CellsFinite
<1>3. w.mineCounter.value = MineCount - Cardinality(Flags(w))
  BY DEF WindowInv, CounterRight, Decoded
<1>4. MineCount \in Nat /\ MineCount <= 999
  BY BoardAssumption
<1>. QED
  BY <1>2, <1>3, <1>4

\* A recognized board is one of the window, with the window's cells.
LEMMA BoardRead ==
    ASSUME NEW w, WindowInv(w), NEW b \in {Seen(w)} \cup Misread(w), b # NoBoard
    PROVE  BoardOfWindow(b) /\ b.grid = w.grid
<1>. DEFINE k == MineCount - Cardinality(Flags(w))
<1>1. w \in Windows /\ w.mineCounter.value <= 999 /\ w.mineCounter.value = k /\ k \in Int
  BY CounterValue DEF WindowInv
<1>2. b \in {[grid |-> w.grid, mineCounter |-> Decoded(Shown(k))],
             [grid |-> w.grid, mineCounter |-> Undecoded]}
  BY <1>1, SeenWindow
<1>3. b.grid = w.grid /\ b.mineCounter \in {Undecoded, Decoded(Shown(k))}
  BY <1>2
<1>4. Flags(b) = Flags(w)
  BY <1>3 DEF Flags
<1>5. Shown(k) \in Int
  BY <1>1 DEF Shown
<1>6. b \in Boards
  BY <1>1, <1>2, <1>5 DEF Boards, Windows
<1>. QED
  BY <1>3, <1>4, <1>6 DEF BoardOfWindow

\* A board whose counter reads zero has as many flags as the game has mines.
LEMMA ZeroMeansFlagged ==
    ASSUME NEW b, BoardOfWindow(b), b.mineCounter = Decoded(0)
    PROVE  Cardinality(Flags(b)) = MineCount
<1>. DEFINE k == MineCount - Cardinality(Flags(b))
<1>1. Flags(b) \in SUBSET Cells
  BY DEF Flags
<1>2. Cardinality(Flags(b)) \in Nat /\ MineCount \in Nat
  BY <1>1, CellsFinite, BoardAssumption
<1>3. Undecoded.decoded = FALSE /\ Decoded(0).decoded = TRUE
  BY DEF Undecoded, Decoded
<1>4. Decoded(Shown(k)) = Decoded(0)
  BY <1>3 DEF BoardOfWindow
<1>5. Shown(k) = 0
  BY <1>4 DEF Decoded
<1>. QED
  BY <1>2, <1>5 DEF Shown

\* A game that is won for the runtime is won on the window, with every mine
\* flagged; one that is lost has a mine hit.
LEMMA EndIsTheWindows ==
    ASSUME NEW w, WindowInv(w), NEW b, BoardOfWindow(b), b.grid = w.grid
    PROVE  /\ gameStatus(b) = "won" =>
                /\ \A c \in Cells \ w.mines : w.grid[c] \in REVEALED_NUMBERS
                /\ \A c \in w.mines : w.grid[c] = "FLAG"
           /\ gameStatus(b) = "lost" => \E c \in w.mines : w.grid[c] = "HIT_MINE"
<1>1. w.mines \in SUBSET Cells /\ \A c \in Cells : w.grid[c] \in ScreenStatus
  BY DEF WindowInv, Windows
<1>2. ASSUME gameStatus(b) = "won"
      PROVE  /\ \A c \in Cells \ w.mines : w.grid[c] \in REVEALED_NUMBERS
             /\ \A c \in w.mines : w.grid[c] = "FLAG"
  <2>1. isWin(b)
    BY <1>2 DEF gameStatus
  <2>2. b.mineCounter = Decoded(0) /\ \A c \in Cells : w.grid[c] \notin NON_WIN_CELLS
    BY <2>1 DEF isWin
  <2>3. \A c \in Cells : w.grid[c] \in REVEALED_NUMBERS \cup {"FLAG"}
    BY <1>1, <2>2, StatusKinds DEF NON_WIN_CELLS
  <2>4. w.mines \subseteq Flags(b)
    BY <1>1, <2>3 DEF WindowInv, NumbersRight, Flags
  <2>5. IsFiniteSet(Flags(b)) /\ Cardinality(Flags(b)) = MineCount
    BY <2>2, CellsFinite, ZeroMeansFlagged DEF Flags
  <2>6. Cardinality(w.mines) = MineCount
    BY DEF WindowInv
  <2>7. w.mines = Flags(b)
    BY <2>4, <2>5, <2>6, FS_Subset
  <2>. QED
    BY <2>3, <2>7 DEF Flags
<1>3. ASSUME gameStatus(b) = "lost" PROVE \E c \in w.mines : w.grid[c] = "HIT_MINE"
  <2>1. isTerminalState(b)
    BY <1>3 DEF gameStatus
  <2>2. PICK c \in Cells : w.grid[c] \in TERMINAL_CELLS
    BY <2>1 DEF isTerminalState
  <2>. QED
    BY <2>2 DEF WindowInv, ExplosionShown
<1>. QED
  BY <1>2, <1>3

\* When a game is over, the mines that did not show were flagged.
LEMMA FlagsOfTheEnd ==
    ASSUME NEW w, WindowInv(w), NEW b, BoardOfWindow(b), b.grid = w.grid,
           gameStatus(b) \in {"won", "lost"}
    PROVE  Cardinality({c \in w.mines : w.grid[c] = "FLAG"}) =
             MineCount - Cardinality({c \in Cells : b.grid[c] \in TERMINAL_CELLS})
<1>. DEFINE F == {c \in w.mines : w.grid[c] = "FLAG"}
            T == {c \in Cells : b.grid[c] \in TERMINAL_CELLS}
<1>1. w.mines \in SUBSET Cells /\ Cardinality(w.mines) = MineCount
  BY DEF WindowInv, Windows
<1>2. T \subseteq w.mines
  BY DEF WindowInv, ExplosionShown
<1>3. F \cap T = {}
  BY StatusKinds
<1>4. w.mines \subseteq F \cup T
  <2>1. CASE gameStatus(b) = "won"
    BY <2>1, EndIsTheWindows
  <2>2. CASE gameStatus(b) = "lost"
    <3>1. isTerminalState(b)
      BY <2>2 DEF gameStatus
    <3>2. PICK c \in Cells : w.grid[c] \in TERMINAL_CELLS
      BY <3>1 DEF isTerminalState
    <3>3. \A d \in w.mines : w.grid[d] \in TERMINAL_CELLS \cup {"FLAG"}
      BY <3>2 DEF WindowInv, ExplosionShown
    <3>. QED
      BY <1>1, <3>3
  <2>. QED
    BY <2>1, <2>2
<1>5. F \cup T = w.mines
  BY <1>2, <1>4
<1>6. IsFiniteSet(F) /\ IsFiniteSet(T) /\ Cardinality(F) \in Nat /\ Cardinality(T) \in Nat
  BY <1>1, CellsFinite
<1>. HIDE DEF F, T
<1>7. Cardinality(F \cup T) = Cardinality(F) + Cardinality(T) - Cardinality(F \cap T)
  BY <1>6, FS_Union
<1>8. Cardinality(F \cap T) = 0
  BY <1>3, FS_EmptySet
<1>9. Cardinality(F \cup T) = MineCount
  BY <1>1, <1>5, Zenon
<1>10. MineCount = Cardinality(F) + Cardinality(T) - 0
  BY <1>7, <1>8, <1>9, Zenon
<1>11. Cardinality(F) = MineCount - Cardinality(T)
  BY <1>6, <1>10
<1>. QED
  BY <1>11 DEF F, T

---------------------------------------------------------------------------
(* The window stays right whatever is done to it. *)

\* A new game's window is right.
LEMMA NewWindow ==
    ASSUME NEW w \in NewScreens
    PROVE  WindowInv(w) /\ w.mineCounter.value = MineCount /\ Flags(w) = {}
<1>1. PICK mines \in kSubset(MineCount, Cells) :
        w = Screen([c \in Cells |-> "INITIAL"], MineCount, mines)
  BY DEF NewScreens
<1>2. mines \in SUBSET Cells /\ Cardinality(mines) = MineCount
  BY DEF kSubset
<1>3. /\ w.grid = [c \in Cells |-> "INITIAL"] /\ w.mineCounter = Decoded(MineCount)
      /\ w.mines = mines
  BY <1>1 DEF Screen
<1>4. \A c \in Cells : w.grid[c] = "INITIAL"
  BY <1>3
<1>5. Flags(w) = {} /\ Cardinality(Flags(w)) = 0
  BY <1>4, FS_EmptySet DEF Flags
<1>6. MineCount \in Nat
  BY BoardAssumption
<1>7. w \in Windows
  <2>1. w = [grid |-> [c \in Cells |-> "INITIAL"], mineCounter |-> Decoded(MineCount),
             mines |-> mines]
    BY <1>1 DEF Screen
  <2>2. [c \in Cells |-> "INITIAL"] \in [Cells -> ScreenStatus]
    BY StatusKinds
  <2>. QED
    BY <1>2, <1>6, <2>1, <2>2 DEF Windows
<1>8. NumbersRight(w) /\ ExplosionShown(w)
  BY <1>4, StatusKinds DEF NumbersRight, ExplosionShown
<1>9. CounterRight(w)
  BY <1>3, <1>5, <1>6 DEF CounterRight
<1>10. w.mineCounter.value = MineCount
  BY <1>3 DEF Decoded
<1>. QED
  BY <1>2, <1>3, <1>5, <1>7, <1>8, <1>9, <1>10 DEF WindowInv

\* A window whose cells and counter are replaced.
LEMMA WindowOf ==
    ASSUME NEW w, WindowInv(w), NEW g \in [Cells -> ScreenStatus], NEW n \in Int,
           CounterRight(Screen(g, n, w.mines)), NumbersRight(Screen(g, n, w.mines)),
           ExplosionShown(Screen(g, n, w.mines))
    PROVE  WindowInv(Screen(g, n, w.mines))
  BY DEF WindowInv, Windows, Screen

\* Putting a flag on an unopened cell.
LEMMA FlagSet ==
    ASSUME NEW w, WindowInv(w), Playing(w), NEW c \in Cells, w.grid[c] = "INITIAL"
    PROVE  WindowInv(Screen([w.grid EXCEPT ![c] = "FLAG"], w.mineCounter.value + -1, w.mines))
<1>. DEFINE g == [w.grid EXCEPT ![c] = "FLAG"]
            n == w.mineCounter.value + -1
            v == Screen(g, n, w.mines)
<1>1. w.grid \in [Cells -> ScreenStatus] /\ g \in [Cells -> ScreenStatus]
  BY StatusKinds DEF WindowInv, Windows
<1>2. g[c] = "FLAG" /\ \A d \in Cells : d # c => g[d] = w.grid[d]
  BY <1>1
<1>. HIDE DEF g
<1>3. v.grid = g /\ v.mines = w.mines /\ v.mineCounter = Decoded(n)
  BY DEF Screen
<1>4. Flags(v) = Flags(w) \cup {c} /\ c \notin Flags(w)
  BY <1>2, <1>3 DEF Flags
<1>5. IsFiniteSet(Flags(w)) /\ Cardinality(Flags(w)) \in Nat
  BY CellsFinite DEF Flags
<1>6. Cardinality(Flags(v)) = Cardinality(Flags(w)) + 1
  BY <1>4, <1>5, FS_AddElement
<1>7. n = MineCount - Cardinality(Flags(v)) /\ n \in Int
  BY <1>5, <1>6, CounterValue, BoardAssumption
<1>8. CounterRight(v)
  BY <1>3, <1>7 DEF CounterRight
<1>9. NumbersRight(v)
  BY <1>2, <1>3, StatusKinds DEF WindowInv, NumbersRight, AdjacentMines
<1>10. ExplosionShown(v)
  BY <1>2, <1>3, StatusKinds DEF Playing, ExplosionShown
<1>11. WindowInv(v)
  <2>. HIDE DEF n
  <2>. QED
    BY <1>1, <1>7, <1>8, <1>9, <1>10, WindowOf, Zenon
<1>. QED
  BY <1>11 DEF g

\* Taking one away.
LEMMA FlagTaken ==
    ASSUME NEW w, WindowInv(w), Playing(w), NEW c \in Cells, w.grid[c] = "FLAG"
    PROVE  WindowInv(Screen([w.grid EXCEPT ![c] = "INITIAL"], w.mineCounter.value + 1, w.mines))
<1>. DEFINE g == [w.grid EXCEPT ![c] = "INITIAL"]
            n == w.mineCounter.value + 1
            v == Screen(g, n, w.mines)
<1>1. w.grid \in [Cells -> ScreenStatus] /\ g \in [Cells -> ScreenStatus]
  BY StatusKinds DEF WindowInv, Windows
<1>2. g[c] = "INITIAL" /\ \A d \in Cells : d # c => g[d] = w.grid[d]
  BY <1>1
<1>. HIDE DEF g
<1>3. v.grid = g /\ v.mines = w.mines /\ v.mineCounter = Decoded(n)
  BY DEF Screen
<1>4. Flags(v) = Flags(w) \ {c} /\ c \in Flags(w)
  BY <1>2, <1>3 DEF Flags
<1>5. IsFiniteSet(Flags(w)) /\ Cardinality(Flags(w)) \in Nat
  BY CellsFinite DEF Flags
<1>6. Cardinality(Flags(v)) = Cardinality(Flags(w)) - 1
  BY <1>4, <1>5, FS_RemoveElement
<1>7. n = MineCount - Cardinality(Flags(v)) /\ n \in Int
  BY <1>5, <1>6, CounterValue, BoardAssumption
<1>8. CounterRight(v)
  BY <1>3, <1>7 DEF CounterRight
<1>9. NumbersRight(v)
  BY <1>2, <1>3, StatusKinds DEF WindowInv, NumbersRight, AdjacentMines
<1>10. ExplosionShown(v)
  BY <1>2, <1>3, StatusKinds DEF Playing, ExplosionShown
<1>11. WindowInv(v)
  <2>. HIDE DEF n
  <2>. QED
    BY <1>1, <1>7, <1>8, <1>9, <1>10, WindowOf, Zenon
<1>. QED
  BY <1>11 DEF g

\* A cascade from a cell without a mine stays on unopened cells without one.
LEMMA CascadeSafe ==
    ASSUME NEW w, WindowInv(w), NEW c \in Cells, c \notin w.mines, w.grid[c] = "INITIAL"
    PROVE  /\ c \in Cascade(w, c)
           /\ \A d \in Cascade(w, c) : d \in Cells /\ d \notin w.mines /\ w.grid[d] = "INITIAL"
<1>. DEFINE S == {d \in Cells : d \notin w.mines /\ w.grid[d] = "INITIAL"}
<1>1. S \in SUBSET Cells /\ c \in S
  OBVIOUS
<1>2. ASSUME NEW e \in S, NEW d \in Cells, d \in neighbors(e), w.grid[d] = "INITIAL",
             AdjacentMines(w, e) = 0
      PROVE  d \in S
  <2>1. IsFiniteSet(neighbors(e) \cap w.mines)
    BY NeighborsBound
  <2>2. neighbors(e) \cap w.mines = {}
    BY <1>2, <2>1, FS_EmptySet DEF AdjacentMines
  <2>. QED
    BY <1>2, <2>2
<1>3. Cascade(w, c) \subseteq S
  BY <1>1, <1>2 DEF Cascade
<1>4. c \in Cascade(w, c)
  BY DEF Cascade
<1>. QED
  BY <1>3, <1>4

\* Opening unopened cells one of which is a mine.
LEMMA OpenedMine ==
    ASSUME NEW w, WindowInv(w), Playing(w), NEW cells \in SUBSET Cells,
           \A c \in cells : w.grid[c] = "INITIAL", cells \cap w.mines # {}
    PROVE  WindowInv(Opened(w, cells))
<1>. DEFINE g == [c \in Cells |->
                    IF c \in cells \cap w.mines THEN "HIT_MINE"
                    ELSE IF c \in w.mines /\ w.grid[c] # "FLAG" THEN "MINE" ELSE w.grid[c]]
            v == Screen(g, w.mineCounter.value, w.mines)
<1>1. w \in Windows /\ w.mines \in SUBSET Cells
  BY DEF WindowInv, Windows
<1>2. Opened(w, cells) = v
  BY DEF Opened
<1>3. w.grid \in [Cells -> ScreenStatus] /\ g \in [Cells -> ScreenStatus]
  BY <1>1, StatusKinds DEF Windows
<1>4. \A c \in Cells : w.grid[c] \notin TERMINAL_CELLS
  BY DEF Playing
<1>5. \A c \in Cells : /\ c \in cells \cap w.mines => g[c] = "HIT_MINE"
                       /\ c \notin w.mines => g[c] = w.grid[c]
                       /\ c \in w.mines => g[c] \in {"HIT_MINE", "MINE", "FLAG"}
                       /\ g[c] = "FLAG" <=> w.grid[c] = "FLAG"
  BY <1>3
<1>. HIDE DEF g
<1>6. v.grid = g /\ v.mines = w.mines /\ v.mineCounter = w.mineCounter
  BY DEF Screen, WindowInv, CounterRight, Decoded
<1>7. Flags(v) = Flags(w)
  BY <1>5, <1>6 DEF Flags
<1>8. CounterRight(v)
  BY <1>6, <1>7 DEF WindowInv, CounterRight
<1>9. NumbersRight(v)
  BY <1>5, <1>6, StatusKinds DEF WindowInv, NumbersRight, AdjacentMines
<1>10. ExplosionShown(v)
  <2>1. \A c \in Cells : g[c] \in TERMINAL_CELLS => c \in w.mines
    BY <1>4, <1>5
  <2>2. \E c \in w.mines : g[c] = "HIT_MINE"
    BY <1>5
  <2>3. \A c \in w.mines : g[c] \in TERMINAL_CELLS \cup {"FLAG"}
    BY <1>1, <1>5, StatusKinds
  <2>. QED
    BY <1>6, <2>1, <2>2, <2>3 DEF ExplosionShown
<1>11. w.mineCounter.value \in Int
  BY CounterValue
<1>12. WindowInv(v)
  BY <1>3, <1>8, <1>9, <1>10, <1>11, WindowOf, Zenon
<1>. QED
  BY <1>2, <1>12

\* Opening unopened cells none of which is a mine.
LEMMA OpenedSafe ==
    ASSUME NEW w, WindowInv(w), Playing(w), NEW cells \in SUBSET Cells,
           \A c \in cells : w.grid[c] = "INITIAL", cells \cap w.mines = {}
    PROVE  WindowInv(Opened(w, cells))
<1>. DEFINE shown == UNION {Cascade(w, c) : c \in cells}
            g == [c \in Cells |-> IF c \in shown THEN Digit[AdjacentMines(w, c)] ELSE w.grid[c]]
            won == \A c \in Cells \ w.mines : g[c] \in REVEALED_NUMBERS
            h == [c \in Cells |-> IF c \in w.mines THEN "FLAG" ELSE g[c]]
            u == Screen(h, 0, w.mines)
            v == Screen(g, w.mineCounter.value, w.mines)
<1>1. w \in Windows /\ w.mines \in SUBSET Cells /\ w.grid \in [Cells -> ScreenStatus]
  BY DEF WindowInv, Windows
<1>2. Opened(w, cells) = IF won THEN u ELSE v
  BY Zenon DEF Opened
<1>3. \A d \in shown : d \in Cells /\ d \notin w.mines /\ w.grid[d] = "INITIAL"
  BY CascadeSafe
<1>. HIDE DEF shown
<1>4. \A c \in Cells : AdjacentMines(w, c) \in 0..8
  BY NeighborsBound DEF AdjacentMines
<1>5. \A c \in Cells : c \in shown => g[c] = Digit[AdjacentMines(w, c)] /\ g[c] \in REVEALED_NUMBERS
  BY <1>4, DigitNumber
<1>6. \A c \in Cells : c \notin shown => g[c] = w.grid[c]
  OBVIOUS
<1>7. g \in [Cells -> ScreenStatus]
  <2>1. \A c \in Cells : g[c] \in ScreenStatus
    BY <1>1, <1>5, <1>6, StatusKinds
  <2>. QED
    BY <2>1
<1>. HIDE DEF g
<1>8. \A c \in Cells : g[c] \in REVEALED_NUMBERS =>
                         c \notin w.mines /\ g[c] = Digit[AdjacentMines(w, c)]
  BY <1>3, <1>5, <1>6 DEF WindowInv, NumbersRight
<1>9. \A c \in Cells : g[c] \notin TERMINAL_CELLS
  BY <1>5, <1>6, StatusKinds DEF Playing
<1>10. CASE won
  <2>1. \A c \in Cells : h[c] = IF c \in w.mines THEN "FLAG" ELSE g[c]
    OBVIOUS
  <2>2. h \in [Cells -> ScreenStatus]
    BY <1>7, StatusKinds
  <2>. HIDE DEF h
  <2>3. u.grid = h /\ u.mines = w.mines /\ u.mineCounter = Decoded(0)
    BY DEF Screen
  <2>4. Flags(u) = w.mines
    BY <1>1, <1>10, <2>1, <2>3, StatusKinds DEF Flags
  <2>5. Cardinality(Flags(u)) = MineCount
    BY <2>4 DEF WindowInv
  <2>6. CounterRight(u)
    BY <2>3, <2>5, BoardAssumption DEF CounterRight
  <2>7. NumbersRight(u)
    BY <1>8, <2>1, <2>3, StatusKinds DEF NumbersRight, AdjacentMines
  <2>8. ExplosionShown(u)
    BY <1>9, <2>1, <2>3, StatusKinds DEF ExplosionShown
  <2>9. 0 \in Int
    OBVIOUS
  <2>10. WindowInv(u)
    BY <2>2, <2>6, <2>7, <2>8, <2>9, WindowOf, Zenon
  <2>. HIDE DEF u, won
  <2>. QED
    BY <1>2, <1>10, <2>10
<1>11. CASE ~won
  <2>1. v.grid = g /\ v.mines = w.mines /\ v.mineCounter = w.mineCounter
    BY DEF Screen, WindowInv, CounterRight, Decoded
  <2>2. Flags(v) = Flags(w)
    BY <1>3, <1>5, <1>6, <2>1, StatusKinds DEF Flags
  <2>3. CounterRight(v)
    BY <2>1, <2>2 DEF WindowInv, CounterRight
  <2>4. NumbersRight(v)
    BY <1>8, <2>1 DEF NumbersRight, AdjacentMines
  <2>5. ExplosionShown(v)
    BY <1>9, <2>1 DEF ExplosionShown
  <2>6. w.mineCounter.value \in Int
    BY CounterValue
  <2>7. WindowInv(v)
    BY <1>7, <2>3, <2>4, <2>5, <2>6, WindowOf, Zenon
  <2>. HIDE DEF v, won
  <2>. QED
    BY <1>2, <1>11, <2>7
<1>. QED
  BY <1>10, <1>11

\* Whatever is done with the mouse, the window stays right.
LEMMA PerformedWindow ==
    ASSUME NEW w, WindowInv(w), NEW click, NEW c
    PROVE  WindowInv(Performed(w, click, c))
<1>. DEFINE rest == {d \in neighbors(c) : w.grid[d] = "INITIAL"}
            marked(status, n) ==
              Screen([w.grid EXCEPT ![c] = status], w.mineCounter.value + n, w.mines)
            v == Performed(w, click, c)
<1>1. ~(Playing(w) /\ c \in Cells) => v = w
  BY Zenon DEF Performed
<1>2. \/ v = w
      \/ Playing(w) /\ c \in Cells /\ w.grid[c] = "INITIAL" /\ v = Opened(w, {c})
      \/ Playing(w) /\ c \in Cells /\ w.grid[c] = "INITIAL" /\ v = marked("FLAG", -1)
      \/ Playing(w) /\ c \in Cells /\ w.grid[c] = "FLAG" /\ v = marked("INITIAL", 1)
      \/ Playing(w) /\ c \in Cells /\ v = Opened(w, rest)
  BY <1>1 DEF Performed
<1>. HIDE DEF v
<1>3. CASE v = w
  BY <1>3 DEF v
<1>4. CASE Playing(w) /\ c \in Cells /\ w.grid[c] = "INITIAL" /\ v = Opened(w, {c})
  BY <1>4, OpenedMine, OpenedSafe DEF v
<1>5. CASE Playing(w) /\ c \in Cells /\ w.grid[c] = "INITIAL" /\ v = marked("FLAG", -1)
  BY <1>5, FlagSet, Zenon DEF v
<1>6. CASE Playing(w) /\ c \in Cells /\ w.grid[c] = "FLAG" /\ v = marked("INITIAL", 1)
  BY <1>6, FlagTaken, Zenon DEF v
<1>7. CASE Playing(w) /\ c \in Cells /\ v = Opened(w, rest)
  <2>1. rest \in SUBSET Cells
    BY DEF neighbors
  <2>2. \A d \in rest : w.grid[d] = "INITIAL"
    OBVIOUS
  <2>. HIDE DEF rest
  <2>3. WindowInv(Opened(w, rest))
    BY <1>7, <2>1, <2>2, OpenedMine, OpenedSafe
  <2>. QED
    BY <1>7, <2>3 DEF v
<1>. QED
  BY <1>2, <1>3, <1>4, <1>5, <1>6, <1>7

\* The remain grid of the window's board is true as long as no flag is wrong.
LEMMA RemainTrue == DesktopInv => RemainCounts
<1>. SUFFICES ASSUME DesktopInv, recognized # NoBoard, recognized.grid = screen.grid,
                     {c \in Cells : screen.grid[c] = "FLAG"} \subseteq screen.mines,
                     NEW c \in DOMAIN Remain(recognized)
              PROVE  Remain(recognized)[c] =
                       Cardinality((neighbors(c) \cap screen.mines) \
                                     {d \in Cells : screen.grid[d] = "FLAG"})
  BY DEF RemainCounts
<1>. DEFINE F == {d \in neighbors(c) : recognized.grid[d] = "FLAG"}
            M == neighbors(c) \cap screen.mines
            R == M \ {d \in Cells : screen.grid[d] = "FLAG"}
<1>1. c \in Cells /\ recognized.grid[c] \in CHORD_NUMBERS
  BY DEF Remain
<1>2. Remain(recognized)[c] = Number(recognized.grid[c]) - Cardinality(F)
  BY <1>1 DEF Remain, remainTokenAt
<1>3. neighbors(c) \subseteq Cells
  BY DEF neighbors
<1>4. F \subseteq M /\ R = M \ F
  BY <1>3
<1>5. recognized.grid[c] \in REVEALED_NUMBERS
  BY <1>1, StatusKinds
<1>6. recognized.grid[c] = Digit[Cardinality(M)]
  BY <1>1, <1>5 DEF DesktopInv, WindowInv, NumbersRight, AdjacentMines
<1>7. IsFiniteSet(M) /\ Cardinality(M) \in 0..8 /\ IsFiniteSet(F) /\ Cardinality(F) \in 0..8
  BY <1>1, <1>4, NeighborsBound
<1>8. Number(recognized.grid[c]) = Cardinality(M)
  BY <1>6, <1>7, DigitNumber
<1>. HIDE DEF F, M, R
<1>9. Cardinality(M \ F) = Cardinality(M) - Cardinality(M \cap F)
  BY <1>7, FS_Difference
<1>10. M \cap F = F
  BY <1>4
<1>11. Cardinality(R) = Cardinality(M) - Cardinality(F)
  BY <1>4, <1>9, <1>10
<1>. QED
  BY <1>2, <1>8, <1>11 DEF R, M

---------------------------------------------------------------------------
(* The invariant holds initially. *)

\* It does.
LEMMA DesktopInit == Init => DesktopInv
<1>. SUFFICES ASSUME Init PROVE DesktopInv
  OBVIOUS
<1>0. /\ call.pc = "idle" /\ call.first = 0 /\ answer.kind = "none"
      /\ app.stream = NoStream /\ app.reader = "none"
  BY DEF Init, GameInit, Idle, NoAnswer, App
<1>1. CallInv
  BY <1>0 DEF Init, BridgeInit, GameInit, CallInv, Awaiting
<1>2. StreamInv
  <2>1. app = [stream |-> app.stream, reader |-> app.reader,
               receipt |-> app.receipt, attempt |-> app.attempt]
    BY DEF Init, App
  <2>2. NoStream \notin Streams
    BY StreamAssumption DEF Streams, NoStream
  <2>. QED
    BY <1>0, <2>1, <2>2 DEF Init, BridgeInit, StreamInv, NoStream
<1>3. DispatchInv
  BY <1>0 DEF Init, BridgeInit, DispatchInv
<1>4. FrameInv
  <2>1. down = [s \in Streams |-> <<>>]
    BY DEF Init, BridgeInit
  <2>2. down \in [Streams -> Seq(Frames)]
    BY <2>1
  <2>3. \A s \in Streams : Len(down[s]) = 0
    BY <2>1
  <2>. QED
    BY <1>0, <2>2, <2>3 DEF FrameInv
<1>5. WindowInv(screen)
  BY NewWindow DEF Init
<1>6. ReceiptInv
  BY <1>0 DEF Init, BridgeInit, ReceiptInv
<1>7. PerformedInv
  BY <1>0 DEF Init, BridgeInit, PerformedInv, Awaiting
<1>8. BoardInv
  BY <1>0 DEF Init, GameInit, BoardInv, Awaiting
<1>9. LogInv
  <2>1. gameLog = <<>> /\ gameEvent = NoEvent
    BY DEF Init, GameInit
  <2>2. gameLog \in Seq(LogEntries) /\ Len(gameLog) = 0
    BY <2>1
  <2>. QED
    BY <2>1, <2>2 DEF LogInv
<1>10. HookInv
  <2>1. hooks = None /\ nextOrder = 0 /\ announced = None /\ DOMAIN None = {}
    BY DEF Init, HookInit, None
  <2>. QED
    BY <1>0, <2>1 DEF HookInv, HooksHearTheBatch
<1>. QED
  BY <1>1, <1>2, <1>3, <1>4, <1>5, <1>6, <1>7, <1>8, <1>9, <1>10 DEF DesktopInv

---------------------------------------------------------------------------
(* Steps of the application, the network and the bridge between two events *)
(* of the player's call.                                                   *)

\* While nothing is due for the call it awaits nothing that is settled.
LEMMA QuietFacts ==
    ASSUME DesktopInv, Quiet
    PROVE  /\ settled = {}
           /\ call.pc \in {"idle", "await"}
           /\ pending # {} => /\ Awaiting /\ pending = {call.id} /\ call.id # 0
                              /\ connections # NoStream
  BY DEF DesktopInv, DispatchInv, Quiet, Awaiting

\* The variables the call, the game and the hooks consist of.
OutsideVars == <<hookVars, gameVars, callVars, minted>>

\* A step that leaves them alone keeps the parts about them.
LEMMA OutsideKeeps ==
    ASSUME DesktopInv, UNCHANGED OutsideVars
    PROVE  /\ CallInv' /\ LogInv' /\ HookInv'
           /\ UNCHANGED screen => WindowInv(screen)' /\ BoardInv'
           /\ UNCHANGED performed => PerformedInv'
<1>1. /\ call' = call /\ answer' = answer /\ minted' = minted
      /\ gameLog' = gameLog /\ gameEvent' = gameEvent /\ recognized' = recognized
      /\ board' = board /\ initState' = initState
      /\ hooks' = hooks /\ nextOrder' = nextOrder /\ announced' = announced
  BY DEF OutsideVars, hookVars, gameVars, callVars
<1>2. CallInv /\ LogInv /\ HookInv /\ WindowInv(screen) /\ BoardInv /\ PerformedInv
  BY DEF DesktopInv
<1>3. CallInv'
  BY <1>1, <1>2 DEF CallInv, Awaiting
<1>4. LogInv'
  BY <1>1, <1>2 DEF LogInv, Ended
<1>5. HookInv'
  BY <1>1, <1>2 DEF HookInv, HooksHearTheBatch
<1>6. UNCHANGED screen => WindowInv(screen)'
  BY <1>2 DEF WindowInv, NumbersRight, ExplosionShown, CounterRight, Flags, AdjacentMines
<1>7. UNCHANGED screen => BoardInv'
  BY <1>1, <1>2 DEF BoardInv, Awaiting, BoardOfWindow, Flags
<1>8. UNCHANGED performed => PerformedInv'
  BY <1>1, <1>2 DEF PerformedInv, Awaiting
<1>. QED
  BY <1>3, <1>4, <1>5, <1>6, <1>7, <1>8

\* A stream that goes away.
LEMMA BrokenKeeps ==
    ASSUME DesktopInv, Quiet, NEW s \in Streams, streams[s] = "open", Broken(s),
           UNCHANGED <<call, screen, performed>>,
           app'.reader = "sending" => app.reader = "sending" /\ app'.receipt = app.receipt,
           app' = [stream |-> app'.stream, reader |-> app'.reader,
                   receipt |-> app'.receipt, attempt |-> app'.attempt],
           app'.stream \in {app.stream, NoStream}, app'.reader \in {app.reader, "none"},
           app'.stream = NoStream => app'.reader \in {"none", "sending"}
    PROVE  StreamInv' /\ DispatchInv' /\ FrameInv' /\ ReceiptInv'
<1>0. settled = {}
  BY QuietFacts
<1>1. /\ streams' = [streams EXCEPT ![s] = "gone"] /\ events' = [events EXCEPT ![s] = 2]
      /\ down' = [down EXCEPT ![s] = <<>>]
      /\ connections' = connections /\ heartbeat' = heartbeat /\ pending' = pending
      /\ minted' = minted /\ settled' = settled /\ call' = call /\ screen' = screen
      /\ performed' = performed
  BY DEF Broken
<1>2. StreamInv'
  <2>1. StreamInv /\ FrameInv
    BY DEF DesktopInv
  <2>2. /\ streams' \in [Streams -> {"new", "open", "ended", "gone"}]
        /\ events' \in [Streams -> 0..2]
    BY <1>1, <2>1 DEF StreamInv
  <2>3. /\ connections' \in Streams \cup {NoStream} /\ heartbeat' = {connections'} \ {NoStream}
        /\ app'.stream \in Streams \cup {NoStream}
        /\ app'.reader \in {"none", "reading", "sending", "returned"}
    BY <1>1, <2>1 DEF StreamInv
  <2>4. \A t \in Streams : /\ streams'[t] \in {"new", "open"} => t # s
                           /\ t # s => /\ streams'[t] = streams[t] /\ events'[t] = events[t]
                                       /\ down'[t] = down[t]
    BY <1>1, <2>1 DEF StreamInv, FrameInv
  <2>5. \A t \in Streams : t # NoStream
    BY StreamAssumption DEF Streams, NoStream
  <2>6. ASSUME NEW t \in Streams
        PROVE  /\ streams'[t] = "open" => connections' = t /\ events'[t] = 0
               /\ streams'[t] = "new" => /\ connections' # t /\ app'.stream # t
                                         /\ events'[t] = 0 /\ down'[t] = <<>>
    BY <1>1, <2>1, <2>4, <2>5 DEF StreamInv
  <2>. QED
    BY <2>2, <2>3, <2>6 DEF StreamInv
<1>3. DispatchInv'
  BY <1>1 DEF DesktopInv, DispatchInv, Awaiting
<1>4. FrameInv'
  <2>1. down \in [Streams -> Seq(Frames)] /\ down' \in [Streams -> Seq(Frames)]
    BY <1>1 DEF DesktopInv, FrameInv
  <2>2. \A t \in Streams : down'[t] = down[t] \/ Len(down'[t]) = 0
    BY <1>1, <2>1
  <2>. QED
    BY <1>1, <2>1, <2>2 DEF DesktopInv, FrameInv, StreamInv, Awaiting
<1>5. ReceiptInv'
  BY <1>0, <1>1 DEF DesktopInv, ReceiptInv, Performs, Awaiting
<1>. QED
  BY <1>2, <1>3, <1>4, <1>5

\* The network drops a stream.
LEMMA StepBreak ==
    ASSUME DesktopInv, Quiet, NEW s \in Streams, Break(s)
    PROVE  DesktopInv'
<1>1. /\ streams[s] = "open" /\ Broken(s)
      /\ app' = app /\ screen' = screen /\ performed' = performed /\ call' = call
  BY DEF Break, OutsideApp, callVars
<1>2. UNCHANGED OutsideVars
  BY DEF Break, Broken, OutsideApp, OutsideVars
<1>3. StreamInv' /\ DispatchInv' /\ FrameInv' /\ ReceiptInv'
  <2>1. /\ app = [stream |-> app.stream, reader |-> app.reader,
                  receipt |-> app.receipt, attempt |-> app.attempt]
        /\ app.stream = NoStream => app.reader \in {"none", "sending"}
    BY DEF DesktopInv, StreamInv
  <2>. QED
    BY <1>1, <2>1, BrokenKeeps
<1>. QED
  BY <1>1, <1>2, <1>3, OutsideKeeps DEF DesktopInv

\* The desktop closes its bridge.
LEMMA StepCloseBridge ==
    ASSUME DesktopInv, Quiet, CloseBridge
    PROVE  DesktopInv'
<1>0. /\ StreamInv /\ DispatchInv /\ FrameInv /\ ReceiptInv
      /\ app = [stream |-> app.stream, reader |-> app.reader,
                receipt |-> app.receipt, attempt |-> app.attempt]
  BY DEF DesktopInv, StreamInv
<1>1. /\ app.stream # NoStream
      /\ app' = IF app.reader = "sending" THEN [app EXCEPT !.stream = NoStream]
                ELSE App(NoStream, "none")
      /\ IF streams[app.stream] = "open" THEN Broken(app.stream) ELSE UNCHANGED bridgeVars
      /\ screen' = screen /\ performed' = performed /\ call' = call
  BY DEF CloseBridge, OutsideApp, callVars
<1>2. UNCHANGED OutsideVars
  BY <1>1 DEF CloseBridge, Broken, OutsideApp, OutsideVars, bridgeVars
<1>3. /\ app' = [stream |-> app'.stream, reader |-> app'.reader,
                 receipt |-> app'.receipt, attempt |-> app'.attempt]
      /\ app'.stream = NoStream /\ app'.reader \in {"none", "sending"}
      /\ app'.reader = "sending" => app.reader = "sending" /\ app'.receipt = app.receipt
  BY <1>0, <1>1 DEF App
<1>4. app.stream \in Streams
  BY <1>0, <1>1 DEF StreamInv
<1>5. settled = {}
  BY QuietFacts
<1>6. ReceiptInv'
  <2>1. minted' = minted /\ settled' = settled
    BY <1>1 DEF Broken, bridgeVars
  <2>. QED
    BY <1>0, <1>1, <1>3, <1>5, <2>1 DEF ReceiptInv, Performs, Awaiting
<1>7. StreamInv' /\ DispatchInv' /\ FrameInv'
  <2>1. CASE streams[app.stream] = "open"
    <3>1. Broken(app.stream)
      BY <1>1, <2>1
    <3>. QED
      BY <1>1, <1>3, <1>4, <2>1, <3>1, BrokenKeeps
  <2>2. CASE streams[app.stream] # "open"
    <3>1. /\ streams' = streams /\ events' = events /\ down' = down /\ connections' = connections
          /\ heartbeat' = heartbeat /\ pending' = pending /\ minted' = minted
          /\ settled' = settled
      BY <1>1, <2>2 DEF bridgeVars
    <3>2. StreamInv'
      <4>1. \A t \in Streams : t # NoStream
        BY StreamAssumption DEF Streams, NoStream
      <4>. QED
        BY <1>0, <1>3, <3>1, <4>1 DEF StreamInv
    <3>3. DispatchInv'
      BY <1>0, <1>1, <3>1 DEF DispatchInv, Awaiting
    <3>4. FrameInv'
      BY <1>0, <1>1, <1>3, <3>1 DEF FrameInv, Awaiting
    <3>. QED
      BY <3>2, <3>3, <3>4
  <2>. QED
    BY <2>1, <2>2
<1>. QED
  BY <1>1, <1>2, <1>6, <1>7, OutsideKeeps DEF DesktopInv

\* The desktop connects: the new stream takes over.
LEMMA StepConnect ==
    ASSUME DesktopInv, Quiet, Connect
    PROVE  DesktopInv'
<1>0. /\ StreamInv /\ DispatchInv /\ FrameInv /\ ReceiptInv
  BY DEF DesktopInv
<1>1. PICK s \in Streams : attach(s) /\ app' = App(s, "reading")
  BY DEF Connect, Stream
<1>2. /\ screen' = screen /\ performed' = performed /\ call' = call
      /\ UNCHANGED OutsideVars
  BY <1>1 DEF Connect, OutsideApp, callVars, attach, OutsideVars
<1>3. /\ app'.stream = s /\ app'.reader = "reading"
      /\ app' = [stream |-> app'.stream, reader |-> app'.reader,
                 receipt |-> app'.receipt, attempt |-> app'.attempt]
  BY <1>1 DEF App
<1>4. /\ streams[s] = "new" /\ connections' = s /\ down' = down /\ pending' = pending
      /\ minted' = minted /\ settled' = settled
      /\ heartbeat' = (heartbeat \ {connections}) \cup {s}
      /\ streams' = [t \in Streams |-> CASE t = s -> "open"
                                         [] t = connections /\ streams[t] = "open" -> "ended"
                                         [] OTHER -> streams[t]]
      /\ events' = [t \in Streams |->
                      IF t = connections /\ streams[t] = "open" THEN 1 ELSE events[t]]
  BY <1>1 DEF attach
<1>5. connections # s /\ events[s] = 0 /\ down[s] = <<>> /\ s # NoStream
  BY <1>0, <1>4, StreamAssumption DEF StreamInv, Streams, NoStream
<1>6. \A t \in Streams : streams'[t] = IF t = s THEN "open"
                                       ELSE IF t = connections /\ streams[t] = "open" THEN "ended"
                                       ELSE streams[t]
  BY <1>4
<1>7. \A t \in Streams : events'[t] = IF t = connections /\ streams[t] = "open" THEN 1
                                      ELSE events[t]
  BY <1>4
<1>8. StreamInv'
  <2>1. streams' \in [Streams -> {"new", "open", "ended", "gone"}]
    <3>1. \A t \in Streams : streams'[t] \in {"new", "open", "ended", "gone"}
      BY <1>0, <1>6 DEF StreamInv
    <3>2. DOMAIN streams' = Streams /\ streams' = [t \in Streams |-> streams'[t]]
      BY <1>4
    <3>. QED
      BY <3>1, <3>2
  <2>2. events' \in [Streams -> 0..2]
    BY <1>0, <1>4 DEF StreamInv
  <2>3. heartbeat' = {connections'} \ {NoStream}
    BY <1>0, <1>4, <1>5 DEF StreamInv
  <2>4. ASSUME NEW t \in Streams
        PROVE  /\ streams'[t] = "open" => connections' = t /\ events'[t] = 0
               /\ streams'[t] = "new" => /\ connections' # t /\ app'.stream # t
                                         /\ events'[t] = 0 /\ down'[t] = <<>>
    BY <1>0, <1>3, <1>4, <1>5, <1>6, <1>7 DEF StreamInv
  <2>. QED
    BY <1>3, <1>4, <1>5, <2>1, <2>2, <2>3, <2>4 DEF StreamInv
<1>9. DispatchInv'
  BY <1>0, <1>2, <1>4, <1>5 DEF DispatchInv, Awaiting
<1>10. FrameInv'
  <2>1. Len(down'[app'.stream]) = 0
    BY <1>3, <1>4, <1>5
  <2>. QED
    BY <1>0, <1>2, <1>3, <1>4, <2>1 DEF FrameInv, Awaiting
<1>11. ReceiptInv'
  BY <1>0, <1>2, <1>3, <1>4 DEF ReceiptInv, Performs
<1>. QED
  BY <1>2, <1>8, <1>9, <1>10, <1>11, OutsideKeeps DEF DesktopInv

\* The reader of a stream that is over returns.
LEMMA StepRecvError ==
    ASSUME DesktopInv, Quiet, RecvError
    PROVE  DesktopInv'
<1>0. /\ StreamInv /\ DispatchInv /\ FrameInv /\ ReceiptInv
  BY DEF DesktopInv
<1>1. /\ app' = [app EXCEPT !.reader = "returned"] /\ app.reader = "reading"
      /\ connections' = connections /\ heartbeat' = heartbeat /\ streams' = streams
      /\ events' = events /\ down' = down /\ pending' = pending /\ minted' = minted
      /\ settled' = settled /\ screen' = screen /\ performed' = performed /\ call' = call
      /\ UNCHANGED OutsideVars
  BY DEF RecvError, OutsideApp, callVars, bridgeVars, OutsideVars
<1>2. /\ app'.stream = app.stream /\ app'.reader = "returned" /\ app.stream # NoStream
      /\ app' = [stream |-> app'.stream, reader |-> app'.reader,
                 receipt |-> app'.receipt, attempt |-> app'.attempt]
  BY <1>0, <1>1 DEF StreamInv
<1>3. StreamInv'
  BY <1>0, <1>1, <1>2 DEF StreamInv
<1>4. DispatchInv'
  BY <1>0, <1>1 DEF DispatchInv, Awaiting
<1>5. FrameInv'
  BY <1>0, <1>1, <1>2 DEF FrameInv, Awaiting
<1>6. ReceiptInv'
  BY <1>0, <1>1, <1>2 DEF ReceiptInv, Performs
<1>. QED
  BY <1>1, <1>3, <1>4, <1>5, <1>6, OutsideKeeps DEF DesktopInv

\* The receipt of a closed bridge is given up.
LEMMA StepSendFails ==
    ASSUME DesktopInv, Quiet, SendFails
    PROVE  DesktopInv'
<1>0. /\ StreamInv /\ DispatchInv /\ FrameInv /\ ReceiptInv
  BY DEF DesktopInv
<1>1. /\ app' = App(NoStream, "none") /\ app.stream = NoStream
      /\ connections' = connections /\ heartbeat' = heartbeat /\ streams' = streams
      /\ events' = events /\ down' = down /\ pending' = pending /\ minted' = minted
      /\ settled' = settled /\ screen' = screen /\ performed' = performed /\ call' = call
      /\ UNCHANGED OutsideVars
  BY DEF SendFails, OutsideApp, callVars, bridgeVars, OutsideVars
<1>2. /\ app'.stream = NoStream /\ app'.reader = "none"
      /\ app' = [stream |-> app'.stream, reader |-> app'.reader,
                 receipt |-> app'.receipt, attempt |-> app'.attempt]
  BY <1>1 DEF App
<1>3. StreamInv'
  BY <1>0, <1>1, <1>2 DEF StreamInv
<1>4. DispatchInv'
  BY <1>0, <1>1 DEF DispatchInv, Awaiting
<1>5. FrameInv'
  BY <1>0, <1>1, <1>2 DEF FrameInv, Awaiting
<1>6. ReceiptInv'
  BY <1>0, <1>1, <1>2 DEF ReceiptInv, Performs
<1>. QED
  BY <1>1, <1>3, <1>4, <1>5, <1>6, OutsideKeeps DEF DesktopInv

\* Performing an operation leaves a right window; F2 leaves a new one.
LEMMA ScreensKeep ==
    ASSUME WindowInv(screen), NEW op \in Ops, NEW w \in Screens(op)
    PROVE  WindowInv(w) /\ (op = KEY_F2 => w \in NewScreens)
<1>1. CASE op = KEY_F2
  BY <1>1, NewWindow DEF Screens
<1>2. CASE op # KEY_F2
  <2>1. w = Performed(screen, op.click, CellAt(op.at))
    BY <1>2 DEF Screens
  <2>. QED
    BY <1>2, <2>1, PerformedWindow
<1>. QED
  BY <1>1, <1>2

\* The desktop executes the next operation of its stream: it is newer than all
\* that this call had performed, so none is performed under an answer.
LEMMA StepExecute ==
    ASSUME DesktopInv, Quiet, executeAgentOperation
    PROVE  DesktopInv'
<1>0. /\ StreamInv /\ DispatchInv /\ FrameInv /\ ReceiptInv /\ PerformedInv /\ CallInv
      /\ BoardInv /\ WindowInv(screen)
  BY DEF DesktopInv
<1>. DEFINE frame == Head(down[app.stream])
            s == app.stream
<1>1. /\ app.reader = "reading" /\ down[s] # <<>>
      /\ down' = [down EXCEPT ![s] = Tail(@)]
      /\ connections' = connections /\ heartbeat' = heartbeat /\ streams' = streams
      /\ events' = events /\ pending' = pending /\ minted' = minted
      /\ settled' = settled /\ call' = call /\ answer' = answer /\ recognized' = recognized
      /\ board' = board /\ initState' = initState /\ gameLog' = gameLog
      /\ UNCHANGED OutsideVars
  BY DEF executeAgentOperation, OutsideApp, callVars, gameVars, OutsideVars
<1>2. PICK receipt :
        /\ app' = [app EXCEPT !.reader = "sending", !.attempt = 1, !.receipt = receipt]
        /\ receipt.id = frame.id
        /\ \/ /\ screen' \in Screens(frame.op)
              /\ performed' = performed \cup ({frame.id} \ 0..call.first)
              /\ receipt.result.screenshot \in {NoShot, screen'}
           \/ /\ receipt.result.status = "FAILED"
              /\ screen' = screen /\ performed' = performed
  <2>1. \/ /\ screen' \in Screens(frame.op)
           /\ performed' = performed \cup ({frame.id} \ 0..call.first)
           /\ \/ Sending(frame.id, "SUCCEEDED", screen')
              \/ Sending(frame.id, "SUCCEEDED", NoShot)
        \/ /\ Sending(frame.id, "FAILED", NoShot)
           /\ screen' = screen /\ performed' = performed
    BY DEF executeAgentOperation
  <2>3. ASSUME NEW status, NEW shot, Sending(frame.id, status, shot)
        PROVE  app' = [app EXCEPT !.reader = "sending", !.attempt = 1,
                         !.receipt = Resolution(frame.id, OperationResult(status, "", shot))]
    BY <2>3 DEF Sending
  <2>. DEFINE r(status, shot) == Resolution(frame.id, OperationResult(status, "", shot))
  <2>4. \A status, shot : /\ r(status, shot).id = frame.id
                          /\ r(status, shot).result.status = status
                          /\ r(status, shot).result.screenshot = shot
    BY DEF Resolution, OperationResult
  <2>5. \A status, shot : Sending(frame.id, status, shot) =>
          app' = [app EXCEPT !.reader = "sending", !.attempt = 1, !.receipt = r(status, shot)]
    BY <2>3
  <2>. HIDE DEF frame, r
  <2>6. CASE Sending(frame.id, "FAILED", NoShot) /\ screen' = screen /\ performed' = performed
    <3>. WITNESS r("FAILED", NoShot)
    <3>. QED
      BY <2>4, <2>5, <2>6
  <2>7. ASSUME NEW shot \in {NoShot, screen'}, Sending(frame.id, "SUCCEEDED", shot),
               screen' \in Screens(frame.op),
               performed' = performed \cup ({frame.id} \ 0..call.first)
        PROVE  \E receipt :
                 /\ app' = [app EXCEPT !.reader = "sending", !.attempt = 1, !.receipt = receipt]
                 /\ receipt.id = frame.id
                 /\ \/ /\ screen' \in Screens(frame.op)
                       /\ performed' = performed \cup ({frame.id} \ 0..call.first)
                       /\ receipt.result.screenshot \in {NoShot, screen'}
                    \/ /\ receipt.result.status = "FAILED"
                       /\ screen' = screen /\ performed' = performed
    <3>. WITNESS r("SUCCEEDED", shot)
    <3>. QED
      BY <2>4, <2>5, <2>7
  <2>. QED
    BY <2>1, <2>6, <2>7
<1>3. s \in Streams /\ s # NoStream
  BY <1>0, <1>1, StreamAssumption DEF StreamInv, Streams, NoStream
<1>4. /\ down[s] \in Seq(Frames) /\ Len(down[s]) >= 1 /\ frame = down[s][1]
      /\ Tail(down[s]) \in Seq(Frames) /\ Len(Tail(down[s])) = Len(down[s]) - 1
      /\ \A i \in 1..(Len(down[s]) - 1) : Tail(down[s])[i] = down[s][i + 1]
  BY <1>0, <1>1, <1>3 DEF FrameInv
<1>5. /\ frame.id \in 1..minted /\ frame.op \in Ops
      /\ \A p \in performed : p < frame.id
      /\ (Awaiting /\ call.kind = "init" /\ frame.id = call.id) => frame.op = KEY_F2
  <2>1. down[s][1] \in Frames
    BY <1>4
  <2>. QED
    BY <1>0, <1>3, <1>4, <2>1 DEF FrameInv, Frames
<1>6. /\ app'.stream = s /\ app'.reader = "sending" /\ app'.receipt = receipt
      /\ app' = [stream |-> app'.stream, reader |-> app'.reader,
                 receipt |-> app'.receipt, attempt |-> app'.attempt]
  BY <1>0, <1>2 DEF StreamInv
<1>7. /\ down'[s] = Tail(down[s]) /\ \A t \in Streams : t # s => down'[t] = down[t]
      /\ down' \in [Streams -> Seq(Frames)]
  BY <1>0, <1>1, <1>3, <1>4 DEF FrameInv
<1>8. settled = {} /\ call.pc \in {"idle", "await"}
  BY QuietFacts
<1>9. minted \in Nat /\ call.first \in Nat /\ call.first <= minted
  BY <1>0 DEF CallInv, Idle, CallRecords
<1>. HIDE DEF frame, s
<1>10. /\ performed \subseteq performed'
       /\ performed' \subseteq performed \cup ({frame.id} \ 0..call.first)
  BY <1>2
<1>12. WindowInv(screen)'
  <2>1. screen' \in Screens(frame.op) \/ screen' = screen
    BY <1>2
  <2>2. WindowInv(screen')
    BY <1>0, <1>5, <2>1, ScreensKeep
  <2>. QED
    BY <2>2 DEF WindowInv, NumbersRight, ExplosionShown, CounterRight, Flags, AdjacentMines
<1>13. StreamInv'
  <2>1. streams[s] # "new"
    BY <1>0, <1>1, <1>3 DEF StreamInv
  <2>2. \A t \in Streams : streams[t] = "new" => down'[t] = <<>>
    BY <1>0, <1>7, <2>1 DEF StreamInv
  <2>3. app'.stream = app.stream
    BY <1>6 DEF s
  <2>. QED
    BY <1>0, <1>1, <1>3, <1>6, <2>2, <2>3 DEF StreamInv
<1>14. DispatchInv'
  BY <1>0, <1>1 DEF DispatchInv, Awaiting
<1>15. FrameInv'
  <2>1. ASSUME NEW t \in Streams, NEW i \in 1..Len(down'[t])
        PROVE  \E k \in 1..Len(down[t]) :
                 /\ down'[t][i] = down[t][k]
                 /\ t = s => k = i + 1
                 /\ t # s => k = i
    <3>1. CASE t = s
      <4>1. i + 1 \in 1..Len(down[s]) /\ down'[s][i] = down[s][i + 1]
        BY <1>4, <1>7, <3>1
      <4>. QED
        BY <3>1, <4>1
    <3>2. CASE t # s
      BY <1>7, <3>2
    <3>. QED
      BY <3>1, <3>2
  <2>2. ASSUME NEW t \in Streams, NEW i \in 1..Len(down'[t])
        PROVE  /\ down'[t][i].id \in 1..minted'
               /\ \A j \in 1..Len(down'[t]) : i < j => down'[t][i].id < down'[t][j].id
               /\ (Awaiting' /\ call'.kind = "init" /\ down'[t][i].id = call'.id) =>
                    down'[t][i].op = KEY_F2
    <3>1. PICK k \in 1..Len(down[t]) : /\ down'[t][i] = down[t][k]
                                       /\ t = s => k = i + 1
                                       /\ t # s => k = i
      BY <2>1
    <3>2. ASSUME NEW j \in 1..Len(down'[t]), i < j PROVE down'[t][i].id < down'[t][j].id
      <4>1. PICK l \in 1..Len(down[t]) : /\ down'[t][j] = down[t][l]
                                         /\ t = s => l = j + 1
                                         /\ t # s => l = j
        BY <2>1
      <4>2. k < l
        BY <3>1, <3>2, <4>1
      <4>. QED
        BY <1>0, <3>1, <4>1, <4>2 DEF FrameInv
    <3>. QED
      BY <1>0, <1>1, <3>1, <3>2 DEF FrameInv, Awaiting
  <2>3. ASSUME NEW i \in 1..Len(down'[s]), NEW p \in performed' PROVE p < down'[s][i].id
    <3>1. i + 1 \in 1..Len(down[s]) /\ down'[s][i] = down[s][i + 1]
      BY <1>4, <1>7
    <3>2. down[s][1].id < down[s][i + 1].id
      BY <1>0, <1>3, <1>4, <3>1 DEF FrameInv
    <3>3. p \in performed \/ p = down[s][1].id
      BY <1>4, <1>10
    <3>4. p \in performed => p < down[s][i + 1].id
      BY <1>0, <1>3, <3>1 DEF FrameInv, s
    <3>. QED
      BY <3>1, <3>2, <3>3, <3>4
  <2>. QED
    BY <1>6, <1>7, <2>2, <2>3 DEF FrameInv
<1>16. ReceiptInv'
  <2>1. ASSUME Awaiting', receipt.id = call'.id PROVE Performs(receipt)'
    <3>1. Awaiting /\ frame.id = call.id
      BY <1>1, <1>2, <2>1 DEF Awaiting
    <3>2. call.first < frame.id
      BY <1>0, <1>5, <1>9, <3>1 DEF CallInv
    <3>3. SUFFICES ASSUME receipt.result.status # "FAILED"
                   PROVE  /\ receipt.id \in performed'
                          /\ receipt.result.screenshot \in {NoShot, screen'}
                          /\ call'.kind = "init" => screen' \in NewScreens
      BY DEF Performs
    <3>4. /\ screen' \in Screens(frame.op)
          /\ performed' = performed \cup ({frame.id} \ 0..call.first)
          /\ receipt.result.screenshot \in {NoShot, screen'}
      BY <1>2, <3>3
    <3>5. receipt.id \in performed'
      BY <1>2, <1>5, <1>9, <3>2, <3>4
    <3>6. call'.kind = "init" => screen' \in NewScreens
      BY <1>0, <1>1, <1>5, <3>1, <3>4, ScreensKeep
    <3>. QED
      BY <3>4, <3>5, <3>6
  <2>2. settled' = {} /\ app'.receipt.id \in 1..minted'
    BY <1>1, <1>2, <1>5, <1>6, <1>8
  <2>. QED
    BY <1>6, <2>1, <2>2 DEF ReceiptInv
<1>17. PerformedInv'
  <2>1. performed' \subseteq (call.first + 1)..minted
    BY <1>0, <1>5, <1>9, <1>10 DEF PerformedInv
  <2>2. ASSUME call.pc = "idle", answer.kind = "operated" PROVE performed' = performed
    <3>1. performed = (call.first + 1)..minted
      BY <1>0, <2>2 DEF PerformedInv
    <3>2. frame.id \notin performed
      BY <1>5
    <3>3. frame.id <= call.first
      BY <1>5, <1>9, <3>1, <3>2
    <3>4. {frame.id} \ 0..call.first = {}
      BY <1>5, <1>9, <3>3
    <3>. QED
      BY <1>10, <3>4
  <2>. QED
    BY <1>0, <1>1, <1>8, <1>10, <2>1, <2>2 DEF PerformedInv, Awaiting
<1>18. BoardInv'
  <2>1. ASSUME call.pc = "idle", answer.kind = "operated", answer.executed > 0
        PROVE  FALSE
    <3>1. performed = (call.first + 1)..minted /\ answer.executed = minted - call.first
      BY <1>0, <2>1 DEF PerformedInv
    <3>2. minted \in performed
      BY <1>9, <2>1, <3>1
    <3>. QED
      BY <1>5, <1>9, <3>2
  <2>. QED
    BY <1>0, <1>1, <1>8, <2>1 DEF BoardInv, Awaiting, BoardOfWindow, Flags
<1>. QED
  BY <1>1, <1>12, <1>13, <1>14, <1>15, <1>16, <1>17, <1>18, OutsideKeeps DEF DesktopInv

\* A dispatch in flight that is resolved is the one the call awaits.
LEMMA ResolveKeeps ==
    ASSUME DesktopInv, Quiet, NEW id \in pending, NEW result, Resolve(id, result),
           UNCHANGED <<call, screen, performed>>, Performs(Resolution(id, result))
    PROVE  DispatchInv' /\ \A r \in settled' : Performs(r)'
<1>1. settled = {} /\ Awaiting /\ pending = {id} /\ id = call.id
  BY QuietFacts
<1>2. pending' = {} /\ settled' = {Resolution(id, result)}
  BY <1>1 DEF Resolve
<1>3. Resolution(id, result).id = id
  BY DEF Resolution
<1>4. DispatchInv'
  BY <1>1, <1>2, <1>3 DEF DispatchInv, Awaiting
<1>5. Performs(Resolution(id, result))'
  BY DEF Performs
<1>. QED
  BY <1>2, <1>4, <1>5

\* A failure says nothing of what happened on the desktop.
LEMMA FailedPerforms ==
    ASSUME NEW id, NEW message
    PROVE  Performs(Resolution(id, Failed(message)))
  BY DEF Performs, Resolution, Failed, OperationResult

\* The bridge alone steps, and its streams and frames stay.
LEMMA StreamsKeep ==
    ASSUME DesktopInv, UNCHANGED <<call, screen, performed, minted, connections, heartbeat,
                                   streams, events, down>>,
           app' = [stream |-> app'.stream, reader |-> app'.reader,
                   receipt |-> app'.receipt, attempt |-> app'.attempt],
           app'.stream = app.stream,
           app'.reader \in {"none", "reading", "sending", "returned"},
           app.stream = NoStream => app'.reader \in {"none", "sending"}
    PROVE  StreamInv' /\ FrameInv'
<1>1. StreamInv'
  BY DEF DesktopInv, StreamInv
<1>2. FrameInv'
  BY DEF DesktopInv, FrameInv, Awaiting
<1>. QED
  BY <1>1, <1>2

\* The backstop timer fires.
LEMMA StepTimer ==
    ASSUME DesktopInv, Quiet, TimerFires
    PROVE  DesktopInv'
<1>1. PICK id \in pending : timeout(id)
  BY DEF TimerFires
<1>2. /\ app' = app /\ UNCHANGED <<call, screen, performed, minted, connections, heartbeat,
                                   streams, events, down>>
      /\ UNCHANGED OutsideVars
  BY <1>1 DEF TimerFires, timeout, OutsideApp, callVars, OutsideVars
<1>3. DispatchInv' /\ \A r \in settled' : Performs(r)'
  BY <1>1, <1>2, ResolveKeeps, FailedPerforms DEF timeout
<1>4. ReceiptInv'
  BY <1>2, <1>3 DEF DesktopInv, ReceiptInv, Performs, Awaiting
<1>5. StreamInv' /\ FrameInv'
  <2>1. /\ app = [stream |-> app.stream, reader |-> app.reader,
                  receipt |-> app.receipt, attempt |-> app.attempt]
        /\ app.reader \in {"none", "reading", "sending", "returned"}
        /\ app.stream = NoStream => app.reader \in {"none", "sending"}
    BY DEF DesktopInv, StreamInv
  <2>. QED
    BY <1>2, <2>1, StreamsKeep
<1>. QED
  BY <1>2, <1>3, <1>4, <1>5, OutsideKeeps DEF DesktopInv

\* A stream reports its end, or the caller aborts.
LEMMA StepBridgeEvent ==
    ASSUME DesktopInv, Quiet, BridgeEvent
    PROVE  DesktopInv'
<1>0. StreamInv /\ DispatchInv /\ FrameInv /\ ReceiptInv
  BY DEF DesktopInv
<1>1. /\ app' = app /\ UNCHANGED <<call, screen, performed, minted, streams, down>>
      /\ UNCHANGED OutsideVars
  BY DEF BridgeEvent, disconnect, onAbort, OutsideApp, callVars, OutsideVars
<1>2. /\ app = [stream |-> app.stream, reader |-> app.reader,
                receipt |-> app.receipt, attempt |-> app.attempt]
      /\ app.reader \in {"none", "reading", "sending", "returned"}
      /\ app.stream = NoStream => app.reader \in {"none", "sending"}
  BY <1>0 DEF StreamInv
<1>3. ASSUME DispatchInv', StreamInv', FrameInv', \A r \in settled' : Performs(r)'
      PROVE  DesktopInv'
  <2>1. ReceiptInv'
    BY <1>0, <1>1, <1>3 DEF ReceiptInv, Performs, Awaiting
  <2>. QED
    BY <1>1, <1>3, <2>1, OutsideKeeps DEF DesktopInv
<1>4. CASE \E id \in pending : onAbort(id)
  <2>1. PICK id \in pending : onAbort(id)
    BY <1>4
  <2>2. DispatchInv' /\ \A r \in settled' : Performs(r)'
    BY <1>1, <2>1, ResolveKeeps, FailedPerforms DEF onAbort
  <2>3. StreamInv' /\ FrameInv'
    BY <1>1, <1>2, <2>1, StreamsKeep DEF onAbort
  <2>. QED
    BY <1>3, <2>2, <2>3
<1>5. CASE \E s \in Streams : disconnect(s)
  <2>1. PICK s \in Streams : disconnect(s)
    BY <1>5
  <2>2. events[s] > 0 /\ events' = [events EXCEPT ![s] = @ - 1]
    BY <2>1 DEF disconnect
  <2>3. events' \in [Streams -> 0..2] /\ \A t \in Streams : events[t] = 0 => events'[t] = 0
    BY <1>0, <2>2 DEF StreamInv
  <2>4. streams[s] # "open" /\ streams[s] # "new"
    BY <1>0, <2>2 DEF StreamInv
  <2>5. settled = {}
    BY QuietFacts
  <2>6. FrameInv'
    BY <1>0, <1>1 DEF FrameInv, Awaiting
  <2>7. CASE connections # s
    <3>1. UNCHANGED <<connections, heartbeat, pending, settled>>
      BY <2>1, <2>7 DEF disconnect
    <3>2. StreamInv'
      BY <1>0, <1>1, <2>3, <3>1 DEF StreamInv
    <3>3. DispatchInv' /\ \A r \in settled' : Performs(r)'
      BY <1>0, <1>1, <2>5, <3>1 DEF DispatchInv, Awaiting
    <3>. QED
      BY <1>3, <2>6, <3>2, <3>3
  <2>8. CASE connections = s
    <3>1. /\ connections' = NoStream /\ heartbeat' = heartbeat \ {s} /\ pending' = {}
          /\ settled' = settled \cup
               {Resolution(id, Failed("desktop disconnected")) : id \in pending}
      BY <2>1, <2>8 DEF disconnect
    <3>2. heartbeat' = {}
      BY <1>0, <2>8, <3>1 DEF StreamInv
    <3>3. \A t \in Streams : t # NoStream
      BY StreamAssumption DEF Streams, NoStream
    <3>4. StreamInv'
      BY <1>0, <1>1, <2>3, <2>4, <2>8, <3>1, <3>2, <3>3 DEF StreamInv
    <3>5. CASE pending = {}
      <4>1. settled' = {}
        BY <2>5, <3>1, <3>5
      <4>2. DispatchInv' /\ \A r \in settled' : Performs(r)'
        BY <3>1, <4>1 DEF DispatchInv
      <4>. QED
        BY <1>3, <2>6, <3>4, <4>2
    <3>6. CASE pending # {}
      <4>1. Awaiting /\ pending = {call.id} /\ call.id \in pending
        BY <3>6, QuietFacts
      <4>2. Resolve(call.id, Failed("desktop disconnected"))
        BY <3>1, <4>1 DEF Resolve
      <4>3. DispatchInv' /\ \A r \in settled' : Performs(r)'
        BY <1>1, <4>1, <4>2, ResolveKeeps, FailedPerforms
      <4>. QED
        BY <1>3, <2>6, <3>4, <4>3
    <3>. QED
      BY <3>5, <3>6
  <2>. QED
    BY <2>7, <2>8
<1>. QED
  BY <1>4, <1>5 DEF BridgeEvent

\* A receipt goes up: the dispatch it is for is resolved, any other is not.
LEMMA StepSendResult ==
    ASSUME DesktopInv, Quiet, sendResultFrame
    PROVE  DesktopInv'
<1>0. StreamInv /\ DispatchInv /\ FrameInv /\ ReceiptInv
  BY DEF DesktopInv
<1>1. /\ UNCHANGED <<call, screen, performed, minted, connections, heartbeat, streams,
                     events, down>>
      /\ UNCHANGED OutsideVars
      /\ app.reader = "sending" /\ app.stream # NoStream
  BY DEF sendResultFrame, SendFrame, OutsideApp, callVars, OutsideVars, bridgeVars
<1>2. \/ UNCHANGED <<pending, settled>>
      \/ app.receipt.id \in pending /\ Resolve(app.receipt.id, app.receipt.result)
  BY DEF sendResultFrame, SendFrame, routeFrame, handleResult, bridgeVars
<1>3. /\ app' = [stream |-> app'.stream, reader |-> app'.reader,
                 receipt |-> app'.receipt, attempt |-> app'.attempt]
      /\ app'.stream = app.stream
      /\ app'.reader \in {"reading", "sending", "returned"}
      /\ app'.reader = "sending" => app'.receipt = app.receipt
  <2>1. app' \in {App(app.stream, "returned"), App(app.stream, "reading"),
                  [app EXCEPT !.attempt = @ + 1]}
    BY DEF sendResultFrame
  <2>2. CASE app' \in {App(app.stream, "returned"), App(app.stream, "reading")}
    BY <2>2 DEF App
  <2>3. CASE app' = [app EXCEPT !.attempt = @ + 1]
    BY <1>0, <1>1, <2>3 DEF StreamInv
  <2>. QED
    BY <2>1, <2>2, <2>3
<1>4. StreamInv' /\ FrameInv'
  BY <1>1, <1>3, StreamsKeep
<1>5. DispatchInv' /\ \A r \in settled' : Performs(r)'
  <2>1. CASE UNCHANGED <<pending, settled>>
    <3>1. settled' = {}
      BY <2>1, QuietFacts
    <3>. QED
      BY <1>0, <1>1, <2>1, <3>1 DEF DispatchInv, Awaiting
  <2>2. CASE app.receipt.id \in pending /\ Resolve(app.receipt.id, app.receipt.result)
    <3>1. Awaiting /\ app.receipt.id = call.id
      BY <2>2, QuietFacts
    <3>2. Performs(app.receipt)
      BY <1>0, <1>1, <3>1 DEF ReceiptInv
    <3>3. Performs(Resolution(app.receipt.id, app.receipt.result))
      BY <3>2 DEF Performs, Resolution
    <3>. QED
      BY <1>1, <2>2, <3>3, ResolveKeeps
  <2>. QED
    BY <1>2, <2>1, <2>2
<1>6. ReceiptInv'
  BY <1>0, <1>1, <1>3, <1>5 DEF ReceiptInv, Performs, Awaiting
<1>. QED
  BY <1>1, <1>4, <1>5, <1>6, OutsideKeeps DEF DesktopInv

---------------------------------------------------------------------------
(* Steps of the planner and of the player's call. *)

\* The planner writes the registry: positions are given out in order.
LEMMA StepPlan ==
    ASSUME DesktopInv, Plan
    PROVE  /\ DesktopInv'
           /\ \A n \in DOMAIN hooks, m \in DOMAIN hooks' :
                IF m \in DOMAIN hooks THEN hooks'[m].order = hooks[m].order
                ELSE hooks'[m].order > hooks[n].order
<1>0. /\ CallInv /\ StreamInv /\ DispatchInv /\ FrameInv /\ WindowInv(screen) /\ ReceiptInv
      /\ PerformedInv /\ BoardInv /\ LogInv /\ HookInv
  BY DEF DesktopInv
<1>1. /\ UNCHANGED <<bridgeVars, gameVars, callVars, app, screen, performed>>
      /\ call.pc = "idle" /\ announced' = announced
  BY DEF Plan, executeSaoleiHook
<1>2. CallInv'
  BY <1>0, <1>1 DEF CallInv, Awaiting, bridgeVars, callVars
<1>3. StreamInv' /\ DispatchInv'
  BY <1>0, <1>1 DEF StreamInv, DispatchInv, Awaiting, bridgeVars, callVars
<1>4. FrameInv' /\ ReceiptInv'
  BY <1>0, <1>1 DEF FrameInv, ReceiptInv, Performs, Awaiting, bridgeVars, callVars
<1>5. WindowInv(screen)'
  BY <1>0, <1>1 DEF WindowInv, NumbersRight, ExplosionShown, CounterRight, Flags, AdjacentMines
<1>6. PerformedInv' /\ BoardInv'
  BY <1>0, <1>1
     DEF PerformedInv, BoardInv, BoardOfWindow, Flags, Awaiting, bridgeVars, callVars, gameVars
<1>7. LogInv'
  BY <1>0, <1>1 DEF LogInv, Ended, callVars, gameVars
<1>8. PICK args \in HookCalls :
        \/ args.action = "set" /\ set(args.name, args.script)
        \/ args.action = "remove" /\ remove(args.name)
  BY DEF Plan, executeSaoleiHook
<1>9. /\ nextOrder' \in Nat
      /\ \A n \in DOMAIN hooks' : hooks'[n].order \in 0..(nextOrder' - 1)
      /\ \A n \in DOMAIN hooks, m \in DOMAIN hooks' :
           IF m \in DOMAIN hooks THEN hooks'[m].order = hooks[m].order
           ELSE hooks'[m].order > hooks[n].order
  <2>0. nextOrder \in Nat /\ \A n \in DOMAIN hooks : hooks[n].order \in 0..(nextOrder - 1)
    BY <1>0 DEF HookInv
  <2>1. ASSUME set(args.name, args.script)
        PROVE  /\ nextOrder' \in Nat
               /\ \A n \in DOMAIN hooks' : hooks'[n].order \in 0..(nextOrder' - 1)
               /\ \A n \in DOMAIN hooks, m \in DOMAIN hooks' :
                    IF m \in DOMAIN hooks THEN hooks'[m].order = hooks[m].order
                    ELSE hooks'[m].order > hooks[n].order
    <3>. DEFINE name == args.name
    <3>1. PICK order \in {IF Registered(name) THEN hooks[name].order ELSE nextOrder} :
            hooks' = [n \in DOMAIN hooks \cup {name} |->
                        IF n = name THEN HookEntry(args.script, order) ELSE hooks[n]]
      BY <2>1 DEF set
    <3>2. nextOrder' = IF Registered(name) THEN nextOrder ELSE nextOrder + 1
      BY <2>1 DEF set
    <3>. HIDE DEF name
    <3>3. /\ DOMAIN hooks' = DOMAIN hooks \cup {name}
          /\ hooks'[name].order = order
          /\ \A n \in DOMAIN hooks : n # name => hooks'[n] = hooks[n]
      BY <3>1 DEF HookEntry
    <3>4. order = IF name \in DOMAIN hooks THEN hooks[name].order ELSE nextOrder
      BY DEF Registered
    <3>5. nextOrder' = IF name \in DOMAIN hooks THEN nextOrder ELSE nextOrder + 1
      BY <3>2 DEF Registered
    <3>6. CASE name \in DOMAIN hooks
      BY <2>0, <3>3, <3>4, <3>5, <3>6
    <3>7. CASE name \notin DOMAIN hooks
      BY <2>0, <3>3, <3>4, <3>5, <3>7
    <3>. QED
      BY <3>6, <3>7
  <2>2. ASSUME remove(args.name)
        PROVE  /\ nextOrder' \in Nat
               /\ \A n \in DOMAIN hooks' : hooks'[n].order \in 0..(nextOrder' - 1)
               /\ \A n \in DOMAIN hooks, m \in DOMAIN hooks' :
                    IF m \in DOMAIN hooks THEN hooks'[m].order = hooks[m].order
                    ELSE hooks'[m].order > hooks[n].order
    <3>1. hooks' = Restrict(hooks, DOMAIN hooks \ {args.name}) /\ nextOrder' = nextOrder
      BY <2>2 DEF remove
    <3>2. /\ DOMAIN hooks' \subseteq DOMAIN hooks
          /\ \A n \in DOMAIN hooks' : hooks'[n] = hooks[n]
      BY <3>1 DEF Restrict
    <3>. QED
      BY <2>0, <3>1, <3>2
  <2>. QED
    BY <1>8, <2>1, <2>2
<1>10. HookInv'
  BY <1>0, <1>1, <1>9 DEF HookInv, HooksHearTheBatch, callVars, gameVars
<1>. QED
  BY <1>2, <1>3, <1>4, <1>5, <1>6, <1>7, <1>9, <1>10 DEF DesktopInv

\* What a dispatch leaves: it awaits the id it minted, or 0; what it settled at
\* once is a failure; its frame is the last one of the registered stream.
LEMMA Dispatched ==
    ASSUME DesktopInv, settled = {}, pending = {}, NEW op \in Ops, NEW aborted,
           dispatch(op, aborted)
    PROVE  /\ UNCHANGED <<connections, heartbeat, streams, events>>
           /\ minted' \in Nat /\ minted' \in {minted, minted + 1}
           /\ AwaitedId \in {0, minted'}
           /\ AwaitedId # 0 => minted' = minted + 1
           /\ AwaitedId = 0 => minted' = minted
           /\ pending' # {} => /\ connections' # NoStream /\ pending' = {AwaitedId}
                               /\ AwaitedId # 0 /\ settled' = {}
           /\ \A r \in settled' : /\ r.id = AwaitedId /\ settled' = {r}
                                  /\ r.result.status = "FAILED"
           /\ \/ down' = down
              \/ /\ connections \in Streams /\ streams[connections] = "open"
                 /\ minted' = minted + 1
                 /\ down' = [down EXCEPT ![connections] = Append(@, FlowFrame(minted + 1, op))]
<1>0. minted \in Nat /\ connections \in Streams \cup {NoStream}
  BY DEF DesktopInv, CallInv, StreamInv
<1>1. \A id, message : /\ Resolution(id, Failed(message)).id = id
                       /\ Resolution(id, Failed(message)).result.status = "FAILED"
  BY DEF Resolution, Failed, OperationResult
<1>2. UNCHANGED <<connections, heartbeat, streams, events>>
  BY DEF dispatch
<1>3. ASSUME NEW message, settled' = settled \cup {Resolution(0, Failed(message))},
             UNCHANGED <<down, pending, minted>>
      PROVE  /\ AwaitedId = 0 /\ minted' = minted /\ down' = down /\ pending' = {}
             /\ \A r \in settled' : /\ r.id = AwaitedId /\ settled' = {r}
                                    /\ r.result.status = "FAILED"
  BY <1>1, <1>3 DEF AwaitedId
<1>5. CASE /\ isDesktopConnected /\ minted' = minted + 1 /\ pending' = pending \cup {minted'}
           /\ down' = Written(connections, FlowFrame(minted', op)) /\ UNCHANGED settled
  <2>1. AwaitedId = minted + 1 /\ connections \in Streams /\ connections # NoStream
    BY <1>0, <1>5 DEF AwaitedId, isDesktopConnected
  <2>2. \/ down' = down
        \/ /\ streams[connections] = "open"
           /\ down' = [down EXCEPT ![connections] = Append(@, FlowFrame(minted + 1, op))]
    BY <1>5 DEF Written
  <2>. QED
    BY <1>0, <1>2, <1>5, <2>1, <2>2
<1>6. ASSUME NEW message, minted' = minted + 1, UNCHANGED <<down, pending>>,
             settled' = settled \cup {Resolution(minted', Failed(message))}
      PROVE  /\ AwaitedId = minted' /\ minted' = minted + 1 /\ down' = down /\ pending' = {}
             /\ \A r \in settled' : /\ r.id = AwaitedId /\ settled' = {r}
                                    /\ r.result.status = "FAILED"
  <2>1. AwaitedId = minted'
    BY <1>0, <1>6 DEF AwaitedId
  <2>. QED
    BY <1>1, <1>6, <2>1
<1>7. \/ \E message : /\ settled' = settled \cup {Resolution(0, Failed(message))}
                      /\ UNCHANGED <<down, pending, minted>>
      \/ /\ isDesktopConnected /\ minted' = minted + 1 /\ pending' = pending \cup {minted'}
         /\ down' = Written(connections, FlowFrame(minted', op)) /\ UNCHANGED settled
      \/ \E message : /\ minted' = minted + 1 /\ UNCHANGED <<down, pending>>
                      /\ settled' = settled \cup {Resolution(minted', Failed(message))}
  BY Zenon DEF dispatch
<1>8. CASE \E message : /\ settled' = settled \cup {Resolution(0, Failed(message))}
                        /\ UNCHANGED <<down, pending, minted>>
  BY <1>0, <1>2, <1>3, <1>8
<1>9. CASE \E message : /\ minted' = minted + 1 /\ UNCHANGED <<down, pending>>
                        /\ settled' = settled \cup {Resolution(minted', Failed(message))}
  BY <1>0, <1>2, <1>6, <1>9
<1>. QED
  BY <1>5, <1>7, <1>8, <1>9

\* What the bridge and the application keep when a call dispatches.
LEMMA DispatchKeeps ==
    ASSUME DesktopInv, settled = {}, pending = {}, NEW op \in Ops, NEW aborted,
           dispatch(op, aborted), call'.pc = "await", call'.id = AwaitedId,
           call'.kind = "init" => op = KEY_F2, performed' \subseteq performed,
           UNCHANGED <<app, screen>>
    PROVE  StreamInv' /\ DispatchInv' /\ FrameInv' /\ ReceiptInv'
<1>0. /\ StreamInv /\ DispatchInv /\ FrameInv /\ ReceiptInv /\ minted \in Nat
      /\ performed \subseteq (call.first + 1)..minted /\ call.first \in Nat
  BY DEF DesktopInv, CallInv, PerformedInv, Idle, CallRecords
<1>1. /\ UNCHANGED <<connections, heartbeat, streams, events>>
      /\ minted' \in Nat /\ minted' \in {minted, minted + 1}
      /\ call'.id \in {0, minted'}
      /\ call'.id # 0 => minted' = minted + 1
      /\ pending' # {} => /\ connections' # NoStream /\ pending' = {call'.id}
                          /\ call'.id # 0 /\ settled' = {}
      /\ \A r \in settled' : /\ r.id = call'.id /\ settled' = {r}
                             /\ r.result.status = "FAILED"
      /\ \/ down' = down
         \/ /\ connections \in Streams /\ streams[connections] = "open"
            /\ minted' = minted + 1
            /\ down' = [down EXCEPT ![connections] = Append(@, FlowFrame(minted + 1, op))]
  BY Dispatched
<1>8. call'.id \notin 1..minted /\ 1..minted \subseteq 1..minted'
  <2>1. /\ minted' \in {minted, minted + 1}
        /\ call'.id \in {0, minted'}
        /\ call'.id # 0 => minted' = minted + 1
    BY <1>1
  <2>. QED
    BY <1>0, <2>1
<1>2. /\ down' \in [Streams -> Seq(Frames)]
      /\ \A s \in Streams :
           \/ down'[s] = down[s]
           \/ /\ streams[s] = "open" /\ minted' = minted + 1
              /\ down'[s] = Append(down[s], FlowFrame(minted + 1, op))
  <2>1. CASE down' = down
    BY <1>0, <2>1 DEF FrameInv
  <2>2. CASE /\ connections \in Streams /\ streams[connections] = "open"
             /\ minted' = minted + 1
             /\ down' = [down EXCEPT ![connections] = Append(@, FlowFrame(minted + 1, op))]
    <3>1. FlowFrame(minted + 1, op) \in Frames
      BY <1>0 DEF FlowFrame, Frames
    <3>. QED
      BY <1>0, <2>2, <3>1 DEF FrameInv
  <2>. QED
    BY <1>1, <2>1, <2>2
<1>3. ASSUME NEW s \in Streams, NEW i \in 1..Len(down'[s])
      PROVE  \/ i \in 1..Len(down[s]) /\ down'[s][i] = down[s][i]
             \/ /\ minted' = minted + 1 /\ i = Len(down[s]) + 1
                /\ down'[s][i].id = minted + 1 /\ down'[s][i].op = op
  <2>1. down[s] \in Seq(Frames)
    BY <1>0 DEF FrameInv
  <2>2. CASE down'[s] = down[s]
    BY <2>2
  <2>3. CASE /\ minted' = minted + 1
             /\ down'[s] = Append(down[s], FlowFrame(minted + 1, op))
    BY <2>1, <2>3 DEF FlowFrame
  <2>. QED
    BY <1>2, <2>2, <2>3
<1>4. StreamInv'
  <2>1. \A s \in Streams : streams[s] = "new" => down'[s] = down[s]
    BY <1>2
  <2>. QED
    BY <1>0, <1>1, <2>1 DEF StreamInv
<1>5. DispatchInv'
  BY <1>1 DEF DispatchInv, Awaiting
<1>6. FrameInv'
  <2>1. ASSUME NEW s \in Streams, NEW i \in 1..Len(down'[s])
        PROVE  /\ down'[s][i].id \in 1..minted'
               /\ \A j \in 1..Len(down'[s]) : i < j => down'[s][i].id < down'[s][j].id
               /\ (Awaiting' /\ call'.kind = "init" /\ down'[s][i].id = call'.id) =>
                    down'[s][i].op = KEY_F2
    <3>0. Len(down[s]) \in Nat
      BY <1>0 DEF FrameInv
    <3>1. \A k \in 1..Len(down[s]) : down[s][k].id \in 1..minted
      BY <1>0 DEF FrameInv
    <3>2. down'[s][i].id \in 1..minted'
      BY <1>0, <1>1, <1>3, <3>1
    <3>3. ASSUME NEW j \in 1..Len(down'[s]), i < j PROVE down'[s][i].id < down'[s][j].id
      <4>1. i \in 1..Len(down[s]) /\ down'[s][i] = down[s][i]
        BY <1>2, <1>3, <3>0, <3>3
      <4>2. CASE j \in 1..Len(down[s]) /\ down'[s][j] = down[s][j]
        BY <1>0, <3>3, <4>1, <4>2 DEF FrameInv
      <4>3. CASE down'[s][j].id = minted + 1
        BY <1>0, <3>1, <4>1, <4>3
      <4>. QED
        BY <1>3, <4>2, <4>3
    <3>4. (call'.kind = "init" /\ down'[s][i].id = call'.id) => down'[s][i].op = KEY_F2
      BY <1>3, <1>8, <3>1
    <3>. QED
      BY <3>2, <3>3, <3>4
  <2>2. ASSUME app.stream # NoStream, NEW i \in 1..Len(down'[app.stream]), NEW p \in performed
        PROVE  p < down'[app.stream][i].id
    <3>1. app.stream \in Streams
      BY <1>0, <2>2 DEF StreamInv
    <3>2. \A k \in 1..Len(down[app.stream]) : p < down[app.stream][k].id
      BY <1>0, <2>2 DEF FrameInv
    <3>3. p < minted + 1
      BY <1>0
    <3>4. \/ /\ i \in 1..Len(down[app.stream])
             /\ down'[app.stream][i] = down[app.stream][i]
          \/ down'[app.stream][i].id = minted + 1
      BY <1>3, <3>1
    <3>. QED
      BY <3>2, <3>3, <3>4
  <2>. QED
    BY <1>2, <2>1, <2>2 DEF FrameInv
<1>7. ReceiptInv'
  <2>1. \A r \in settled' : Performs(r)'
    BY <1>1 DEF Performs
  <2>2. app.reader = "sending" => app.receipt.id \in 1..minted
    BY <1>0 DEF ReceiptInv
  <2>3. app.reader = "sending" => app.receipt.id \in 1..minted' /\ app.receipt.id # call'.id
    BY <1>8, <2>2
  <2>. QED
    BY <2>1, <2>3 DEF ReceiptInv
<1>. QED
  BY <1>4, <1>5, <1>6, <1>7

\* No dispatch is in flight between two calls, or between two steps of one.
LEMMA NothingInFlight ==
    ASSUME DesktopInv, ~Awaiting
    PROVE  settled = {} /\ pending = {}
  BY DEF DesktopInv, DispatchInv

\* The player starts a game.
LEMMA StepInit ==
    ASSUME DesktopInv, saolei_init, performed' = {}, UNCHANGED <<app, screen>>
    PROVE  DesktopInv'
<1>0. /\ CallInv /\ BoardInv /\ LogInv /\ HookInv /\ WindowInv(screen)
      /\ minted \in Nat
  BY DEF DesktopInv, CallInv
<1>1. PICK aborted \in BOOLEAN :
        /\ dispatch(KEY_F2, aborted)
        /\ call' = [Call("init", <<>>, aborted) EXCEPT !.pc = "await", !.id = AwaitedId]
  BY DEF saolei_init
<1>2. /\ call.pc = "idle" /\ announced' = None /\ hooks' = hooks /\ nextOrder' = nextOrder
      /\ answer' = NoAnswer /\ recognized' = recognized /\ board' = board
      /\ initState' = initState /\ gameLog' = gameLog /\ gameEvent' = gameEvent
  BY DEF saolei_init, Begin, gameVars
<1>3. settled = {} /\ pending = {}
  BY <1>2, NothingInFlight DEF Awaiting
<1>4. KEY_F2 \in Ops
  BY DEF Ops
<1>5. PICK id : /\ id = AwaitedId
                /\ minted' \in Nat /\ minted' \in {minted, minted + 1}
                /\ id \in {0, minted'}
                /\ id # 0 => minted' = minted + 1
  BY <1>1, <1>3, <1>4, Dispatched
<1>6. /\ call'.pc = "await" /\ call'.kind = "init" /\ call'.id = AwaitedId
      /\ call'.first = minted /\ call'.ended = FALSE
  BY <1>1 DEF Call
<1>7. call' \in CallRecords
  <2>1. call' = [Call("init", <<>>, aborted) EXCEPT !.pc = "await", !.id = id]
    BY <1>1, <1>5
  <2>2. <<>> \in Seq(CellOperation) /\ id \in Nat
    BY <1>5
  <2>. QED
    BY <1>0, <2>1, <2>2 DEF Call, CallRecords
<1>8. CallInv'
  <2>1. call'.id = id
    BY <1>5, <1>6
  <2>. QED
    BY <1>0, <1>5, <1>6, <1>7, <2>1 DEF CallInv, Awaiting
<1>9. StreamInv' /\ DispatchInv' /\ FrameInv' /\ ReceiptInv'
  BY <1>1, <1>3, <1>4, <1>6, DispatchKeeps
<1>10. WindowInv(screen)'
  BY <1>0 DEF WindowInv, NumbersRight, ExplosionShown, CounterRight, Flags, AdjacentMines
<1>11. PerformedInv'
  BY <1>6 DEF PerformedInv, Awaiting
<1>12. BoardInv'
  BY <1>0, <1>2, <1>6 DEF BoardInv, BoardOfWindow, Flags, Awaiting
<1>13. LogInv'
  BY <1>0, <1>2, <1>6 DEF LogInv, Ended
<1>14. HookInv'
  BY <1>0, <1>2 DEF HookInv, HooksHearTheBatch, None
<1>. QED
  BY <1>8, <1>9, <1>10, <1>11, <1>12, <1>13, <1>14 DEF DesktopInv

\* The player asks for a batch.
LEMMA StepOperate ==
    ASSUME DesktopInv, saolei_operate, performed' = {}, UNCHANGED <<app, screen>>
    PROVE  DesktopInv'
<1>0. /\ CallInv /\ StreamInv /\ DispatchInv /\ FrameInv /\ ReceiptInv
      /\ BoardInv /\ LogInv /\ HookInv /\ WindowInv(screen) /\ minted \in Nat
  BY DEF DesktopInv, CallInv
<1>1. PICK ops \in Batches, aborted \in BOOLEAN :
        call' = Call("operate", ops, aborted) /\ ops # <<>>
  BY DEF saolei_operate
<1>2. /\ call.pc = "idle" /\ announced' = None /\ hooks' = hooks /\ nextOrder' = nextOrder
      /\ answer' = NoAnswer /\ recognized' = recognized /\ board' = board
      /\ initState' = initState /\ gameLog' = gameLog /\ gameEvent' = gameEvent
      /\ connections' = connections /\ heartbeat' = heartbeat /\ streams' = streams
      /\ events' = events /\ down' = down /\ pending' = pending /\ minted' = minted
      /\ settled' = settled
  BY DEF saolei_operate, Begin, gameVars, bridgeVars
<1>3. settled = {} /\ pending = {}
  BY <1>2, NothingInFlight DEF Awaiting
<1>4. /\ call'.pc = "step" /\ call'.kind = "operate" /\ call'.first = minted
      /\ call'.ended = FALSE /\ call'.executed = 0 /\ call'.next = 1 /\ call'.ops = ops
  BY <1>1 DEF Call
<1>5. ops \in Seq(CellOperation) /\ 1 \in 1..Len(ops)
  BY <1>1, GameAssumption
<1>6. call' \in CallRecords
  BY <1>0, <1>1, <1>5 DEF Call, CallRecords
<1>7. CallInv'
  BY <1>0, <1>2, <1>4, <1>5, <1>6 DEF CallInv, Awaiting
<1>8. StreamInv'
  BY <1>0, <1>2 DEF StreamInv
<1>9. DispatchInv'
  BY <1>2, <1>3 DEF DispatchInv
<1>10. FrameInv'
  BY <1>0, <1>2, <1>4 DEF FrameInv, Awaiting
<1>11. ReceiptInv'
  BY <1>0, <1>2, <1>3, <1>4 DEF ReceiptInv, Awaiting
<1>12. WindowInv(screen)'
  BY <1>0 DEF WindowInv, NumbersRight, ExplosionShown, CounterRight, Flags, AdjacentMines
<1>13. PerformedInv'
  BY <1>0, <1>2, <1>4 DEF PerformedInv, Awaiting
<1>14. BoardInv'
  BY <1>0, <1>2, <1>4 DEF BoardInv, BoardOfWindow, Flags, Awaiting
<1>15. LogInv'
  BY <1>0, <1>2, <1>4 DEF LogInv, Ended
<1>16. HookInv'
  BY <1>0, <1>2 DEF HookInv, HooksHearTheBatch, None
<1>. QED
  BY <1>7, <1>8, <1>9, <1>10, <1>11, <1>12, <1>13, <1>14, <1>15, <1>16 DEF DesktopInv

\* The bridge and the application keep what they have while the call goes on
\* between two awaits.
LEMMA BetweenKeeps ==
    ASSUME DesktopInv, UNCHANGED <<connections, heartbeat, streams, events, down, pending, minted>>,
           UNCHANGED <<app, screen, performed>>, pending = {}, settled' = {},
           call'.pc # "await"
    PROVE  StreamInv' /\ DispatchInv' /\ FrameInv' /\ ReceiptInv' /\ WindowInv(screen)'
<1>0. /\ StreamInv /\ DispatchInv /\ FrameInv /\ ReceiptInv /\ WindowInv(screen)
  BY DEF DesktopInv
<1>1. StreamInv'
  BY <1>0 DEF StreamInv
<1>2. DispatchInv'
  BY DEF DispatchInv
<1>3. FrameInv'
  BY <1>0 DEF FrameInv, Awaiting
<1>4. ReceiptInv'
  BY <1>0 DEF ReceiptInv, Awaiting
<1>5. WindowInv(screen)'
  BY <1>0 DEF WindowInv, NumbersRight, ExplosionShown, CounterRight, Flags, AdjacentMines
<1>. QED
  BY <1>1, <1>2, <1>3, <1>4, <1>5

\* A move is let through only in a game that goes on.
LEMMA ValidMove ==
    ASSUME NEW s, NEW op, validateMove(s, op) = "ok"
    PROVE  gameStatus(s) = "playing"
<1>1. ~isTerminalState(s) /\ ~isWin(s)
  BY DEF validateMove
<1>. QED
  BY <1>1 DEF gameStatus

\* The batch takes its next operation.
LEMMA StepOperation ==
    ASSUME DesktopInv, executeOperation, UNCHANGED desktopVars
    PROVE  DesktopInv'
<1>0. /\ CallInv /\ PerformedInv /\ BoardInv /\ LogInv /\ HookInv /\ WindowInv(screen)
      /\ minted \in Nat
  BY DEF DesktopInv, CallInv
<1>1. /\ call.pc = "step" /\ hooks' = hooks /\ nextOrder' = nextOrder /\ announced' = announced
      /\ answer' = answer /\ recognized' = recognized /\ board' = board
      /\ initState' = initState /\ gameLog' = gameLog /\ gameEvent' = gameEvent
      /\ app' = app /\ screen' = screen /\ performed' = performed
  BY DEF executeOperation, gameVars, hookVars, desktopVars
<1>2. settled = {} /\ pending = {}
  BY <1>1, NothingInFlight DEF Awaiting
<1>3. /\ call \in CallRecords /\ call.kind = "operate" /\ call.next \in 1..Len(call.ops)
      /\ call.ops \in Seq(CellOperation) /\ call.first \in Nat /\ call.first <= minted
      /\ call.ended = FALSE
  BY <1>0, <1>1 DEF CallInv, BoardInv, Idle, CallRecords
<1>4. PICK verdict :
        /\ verdict = IF recognized = NoBoard THEN "no_active_game"
                     ELSE validateMove(recognized, Op)
        /\ \/ /\ verdict \in SKIP_REASONS
              /\ call' = [call EXCEPT !.skipped = @ + 1, !.pc = AfterOp, !.next = @ + 1]
              /\ UNCHANGED bridgeVars
           \/ /\ verdict \in STOP_REASONS
              /\ call' = [call EXCEPT !.stopped = verdict, !.pc = "finish"]
              /\ UNCHANGED bridgeVars
           \/ /\ verdict = "ok"
              /\ dispatch(mouseMoveAndClick(Op), call.aborted)
              /\ call' = [call EXCEPT !.pc = "await", !.id = AwaitedId]
  BY DEF executeOperation
<1>5. WindowInv(screen)'
  BY <1>0, <1>1 DEF WindowInv, NumbersRight, ExplosionShown, CounterRight, Flags, AdjacentMines
<1>6. ASSUME UNCHANGED bridgeVars, call' \in CallRecords, call'.pc \in {"step", "finish"},
             call'.kind = "operate", call'.first = call.first, call'.ended = FALSE,
             call'.executed = call.executed,
             call'.pc = "step" => call'.next \in 1..Len(call'.ops)
      PROVE  DesktopInv'
  <2>1. UNCHANGED <<connections, heartbeat, streams, events, down, pending, minted, settled>>
    BY <1>6 DEF bridgeVars
  <2>2. StreamInv' /\ DispatchInv' /\ FrameInv' /\ ReceiptInv'
    BY <1>1, <1>2, <1>6, <2>1, BetweenKeeps
  <2>3. CallInv'
    BY <1>0, <1>3, <1>6, <2>1 DEF CallInv, Awaiting
  <2>4. PerformedInv'
    BY <1>0, <1>1, <1>6, <2>1 DEF PerformedInv, Awaiting
  <2>5. BoardInv'
    BY <1>0, <1>1, <1>6 DEF BoardInv, BoardOfWindow, Flags, Awaiting
  <2>6. LogInv'
    BY <1>0, <1>1, <1>6 DEF LogInv, Ended
  <2>7. HookInv'
    BY <1>0, <1>1 DEF HookInv, HooksHearTheBatch
  <2>. QED
    BY <1>5, <2>2, <2>3, <2>4, <2>5, <2>6, <2>7 DEF DesktopInv
<1>7. CASE /\ call' = [call EXCEPT !.skipped = @ + 1, !.pc = AfterOp, !.next = @ + 1]
           /\ UNCHANGED bridgeVars
  <2>0. Len(call.ops) \in Nat
    BY <1>3
  <2>1. AfterOp \in {"step", "finish"} /\ (AfterOp = "step" => call.next + 1 \in 1..Len(call.ops))
    <3>1. CASE call.next = Len(call.ops)
      BY <3>1 DEF AfterOp
    <3>2. CASE call.next # Len(call.ops)
      <4>1. AfterOp = "step"
        BY <3>2 DEF AfterOp
      <4>. QED
        BY <1>3, <2>0, <3>2, <4>1
    <3>. QED
      BY <3>1, <3>2
  <2>2. PICK pc \in {"step", "finish"} : pc = AfterOp
    BY <2>1
  <2>3. call' = [call EXCEPT !.skipped = @ + 1, !.pc = pc, !.next = @ + 1]
    BY <1>7, <2>2
  <2>4. /\ call'.pc = pc /\ call'.kind = call.kind /\ call'.first = call.first
        /\ call'.ended = call.ended /\ call'.executed = call.executed
        /\ call'.next = call.next + 1 /\ call'.ops = call.ops
    BY <1>3, <2>3 DEF CallRecords
  <2>5. call.skipped + 1 \in Nat /\ call.next + 1 \in Nat
    BY <1>3 DEF CallRecords
  <2>6. call' \in CallRecords
    BY <1>3, <2>3, <2>5 DEF CallRecords
  <2>. QED
    BY <1>3, <1>6, <1>7, <2>1, <2>2, <2>4, <2>6
<1>8. CASE /\ verdict \in STOP_REASONS
           /\ call' = [call EXCEPT !.stopped = verdict, !.pc = "finish"]
           /\ UNCHANGED bridgeVars
  <2>1. /\ call' \in CallRecords
        /\ call'.pc = "finish" /\ call'.kind = call.kind /\ call'.first = call.first
        /\ call'.ended = call.ended /\ call'.executed = call.executed
    BY <1>3, <1>8 DEF CallRecords
  <2>. QED
    BY <1>3, <1>6, <1>8, <2>1
<1>9. CASE /\ verdict = "ok"
           /\ dispatch(mouseMoveAndClick(Op), call.aborted)
           /\ call' = [call EXCEPT !.pc = "await", !.id = AwaitedId]
  <2>1. mouseMoveAndClick(Op) \in Ops
    BY <1>3 DEF Ops, Op
  <2>2. PICK id : /\ id = AwaitedId
                  /\ minted' \in Nat /\ minted' \in {minted, minted + 1}
                  /\ id \in {0, minted'}
                  /\ id # 0 => minted' = minted + 1
    BY <1>2, <1>9, <2>1, Dispatched
  <2>3. /\ call' = [call EXCEPT !.pc = "await", !.id = id] /\ id \in Nat
    BY <1>9, <2>2
  <2>4. /\ call' \in CallRecords /\ call'.pc = "await" /\ call'.kind = "operate"
        /\ call'.id = id /\ call'.first = call.first /\ call'.ended = FALSE
        /\ call'.executed = call.executed /\ call'.next = call.next /\ call'.ops = call.ops
    BY <1>3, <2>3 DEF CallRecords
  <2>5. StreamInv' /\ DispatchInv' /\ FrameInv' /\ ReceiptInv'
    BY <1>1, <1>2, <1>9, <2>1, <2>2, <2>4, DispatchKeeps
  <2>6. CallInv'
    BY <1>0, <1>3, <2>2, <2>4 DEF CallInv, Awaiting
  <2>7. PerformedInv'
    <3>1. performed = (call.first + 1)..minted /\ call.executed = minted - call.first
      BY <1>0, <1>1 DEF PerformedInv
    <3>2. performed' \subseteq (call'.first + 1)..minted'
      BY <1>0, <1>1, <1>3, <2>2, <2>4, <3>1
    <3>3. id # 0 => /\ (call'.first + 1)..(minted' - 1) \subseteq performed'
                    /\ call'.executed = minted' - 1 - call'.first
      BY <1>0, <1>1, <1>3, <2>2, <2>4, <3>1
    <3>. QED
      BY <2>4, <3>2, <3>3 DEF PerformedInv, Awaiting
  <2>8. recognized # NoBoard /\ gameStatus(recognized) = "playing"
    BY <1>4, <1>9, ValidMove
  <2>9. BoardInv'
    BY <1>0, <1>1, <2>4, <2>8
       DEF BoardInv, BoardOfWindow, Flags, Awaiting, gameStatus, isTerminalState, isWin
  <2>10. LogInv'
    BY <1>0, <1>1, <2>4 DEF LogInv, Ended
  <2>11. HookInv'
    BY <1>0, <1>1 DEF HookInv, HooksHearTheBatch
  <2>. QED
    BY <1>5, <2>5, <2>6, <2>7, <2>9, <2>10, <2>11 DEF DesktopInv
<1>. QED
  BY <1>4, <1>7, <1>8, <1>9

\* The receipt a call resumes with was its own, and nothing is in flight any more.
LEMMA Resumed ==
    ASSUME DesktopInv, NEW r \in settled
    PROVE  /\ Awaiting /\ r.id = call.id /\ settled \ {r} = {} /\ pending = {}
           /\ Performs(r) /\ call \in CallRecords /\ call.first \in Nat
           /\ minted \in Nat /\ call.first <= minted /\ ~call.ended
  BY DEF DesktopInv, CallInv, DispatchInv, ReceiptInv, BoardInv, Awaiting, Idle, CallRecords

\* The call is answered with anything but a batch.
LEMMA AnsweredKeeps ==
    ASSUME DesktopInv, NEW r \in settled, settled' = settled \ {r}, NEW a, Answered(a),
           a.kind # "operated",
           UNCHANGED <<connections, heartbeat, streams, events, down, pending, minted>>,
           UNCHANGED <<desktopVars, hookVars>>
    PROVE  /\ CallInv' /\ StreamInv' /\ DispatchInv' /\ FrameInv' /\ WindowInv(screen)'
           /\ ReceiptInv' /\ PerformedInv'
           /\ call'.pc = "idle" /\ call'.first = call.first /\ answer' = a
           /\ nextOrder' \in Nat /\ \A n \in DOMAIN hooks' : hooks'[n].order \in 0..(nextOrder' - 1)
           /\ DOMAIN announced' = {}
<1>0. PerformedInv /\ HookInv
  BY DEF DesktopInv
<1>1. /\ settled' = {} /\ pending = {} /\ minted \in Nat /\ call.first \in Nat
      /\ call.first <= minted /\ call.pc = "await"
  BY Resumed DEF Awaiting
<1>2. call' = Idle(call.first) /\ call'.pc = "idle" /\ call'.first = call.first /\ answer' = a
  BY DEF Answered, Idle
<1>3. app' = app /\ screen' = screen /\ performed' = performed
  BY DEF desktopVars
<1>4. StreamInv' /\ DispatchInv' /\ FrameInv' /\ ReceiptInv' /\ WindowInv(screen)'
  BY <1>1, <1>2, <1>3, BetweenKeeps
<1>5. CallInv'
  BY <1>1, <1>2 DEF CallInv, Awaiting
<1>6. PerformedInv'
  BY <1>0, <1>1, <1>2, <1>3 DEF PerformedInv, Awaiting
<1>7. /\ nextOrder' \in Nat
      /\ \A n \in DOMAIN hooks' : hooks'[n].order \in 0..(nextOrder' - 1)
      /\ DOMAIN announced' = {}
  BY <1>0, <1>1 DEF HookInv, hookVars
<1>. QED
  BY <1>2, <1>4, <1>5, <1>6, <1>7

\* The dispatch failed: the call is answered, the game is as it was.
LEMMA StepFailed ==
    ASSUME DesktopInv, dispatchFailed, UNCHANGED desktopVars
    PROVE  DesktopInv'
<1>0. BoardInv /\ LogInv
  BY DEF DesktopInv
<1>1. PICK r \in settled : settled' = settled \ {r} /\ Answered(Failure)
  BY DEF dispatchFailed
<1>2. /\ UNCHANGED <<connections, heartbeat, streams, events, down, pending, minted>>
      /\ UNCHANGED hookVars
      /\ recognized' = recognized /\ board' = board
      /\ initState' = initState /\ gameLog' = gameLog /\ gameEvent' = gameEvent
  BY DEF dispatchFailed, gameVars
<1>3. Failure.kind # "operated"
  BY DEF Failure
<1>4. /\ CallInv' /\ StreamInv' /\ DispatchInv' /\ FrameInv' /\ WindowInv(screen)'
      /\ ReceiptInv' /\ PerformedInv' /\ call'.pc = "idle" /\ answer' = Failure
      /\ nextOrder' \in Nat /\ \A n \in DOMAIN hooks' : hooks'[n].order \in 0..(nextOrder' - 1)
      /\ DOMAIN announced' = {}
  BY <1>1, <1>2, <1>3, AnsweredKeeps
<1>5. BoardInv'
  BY <1>0, <1>2, <1>3, <1>4 DEF BoardInv, BoardOfWindow, Flags, Awaiting
<1>6. LogInv'
  BY <1>0, <1>2, <1>4 DEF LogInv, Ended
<1>7. HookInv'
  BY <1>4 DEF HookInv, HooksHearTheBatch
<1>. QED
  BY <1>4, <1>5, <1>6, <1>7 DEF DesktopInv

\* A new game's board, when its counter could be read, tells the mines.
LEMMA NewBoardRead ==
    ASSUME NEW w \in NewScreens, NEW b \in {Seen(w)} \cup Misread(w), b # NoBoard
    PROVE  /\ BoardOfWindow(b) /\ b.grid = w.grid
           /\ b.mineCounter.decoded => b.mineCounter.value = MineCount
<1>1. WindowInv(w) /\ Flags(w) = {}
  BY NewWindow
<1>2. BoardOfWindow(b) /\ b.grid = w.grid
  BY <1>1, BoardRead
<1>3. Flags(b) = {} /\ Cardinality(Flags(b)) = 0
  BY <1>1, <1>2, FS_EmptySet DEF Flags
<1>4. Shown(MineCount - 0) = MineCount
  BY BoardAssumption DEF Shown
<1>5. b.mineCounter \in {Undecoded, Decoded(MineCount)}
  BY <1>2, <1>3, <1>4 DEF BoardOfWindow
<1>. QED
  BY <1>2, <1>5 DEF Undecoded, Decoded

\* The game's first screenshot is read.
LEMMA StepInitRecognized ==
    ASSUME DesktopInv, initRecognized, UNCHANGED desktopVars
    PROVE  /\ DesktopInv'
           /\ recognized' # NoBoard => BoardOfWindow(recognized') /\ recognized'.grid = screen.grid
<1>0. BoardInv /\ LogInv
  BY DEF DesktopInv
<1>1. PICK r \in settled :
        /\ r.id = call.id /\ r.result.status # "FAILED" /\ settled' = settled \ {r}
        /\ \/ /\ r.result.screenshot = NoShot
              /\ recognized' = NoBoard
              /\ Answered(Unrecognizable)
              /\ UNCHANGED <<board, initState, operationsByType, gameLog, gameEvent, faults>>
           \/ /\ r.result.screenshot # NoShot
              /\ \E seen \in {Seen(r.result.screenshot)} \cup Misread(r.result.screenshot) :
                   /\ recognize(r.result.screenshot, seen)
                   /\ recognized' = seen
                   /\ IF seen = NoBoard
                        THEN /\ Answered(Unrecognizable)
                             /\ UNCHANGED <<board, initState, operationsByType, gameLog>>
                        ELSE /\ board' = seen
                             /\ initState' = seen
                             /\ operationsByType' = NoneByType
                             /\ gameLog' = <<GameLogEntry("saolei_init", seen, "playing")>>
                             /\ Answered(Started(concludeMarker(seen)))
              /\ UNCHANGED gameEvent
  BY DEF initRecognized
<1>2. /\ UNCHANGED <<connections, heartbeat, streams, events, down, pending, minted>>
      /\ UNCHANGED hookVars /\ call.kind = "init" /\ screen' = screen
  BY DEF initRecognized, desktopVars
<1>3. PICK a : Answered(a) /\ a.kind \in {"unrecognizable", "started"}
  <2>1. /\ Unrecognizable.kind = "unrecognizable"
        /\ \A concludes : Started(concludes).kind = "started"
    BY DEF Unrecognizable, Started
  <2>2. Answered(Unrecognizable) \/ \E concludes : Answered(Started(concludes))
    BY <1>1, Zenon
  <2>. QED
    BY <2>1, <2>2
<1>4. /\ CallInv' /\ StreamInv' /\ DispatchInv' /\ FrameInv' /\ WindowInv(screen)'
      /\ ReceiptInv' /\ PerformedInv' /\ call'.pc = "idle" /\ answer' = a
      /\ nextOrder' \in Nat /\ \A n \in DOMAIN hooks' : hooks'[n].order \in 0..(nextOrder' - 1)
      /\ DOMAIN announced' = {}
  BY <1>1, <1>2, <1>3, AnsweredKeeps
<1>5. HookInv'
  BY <1>4 DEF HookInv, HooksHearTheBatch
<1>6. \/ /\ recognized' = NoBoard
         /\ UNCHANGED <<board, initState, gameLog, gameEvent>>
      \/ \E seen \in {Seen(screen)} \cup Misread(screen) :
           /\ seen # NoBoard /\ recognized' = seen /\ board' = seen /\ initState' = seen
           /\ gameLog' = <<GameLogEntry("saolei_init", seen, "playing")>>
           /\ gameEvent' = gameEvent
  <2>1. r.result.screenshot \in {NoShot, screen}
    BY <1>1, Resumed DEF Performs
  <2>. QED
    BY <1>1, <2>1, Zenon
<1>7. CASE /\ recognized' = NoBoard
           /\ UNCHANGED <<board, initState, gameLog, gameEvent>>
  <2>1. BoardInv'
    BY <1>0, <1>3, <1>4, <1>7 DEF BoardInv, BoardOfWindow, Flags, Awaiting
  <2>2. LogInv'
    BY <1>0, <1>4, <1>7 DEF LogInv, Ended
  <2>. QED
    BY <1>4, <1>5, <1>7, <2>1, <2>2 DEF DesktopInv
<1>8. CASE \E seen \in {Seen(screen)} \cup Misread(screen) :
             /\ seen # NoBoard /\ recognized' = seen /\ board' = seen /\ initState' = seen
             /\ gameLog' = <<GameLogEntry("saolei_init", seen, "playing")>>
             /\ gameEvent' = gameEvent
  <2>1. PICK seen \in {Seen(screen)} \cup Misread(screen) :
             /\ seen # NoBoard /\ recognized' = seen /\ board' = seen /\ initState' = seen
             /\ gameLog' = <<GameLogEntry("saolei_init", seen, "playing")>>
             /\ gameEvent' = gameEvent
    BY <1>8
  <2>2. screen \in NewScreens
    BY <1>1, <1>2, Resumed DEF Performs
  <2>3. /\ BoardOfWindow(seen) /\ seen.grid = screen.grid
        /\ seen.mineCounter.decoded => seen.mineCounter.value = MineCount
    BY <2>1, <2>2, NewBoardRead
  <2>4. gameLog' # <<>> /\ Len(gameLog') = 1 /\ gameLog' \in Seq(LogEntries) /\ ~Ended(1)'
    <3>1. GameLogEntry("saolei_init", seen, "playing") \in LogEntries
      BY <2>3 DEF GameLogEntry, LogEntries, BoardOfWindow
    <3>2. GameLogEntry("saolei_init", seen, "playing").tool = "saolei_init"
      BY DEF GameLogEntry
    <3>. QED
      BY <2>1, <3>1, <3>2 DEF Ended
  <2>5. BoardOfWindow(seen)'
    BY <2>3 DEF BoardOfWindow, Flags
  <2>6. BoardInv'
    BY <1>3, <1>4, <2>1, <2>3, <2>4, <2>5 DEF BoardInv, Awaiting
  <2>7. LogInv'
    BY <1>0, <2>1, <2>4 DEF LogInv
  <2>. QED
    BY <1>4, <1>5, <2>1, <2>3, <2>6, <2>7 DEF DesktopInv
<1>. QED
  BY <1>6, <1>7, <1>8

\* The statuses of a game.
LEMMA GameStatuses == \A s : gameStatus(s) \in {"playing", "won", "lost"}
  BY DEF gameStatus

\* A screenshot of the game is read: what was revealed is still there.
LEMMA StepOperationRecognized ==
    ASSUME DesktopInv, operationRecognized, UNCHANGED desktopVars
    PROVE  /\ DesktopInv'
           /\ recognized' # NoBoard =>
                /\ BoardOfWindow(recognized') /\ recognized'.grid = screen.grid
                /\ \A c \in Cells : recognized.grid[c] \in REVEALED =>
                                      recognized'.grid[c] = recognized.grid[c]
<1>0. /\ BoardInv /\ LogInv /\ PerformedInv /\ HookInv /\ CallInv
  BY DEF DesktopInv
<1>1. PICK r \in settled :
        /\ r.id = call.id /\ r.result.status # "FAILED" /\ settled' = settled \ {r}
        /\ \/ /\ r.result.screenshot = NoShot
              /\ recognized' = NoBoard
              /\ Answered(Unrecognizable)
              /\ UNCHANGED <<board, operationsByType, faults>>
           \/ /\ r.result.screenshot # NoShot
              /\ \E seen \in {Seen(r.result.screenshot)} \cup Misread(r.result.screenshot) :
                   LET state == Update(seen)
                   IN /\ recognize(r.result.screenshot, seen)
                      /\ recognized' = state
                      /\ IF state = NoBoard
                           THEN /\ Answered(Unrecognizable)
                                /\ UNCHANGED <<board, operationsByType>>
                           ELSE /\ board' = state
                                /\ operationsByType' = [operationsByType EXCEPT ![Op.type] = @ + 1]
                                /\ call' = [call EXCEPT
                                     !.executed = @ + 1, !.next = @ + 1, !.id = 0,
                                     !.ended = gameStatus(state) # "playing",
                                     !.stopped = IF gameStatus(state) = "playing" THEN @
                                                 ELSE gameStatus(state),
                                     !.pc = IF gameStatus(state) = "playing" THEN AfterOp
                                            ELSE "finish"]
                                /\ UNCHANGED answer
  BY DEF operationRecognized
<1>2. /\ UNCHANGED <<connections, heartbeat, streams, events, down, pending, minted>>
      /\ UNCHANGED hookVars /\ call.kind = "operate" /\ call.pc = "await"
      /\ screen' = screen /\ app' = app /\ performed' = performed
      /\ initState' = initState /\ gameLog' = gameLog /\ gameEvent' = gameEvent
  BY DEF operationRecognized, desktopVars
<1>3. /\ settled' = {} /\ pending = {} /\ Performs(r) /\ call \in CallRecords
      /\ call.first \in Nat /\ minted \in Nat /\ call.first <= minted
  BY <1>1, Resumed
<1>4. \/ /\ recognized' = NoBoard /\ board' = board
         /\ Answered(Unrecognizable)
      \/ \E seen \in {Seen(screen)} \cup Misread(screen) :
           /\ Update(seen) # NoBoard
           /\ recognized' = Update(seen) /\ board' = Update(seen)
           /\ call' = [call EXCEPT
                !.executed = @ + 1, !.next = @ + 1, !.id = 0,
                !.ended = gameStatus(Update(seen)) # "playing",
                !.stopped = IF gameStatus(Update(seen)) = "playing" THEN @
                            ELSE gameStatus(Update(seen)),
                !.pc = IF gameStatus(Update(seen)) = "playing" THEN AfterOp ELSE "finish"]
           /\ answer' = answer
  <2>1. r.result.screenshot \in {NoShot, screen}
    BY <1>1, <1>3 DEF Performs
  <2>. QED
    BY <1>1, <2>1, Zenon
<1>5. CASE recognized' = NoBoard /\ board' = board /\ Answered(Unrecognizable)
  <2>1. Unrecognizable.kind # "operated"
    BY DEF Unrecognizable
  <2>2. /\ CallInv' /\ StreamInv' /\ DispatchInv' /\ FrameInv' /\ WindowInv(screen)'
        /\ ReceiptInv' /\ PerformedInv' /\ call'.pc = "idle" /\ answer' = Unrecognizable
        /\ nextOrder' \in Nat /\ \A n \in DOMAIN hooks' : hooks'[n].order \in 0..(nextOrder' - 1)
        /\ DOMAIN announced' = {}
    BY <1>1, <1>2, <1>5, <2>1, AnsweredKeeps
  <2>3. BoardInv'
    BY <1>0, <1>2, <1>5, <2>1, <2>2 DEF BoardInv, BoardOfWindow, Flags, Awaiting
  <2>4. LogInv'
    BY <1>0, <1>2, <1>5, <2>2 DEF LogInv, Ended
  <2>5. HookInv'
    BY <2>2 DEF HookInv, HooksHearTheBatch
  <2>. QED
    BY <1>5, <2>2, <2>3, <2>4, <2>5 DEF DesktopInv
<1>6. ASSUME NEW seen \in {Seen(screen)} \cup Misread(screen),
             Update(seen) # NoBoard,
             recognized' = Update(seen), board' = Update(seen), answer' = answer,
             call' = [call EXCEPT
                !.executed = @ + 1, !.next = @ + 1, !.id = 0,
                !.ended = gameStatus(Update(seen)) # "playing",
                !.stopped = IF gameStatus(Update(seen)) = "playing" THEN @
                            ELSE gameStatus(Update(seen)),
                !.pc = IF gameStatus(Update(seen)) = "playing" THEN AfterOp ELSE "finish"]
      PROVE  /\ DesktopInv'
             /\ BoardOfWindow(seen) /\ recognized' = seen /\ seen.grid = screen.grid
             /\ \A c \in Cells : recognized.grid[c] \in REVEALED =>
                                   seen.grid[c] = recognized.grid[c]
  <2>1. Update(seen) = seen /\ seen # NoBoard /\ checkCompatible(board, seen)
    BY <1>6 DEF Update
  <2>2. BoardOfWindow(seen) /\ seen.grid = screen.grid
    BY <2>1, BoardRead DEF DesktopInv
  <2>3. recognized # NoBoard /\ recognized = board /\ gameStatus(recognized) = "playing"
        /\ BoardOfWindow(board) /\ initState # NoBoard /\ gameLog # <<>>
    BY <1>0, <1>2 DEF BoardInv, Awaiting
  <2>4. ASSUME NEW c \in Cells, recognized.grid[c] \in REVEALED
        PROVE  seen.grid[c] = recognized.grid[c]
    <3>1. board.grid \in [Cells -> ScreenStatus] /\ seen.grid \in [Cells -> ScreenStatus]
      BY <2>2, <2>3 DEF BoardOfWindow, Boards
    <3>2. compatibleCell(board.grid[c], seen.grid[c])
      BY <2>1, <3>1 DEF checkCompatible
    <3>3. board.grid[c] # "UNKNOWN" /\ seen.grid[c] # "UNKNOWN"
      BY <3>1 DEF ScreenStatus
    <3>. QED
      BY <2>3, <2>4, <3>2, <3>3 DEF compatibleCell
  <2>5. PICK status \in {"playing", "won", "lost"} : status = gameStatus(seen)
    BY GameStatuses
  <2>6. PICK pc \in {"step", "finish"} :
          /\ pc = IF status = "playing" THEN AfterOp ELSE "finish"
          /\ pc = "step" => call.next # Len(call.ops)
    BY DEF AfterOp
  <2>7. call' = [call EXCEPT !.executed = @ + 1, !.next = @ + 1, !.id = 0,
                   !.ended = status # "playing",
                   !.stopped = IF status = "playing" THEN @ ELSE status, !.pc = pc]
    BY <1>6, <2>1, <2>5, <2>6, Zenon
  <2>8. /\ call'.executed = call.executed + 1 /\ call'.next = call.next + 1
        /\ call'.ended = (status # "playing") /\ call'.pc = pc /\ call'.kind = call.kind
        /\ call'.stopped = (IF status = "playing" THEN call.stopped ELSE status)
        /\ call'.ops = call.ops /\ call'.first = call.first
    BY <1>3, <2>7 DEF CallRecords
  <2>9. call' \in CallRecords
    <3>1. call.executed + 1 \in Nat /\ call.next + 1 \in Nat
      BY <1>3 DEF CallRecords
    <3>2. PICK stopped \in {"none", "won", "lost"} \cup STOP_REASONS, ended \in BOOLEAN :
            /\ stopped = IF status = "playing" THEN call.stopped ELSE status
            /\ ended = (status # "playing")
      BY <1>3 DEF CallRecords
    <3>3. call' = [call EXCEPT !.executed = call.executed + 1, !.next = call.next + 1, !.id = 0,
                     !.ended = ended, !.stopped = stopped, !.pc = pc]
      BY <2>7, <3>2
    <3>. QED
      BY <1>3, <3>1, <3>3 DEF CallRecords
  <2>10. /\ StreamInv' /\ DispatchInv' /\ FrameInv' /\ ReceiptInv' /\ WindowInv(screen)'
    BY <1>2, <1>3, <2>8, BetweenKeeps
  <2>11. CallInv'
    <3>1. call.next \in 1..Len(call.ops) /\ Len(call.ops) \in Nat
      BY <1>0, <1>2, <1>3 DEF CallInv, Awaiting, CallRecords
    <3>2. pc = "step" => call'.next \in 1..Len(call'.ops)
      BY <2>6, <2>8, <3>1
    <3>. QED
      BY <1>2, <1>3, <2>8, <2>9, <3>2 DEF CallInv, Awaiting
  <2>12. PerformedInv'
    <3>1. r.id \in performed /\ r.id = call.id
      BY <1>1, <1>3 DEF Performs
    <3>2. performed \subseteq (call.first + 1)..minted
      BY <1>0 DEF PerformedInv
    <3>3. call.id # 0 /\ call.id \in {0, minted}
      BY <1>0, <1>2, <1>3, <3>1, <3>2 DEF CallInv, Awaiting
    <3>4. /\ (call.first + 1)..(minted - 1) \subseteq performed
          /\ call.executed = minted - 1 - call.first
      BY <1>0, <1>2, <3>3 DEF PerformedInv, Awaiting
    <3>5. performed = (call.first + 1)..minted
      <4>1. minted \in performed
        BY <3>1, <3>3
      <4>2. ASSUME NEW p \in (call.first + 1)..minted PROVE p \in performed
        <5>1. p = minted \/ p \in (call.first + 1)..(minted - 1)
          BY <1>3
        <5>. QED
          BY <3>4, <4>1, <5>1
      <4>. QED
        BY <3>2, <4>2
    <3>6. call'.executed = minted - call.first
      BY <1>3, <2>8, <3>4
    <3>. QED
      BY <1>2, <2>8, <3>5, <3>6 DEF PerformedInv, Awaiting
  <2>13. BoardInv'
    <3>1. BoardOfWindow(seen)' /\ BoardOfWindow(board') /\ recognized' = board'
      BY <1>6, <2>1, <2>2 DEF BoardOfWindow, Flags
    <3>2. board' # NoBoard => BoardOfWindow(board)' /\ initState' # NoBoard /\ gameLog' # <<>>
      BY <1>2, <1>6, <2>1, <2>2, <2>3 DEF BoardOfWindow, Flags
    <3>3. initState' # NoBoard =>
            /\ BoardOfWindow(initState)'
            /\ initState'.mineCounter.decoded => initState'.mineCounter.value = MineCount
      BY <1>0, <1>2 DEF BoardInv, BoardOfWindow, Flags
    <3>4. gameStatus(recognized)' = status
      BY <1>6, <2>1, <2>5 DEF gameStatus, isTerminalState, isWin
    <3>5. recognized' # NoBoard /\ recognized'.grid = screen'.grid
      BY <1>2, <1>6, <2>1, <2>2
    <3>6. call'.pc = "step" => ~call'.ended
      BY <2>6, <2>8
    <3>7. call'.pc = "finish" /\ call'.ended =>
            /\ gameStatus(recognized)' \in {"won", "lost"}
            /\ call'.stopped = gameStatus(recognized)'
      BY <2>8, <3>4
    <3>8. call'.pc \in {"step", "finish"}
      BY <2>8
    <3>. QED
      BY <3>1, <3>2, <3>3, <3>5, <3>6, <3>7, <3>8 DEF BoardInv, Awaiting
  <2>14. LogInv'
    <3>1. \A i \in 1..Len(gameLog) : ~Ended(i)
      BY <1>0, <2>3 DEF LogInv
    <3>. QED
      BY <1>0, <1>2, <3>1 DEF LogInv, Ended
  <2>15. HookInv'
    BY <1>0, <1>2 DEF HookInv, hookVars, HooksHearTheBatch
  <2>. QED
    BY <1>6, <2>1, <2>2, <2>4, <2>10, <2>11, <2>12, <2>13, <2>14, <2>15 DEF DesktopInv
<1>. QED
  BY <1>4, <1>5, <1>6

\* The statistics of an ended game are those of the window.
LEMMA StatsOfTheEnd ==
    ASSUME DesktopInv, recognized # NoBoard, gameStatus(recognized) \in {"won", "lost"},
           recognized.grid = screen.grid, initState.mineCounter.decoded, NEW byType
    PROVE  computeGameStats(initState, recognized, byType).correctFlags =
             <<Cardinality({c \in screen.mines : screen.grid[c] = "FLAG"})>>
<1>. DEFINE shown == Cardinality({c \in Cells : recognized.grid[c] \in TERMINAL_CELLS})
            stats == computeGameStats(initState, recognized, byType)
<1>1. /\ WindowInv(screen) /\ BoardOfWindow(recognized)
      /\ initState.mineCounter.value = MineCount
  BY DEF DesktopInv, BoardInv
<1>2. Cardinality({c \in screen.mines : screen.grid[c] = "FLAG"}) = MineCount - shown
  BY <1>1, FlagsOfTheEnd
<1>3. stats.correctFlags = <<initState.mineCounter.value - shown>>
  BY DEF computeGameStats
<1>. QED
  BY <1>1, <1>2, <1>3

\* The tail of a batch: what is logged, announced, recorded and answered is of
\* the board the batch left.
LEMMA StepFinish ==
    ASSUME DesktopInv, NEW fails, Finish(fails), UNCHANGED desktopVars
    PROVE  /\ DesktopInv'
           /\ (/\ gameEvent' # gameEvent /\ recognized.grid = screen.grid
               /\ initState.mineCounter.decoded) =>
                gameEvent'.stats.correctFlags =
                  <<Cardinality({c \in screen.mines : screen.grid[c] = "FLAG"})>>
<1>0. /\ BoardInv /\ LogInv /\ PerformedInv /\ HookInv /\ CallInv /\ DispatchInv
  BY DEF DesktopInv
<1>1. /\ call.pc = "finish" /\ hooks' = hooks /\ nextOrder' = nextOrder
      /\ recognized' = recognized /\ board' = board /\ initState' = initState
      /\ UNCHANGED <<connections, heartbeat, streams, events, down, pending, minted>>
      /\ settled' = settled /\ app' = app /\ screen' = screen /\ performed' = performed
  BY DEF Finish, bridgeVars, desktopVars
<1>2. settled' = {} /\ pending = {}
  BY <1>1, NothingInFlight DEF Awaiting
<1>3. /\ call \in CallRecords /\ call.first \in Nat /\ minted \in Nat /\ call.first <= minted
      /\ performed = (call.first + 1)..minted /\ call.executed = minted - call.first
  BY <1>0, <1>1 DEF CallInv, PerformedInv, CallRecords, Idle
<1>4. PICK a : Answered(a)
  BY DEF Finish
<1>5. call' = Idle(call.first) /\ call'.pc = "idle" /\ call'.first = call.first /\ answer' = a
  BY <1>4 DEF Answered, Idle
<1>6. StreamInv' /\ DispatchInv' /\ FrameInv' /\ ReceiptInv' /\ WindowInv(screen)'
  BY <1>1, <1>2, <1>5, BetweenKeeps
<1>7. CallInv'
  BY <1>1, <1>3, <1>5 DEF CallInv, Awaiting
<1>8. CASE /\ recognized = NoBoard /\ Answered(Rejected("no_active_game"))
           /\ UNCHANGED <<gameLog, gameEvent, announced>>
  <2>1. answer'.kind = "rejected"
    BY <1>8 DEF Answered, Rejected
  <2>2. PerformedInv'
    BY <1>1, <1>3, <1>5, <2>1 DEF PerformedInv, Awaiting
  <2>3. BoardInv'
    BY <1>0, <1>1, <1>5, <1>8, <2>1 DEF BoardInv, BoardOfWindow, Flags, Awaiting
  <2>4. LogInv'
    BY <1>0, <1>1, <1>5, <1>8 DEF LogInv, Ended
  <2>5. HookInv'
    BY <1>0, <1>1, <1>5, <1>8 DEF HookInv, HooksHearTheBatch
  <2>. QED
    BY <1>6, <1>7, <1>8, <2>2, <2>3, <2>4, <2>5 DEF DesktopInv
<1>9. CASE /\ recognized # NoBoard
           /\ gameLog' = gameLog \o Entries
           /\ announced' = IF call.executed > 0 /\ gameStatus(recognized) = "playing"
                             THEN onBoardChange(recognized, fails) ELSE announced
           /\ gameEvent' = GameEvent
           /\ Answered(Operated(call.executed, call.skipped, call.stopped,
                                concludeMarker(recognized)))
  <2>. DEFINE entry == GameLogEntry("saolei_operate", recognized, gameStatus(recognized))
              last  == GameLogEntry("(game-end)", recognized, gameStatus(recognized))
              n     == Len(gameLog)
  <2>1. answer'.kind = "operated" /\ answer'.executed = call.executed
    BY <1>9 DEF Answered, Operated
  <2>2. PerformedInv'
    BY <1>1, <1>3, <1>5, <2>1 DEF PerformedInv, Awaiting
  <2>3. recognized = board /\ BoardOfWindow(recognized) /\ gameLog # <<>>
    BY <1>0, <1>9 DEF BoardInv
  <2>4. gameStatus(recognized) \in {"playing", "won", "lost"}
    BY GameStatuses
  <2>5. gameLog \in Seq(LogEntries) /\ n \in Nat
    BY <1>0 DEF LogInv
  <2>6. /\ entry \in LogEntries /\ last \in LogEntries
        /\ entry.tool = "saolei_operate" /\ last.tool = "(game-end)"
        /\ entry.state = recognized /\ last.state = recognized
        /\ entry.status = gameStatus(recognized) /\ last.status = gameStatus(recognized)
    BY <2>3, <2>4 DEF GameLogEntry, LogEntries, BoardOfWindow
  <2>7. /\ call.ended \in BOOLEAN
        /\ gameLog' = gameLog \o (<<entry>> \o IF call.ended THEN <<last>> ELSE <<>>)
    BY <1>3, <1>9 DEF Entries, CallRecords
  <2>. HIDE DEF entry, last, n
  <2>8. /\ gameLog' \in Seq(LogEntries)
        /\ Len(gameLog') = IF call.ended THEN n + 2 ELSE n + 1
        /\ \A i \in 1..n : gameLog'[i] = gameLog[i]
        /\ gameLog'[n + 1] = entry
        /\ call.ended => gameLog'[n + 2] = last
    <3>1. CASE call.ended
      BY <2>5, <2>6, <2>7, <3>1 DEF n
    <3>2. CASE ~call.ended
      BY <2>5, <2>6, <2>7, <3>2 DEF n
    <3>. QED
      BY <3>1, <3>2
  <2>9. call.ended =>
          /\ gameStatus(recognized) \in {"won", "lost"}
          /\ call.stopped = gameStatus(recognized)
          /\ \A i \in 1..n : ~Ended(i)
    BY <1>0, <1>1 DEF BoardInv, LogInv, n
  <2>10. gameEvent' = IF ~call.ended THEN gameEvent
                      ELSE [status |-> call.stopped,
                            stats |-> computeGameStats(initState, recognized, operationsByType)]
    BY <1>9 DEF GameEvent
  <2>11. BoardInv'
    <3>1. call.executed > 0 => recognized.grid = screen.grid
      BY <1>0, <1>1 DEF BoardInv
    <3>2. gameLog' # <<>>
      BY <2>5, <2>8
    <3>. QED
      BY <1>0, <1>1, <1>5, <1>9, <2>1, <3>1, <3>2 DEF BoardInv, BoardOfWindow, Flags, Awaiting
  <2>12. LogInv'
    <3>1. CASE call.ended
      <4>1. gameEvent'.status = gameStatus(recognized)
        BY <2>9, <2>10, <3>1
      <4>2. \A i \in 1..Len(gameLog') : Ended(i)' => i = n + 2
        <5>. SUFFICES ASSUME NEW i \in 1..Len(gameLog'), Ended(i)' PROVE i = n + 2
          OBVIOUS
        <5>1. i \in 1..n \/ i = n + 1 \/ i = n + 2
          BY <2>5, <2>8, <3>1
        <5>2. CASE i \in 1..n
          BY <2>8, <2>9, <3>1, <5>2 DEF Ended
        <5>3. CASE i = n + 1
          BY <2>6, <2>8, <5>3 DEF Ended
        <5>. QED
          BY <5>1, <5>2, <5>3
      <4>3. gameStatus(gameLog'[n + 2].state) # "playing" /\ gameLog'[n + 2].state = recognized
        BY <2>6, <2>8, <2>9, <3>1 DEF gameStatus, isTerminalState, isWin
      <4>4. gameLog'[n + 2].status = gameStatus(recognized)
        BY <2>6, <2>8, <3>1
      <4>. QED
        BY <1>1, <1>5, <2>5, <2>8, <2>9, <3>1, <4>1, <4>2, <4>3, <4>4 DEF LogInv
    <3>2. CASE ~call.ended
      <4>1. gameEvent' = gameEvent
        BY <2>10, <3>2
      <4>2. \A i \in 1..Len(gameLog') : i \in 1..n \/ (i = n + 1 /\ ~Ended(i)')
        <5>. SUFFICES ASSUME NEW i \in 1..Len(gameLog'), i \notin 1..n
                      PROVE  i = n + 1 /\ ~Ended(i)'
          OBVIOUS
        <5>1. i = n + 1
          BY <2>5, <2>8, <3>2
        <5>. QED
          BY <2>6, <2>8, <5>1 DEF Ended
      <4>3. ASSUME NEW i \in 1..n, Ended(i)'
            PROVE  /\ gameEvent'.status = gameLog'[i].status
                   /\ gameStatus(gameLog'[i].state) # "playing"
                   /\ recognized' \in {NoBoard, gameLog'[i].state}
                   /\ \A j \in 1..Len(gameLog') :
                        j > i => ~Ended(j)' /\ gameLog'[j].state = gameLog'[i].state
        <5>1. Ended(i) /\ gameLog'[i] = gameLog[i]
          BY <2>8, <4>3 DEF Ended
        <5>2. /\ gameEvent.status = gameLog[i].status
              /\ gameStatus(gameLog[i].state) # "playing"
              /\ recognized = gameLog[i].state
              /\ \A j \in 1..n : j > i => ~Ended(j) /\ gameLog[j].state = gameLog[i].state
          BY <1>0, <1>9, <5>1 DEF LogInv, n
        <5>3. gameStatus(gameLog'[i].state) # "playing"
          BY <5>1, <5>2 DEF gameStatus, isTerminalState, isWin
        <5>4. ASSUME NEW j \in 1..Len(gameLog'), j > i
              PROVE  ~Ended(j)' /\ gameLog'[j].state = gameLog'[i].state
          <6>1. CASE j \in 1..n
            BY <2>8, <5>1, <5>2, <5>4, <6>1 DEF Ended
          <6>2. CASE j = n + 1 /\ ~Ended(j)'
            BY <2>6, <2>8, <5>1, <5>2, <6>2
          <6>. QED
            BY <4>2, <6>1, <6>2
        <5>. QED
          BY <1>1, <4>1, <5>1, <5>2, <5>3, <5>4
      <4>4. gameEvent' # NoEvent => gameEvent'.status \in {"won", "lost"}
        BY <1>0, <4>1 DEF LogInv
      <4>. QED
        BY <1>5, <2>8, <4>2, <4>3, <4>4 DEF LogInv
    <3>. QED
      BY <2>7, <3>1, <3>2
  <2>13. HookInv'
    <3>1. CASE call.executed > 0 /\ gameStatus(recognized) = "playing"
      <4>1. announced' = onBoardChange(recognized, fails)
        BY <1>9, <3>1
      <4>2. \A k \in DOMAIN announced' : announced'[k].state = recognized
        BY <4>1 DEF onBoardChange, runHookScript
      <4>3. ~call.ended /\ Last(gameLog') = entry
        BY <2>5, <2>8, <2>9, <3>1 DEF Last
      <4>. QED
        BY <1>0, <1>1, <1>5, <2>6, <3>1, <4>2, <4>3 DEF HookInv, HooksHearTheBatch
    <3>2. CASE ~(call.executed > 0 /\ gameStatus(recognized) = "playing")
      <4>1. DOMAIN announced' = {}
        BY <1>0, <1>1, <1>9, <3>2 DEF HookInv
      <4>. QED
        BY <1>0, <1>1, <1>5, <4>1 DEF HookInv, HooksHearTheBatch
    <3>. QED
      BY <3>1, <3>2
  <2>14. ASSUME gameEvent' # gameEvent, recognized.grid = screen.grid, initState.mineCounter.decoded
         PROVE  gameEvent'.stats.correctFlags =
                  <<Cardinality({c \in screen.mines : screen.grid[c] = "FLAG"})>>
    <3>1. call.ended /\ gameEvent'.stats = computeGameStats(initState, recognized, operationsByType)
      BY <2>10, <2>14
    <3>2. gameStatus(recognized) \in {"won", "lost"}
      BY <2>9, <3>1
    <3>3. computeGameStats(initState, recognized, operationsByType).correctFlags =
            <<Cardinality({c \in screen.mines : screen.grid[c] = "FLAG"})>>
      BY <1>9, <2>14, <3>2, StatsOfTheEnd
    <3>. QED
      BY <3>1, <3>3
  <2>. QED
    BY <1>6, <1>7, <2>2, <2>11, <2>12, <2>13, <2>14 DEF DesktopInv
<1>. QED
  BY <1>8, <1>9 DEF Finish

---------------------------------------------------------------------------
(* Every step keeps the invariant and does to the game only what it may. *)

\* What a step may do to the game: a revealed cell stays, an end is the window's,
\* its score is the window's, hooks keep their order.
RevealedStep ==
  (call.pc = "await" /\ call.kind = "operate" /\ recognized # NoBoard /\ recognized' # NoBoard) =>
    \A c \in Cells : recognized.grid[c] \in REVEALED =>
                       recognized'.grid[c] = recognized.grid[c]
EndStep ==
  recognized' # recognized /\ recognized' # NoBoard =>
    /\ gameStatus(recognized') = "won" =>
         \A c \in Cells \ screen.mines : screen.grid[c] \in REVEALED_NUMBERS
    /\ gameStatus(recognized') = "lost" =>
         \E c \in screen.mines : screen.grid[c] = "HIT_MINE"
CreditStep ==
  (gameEvent' # gameEvent /\ recognized.grid = screen.grid /\ initState.mineCounter.decoded) =>
    gameEvent'.stats.correctFlags =
      <<Cardinality({c \in screen.mines : screen.grid[c] = "FLAG"})>>
OrderStep ==
  \A n \in DOMAIN hooks, m \in DOMAIN hooks' :
    IF m \in DOMAIN hooks THEN hooks'[m].order = hooks[m].order
    ELSE hooks'[m].order > hooks[n].order

GameStep == RevealedStep /\ EndStep /\ CreditStep /\ OrderStep

\* A step that leaves the game and the hooks alone.
LEMMA GameAlone ==
    ASSUME UNCHANGED <<recognized, gameEvent, hooks>>
    PROVE  GameStep
  BY DEF GameStep, RevealedStep, EndStep, CreditStep, OrderStep

\* A step of the call between two awaits, or out of one.
LEMMA StepContinue ==
    ASSUME DesktopInv, Continue
    PROVE  DesktopInv' /\ GameStep
<1>0. UNCHANGED desktopVars /\ WindowInv(screen)
  BY DEF Continue, DesktopInv
<1>1. CASE executeOperation
  <2>1. UNCHANGED <<recognized, gameEvent, hooks>>
    BY <1>1 DEF executeOperation, gameVars, hookVars
  <2>. QED
    BY <1>0, <1>1, <2>1, GameAlone, StepOperation
<1>2. CASE dispatchFailed
  <2>1. UNCHANGED <<recognized, gameEvent, hooks>>
    BY <1>2 DEF dispatchFailed, gameVars, hookVars
  <2>. QED
    BY <1>0, <1>2, <2>1, GameAlone, StepFailed
<1>3. CASE initRecognized
  <2>1. /\ call.kind = "init" /\ hooks' = hooks /\ gameEvent' = gameEvent
    BY <1>3 DEF initRecognized, hookVars
  <2>2. /\ DesktopInv'
        /\ recognized' # NoBoard => BoardOfWindow(recognized') /\ recognized'.grid = screen.grid
    BY <1>0, <1>3, StepInitRecognized
  <2>3. EndStep
    BY <1>0, <2>2, EndIsTheWindows DEF EndStep
  <2>4. RevealedStep /\ CreditStep /\ OrderStep
    BY <2>1 DEF RevealedStep, CreditStep, OrderStep
  <2>. QED
    BY <2>2, <2>3, <2>4 DEF GameStep
<1>4. CASE operationRecognized
  <2>1. /\ hooks' = hooks /\ gameEvent' = gameEvent
    BY <1>4 DEF operationRecognized, hookVars
  <2>2. /\ DesktopInv'
        /\ recognized' # NoBoard =>
             /\ BoardOfWindow(recognized') /\ recognized'.grid = screen.grid
             /\ \A c \in Cells : recognized.grid[c] \in REVEALED =>
                                   recognized'.grid[c] = recognized.grid[c]
    BY <1>0, <1>4, StepOperationRecognized
  <2>3. EndStep
    BY <1>0, <2>2, EndIsTheWindows DEF EndStep
  <2>4. RevealedStep
    BY <2>2 DEF RevealedStep
  <2>5. CreditStep /\ OrderStep
    BY <2>1 DEF CreditStep, OrderStep
  <2>. QED
    BY <2>2, <2>3, <2>4, <2>5 DEF GameStep
<1>5. CASE \E fails \in {{}} \cup {{n} : n \in announcementFor(recognized)} : Finish(fails)
  <2>1. PICK fails : Finish(fails)
    BY <1>5
  <2>2. recognized' = recognized /\ hooks' = hooks
    BY <2>1 DEF Finish
  <2>3. DesktopInv' /\ CreditStep
    BY <1>0, <2>1, StepFinish DEF CreditStep
  <2>4. RevealedStep /\ EndStep /\ OrderStep
    BY <2>2 DEF RevealedStep, EndStep, OrderStep
  <2>. QED
    BY <2>3, <2>4 DEF GameStep
<1>. QED
  BY <1>1, <1>2, <1>3, <1>4, <1>5 DEF Continue, Runs

\* A step of the application, the network or the bridge.
LEMMA StepOutside ==
    ASSUME DesktopInv, Quiet,
           \/ BridgeEvent \/ TimerFires \/ AppStep \/ Connect \/ CloseBridge
           \/ \E s \in Streams : Break(s)
    PROVE  DesktopInv' /\ GameStep
<1>1. UNCHANGED OutsideApp
  BY DEF BridgeEvent, TimerFires, AppStep, Connect, CloseBridge, Break, RecvError,
         executeAgentOperation, sendResultFrame, SendFails
<1>2. GameStep
  BY <1>1, GameAlone DEF OutsideApp, gameVars, hookVars
<1>3. CASE BridgeEvent
  BY <1>2, <1>3, StepBridgeEvent
<1>4. CASE TimerFires
  BY <1>2, <1>4, StepTimer
<1>5. CASE AppStep
  BY <1>2, <1>5, StepRecvError, StepExecute, StepSendResult, StepSendFails DEF AppStep
<1>6. CASE Connect
  BY <1>2, <1>6, StepConnect
<1>7. CASE CloseBridge
  BY <1>2, <1>7, StepCloseBridge
<1>8. CASE \E s \in Streams : Break(s)
  BY <1>2, <1>8, StepBreak
<1>. QED
  BY <1>3, <1>4, <1>5, <1>6, <1>7, <1>8

\* No step at all.
LEMMA StepStutter ==
    ASSUME DesktopInv, UNCHANGED vars
    PROVE  DesktopInv' /\ GameStep
<1>1. /\ UNCHANGED OutsideVars /\ UNCHANGED <<recognized, gameEvent, hooks>>
      /\ connections' = connections /\ heartbeat' = heartbeat /\ streams' = streams
      /\ events' = events /\ down' = down /\ pending' = pending /\ minted' = minted
      /\ settled' = settled /\ call' = call /\ app' = app /\ screen' = screen
      /\ performed' = performed
  BY DEF vars, OutsideVars, bridgeVars, gameVars, callVars, hookVars, desktopVars
<1>2. StreamInv' /\ FrameInv'
  BY <1>1 DEF DesktopInv, StreamInv, FrameInv, Awaiting
<1>3. DispatchInv' /\ ReceiptInv'
  BY <1>1 DEF DesktopInv, DispatchInv, ReceiptInv, Performs, Awaiting
<1>. QED
  BY <1>1, <1>2, <1>3, OutsideKeeps, GameAlone DEF DesktopInv

\* Every step.
LEMMA DesktopStep ==
    ASSUME DesktopInv, [Next]_vars
    PROVE  DesktopInv' /\ GameStep
<1>1. CASE Continue
  BY <1>1, StepContinue
<1>2. CASE Play
  <2>1. UNCHANGED <<recognized, gameEvent, hooks>>
    BY <1>2 DEF Play, saolei_init, saolei_operate, Begin, gameVars
  <2>2. DesktopInv'
    BY <1>2, StepInit, StepOperate DEF Play
  <2>. QED
    BY <2>1, <2>2, GameAlone
<1>3. CASE Plan
  <2>1. UNCHANGED <<recognized, gameEvent>>
    BY <1>3 DEF Plan, gameVars
  <2>2. DesktopInv' /\ OrderStep
    BY <1>3, StepPlan DEF OrderStep
  <2>. QED
    BY <2>1, <2>2 DEF GameStep, RevealedStep, EndStep, CreditStep
<1>4. CASE /\ Quiet
           /\ \/ BridgeEvent \/ TimerFires \/ AppStep \/ Connect \/ CloseBridge
              \/ \E s \in Streams : Break(s)
  BY <1>4, StepOutside
<1>5. CASE UNCHANGED vars
  BY <1>5, StepStutter
<1>. QED
  BY <1>1, <1>2, <1>3, <1>4, <1>5 DEF Next

---------------------------------------------------------------------------
(* Theorems. *)

\* The invariant holds of every behaviour.
THEOREM DesktopInvariant == Spec => []DesktopInv
<1>1. DesktopInv /\ [Next]_vars => DesktopInv'
  BY DesktopStep
<1>. QED
  BY <1>1, DesktopInit, PTL DEF Spec

\* A board of the game is well typed: its counter is within the board's size.
LEMMA BoardTyped ==
    ASSUME NEW b, BoardOfWindow(b)
    PROVE  b \in GameState
<1>. DEFINE k == MineCount - Cardinality(Flags(b))
            N == Width * Height
<1>1. N \in Nat /\ MineCount \in 0..N
  BY BoardAssumption
<1>2. Flags(b) \in SUBSET Cells
  BY DEF Flags
<1>3. Cardinality(Flags(b)) \in 0..N
  BY <1>2, CellsFinite
<1>. HIDE DEF N
<1>4. k \in (0 - N)..N
  BY <1>1, <1>3
<1>. HIDE DEF k
<1>5. Shown(k) \in (0 - N)..N
  BY <1>1, <1>4 DEF Shown
<1>6. b.mineCounter \in MineCounter
  <2>1. b.mineCounter \in {Undecoded, Decoded(Shown(k))}
    BY DEF BoardOfWindow, k
  <2>. QED
    BY <1>5, <2>1 DEF MineCounter, N
<1>7. b \in Boards
  BY DEF BoardOfWindow
<1>8. /\ b = [grid |-> b.grid, mineCounter |-> b.mineCounter]
      /\ b.grid \in [Cells -> ScreenStatus]
  BY <1>7 DEF Boards
<1>9. b.grid \in [Cells -> CellStatus]
  BY <1>8 DEF ScreenStatus
<1>. QED
  BY <1>6, <1>8, <1>9 DEF GameState

\* What the invariant says of the types.
LEMMA TypesFollow == DesktopInv => DesktopTypeOK
<1>. SUFFICES ASSUME DesktopInv PROVE DesktopTypeOK
  OBVIOUS
<1>0. CallInv /\ StreamInv /\ DispatchInv /\ PerformedInv /\ BoardInv /\ LogInv
  BY DEF DesktopInv
<1>1. /\ connections \in Streams \cup {NoStream} /\ heartbeat \subseteq Streams
      /\ streams \in [Streams -> {"new", "open", "ended", "gone"}]
      /\ events \in [Streams -> 0..2]
      /\ app.stream \in Streams \cup {NoStream}
      /\ app.reader \in {"none", "reading", "sending", "returned"}
  BY <1>0 DEF StreamInv
<1>2. pending \subseteq 1..minted
  BY <1>0 DEF CallInv, DispatchInv
<1>3. \A r \in settled : call.pc = "await" /\ r.id = call.id
  BY <1>0 DEF DispatchInv, Awaiting
<1>4. /\ board # NoBoard => board \in GameState
      /\ recognized # NoBoard => recognized \in GameState
  BY <1>0, BoardTyped DEF BoardInv
<1>5. gameEvent # NoEvent => gameEvent.status \in {"won", "lost"}
  BY <1>0 DEF LogInv
<1>6. call.pc \in {"idle", "step", "await", "finish"} /\ call.first \in Nat
  BY <1>0 DEF CallInv, Idle, CallRecords
<1>7. performed \subseteq 1..minted
  <2>1. \A p \in (call.first + 1)..minted : p \in 1..minted
    BY <1>0, <1>6 DEF CallInv
  <2>. QED
    BY <1>0, <2>1 DEF PerformedInv
<1>. QED
  BY <1>1, <1>2, <1>3, <1>4, <1>5, <1>6, <1>7 DEF DesktopTypeOK

\* The session's stream and the dispatches on it are owned.
THEOREM DispatchesOwned == Spec => []DispatchOwned
<1>1. DesktopInv => LiveStreamIsRegistered
  BY DEF DesktopInv, StreamInv, LiveStreamIsRegistered
<1>2. DesktopInv => InFlightIsAwaited
  BY DEF DesktopInv, DispatchInv, InFlightIsAwaited, isDesktopConnected, Awaiting
<1>3. DesktopInv => DispatchOwned
  BY <1>1, <1>2, TypesFollow DEF DispatchOwned
<1>. QED
  BY <1>3, DesktopInvariant, PTL

\* An answer counts the operations that were performed.
LEMMA AnswersFollow == DesktopInv => AnswerTellsDesktop
<1>. SUFFICES ASSUME DesktopInv, answer.kind = "operated", call.pc = "idle", answer.executed > 0
              PROVE  /\ answer.executed = Cardinality(performed)
                     /\ \A c \in Cells : recognized.grid[c] = screen.grid[c]
  BY DEF AnswerTellsDesktop
<1>1. /\ performed = (call.first + 1)..minted /\ answer.executed = minted - call.first
      /\ recognized.grid = screen.grid
  BY DEF DesktopInv, PerformedInv, BoardInv
<1>2. call.first \in Nat /\ minted \in Nat /\ call.first <= minted
  BY DEF DesktopInv, CallInv, Idle, CallRecords
<1>. DEFINE a == call.first + 1
            b == minted
<1>3. a \in Int /\ b \in Int /\ a <= b /\ b - a + 1 = minted - call.first
  BY <1>1, <1>2
<1>4. performed = a..b
  BY <1>1
<1>. HIDE DEF a, b
<1>5. Cardinality(a..b) = IF a > b THEN 0 ELSE b - a + 1
  BY <1>3, FS_Interval
<1>6. Cardinality(performed) = minted - call.first
  BY <1>3, <1>4, <1>5
<1>. QED
  BY <1>1, <1>6

\* The player and the planner's hooks are told what happened on the desktop.
THEOREM TellsWhatHappened == Spec => []ToldWhatHappened
<1>1. DesktopInv => HooksHearTheBatch
  BY DEF DesktopInv, HookInv
<1>2. DesktopInv => ToldWhatHappened
  BY <1>1, AnswersFollow, RemainTrue DEF ToldWhatHappened
<1>. QED
  BY <1>2, DesktopInvariant, PTL

\* A game ends once.
LEMMA OneEndFollows == DesktopInv => OneEndPerGame
<1>. SUFFICES ASSUME DesktopInv, NEW i \in DOMAIN gameLog, NEW j \in DOMAIN gameLog,
                     gameLog[i].tool = "(game-end)"
              PROVE  /\ gameEvent.status = gameLog[i].status
                     /\ j > i => /\ gameLog[j].tool # "(game-end)"
                                 /\ gameLog[j].state = gameLog[i].state
  BY DEF OneEndPerGame
<1>1. DOMAIN gameLog = 1..Len(gameLog)
  BY DEF DesktopInv, LogInv
<1>. QED
  BY <1>1 DEF DesktopInv, LogInv, Ended

\* The game the runtime keeps is the window's.
THEOREM GameStaysTrue == Spec => GameTrue
<1>1. DesktopInv /\ [Next]_vars => GameStep
  BY DesktopStep
<1>2. DesktopInv /\ [Next]_vars => [RevealedStep]_vars /\ [EndStep]_vars /\ [CreditStep]_vars
                                   /\ [OrderStep]_vars
  BY <1>1 DEF GameStep
<1>3. Spec => [][RevealedStep]_vars /\ [][EndStep]_vars /\ [][CreditStep]_vars
              /\ [][OrderStep]_vars
  BY <1>2, DesktopInvariant, PTL DEF Spec
<1>4. Spec => []OneEndPerGame
  BY OneEndFollows, DesktopInvariant, PTL
<1>5. [][RevealedStep]_vars <=> RevealedStays
  BY DEF RevealedStep, RevealedStays
<1>6. [][EndStep]_vars <=> NoFalseEnd
  BY DEF EndStep, NoFalseEnd
<1>7. [][CreditStep]_vars <=> FlagsCredited
  BY DEF CreditStep, FlagsCredited
<1>8. [][OrderStep]_vars <=> HookOrderKept
  BY DEF OrderStep, HookOrderKept
<1>. QED
  BY <1>3, <1>4, <1>5, <1>6, <1>7, <1>8 DEF GameTrue
=============================================================================
