--------------------------- MODULE Widgets_proofs ---------------------------
(***************************************************************************)
(* What the board widgets show and what the editor returns is right, for   *)
(* every set of boards, texts, cells that are visited and keys.            *)
(***************************************************************************)
EXTENDS Display, Editor, FiniteSetTheorems, TLAPS

-----------------------------------------------------------------------------
(***************************************************************************)
(* Bit sets.                                                               *)
(***************************************************************************)

\* The bits of a set of digits determine it.
LEMMA Bits ==
  ASSUME NEW D \in SUBSET Digit
  PROVE  /\ BitsOf(D) \in 0..ALL /\ DigitsOf(BitsOf(D)) = D
         /\ BitsOf(D) = 0 <=> D = {}
         /\ BitsOf(D) = ALL <=> D = Digit
         /\ \A d \in Digit : BitsOf(D) = Bit(d) <=> D = {d}
<1>1. BitsOf(D) \in 0..ALL /\ DigitsOf(BitsOf(D)) = D
  BY BitsAssumption
<1>2. \A E \in SUBSET Digit : BitsOf(D) = BitsOf(E) <=> D = E
  BY <1>1, BitsAssumption
<1>3. {} \in SUBSET Digit /\ Digit \in SUBSET Digit /\ \A d \in Digit : {d} \in SUBSET Digit
  OBVIOUS
<1>4. QED
  BY <1>1, <1>2, <1>3, BitsAssumption

\* The lowest bits of a number that has no others, and of -1.
LEMMA Masking ==
  /\ \A v \in 0..ALL : masked(v) = v
  /\ masked(-1) = ALL
<1>1. ALL \in Nat
  BY BitsAssumption
<1>2. ASSUME NEW n \in Nat
      PROVE  (\A v \in 0..n : v % (n + 1) = v) /\ (-1) % (n + 1) = n
  <2> DEFINE k == n + 1
  <2>1. k \in Nat /\ k > 0 /\ n = k - 1
    OBVIOUS
  <2> HIDE DEF k
  <2>2. \A v \in Int : 0 <= v /\ v < k => v % k = v
    BY <2>1
  <2>3. (-1) % k = k - 1
    BY <2>1
  <2>4. \A v \in 0..n : v \in Int /\ 0 <= v /\ v < k
    BY <2>1
  <2>5. (\A v \in 0..n : v % k = v) /\ (-1) % k = n
    BY <2>1, <2>2, <2>3, <2>4
  <2>6. QED BY <2>5 DEF k
<1>3. QED
  BY <1>1, <1>2 DEF masked

\* The glyph for a set of digits.
GlyphOf(D, m) ==
  IF D = {} THEN [ink |-> "question", digits |-> {}]
  ELSE IF ~m /\ \E d \in Digit : D = {d} THEN [ink |-> "numeral", digits |-> D]
  ELSE IF D = Digit THEN [ink |-> "blank", digits |-> {}]
  ELSE [ink |-> "dots", digits |-> D]

LEMMA Glyphs ==
  ASSUME NEW D \in SUBSET Digit, NEW m
  PROVE  glyph(BitsOf(D), m) = GlyphOf(D, m)
<1>1. /\ DigitsOf(BitsOf(D)) = D
      /\ BitsOf(D) = 0 <=> D = {}
      /\ BitsOf(D) = ALL <=> D = Digit
      /\ \A d \in Digit : BitsOf(D) = Bit(d) <=> D = {d}
  BY Bits
<1> QED
  BY <1>1 DEF glyph, GlyphOf

-----------------------------------------------------------------------------
(***************************************************************************)
(* Widgets.                                                                *)
(***************************************************************************)
Pictures ==
  [glyph : [ink : {"question", "numeral", "blank", "dots"}, digits : SUBSET Digit],
   lines : [Borders -> 0..OUTSIDE],
   at    : (-2..2) \X (-2..2),
   gray  : BOOLEAN]

\* Rows and columns of cells.
LEMMA Places9 ==
  ASSUME NEW x \in Cell
  PROVE  row(x) \in 0..(digits - 1) /\ col(x) \in 0..(digits - 1)
<1>1. sides \in Nat /\ sides > 0
  BY SidesAssumption
<1>2. x[1] \in 1..sides /\ x[2] \in 1..sides /\ x[3] \in 1..sides /\ x[4] \in 1..sides
  BY DEF Cell, Coord
<1>3. ASSUME NEW a \in 1..sides, NEW b \in 1..sides
      PROVE  sides * (a - 1) + b - 1 \in 0..(sides * sides - 1)
  <2>1. 0 <= a - 1 /\ a - 1 <= sides - 1 /\ 0 <= b - 1 /\ b <= sides /\ a \in Int /\ b \in Int
    BY <1>1
  <2>2. 0 <= sides * (a - 1) /\ sides * (a - 1) <= sides * (sides - 1) /\ sides * (a - 1) \in Int
    BY <1>1, <2>1
  <2>3. sides * (sides - 1) = sides * sides - sides /\ sides * sides \in Int
    BY <1>1
  <2>4. QED BY <1>1, <2>1, <2>2, <2>3
<1>4. QED
  BY <1>2, <1>3 DEF row, col, zero_based_index, digits

LEMMA GlyphType ==
  ASSUME NEW v, NEW m
  PROVE  glyph(v, m) \in [ink : {"question", "numeral", "blank", "dots"}, digits : SUBSET Digit]
<1>1. DigitsOf(v) \in SUBSET Digit /\ {} \in SUBSET Digit
  BY DEF DigitsOf
<1>2. QED
  BY <1>1 DEF glyph

LEMMA DrawType ==
  ASSUME NEW w, NEW x
  PROVE  draw(w, x) \in Pictures
<1>1. \A s \in Borders : line(row(x), col(x), s) \in 0..OUTSIDE
  BY DEF line, OUTSIDE, INSIDE
<1>2. offset(row(x)) \in -2..2 /\ offset(col(x)) \in -2..2
  BY DEF offset
<1>3. glyph(w.val[x], w.mode[x]) \in [ink : {"question", "numeral", "blank", "dots"}, digits : SUBSET Digit]
  BY GlyphType
<1>4. /\ [s \in Borders |-> line(row(x), col(x), s)] \in [Borders -> 0..OUTSIDE]
      /\ <<offset(col(x)), offset(row(x))>> \in (-2..2) \X (-2..2)
      /\ (x \in w.gray) \in BOOLEAN
  BY <1>1, <1>2
<1>5. ASSUME NEW a, a \in [ink : {"question", "numeral", "blank", "dots"}, digits : SUBSET Digit],
             NEW b, b \in [Borders -> 0..OUTSIDE], NEW c, c \in (-2..2) \X (-2..2),
             NEW d \in BOOLEAN
      PROVE  [glyph |-> a, lines |-> b, at |-> c, gray |-> d] \in Pictures
  BY <1>5 DEF Pictures
<1>6. QED
  BY <1>3, <1>4, <1>5, Zenon DEF draw

\* What is painted depends on the value, the mode and the background.
LEMMA DrawAlike ==
  ASSUME NEW v, NEW w, NEW x, v.val[x] = w.val[x], v.mode[x] = w.mode[x],
         x \in v.gray <=> x \in w.gray
  PROVE  draw(v, x) = draw(w, x)
<1>1. (x \in v.gray) = (x \in w.gray)
  OBVIOUS
<1>2. QED
  BY <1>1 DEF draw

Painted(w) == \A x \in Cell : w.screen[x] # Unpainted => w.window /\ w.screen[x] = draw(w, x)
Complete(w) == \A x \in Cell : w.screen[x] = draw(w, x)

LEMMA WidgetsType ==
  Widgets = [val : [Cell -> 0..ALL], mode : [Cell -> BOOLEAN], editable : BOOLEAN,
             window : BOOLEAN, gray : SUBSET Cell, screen : [Cell -> Pictures \cup {Unpainted}]]
BY DEF Widgets, Pictures

\* A widget with another screen.
LEMMA Screens ==
  ASSUME NEW w \in Widgets, NEW S, NEW v, v = [w EXCEPT !.screen = S]
  PROVE  /\ v.val = w.val /\ v.mode = w.mode /\ v.editable = w.editable /\ v.window = w.window
         /\ v.gray = w.gray /\ v.screen = S
         /\ S \in [Cell -> Pictures \cup {Unpainted}] => v \in Widgets
         /\ \A x \in Cell : draw(v, x) = draw(w, x)
<1>1. /\ v.val = w.val /\ v.mode = w.mode /\ v.editable = w.editable /\ v.window = w.window
      /\ v.gray = w.gray /\ v.screen = S
  BY WidgetsType
<1>2. S \in [Cell -> Pictures \cup {Unpainted}] => v \in Widgets
  BY WidgetsType
<1>3. \A x \in Cell : draw(v, x) = draw(w, x)
  BY <1>1, DrawAlike
<1>4. QED
  BY <1>1, <1>2, <1>3

\* Painting the cells of P again, or not, when those in P and no others have
\* changed.
LEMMA Redrawn ==
  ASSUME NEW w \in Widgets, NEW u \in Widgets, NEW P \in SUBSET Cell,
         u.window = w.window, u.screen = w.screen,
         \A x \in Cell \ P : draw(u, x) = draw(w, x),
         NEW v, v = redraw_canvas(u, P)
  PROVE  /\ v.val = u.val /\ v.mode = u.mode /\ v.editable = u.editable /\ v.window = u.window
         /\ v.gray = u.gray /\ v \in Widgets
         /\ Painted(w) => Painted(v)
         /\ Complete(w) /\ w.window => Complete(v)
<1> DEFINE S == [x \in Cell |-> IF x \in P THEN draw(u, x) ELSE u.screen[x]]
<1>1. CASE ~u.window
  <2>1. v = u
    BY <1>1 DEF redraw_canvas
  <2>2. Painted(w) => Painted(v)
    BY <1>1, <2>1 DEF Painted
  <2>3. QED BY <1>1, <2>1, <2>2
<1>2. CASE u.window
  <2>1. v = [u EXCEPT !.screen = S]
    BY <1>2, WidgetsType DEF redraw_canvas
  <2>2. S \in [Cell -> Pictures \cup {Unpainted}]
    BY DrawType, WidgetsType
  <2>3. /\ v.val = u.val /\ v.mode = u.mode /\ v.editable = u.editable /\ v.window = u.window
        /\ v.gray = u.gray /\ v.screen = S /\ v \in Widgets
        /\ \A x \in Cell : draw(v, x) = draw(u, x)
    <3> HIDE DEF S
    <3>1. QED BY <2>1, <2>2, Screens
  <2>4. \A x \in Cell : S[x] = IF x \in P THEN draw(u, x) ELSE w.screen[x]
    OBVIOUS
  <2> HIDE DEF S
  <2>5. ASSUME Painted(w), NEW x \in Cell, v.screen[x] # Unpainted
        PROVE  v.screen[x] = draw(v, x)
    BY <2>3, <2>4, <2>5 DEF Painted
  <2>6. ASSUME Complete(w), NEW x \in Cell PROVE v.screen[x] = draw(v, x)
    BY <2>3, <2>4, <2>6 DEF Complete
  <2>7. (Painted(w) => Painted(v)) /\ (Complete(w) => Complete(v))
    BY <1>2, <2>3, <2>5, <2>6 DEF Painted, Complete
  <2>8. QED BY <2>3, <2>7
<1>3. QED
  BY <1>1, <1>2

\* set_val gives the cells of S their values and modes, changes no others, and
\* leaves no cell on the screen with what it showed before.
LEMMA SetVal ==
  ASSUME NEW w \in Widgets, NEW S \in SUBSET Cell, NEW a, NEW m,
         \A x \in S : masked(a[x]) \in 0..ALL /\ m[x] \in BOOLEAN,
         NEW v, v = set_val(w, S, a, m)
  PROVE  /\ v \in Widgets /\ v.editable = w.editable /\ v.window = w.window /\ v.gray = w.gray
         /\ v.val = [x \in Cell |-> IF x \in S THEN masked(a[x]) ELSE w.val[x]]
         /\ v.mode = [x \in Cell |-> IF x \in S THEN m[x] ELSE w.mode[x]]
         /\ Painted(w) => Painted(v)
         /\ Complete(w) /\ w.window => Complete(v)
<1> DEFINE P == {x \in S : differs(w, x, a[x], m[x])}
           val == [x \in Cell |-> IF x \in P THEN masked(a[x]) ELSE w.val[x]]
           mode == [x \in Cell |-> IF x \in P THEN m[x] ELSE w.mode[x]]
           u == [w EXCEPT !.val = val, !.mode = mode]
<1>1. v = redraw_canvas(u, P) /\ P \in SUBSET Cell
  BY WidgetsType DEF set_val
<1>2. /\ w.val \in [Cell -> 0..ALL] /\ w.mode \in [Cell -> BOOLEAN]
  BY WidgetsType
<1>3. val \in [Cell -> 0..ALL] /\ mode \in [Cell -> BOOLEAN]
  BY <1>2
<1>4. /\ u \in Widgets /\ u.val = val /\ u.mode = mode /\ u.editable = w.editable
      /\ u.window = w.window /\ u.gray = w.gray /\ u.screen = w.screen
  <2> HIDE DEF val, mode
  <2>1. QED BY <1>3, WidgetsType
<1>5. \A x \in Cell \ P : val[x] = w.val[x] /\ mode[x] = w.mode[x]
  OBVIOUS
<1>6. /\ val = [x \in Cell |-> IF x \in S THEN masked(a[x]) ELSE w.val[x]]
      /\ mode = [x \in Cell |-> IF x \in S THEN m[x] ELSE w.mode[x]]
  <2>1. \A x \in S : x \notin P => w.val[x] = masked(a[x]) /\ w.mode[x] = m[x]
    BY DEF differs
  <2>2. \A x \in P : x \in S
    OBVIOUS
  <2> HIDE DEF P
  <2>3. QED BY <2>1, <2>2
<1> HIDE DEF u, val, mode, P
<1>7. \A x \in Cell \ P : draw(u, x) = draw(w, x)
  BY <1>4, <1>5, DrawAlike
<1>8. QED
  BY <1>1, <1>4, <1>6, <1>7, Redrawn

-----------------------------------------------------------------------------
(***************************************************************************)
(* The lines of the grid, which are for boards of nine by nine cells.      *)
(***************************************************************************)
Grid == 0..8

\* The borders that a cell paints, and how thick.
LEMMA Strokes ==
  ASSUME sides = 3, NEW r \in Grid, NEW c \in Grid
  PROVE  /\ line(r, c, "left") = IF c = 0 THEN 4 ELSE IF c % 3 # 2 THEN 2 ELSE 0
         /\ line(r, c, "right") = IF c = 8 THEN 4 ELSE IF c % 3 # 0 THEN 2 ELSE 0
         /\ line(r, c, "top") = IF r = 0 THEN 4 ELSE IF r % 3 # 2 THEN 2 ELSE 0
         /\ line(r, c, "bottom") = IF r = 8 THEN 4 ELSE IF r % 3 # 0 THEN 2 ELSE 0
<1>1. r % 3 \in {0, 1, 2} /\ c % 3 \in {0, 1, 2}
  BY DEF Grid
<1>2. /\ "left" \in draw_square(r, c) <=> c % 3 # 2
      /\ "right" \in draw_square(r, c) <=> c % 3 # 0
      /\ "top" \in draw_square(r, c) <=> r % 3 # 2
      /\ "bottom" \in draw_square(r, c) <=> r % 3 # 0
  BY <1>1 DEF draw_square, Borders
<1>3. /\ "left" \in draw_outside(r, c) <=> c = 0
      /\ "right" \in draw_outside(r, c) <=> c = 8
      /\ "top" \in draw_outside(r, c) <=> r = 0
      /\ "bottom" \in draw_outside(r, c) <=> r = 8
  BY DEF draw_outside, Borders
<1>4. QED
  BY <1>1, <1>2, <1>3 DEF line, OUTSIDE, INSIDE

\* The lines of two cells next to each other are twice as thick between squares.
LEMMA Joined ==
  ASSUME sides = 3, NEW r \in Grid, NEW c \in Grid
  PROVE  /\ c + 1 \in Grid =>
              line(r, c, "right") + line(r, c + 1, "left") = IF c % 3 = 2 THEN 4 ELSE 2
         /\ r + 1 \in Grid =>
              line(r, c, "bottom") + line(r + 1, c, "top") = IF r % 3 = 2 THEN 4 ELSE 2
<1>1. \A i \in Grid : i \in Int /\ 0 <= i /\ i <= 8 /\ (i + 1) % 3 = IF i % 3 = 2 THEN 0 ELSE (i % 3) + 1
  BY DEF Grid
<1>2. \A i \in Grid : i % 3 \in {0, 1, 2}
  BY DEF Grid
<1>3. ASSUME c + 1 \in Grid
      PROVE  line(r, c, "right") + line(r, c + 1, "left") = IF c % 3 = 2 THEN 4 ELSE 2
  <2>1. line(r, c, "right") = IF c % 3 # 0 THEN 2 ELSE 0
    BY <1>1, <1>3, Strokes
  <2>2. line(r, c + 1, "left") = IF (c + 1) % 3 # 2 THEN 2 ELSE 0
    BY <1>1, <1>3, Strokes
  <2>3. QED BY <1>1, <1>2, <2>1, <2>2
<1>4. ASSUME r + 1 \in Grid
      PROVE  line(r, c, "bottom") + line(r + 1, c, "top") = IF r % 3 = 2 THEN 4 ELSE 2
  <2>1. line(r, c, "bottom") = IF r % 3 # 0 THEN 2 ELSE 0
    BY <1>1, <1>4, Strokes
  <2>2. line(r + 1, c, "top") = IF (r + 1) % 3 # 2 THEN 2 ELSE 0
    BY <1>1, <1>4, Strokes
  <2>3. QED BY <1>1, <1>2, <2>1, <2>2
<1>5. QED
  BY <1>3, <1>4

\* The glyph is moved by half the difference of the lines on its two sides.
LEMMA Centered ==
  ASSUME sides = 3, NEW r \in Grid, NEW c \in Grid
  PROVE  /\ offset(c) = (line(r, c, "left") - line(r, c, "right")) \div 2
         /\ offset(r) = (line(r, c, "top") - line(r, c, "bottom")) \div 2
<1>1. \A i \in Grid : i \in {0, 1, 2, 3, 4, 5, 6, 7, 8}
  BY DEF Grid
<1>2. ASSUME NEW i \in {0, 1, 2, 3, 4, 5, 6, 7, 8}, NEW a, NEW b,
             a = IF i = 0 THEN 4 ELSE IF i % 3 # 2 THEN 2 ELSE 0,
             b = IF i = 8 THEN 4 ELSE IF i % 3 # 0 THEN 2 ELSE 0
      PROVE  offset(i) = (a - b) \div 2
  BY <1>2 DEF offset
<1>3. QED
  BY <1>1, <1>2, Strokes

\* Neighbours are in the same square unless there is a border between them.
LEMMA Neighbours ==
  ASSUME sides = 3, NEW x \in Cell, NEW y \in Cell
  PROVE  /\ row(x) \in Grid /\ col(x) \in Grid
         /\ row(x) = row(y) /\ col(y) = col(x) + 1 =>
              (SquareOf(x) = SquareOf(y) <=> col(x) % 3 # 2)
         /\ col(x) = col(y) /\ row(y) = row(x) + 1 =>
              (SquareOf(x) = SquareOf(y) <=> row(x) % 3 # 2)
<1>1. /\ x[1] \in 1..3 /\ x[2] \in 1..3 /\ x[3] \in 1..3 /\ x[4] \in 1..3
      /\ y[1] \in 1..3 /\ y[2] \in 1..3 /\ y[3] \in 1..3 /\ y[4] \in 1..3
  BY DEF Cell, Coord
<1>2. /\ row(x) = 3 * (x[1] - 1) + x[3] - 1 /\ col(x) = 3 * (x[2] - 1) + x[4] - 1
      /\ row(y) = 3 * (y[1] - 1) + y[3] - 1 /\ col(y) = 3 * (y[2] - 1) + y[4] - 1
  BY DEF row, col, zero_based_index
<1>3. SquareOf(x) = SquareOf(y) <=> x[1] = y[1] /\ x[2] = y[2]
  <2>1. ASSUME SquareOf(x) = SquareOf(y) PROVE x[1] = y[1] /\ x[2] = y[2]
    <3>1. 1 \in Coord
      BY DEF Coord
    <3>2. <<x[1], x[2], 1, 1>> \in Square(x[1], x[2])
      BY <3>1 DEF Square
    <3>3. <<x[1], x[2], 1, 1>> \in Square(y[1], y[2])
      BY <2>1, <3>2 DEF SquareOf
    <3>4. \E r2 \in Coord : \E c2 \in Coord : <<x[1], x[2], 1, 1>> = <<y[1], y[2], r2, c2>>
      BY <3>3 DEF Square
    <3>5. QED BY <3>4
  <2>2. QED BY <2>1 DEF SquareOf
<1>4. ASSUME NEW i \in 1..3, NEW j \in 1..3
      PROVE  3 * (i - 1) + j - 1 \in Grid /\ (3 * (i - 1) + j - 1) % 3 = j - 1
  BY DEF Grid
<1>5. ASSUME NEW i \in 1..3, NEW j \in 1..3, NEW k \in 1..3, NEW l \in 1..3
      PROVE  /\ 3 * (i - 1) + j - 1 = 3 * (k - 1) + l - 1 => i = k /\ j = l
             /\ 3 * (k - 1) + l - 1 = 3 * (i - 1) + j - 1 + 1 => (i = k <=> j - 1 # 2)
  OBVIOUS
<1>6. QED
  <2> HIDE DEF row, col
  <2>1. row(x) \in Grid /\ col(x) \in Grid /\ row(x) % 3 = x[3] - 1 /\ col(x) % 3 = x[4] - 1
    BY <1>1, <1>2, <1>4
  <2>2. row(x) = row(y) => x[1] = y[1]
    BY <1>1, <1>2, <1>5
  <2>3. col(x) = col(y) => x[2] = y[2]
    BY <1>1, <1>2, <1>5
  <2>4. col(y) = col(x) + 1 => (x[2] = y[2] <=> x[4] - 1 # 2)
    BY <1>1, <1>2, <1>5
  <2>5. row(y) = row(x) + 1 => (x[1] = y[1] <=> x[3] - 1 # 2)
    BY <1>1, <1>2, <1>5
  <2>6. QED BY <1>3, <2>1, <2>2, <2>3, <2>4, <2>5

-----------------------------------------------------------------------------
(***************************************************************************)
(* The main window.                                                        *)
(***************************************************************************)
\* The cells of w hold what is to be shown of board b, with details or not.
Agrees(w, b, dt) ==
  \A x \in Cell :
    /\ w.val[x] = IF b = Nil THEN ALL ELSE masked(item_val(b, dt, x))
    /\ w.mode[x] <=> b # Nil /\ x \notin b.det

\* The inductive invariant: the widget agrees with the board, and what is on the
\* screen is what the widget would paint now.
ScreenInv == TypeOK /\ Painted(widget) /\ Agrees(widget, it, details)

\* Only cells that exist are set.
LEMMA OnBoard ==
  ASSUME NEW w, NEW a, NEW m
  PROVE  sudoku_board_set_val(w, Cell, a, m) = set_val(w, Cell, a, m)
<1>1. {x \in Cell : row(x) \in 0..digits - 1 /\ col(x) \in 0..digits - 1} = Cell
  BY Places9
<1>2. QED
  BY <1>1 DEF sudoku_board_set_val

\* The value of a cell fits the mask.
LEMMA ItemVal ==
  ASSUME NEW b \in Shown, NEW dt \in BOOLEAN, NEW x \in Cell
  PROVE  /\ b.cand[x] \in SUBSET Digit
         /\ masked(item_val(b, dt, x)) =
              IF b.cand[x] # {} /\ ~dt /\ x \notin b.det THEN ALL ELSE BitsOf(b.cand[x])
         /\ masked(item_val(b, dt, x)) \in 0..ALL
<1>1. b.cand[x] \in SUBSET Digit
  BY ShownAssumption DEF Boards
<1>2. BitsOf(b.cand[x]) \in 0..ALL /\ (BitsOf(b.cand[x]) = 0 <=> b.cand[x] = {})
  BY <1>1, Bits
<1>3. item_val(b, dt, x) =
        IF b.cand[x] # {} /\ ~dt /\ x \notin b.det THEN -1 ELSE BitsOf(b.cand[x])
  BY <1>2 DEF item_val, cell_val
<1>4. ALL \in 0..ALL
  BY BitsAssumption
<1>5. QED
  BY <1>1, <1>2, <1>3, <1>4, Masking

\* print_all leaves the widget in agreement with the board.
LEMMA PrintAll ==
  ASSUME widget \in Widgets, Painted(widget), NEW b \in Shown, NEW dt \in BOOLEAN,
         NEW v, v = print_all(b, dt)
  PROVE  v \in Widgets /\ Painted(v) /\ Agrees(v, b, dt)
<1> DEFINE a == [x \in Cell |-> item_val(b, dt, x)]
           m == [x \in Cell |-> x \notin b.det]
<1>1. v = set_val(widget, Cell, a, m)
  BY OnBoard DEF print_all
<1>2. \A x \in Cell : masked(a[x]) \in 0..ALL /\ m[x] \in BOOLEAN
  BY ItemVal
<1>3. \A x \in Cell : a[x] = item_val(b, dt, x) /\ (m[x] <=> x \notin b.det)
  OBVIOUS
<1> HIDE DEF a, m
<1>4. /\ v \in Widgets /\ Painted(v)
      /\ v.val = [x \in Cell |-> IF x \in Cell THEN masked(a[x]) ELSE widget.val[x]]
      /\ v.mode = [x \in Cell |-> IF x \in Cell THEN m[x] ELSE widget.mode[x]]
  BY <1>1, <1>2, SetVal
<1>5. \A x \in Cell : v.val[x] = masked(a[x]) /\ v.mode[x] = m[x]
  BY <1>4
<1>6. b # Nil
  BY ShownAssumption
<1>7. QED
  BY <1>3, <1>4, <1>5, <1>6 DEF Agrees

\* print_blank_board leaves it in agreement with no board.
LEMMA PrintBlank ==
  ASSUME widget \in Widgets, Painted(widget), NEW dt, NEW v, v = print_blank_board
  PROVE  v \in Widgets /\ Painted(v) /\ Agrees(v, Nil, dt)
<1> DEFINE a == [x \in Cell |-> -1]
           m == [x \in Cell |-> FALSE]
<1>1. v = set_val(widget, Cell, a, m)
  BY OnBoard DEF print_blank_board
<1>2. \A x \in Cell : a[x] = -1 /\ m[x] = FALSE
  OBVIOUS
<1>3. ALL \in 0..ALL /\ masked(-1) = ALL
  BY BitsAssumption, Masking
<1> HIDE DEF a, m
<1>4. \A x \in Cell : masked(a[x]) \in 0..ALL /\ m[x] \in BOOLEAN
  BY <1>2, <1>3
<1>5. /\ v \in Widgets /\ Painted(v)
      /\ v.val = [x \in Cell |-> IF x \in Cell THEN masked(a[x]) ELSE widget.val[x]]
      /\ v.mode = [x \in Cell |-> IF x \in Cell THEN m[x] ELSE widget.mode[x]]
  BY <1>1, <1>4, SetVal
<1>6. \A x \in Cell : v.val[x] = ALL /\ v.mode[x] = FALSE
  BY <1>2, <1>3, <1>5
<1>7. QED
  BY <1>5, <1>6 DEF Agrees

\* The initial widget.
LEMMA NewBoard ==
  ASSUME NEW e \in BOOLEAN, NEW v, v = sudoku_board_new(e)
  PROVE  /\ v \in Widgets /\ Painted(v) /\ ~v.window /\ v.gray = {} /\ v.editable = e
         /\ \A x \in Cell : v.val[x] = ALL /\ ~v.mode[x]
<1>1. ALL \in 0..ALL
  BY BitsAssumption
<1>2. /\ v.val = [x \in Cell |-> ALL] /\ v.mode = [x \in Cell |-> FALSE]
      /\ v.screen = [x \in Cell |-> Unpainted] /\ v.window = FALSE /\ v.gray = {} /\ v.editable = e
  BY DEF sudoku_board_new, sudoku_cell_init
<1>3. v \in Widgets
  BY <1>1, WidgetsType DEF sudoku_board_new, sudoku_cell_init
<1>4. QED
  BY <1>2, <1>3 DEF Painted

\* The window appears, and everything is painted.
LEMMA ShowAll ==
  ASSUME NEW w \in Widgets, NEW v, v = show_all(w)
  PROVE  /\ v \in Widgets /\ v.val = w.val /\ v.mode = w.mode /\ v.gray = w.gray
         /\ v.editable = w.editable /\ v.window = TRUE /\ Complete(v) /\ Painted(v)
<1> DEFINE u == [w EXCEPT !.window = TRUE]
           S == [x \in Cell |-> draw(u, x)]
<1>1. v = [u EXCEPT !.screen = S]
  BY DEF show_all
<1>2. /\ u \in Widgets /\ u.val = w.val /\ u.mode = w.mode /\ u.gray = w.gray
      /\ u.editable = w.editable /\ u.window = TRUE
  BY WidgetsType
<1> HIDE DEF u
<1>3. S \in [Cell -> Pictures \cup {Unpainted}] /\ \A x \in Cell : S[x] = draw(u, x)
  BY DrawType
<1> HIDE DEF S
<1>4. /\ v.val = u.val /\ v.mode = u.mode /\ v.editable = u.editable /\ v.window = u.window
      /\ v.gray = u.gray /\ v.screen = S /\ v \in Widgets
      /\ \A x \in Cell : draw(v, x) = draw(u, x)
  BY <1>1, <1>2, <1>3, Screens
<1>5. Complete(v)
  BY <1>3, <1>4 DEF Complete
<1>6. QED
  BY <1>2, <1>4, <1>5 DEF Complete, Painted

\* Some cells are painted again and others are overwritten.
LEMMA Repainted ==
  ASSUME NEW w \in Widgets, w.window = TRUE,
         NEW S \in [Cell -> Pictures \cup {Unpainted}],
         \A x \in Cell : S[x] = Unpainted \/ S[x] = draw(w, x),
         NEW v, v = [w EXCEPT !.screen = S]
  PROVE  v \in Widgets /\ v.val = w.val /\ v.mode = w.mode /\ Painted(v)
<1>1. /\ v \in Widgets /\ v.val = w.val /\ v.mode = w.mode /\ v.window = w.window
      /\ v.screen = S /\ \A x \in Cell : draw(v, x) = draw(w, x)
  BY Screens
<1>2. QED BY <1>1 DEF Painted

\* Covering and uncovering change nothing but the screen.
LEMMA Covering ==
  ASSUME NEW w \in Widgets, Painted(w), w.window = TRUE, NEW P,
         NEW v, v = Overwrite(w, P) \/ v = Expose(w)
  PROVE  v \in Widgets /\ v.val = w.val /\ v.mode = w.mode /\ Painted(v)
<1>1. \A x \in Cell : /\ w.screen[x] \in Pictures \cup {Unpainted} /\ draw(w, x) \in Pictures
                      /\ w.screen[x] = Unpainted \/ w.screen[x] = draw(w, x)
  BY DrawType, WidgetsType DEF Painted
<1>2. CASE v = Overwrite(w, P)
  <2> DEFINE S == [x \in Cell |-> IF x \in P THEN Unpainted ELSE w.screen[x]]
  <2>1. v = [w EXCEPT !.screen = S]
    BY <1>2, WidgetsType DEF Overwrite
  <2>2. S \in [Cell -> Pictures \cup {Unpainted}] /\ \A x \in Cell : S[x] = Unpainted \/ S[x] = draw(w, x)
    BY <1>1
  <2> HIDE DEF S
  <2>3. QED BY <2>1, <2>2, Repainted
<1>3. CASE v = Expose(w)
  <2> DEFINE S == [x \in Cell |-> IF w.screen[x] = Unpainted THEN draw(w, x) ELSE w.screen[x]]
  <2>1. v = [w EXCEPT !.screen = S]
    BY <1>3, WidgetsType DEF Expose
  <2>2. S \in [Cell -> Pictures \cup {Unpainted}] /\ \A x \in Cell : S[x] = Unpainted \/ S[x] = draw(w, x)
    BY <1>1
  <2> HIDE DEF S
  <2>3. QED BY <2>1, <2>2, Repainted
<1>4. QED
  BY <1>2, <1>3

\* Every action of the main window preserves the invariant.
LEMMA ScreenStep == ScreenInv /\ [Next]_vars => ScreenInv'
<1> SUFFICES ASSUME ScreenInv, [Next]_vars PROVE ScreenInv'
  OBVIOUS
<1>1. /\ it \in Shown \cup {Nil} /\ details \in BOOLEAN /\ widget \in Widgets
      /\ Painted(widget) /\ Agrees(widget, it, details)
  BY DEF ScreenInv, TypeOK
<1>2. ASSUME it' \in Shown \cup {Nil}, details' \in BOOLEAN, widget' \in Widgets, Painted(widget'),
             Agrees(widget', it', details')
      PROVE  ScreenInv'
  BY <1>2 DEF ScreenInv, TypeOK, Painted, Agrees, draw, item_val, cell_val
<1>3. CASE ShowWindow
  <2>1. widget' = show_all(widget) /\ it' = it /\ details' = details
    BY <1>3 DEF ShowWindow
  <2>2. /\ widget' \in Widgets /\ widget'.val = widget.val /\ widget'.mode = widget.mode
        /\ Painted(widget')
    BY <1>1, <2>1, ShowAll
  <2>3. Agrees(widget', it', details')
    BY <1>1, <2>1, <2>2 DEF Agrees
  <2>4. QED BY <1>1, <1>2, <2>1, <2>2, <2>3
<1>4. ASSUME NEW b \in Shown, LoadAtStart(b) \/ Change(b) PROVE ScreenInv'
  <2>1. widget' = print_all(b, details) /\ it' = b /\ details' = details
    BY <1>4 DEF LoadAtStart, Change
  <2>2. widget' \in Widgets /\ Painted(widget') /\ Agrees(widget', it', details')
    BY <1>1, <2>1, PrintAll
  <2>3. QED BY <1>1, <1>2, <2>1, <2>2
<1>5. ASSUME NEW dt \in BOOLEAN, SetDetails(dt) PROVE ScreenInv'
  <2>1. widget' = print_all(it, dt) /\ it' = it /\ details' = dt /\ it \in Shown
    BY <1>1, <1>5 DEF SetDetails
  <2>2. widget' \in Widgets /\ Painted(widget') /\ Agrees(widget', it', details')
    BY <1>1, <2>1, PrintAll
  <2>3. QED BY <1>1, <1>2, <2>1, <2>2
<1>6. CASE NoBoard
  <2>1. widget' = print_blank_board /\ it' = it /\ details' = details /\ it = Nil
    BY <1>6 DEF NoBoard
  <2>2. widget' \in Widgets /\ Painted(widget') /\ Agrees(widget', it', details')
    BY <1>1, <2>1, PrintBlank
  <2>3. QED BY <1>1, <1>2, <2>1, <2>2
<1>7. ASSUME NEW P \in Spots, Cover(P) PROVE ScreenInv'
  <2>1. /\ widget.window = TRUE /\ it' = it /\ details' = details
        /\ widget' = Overwrite(widget, P)
    BY <1>1, <1>7, WidgetsType DEF Cover
  <2>2. /\ widget' \in Widgets /\ widget'.val = widget.val /\ widget'.mode = widget.mode
        /\ Painted(widget')
    BY <1>1, <2>1, Covering
  <2>3. Agrees(widget', it', details')
    BY <1>1, <2>1, <2>2 DEF Agrees
  <2>4. QED BY <1>1, <1>2, <2>1, <2>2, <2>3
<1>8. CASE Uncover
  <2>1. /\ widget.window = TRUE /\ it' = it /\ details' = details /\ widget' = Expose(widget)
    BY <1>1, <1>8, WidgetsType DEF Uncover
  <2>2. /\ widget' \in Widgets /\ widget'.val = widget.val /\ widget'.mode = widget.mode
        /\ Painted(widget')
    BY <1>1, <2>1, Covering
  <2>3. Agrees(widget', it', details')
    BY <1>1, <2>1, <2>2 DEF Agrees
  <2>4. QED BY <1>1, <1>2, <2>1, <2>2, <2>3
<1>9. CASE UNCHANGED vars
  BY <1>1, <1>2, <1>9 DEF vars
<1>10. QED
  BY <1>3, <1>4, <1>5, <1>6, <1>7, <1>8, <1>9 DEF Next

\* Digits are more than one.
LEMMA ManyDigits ==
  ASSUME sides > 1
  PROVE  Digit # {} /\ \A d \in Digit : Digit # {d}
<1>1. sides \in Nat /\ sides > 1
  BY SidesAssumption
<1>2. sides * sides \in Nat /\ sides * sides > 1
  BY <1>1
<1>3. 1 \in Digit /\ 2 \in Digit
  BY <1>2 DEF Digit, digits
<1>4. QED
  BY <1>3

\* The screen shows the board: what the cells hold is what the user is to read.
LEMMA ShowsBoard ==
  ASSUME sides > 1, ScreenInv
  PROVE  ScreenCurrent
<1>1. /\ it \in Shown \cup {Nil} /\ details \in BOOLEAN /\ widget \in Widgets
      /\ Painted(widget) /\ Agrees(widget, it, details)
  BY DEF ScreenInv, TypeOK
<1>2. SUFFICES ASSUME NEW x \in Cell, Readable(x) PROVE widget.screen[x].glyph =
                        IF Untouched(x) THEN [ink |-> "blank", digits |-> {}] ELSE Expected(x)
  BY DEF ScreenCurrent
<1>3. widget.screen[x].glyph = glyph(widget.val[x], widget.mode[x])
  <2>1. widget.screen[x] = draw(widget, x)
    BY <1>1, <1>2 DEF Readable, Painted
  <2>2. QED BY <2>1 DEF draw
<1>4. Digit # {} /\ \A d \in Digit : Digit # {d}
  BY ManyDigits
<1>5. ALL = BitsOf(Digit) /\ Digit \in SUBSET Digit
  BY BitsAssumption
<1>6. \A m : glyph(ALL, m) = [ink |-> "blank", digits |-> {}]
  BY <1>4, <1>5, Glyphs DEF GlyphOf
<1>7. CASE it = Nil
  BY <1>1, <1>3, <1>6, <1>7 DEF Agrees, Expected, Untouched
<1>8. CASE it \in Shown
  <2> DEFINE D == it.cand[x]
  <2>1. /\ D \in SUBSET Digit /\ it # Nil
        /\ widget.val[x] = IF D # {} /\ ~details /\ x \notin it.det THEN ALL ELSE BitsOf(D)
        /\ widget.mode[x] <=> x \notin it.det
    BY <1>1, <1>8, ItemVal, ShownAssumption DEF Agrees
  <2>2. x \in it.det => \A d, e \in D : d = e
    BY <1>8, ShownAssumption
  <2>3. Expected(x) =
          IF D = {} THEN [ink |-> "question", digits |-> {}]
          ELSE IF x \in it.det THEN [ink |-> "numeral", digits |-> D]
          ELSE IF ~details THEN [ink |-> "blank", digits |-> {}]
          ELSE [ink |-> "dots", digits |-> D]
    BY <2>1 DEF Expected
  <2>u. Untouched(x) <=> details /\ x \notin it.det /\ D = Digit
    BY <2>1 DEF Untouched
  <2>4. \A m : glyph(BitsOf(D), m) = GlyphOf(D, m)
    BY <2>1, Glyphs
  <2> HIDE DEF D
  <2>5. CASE D = {}
    BY <1>3, <1>4, <2>1, <2>3, <2>u, <2>4, <2>5 DEF GlyphOf
  <2>6. CASE D # {} /\ x \in it.det
    <3>1. PICK d \in Digit : D = {d}
      BY <2>1, <2>2, <2>6
    <3>2. QED BY <1>3, <2>1, <2>3, <2>u, <2>4, <2>6, <3>1 DEF GlyphOf
  <2>7. CASE D # {} /\ x \notin it.det /\ ~details
    BY <1>3, <1>6, <2>1, <2>3, <2>u, <2>7
  <2>8. CASE D # {} /\ x \notin it.det /\ details
    BY <1>3, <1>4, <2>1, <2>3, <2>u, <2>4, <2>8 DEF GlyphOf
  <2>9. QED BY <1>1, <2>5, <2>6, <2>7, <2>8
<1>9. QED
  BY <1>1, <1>7, <1>8

\* The grid and the places of the glyphs are right.
LEMMA GridRight ==
  ASSUME sides = 3, ScreenInv
  PROVE  GridDrawn /\ GlyphCentered
<1>1. ASSUME NEW x \in Cell, Readable(x)
      PROVE  /\ \A s \in Borders : widget.screen[x].lines[s] = line(row(x), col(x), s)
             /\ widget.screen[x].at = <<offset(col(x)), offset(row(x))>>
             /\ row(x) \in Grid /\ col(x) \in Grid
  <2>1. widget.screen[x] = draw(widget, x)
    BY <1>1 DEF ScreenInv, Painted, Readable
  <2>2. QED BY <2>1, Neighbours DEF draw
<1>2. GlyphCentered
  <2>1. SUFFICES ASSUME NEW x \in Cell, Readable(x)
        PROVE  widget.screen[x].at =
                 <<(widget.screen[x].lines["left"] - widget.screen[x].lines["right"]) \div 2,
                   (widget.screen[x].lines["top"] - widget.screen[x].lines["bottom"]) \div 2>>
    BY DEF GlyphCentered
  <2>2. QED BY <1>1, <2>1, Centered DEF Borders
<1>3. GridDrawn
  <2>1. ASSUME NEW x \in Cell, NEW y \in Cell, Readable(x), Readable(y), row(x) = row(y),
               col(y) = col(x) + 1
        PROVE  widget.screen[x].lines["right"] + widget.screen[y].lines["left"]
                 = (IF SquareOf(x) = SquareOf(y) THEN 1 ELSE 2) * INSIDE
    <3>1. /\ widget.screen[x].lines["right"] = line(row(x), col(x), "right")
          /\ widget.screen[y].lines["left"] = line(row(x), col(x) + 1, "left")
          /\ row(x) \in Grid /\ col(x) \in Grid /\ col(x) + 1 \in Grid
      BY <1>1, <2>1 DEF Borders
    <3>2. SquareOf(x) = SquareOf(y) <=> col(x) % 3 # 2
      BY <2>1, Neighbours
    <3>3. line(row(x), col(x), "right") + line(row(x), col(x) + 1, "left") =
            IF col(x) % 3 = 2 THEN 4 ELSE 2
      BY <3>1, Joined
    <3>4. QED BY <3>1, <3>2, <3>3 DEF INSIDE
  <2>2. ASSUME NEW x \in Cell, NEW y \in Cell, Readable(x), Readable(y), col(x) = col(y),
               row(y) = row(x) + 1
        PROVE  widget.screen[x].lines["bottom"] + widget.screen[y].lines["top"]
                 = (IF SquareOf(x) = SquareOf(y) THEN 1 ELSE 2) * INSIDE
    <3>1. /\ widget.screen[x].lines["bottom"] = line(row(x), col(x), "bottom")
          /\ widget.screen[y].lines["top"] = line(row(x) + 1, col(x), "top")
          /\ row(x) \in Grid /\ col(x) \in Grid /\ row(x) + 1 \in Grid
      BY <1>1, <2>2 DEF Borders
    <3>2. SquareOf(x) = SquareOf(y) <=> row(x) % 3 # 2
      BY <2>2, Neighbours
    <3>3. line(row(x), col(x), "bottom") + line(row(x) + 1, col(x), "top") =
            IF row(x) % 3 = 2 THEN 4 ELSE 2
      BY <3>1, Joined
    <3>4. QED BY <3>1, <3>2, <3>3 DEF INSIDE
  <2>3. ASSUME NEW x \in Cell, Readable(x)
        PROVE  /\ col(x) = 0 => widget.screen[x].lines["left"] = 2 * INSIDE
               /\ col(x) = digits - 1 => widget.screen[x].lines["right"] = 2 * INSIDE
               /\ row(x) = 0 => widget.screen[x].lines["top"] = 2 * INSIDE
               /\ row(x) = digits - 1 => widget.screen[x].lines["bottom"] = 2 * INSIDE
    <3>1. digits - 1 = 8
      BY DEF digits
    <3>2. /\ row(x) \in Grid /\ col(x) \in Grid
          /\ \A s \in Borders : widget.screen[x].lines[s] = line(row(x), col(x), s)
      BY <1>1, <2>3
    <3>3. /\ col(x) = 0 => line(row(x), col(x), "left") = 4
          /\ col(x) = 8 => line(row(x), col(x), "right") = 4
          /\ row(x) = 0 => line(row(x), col(x), "top") = 4
          /\ row(x) = 8 => line(row(x), col(x), "bottom") = 4
      BY <3>2, Strokes
    <3>4. QED BY <3>1, <3>2, <3>3 DEF INSIDE, Borders
  <2>4. QED BY <2>1, <2>2, <2>3 DEF GridDrawn
<1>4. QED
  BY <1>2, <1>3

\* Whatever commands, files and other windows come, the screen shows the current
\* board in the current view, in a grid with thick and thin lines where they
\* belong and centered glyphs (sudoku_cell_set_val, draw, print_all).
THEOREM ScreenShown ==
  ASSUME sides = 3
  PROVE  Spec => []ScreenRight
<1>1. Init => ScreenInv
  <2>1. SUFFICES ASSUME Init PROVE ScreenInv
    OBVIOUS
  <2>2. \E e \in BOOLEAN : widget = sudoku_board_new(e)
    BY <2>1, Zenon DEF Init
  <2>3. widget \in Widgets /\ Painted(widget) /\ \A x \in Cell : widget.val[x] = ALL /\ ~widget.mode[x]
    BY <2>2, NewBoard
  <2>4. QED BY <2>1, <2>3 DEF Init, ScreenInv, TypeOK, Agrees
<1>2. ScreenInv /\ [Next]_vars => ScreenInv'
  BY ScreenStep
<1>3. ScreenInv => ScreenRight
  BY ShowsBoard, GridRight DEF ScreenRight, ScreenInv
<1>4. QED
  BY <1>1, <1>2, <1>3, PTL DEF Spec

-----------------------------------------------------------------------------
(***************************************************************************)
(* The editor.                                                             *)
(***************************************************************************)
\* The cells of w hold text t, as keys and sudoku_dialog_set put it there.
Holds(w, t) == \A x \in Cell : w.val[x] = boardchar2val(t[x]) /\ ~w.mode[x]

\* The widget w is on the screen, where every cell shows its digits.
Ready(w) == w \in Widgets /\ w.window = TRUE /\ Complete(w)

\* The inductive invariant: an open dialog holds the text that is wanted, and
\* everything is painted as it is.
EditInv ==
  /\ EditTypeOK /\ dialog.editable
  /\ open => /\ Ready(dialog) /\ Holds(dialog, wanted)
             /\ \A x \in Cell : x \in dialog.gray <=> x = focus

\* There are digits2 cells.
LEMMA BoardSize == Cardinality(Cell) = digits2
<1> DEFINE P == Coord \X Coord
           f == [p \in P \X P |-> <<p[1][1], p[1][2], p[2][1], p[2][2]>>]
<1>1. IsFiniteSet(Coord) /\ Cardinality(Coord) = sides
  BY SidesAssumption, FS_Interval DEF Coord
<1>2. IsFiniteSet(P) /\ Cardinality(P) = digits
  BY <1>1, FS_Product DEF digits
<1>3. IsFiniteSet(P \X P) /\ Cardinality(P \X P) = digits2
  <2> HIDE DEF P
  <2>1. QED BY <1>2, FS_Product DEF digits2
<1>4. f \in Bijection(P \X P, Cell)
  <2>1. f \in [P \X P -> Cell]
    BY DEF Cell
  <2>2. ASSUME NEW x \in Cell
        PROVE  \E p \in P \X P : f[p] = x
    <3>1. /\ x = <<x[1], x[2], x[3], x[4]>>
          /\ x[1] \in Coord /\ x[2] \in Coord /\ x[3] \in Coord /\ x[4] \in Coord
      BY DEF Cell
    <3>2. <<<<x[1], x[2]>>, <<x[3], x[4]>>>> \in P \X P
      BY <3>1
    <3>3. f[<<<<x[1], x[2]>>, <<x[3], x[4]>>>>] = x
      BY <3>1, <3>2
    <3>4. QED BY <3>2, <3>3
  <2>3. ASSUME NEW p \in P \X P, NEW q \in P \X P, f[p] = f[q] PROVE p = q
    <3>1. p[1] = q[1]
      BY <2>3
    <3>2. p[2] = q[2]
      BY <2>3
    <3>3. QED BY <3>1, <3>2
  <2> HIDE DEF f, P
  <2>4. QED BY <2>1, <2>2, <2>3 DEF Bijection, Injection, Surjection, IsInjective
<1>5. QED
  <2> HIDE DEF f, P
  <2>1. QED BY <1>3, <1>4, FS_Bijection DEF ExistsBijection

\* Every text is long enough to be taken.
LEMMA TextLength ==
  ASSUME NEW s \in Texts
  PROVE  boardlen(s) = digits2
<1>1. {x \in Cell : s[x] \in Digit \cup {Period}} = Cell
  BY DEF Texts
<1>2. s # Nil
  BY GivenAssumption
<1>3. QED
  BY <1>1, <1>2, BoardSize DEF boardlen

\* From characters to bits and back, and what is painted for them.
LEMMA Characters ==
  ASSUME sides > 1, NEW c \in Digit \cup {Period}
  PROVE  /\ boardchar2val(c) \in 0..ALL /\ masked(boardchar2val(c)) = boardchar2val(c)
         /\ val2boardchar(boardchar2val(c)) = c
         /\ glyph(boardchar2val(c), FALSE) =
              IF c = Period THEN [ink |-> "blank", digits |-> {}]
              ELSE [ink |-> "numeral", digits |-> {c}]
<1>1. Period \notin Digit /\ Digit \in SUBSET Digit
  BY DEF Period, Digit
<1>2. CASE c \in Digit
  <2>1. {c} \in SUBSET Digit /\ c # Period /\ boardchar2val(c) = Bit(c) /\ Bit(c) = BitsOf({c})
    BY <1>1, <1>2, BitsAssumption DEF boardchar2val
  <2>2. BitsOf({c}) \in 0..ALL /\ \A d \in Digit : BitsOf({c}) = Bit(d) <=> {c} = {d}
    BY <2>1, Bits
  <2>3. \A d \in Digit : Bit(c) = Bit(d) <=> d = c
    BY <2>1, <2>2
  <2>4. val2boardchar(Bit(c)) = c
    BY <1>2, <2>3 DEF val2boardchar
  <2>5. glyph(BitsOf({c}), FALSE) = [ink |-> "numeral", digits |-> {c}]
    BY <1>2, <2>1, Glyphs DEF GlyphOf
  <2>6. QED BY <2>1, <2>2, <2>4, <2>5, Masking
<1>3. CASE c = Period
  <2>1. boardchar2val(c) = ALL /\ ALL = BitsOf(Digit) /\ ALL \in 0..ALL
    BY <1>1, <1>3, BitsAssumption DEF boardchar2val
  <2>2. \A d \in Digit : ALL # Bit(d)
    BY <1>1, <2>1, Bits, ManyDigits
  <2>3. val2boardchar(ALL) = Period
    BY <2>2 DEF val2boardchar
  <2>4. glyph(BitsOf(Digit), FALSE) = [ink |-> "blank", digits |-> {}]
    BY <1>1, Glyphs, ManyDigits DEF GlyphOf
  <2>5. QED BY <1>3, <2>1, <2>3, <2>4, Masking
<1>4. QED
  BY <1>2, <1>3

\* The text of a dialog that is opened with t.
Blank == [x \in Cell |-> Period]
Wanted(t) == IF t = Nil THEN Blank ELSE t

\* sudoku_dialog_set puts a text into a new widget; without one it stays blank.
LEMMA DialogSet ==
  ASSUME sides > 1, NEW s \in Texts \cup {Nil}, NEW w \in Widgets, Holds(w, Blank),
         NEW v, v = sudoku_dialog_set(w, s)
  PROVE  /\ v \in Widgets /\ v.gray = w.gray /\ v.editable = w.editable
         /\ Holds(v, Wanted(s))
<1>1. CASE s = Nil
  <2>1. digits2 # 0
    <3>1. sides \in Nat /\ sides > 0
      BY SidesAssumption
    <3>2. digits \in Nat /\ digits > 0
      BY <3>1 DEF digits
    <3>3. QED BY <3>2 DEF digits2
  <2>2. v = w
    BY <1>1, <2>1 DEF sudoku_dialog_set, boardlen
  <2>3. QED BY <1>1, <2>2 DEF Wanted
<1>2. CASE s \in Texts
  <2> DEFINE a == [x \in Cell |-> boardchar2val(s[x])]
             m == [x \in Cell |-> FALSE]
  <2>1. v = set_val(w, Cell, a, m) /\ s # Nil
    BY <1>2, TextLength, OnBoard, GivenAssumption DEF sudoku_dialog_set
  <2>2. \A x \in Cell : /\ a[x] = boardchar2val(s[x]) /\ masked(a[x]) = a[x] /\ a[x] \in 0..ALL
                        /\ m[x] \in BOOLEAN /\ ~m[x]
    BY <1>2, Characters DEF Texts
  <2> HIDE DEF a, m
  <2>3. /\ v \in Widgets /\ v.gray = w.gray /\ v.editable = w.editable
        /\ v.val = [x \in Cell |-> IF x \in Cell THEN masked(a[x]) ELSE w.val[x]]
        /\ v.mode = [x \in Cell |-> IF x \in Cell THEN m[x] ELSE w.mode[x]]
    BY <2>1, <2>2, SetVal
  <2>4. \A x \in Cell : v.val[x] = masked(a[x]) /\ v.mode[x] = m[x]
    BY <2>3
  <2>5. QED BY <2>1, <2>2, <2>3, <2>4 DEF Holds, Wanted
<1>3. QED
  BY <1>1, <1>2

\* A cell loses the focus, and is painted without its gray background.
LEMMA FocusOut ==
  ASSUME NEW w, Ready(w), NEW f \in Cell, NEW v, v = focus_out(w, f)
  PROVE  /\ Ready(v) /\ v.editable = w.editable
         /\ v.val = w.val /\ v.mode = w.mode /\ v.gray = w.gray \ {f}
<1> DEFINE G == w.gray \ {f}
           P == {f}
           u == [w EXCEPT !.gray = G]
<1>1. G \in SUBSET Cell /\ P \in SUBSET Cell /\ \A x \in Cell \ P : x \in G <=> x \in w.gray
  BY WidgetsType DEF Ready
<1>2. v = redraw_canvas(u, P)
  BY WidgetsType DEF focus_out, Ready
<1> HIDE DEF G, P
<1>3. /\ u \in Widgets /\ u.val = w.val /\ u.mode = w.mode /\ u.editable = w.editable
      /\ u.window = w.window /\ u.screen = w.screen /\ u.gray = G
  BY <1>1, WidgetsType DEF Ready
<1> HIDE DEF u
<1>4. \A x \in Cell \ P : draw(u, x) = draw(w, x)
  BY <1>1, <1>3, DrawAlike
<1>5. QED
  BY <1>1, <1>2, <1>3, <1>4, Redrawn DEF G, Ready

\* A cell gets the focus.
LEMMA FocusIn ==
  ASSUME NEW w, Ready(w), NEW f \in Cell, NEW v, v = focus_in(w, f)
  PROVE  /\ Ready(v) /\ v.editable = w.editable
         /\ v.val = w.val /\ v.mode = w.mode /\ v.gray = w.gray \cup {f}
<1> DEFINE G == w.gray \cup {f}
           P == {f}
           u == [w EXCEPT !.gray = G]
<1>1. G \in SUBSET Cell /\ P \in SUBSET Cell /\ \A x \in Cell \ P : x \in G <=> x \in w.gray
  BY WidgetsType DEF Ready
<1>2. v = redraw_canvas(u, P)
  BY WidgetsType DEF focus_in, Ready
<1> HIDE DEF G, P
<1>3. /\ u \in Widgets /\ u.val = w.val /\ u.mode = w.mode /\ u.editable = w.editable
      /\ u.window = w.window /\ u.screen = w.screen /\ u.gray = G
  BY <1>1, WidgetsType DEF Ready
<1> HIDE DEF u
<1>4. \A x \in Cell \ P : draw(u, x) = draw(w, x)
  BY <1>1, <1>3, DrawAlike
<1>5. QED
  BY <1>1, <1>2, <1>3, <1>4, Redrawn DEF G, Ready

\* The functions that Focus and KeyPress apply to the widget.
Moved(w, f, x) == focus_in(IF f = Nil THEN w ELSE focus_out(w, f), x)
Typed(w, x, k) == set_val(w, {x}, [y \in {x} |-> pressed_value(k)], [y \in {x} |-> FALSE])

\* The focus moves: the old cell loses its gray background, the new one gets it.
LEMMA FocusMoves ==
  ASSUME NEW w, Ready(w), NEW f \in Cell \cup {Nil},
         \A y \in Cell : y \in w.gray <=> y = f,
         NEW x \in Cell,
         NEW v, v = Moved(w, f, x)
  PROVE  /\ Ready(v) /\ v.editable = w.editable
         /\ v.val = w.val /\ v.mode = w.mode
         /\ \A y \in Cell : y \in v.gray <=> y = x
<1> DEFINE u == IF f = Nil THEN w ELSE focus_out(w, f)
<1>1. w.gray \in SUBSET Cell
  BY WidgetsType DEF Ready
<1>2. /\ Ready(u) /\ u.editable = w.editable
      /\ u.val = w.val /\ u.mode = w.mode /\ u.gray = {}
  <2>1. CASE f = Nil
    <3>1. w.gray = {}
      BY <1>1, <2>1, SitesAssumption
    <3>2. QED BY <2>1, <3>1
  <2>2. CASE f # Nil
    <3>1. u = focus_out(w, f) /\ f \in Cell
      BY <2>2
    <3>2. w.gray \ {f} = {}
      BY <1>1
    <3> HIDE DEF u
    <3>3. QED BY <3>1, <3>2, FocusOut
  <2>3. QED BY <2>1, <2>2
<1>3. v = focus_in(u, x)
  BY DEF Moved
<1> HIDE DEF u
<1>4. /\ Ready(v) /\ v.editable = u.editable
      /\ v.val = u.val /\ v.mode = u.mode /\ v.gray = u.gray \cup {x}
  BY <1>2, <1>3, FocusIn
<1>5. QED
  BY <1>2, <1>4

LEMMA SameValues ==
  ASSUME NEW A, NEW B, NEW f \in [A -> B], NEW g \in [A -> B], \A x \in A : f[x] = g[x]
  PROVE  f = g
OBVIOUS

\* Widget v is w, with text s in it, after key k in cell x.
AfterKey(v, w, s, x, k) ==
  /\ Ready(v) /\ v.editable = w.editable
  /\ v.gray = w.gray /\ Holds(v, [s EXCEPT ![x] = k])
  /\ v.val[x] = pressed_value(k) /\ v.mode[x] = FALSE
  /\ v.val = w.val <=> pressed_value(k) = w.val[x]

\* A key changes one cell, and paints it if it differs.
LEMMA KeyTyped ==
  ASSUME sides > 1, NEW w, Ready(w), NEW s \in Texts, Holds(w, s),
         NEW x \in Cell, NEW k \in Digit \cup {Period},
         NEW v, v = Typed(w, x, k)
  PROVE  AfterKey(v, w, s, x, k)
<1> DEFINE a == [y \in {x} |-> pressed_value(k)]
           m == [y \in {x} |-> FALSE]
<1>1. pressed_value(k) = boardchar2val(k)
  BY DEF pressed_value, boardchar2val
<1>2. \A y \in {x} : /\ a[y] = boardchar2val(k) /\ masked(a[y]) = a[y] /\ a[y] \in 0..ALL
                     /\ m[y] \in BOOLEAN /\ ~m[y]
  BY <1>1, Characters
<1>3. v = set_val(w, {x}, a, m) /\ {x} \in SUBSET Cell
  BY DEF Typed
<1> HIDE DEF a, m
<1>4. /\ Ready(v) /\ v.editable = w.editable /\ v.gray = w.gray
      /\ v.val = [y \in Cell |-> IF y \in {x} THEN masked(a[y]) ELSE w.val[y]]
      /\ v.mode = [y \in Cell |-> IF y \in {x} THEN m[y] ELSE w.mode[y]]
  BY <1>2, <1>3, SetVal DEF Ready
<1>5. v.val[x] = boardchar2val(k) /\ v.mode[x] = m[x] /\ ~m[x]
  <2>1. x \in Cell /\ x \in {x}
    OBVIOUS
  <2>2. v.val[x] = masked(a[x]) /\ v.mode[x] = m[x]
    BY <1>4, <2>1
  <2>3. QED BY <1>2, <2>1, <2>2
<1>6. v.mode[x] = FALSE
  BY <1>4, <1>5, WidgetsType DEF Ready
<1>7. ASSUME NEW y \in Cell, y # x
      PROVE  v.val[y] = w.val[y] /\ v.mode[y] = w.mode[y]
  <2>1. y \notin {x}
    BY <1>7
  <2>2. QED BY <1>4, <2>1
<1>8. Holds(v, [s EXCEPT ![x] = k])
  <2>1. [s EXCEPT ![x] = k][x] = k /\ \A y \in Cell : y # x => [s EXCEPT ![x] = k][y] = s[y]
    BY DEF Texts
  <2>2. ASSUME NEW y \in Cell
        PROVE  v.val[y] = boardchar2val([s EXCEPT ![x] = k][y]) /\ ~v.mode[y]
    <3>1. CASE y = x
      BY <1>5, <2>1, <3>1
    <3>2. CASE y # x
      <4>1. w.val[y] = boardchar2val(s[y]) /\ ~w.mode[y]
        BY DEF Holds
      <4>2. v.val[y] = w.val[y] /\ v.mode[y] = w.mode[y] /\ [s EXCEPT ![x] = k][y] = s[y]
        BY <1>7, <2>1, <3>2
      <4>3. QED BY <4>1, <4>2
    <3>3. QED BY <3>1, <3>2
  <2>3. QED BY <2>2 DEF Holds
<1>9. v.val = w.val <=> pressed_value(k) = w.val[x]
  <2>1. v.val \in [Cell -> 0..ALL] /\ w.val \in [Cell -> 0..ALL]
    BY <1>4, WidgetsType DEF Ready
  <2>2. ASSUME pressed_value(k) = w.val[x] PROVE v.val = w.val
    <3>1. ASSUME NEW y \in Cell PROVE v.val[y] = w.val[y]
      BY <1>1, <1>5, <1>7, <2>2
    <3>2. QED BY <2>1, <3>1, SameValues
  <2>3. QED BY <1>1, <1>5, <2>2
<1>10. QED
  BY <1>1, <1>4, <1>5, <1>6, <1>8, <1>9 DEF AfterKey

\* What the user reads in an open dialog, and what Apply makes of it.
LEMMA Reads ==
  ASSUME sides > 1, EditInv
  PROVE  ShowsEdits
<1>1. SUFFICES ASSUME open, NEW x \in Cell
      PROVE  /\ dialog.screen[x].gray <=> x = focus
             /\ dialog.screen[x].glyph =
                  IF wanted[x] = Period THEN [ink |-> "blank", digits |-> {}]
                  ELSE [ink |-> "numeral", digits |-> {wanted[x]}]
  BY DEF ShowsEdits
<1>2. /\ dialog.screen[x] = draw(dialog, x) /\ wanted[x] \in Digit \cup {Period}
      /\ dialog.val[x] = boardchar2val(wanted[x]) /\ ~dialog.mode[x]
      /\ x \in dialog.gray <=> x = focus
  BY <1>1 DEF EditInv, EditTypeOK, Texts, Ready, Complete, Holds
<1>3. /\ dialog.screen[x].gray = (x \in dialog.gray)
      /\ dialog.screen[x].glyph = glyph(dialog.val[x], dialog.mode[x])
  BY <1>2 DEF draw
<1>4. dialog.mode[x] = FALSE
  BY <1>1, <1>2, WidgetsType DEF EditInv, EditTypeOK
<1>5. QED
  BY <1>2, <1>3, <1>4, Characters

\* Apply makes the text that is wanted of the values of the cells.
LEMMA Applied ==
  ASSUME sides > 1, EditInv, open
  PROVE  [x \in Cell |-> val2boardchar(sudoku_board_get_val(dialog, x))] = wanted
<1>1. wanted \in [Cell -> Digit \cup {Period}]
  BY DEF EditInv, EditTypeOK, Texts
<1>2. ASSUME NEW x \in Cell PROVE val2boardchar(sudoku_board_get_val(dialog, x)) = wanted[x]
  <2>1. sudoku_board_get_val(dialog, x) = boardchar2val(wanted[x])
    BY Places9 DEF sudoku_board_get_val, EditInv, Holds
  <2>2. QED BY <1>1, <2>1, Characters
<1>3. QED
  BY <1>1, <1>2

\* What a signal tells.
Signalled ==
  signals' = (IF dialog'.val = dialog.val THEN <<>>
              ELSE <<<<row(focus), col(focus), dialog'.val[focus], FALSE>>>>)

\* A key.
LEMMA KeyStep ==
  ASSUME sides > 1, EditInv, NEW k \in Keys, KeyPress(k)
  PROVE  EditInv' /\ Signalled
<1>1. /\ open /\ focus \in Cell /\ dialog \in Widgets /\ wanted \in Texts /\ dialog.editable
      /\ Ready(dialog) /\ Holds(dialog, wanted)
      /\ \A x \in Cell : x \in dialog.gray <=> x = focus
  BY SitesAssumption DEF EditInv, EditTypeOK, KeyPress
<1>2. open' = open /\ focus' = focus /\ response' = response /\ result' = result
  BY DEF KeyPress
<1>3. CASE k = Other
  <2>1. dialog' = dialog /\ wanted' = wanted /\ signals' = <<>>
    BY <1>3 DEF KeyPress
  <2>2. Signalled
    BY <2>1 DEF Signalled
  <2>3. EditInv'
    <3>1. Ready(dialog)' /\ Holds(dialog, wanted)'
      BY <1>1, <2>1 DEF Ready, Complete, Holds, draw
    <3>2. QED BY <1>1, <1>2, <2>1, <3>1 DEF EditInv, EditTypeOK
  <2>4. QED BY <2>2, <2>3
<1>4. CASE k # Other
  <2> DEFINE new == pressed_value(k)
  <2>1. k \in Digit \cup {Period}
    BY <1>4, KeysAssumption
  <2>2. /\ pressed_key(focus, k) /\ wanted' = [wanted EXCEPT ![focus] = k]
    BY <1>1, <1>4 DEF KeyPress
  <2>3. /\ dialog' = Typed(dialog, focus, k)
        /\ signals' = IF new # dialog.val[focus]
                      THEN <<<<row(focus), col(focus), dialog'.val[focus], dialog'.mode[focus]>>>>
                      ELSE <<>>
    BY <2>2 DEF pressed_key, emits, Typed
  <2>4. /\ Ready(dialog') /\ dialog'.editable = dialog.editable /\ dialog'.gray = dialog.gray
        /\ Holds(dialog', [wanted EXCEPT ![focus] = k])
        /\ dialog'.val[focus] = new /\ dialog'.mode[focus] = FALSE
        /\ dialog'.val = dialog.val <=> new = dialog.val[focus]
    <3>1. /\ Ready(dialog) /\ wanted \in Texts /\ Holds(dialog, wanted) /\ focus \in Cell
          /\ dialog' = Typed(dialog, focus, k)
      BY <1>1, <2>3
    <3>2. AfterKey(dialog', dialog, wanted, focus, k)
      BY <2>1, <3>1, KeyTyped
    <3>3. QED BY <3>2 DEF AfterKey
  <2> HIDE DEF new
  <2>5. Signalled
    BY <2>3, <2>4 DEF Signalled
  <2>6. wanted' \in Texts
    BY <1>1, <2>1, <2>2 DEF Texts
  <2>7. Len(signals') <= 1
    BY <2>3
  <2>8. EditTypeOK' /\ dialog'.editable
    <3>1. dialog' \in Widgets
      BY <2>4 DEF Ready
    <3>2. dialog'.editable
      BY <1>1, <2>4
    <3>3. QED BY <1>1, <1>2, <2>6, <2>7, <3>1, <3>2 DEF EditInv, EditTypeOK
  <2>9. EditInv'
    BY <1>1, <1>2, <2>2, <2>4, <2>8 DEF EditInv, Ready, Complete, Holds, draw
  <2>10. QED BY <2>5, <2>9
<1>5. QED
  BY <1>3, <1>4

\* The dialog opens.
LEMMA OpenStep ==
  ASSUME sides > 1, EditInv, NEW t \in Given \cup {Nil}, Open(t)
  PROVE  EditInv'
<1> DEFINE s == sudoku_dialog_set(sudoku_board_new(TRUE), t)
<1>1. /\ open' /\ dialog' = show_all(s) /\ focus' = Nil /\ signals' = <<>>
      /\ response' = response /\ result' = result /\ wanted' = Wanted(t)
  BY DEF Open, Wanted, Blank
<1>2. t \in Texts \cup {Nil}
  BY GivenAssumption
<1>3. wanted' \in Texts
  <2>1. Blank \in Texts
    BY DEF Blank, Texts
  <2>2. QED BY <1>1, <1>2, <2>1 DEF Wanted
<1>4. \E e \in BOOLEAN : e /\ sudoku_board_new(TRUE) = sudoku_board_new(e)
  BY Zenon
<1>5. PICK w \in Widgets : w = sudoku_board_new(TRUE) /\ w.gray = {} /\ w.editable
                           /\ \A x \in Cell : w.val[x] = ALL /\ ~w.mode[x]
  BY <1>4, NewBoard
<1>6. Holds(w, Blank)
  <2>1. Period \notin Digit
    BY DEF Period, Digit
  <2>2. \A x \in Cell : boardchar2val(Blank[x]) = ALL
    BY <2>1 DEF boardchar2val, Blank
  <2>3. QED BY <1>5, <2>2 DEF Holds
<1>7. s = sudoku_dialog_set(w, t)
  BY <1>5
<1> HIDE DEF s
<1>8. s \in Widgets /\ s.gray = {} /\ s.editable /\ Holds(s, wanted')
  <2>1. /\ s \in Widgets /\ s.gray = w.gray /\ s.editable = w.editable
        /\ Holds(s, Wanted(t))
    BY <1>2, <1>6, <1>7, DialogSet
  <2>2. QED BY <1>1, <1>5, <2>1
<1>9. /\ dialog' \in Widgets /\ dialog'.val = s.val /\ dialog'.mode = s.mode /\ dialog'.gray = {}
      /\ dialog'.editable = s.editable /\ Ready(dialog')
  BY <1>1, <1>8, ShowAll DEF Ready
<1>10. Holds(dialog', wanted')
  BY <1>8, <1>9 DEF Holds
<1>11. \A x \in Cell : x \in dialog'.gray <=> x = focus'
  BY <1>1, <1>9, SitesAssumption
<1>12. EditTypeOK' /\ dialog'.editable
  BY <1>1, <1>3, <1>8, <1>9 DEF EditInv, EditTypeOK
<1>13. QED
  BY <1>9, <1>10, <1>11, <1>12 DEF EditInv, Ready, Complete, Holds, draw

\* The focus moves to another cell.
LEMMA FocusStep ==
  ASSUME EditInv, NEW x \in Sites, Focus(x)
  PROVE  EditInv' /\ Signalled
<1>1. dialog.editable /\ open /\ Holds(dialog, wanted) /\ x \in Cell
  BY SitesAssumption DEF EditInv, EditTypeOK, Focus
<1>2. /\ dialog' = Moved(dialog, focus, x)
      /\ open' = open /\ focus' = x /\ signals' = <<>>
      /\ response' = response /\ result' = result /\ wanted' = wanted
  BY DEF Focus, Moved
<1>3. /\ Ready(dialog') /\ dialog'.editable = dialog.editable
      /\ dialog'.val = dialog.val /\ dialog'.mode = dialog.mode
      /\ \A y \in Cell : y \in dialog'.gray <=> y = x
  <2>1. /\ Ready(dialog) /\ focus \in Cell \cup {Nil}
        /\ \A y \in Cell : y \in dialog.gray <=> y = focus
    BY SitesAssumption DEF EditInv, EditTypeOK, Focus
  <2>2. x \in Cell /\ dialog' = Moved(dialog, focus, x)
    BY <1>1, <1>2
  <2>3. QED BY <2>1, <2>2, FocusMoves
<1>4. Holds(dialog', wanted')
  BY <1>1, <1>2, <1>3 DEF Holds
<1>5. EditTypeOK' /\ dialog'.editable
  <2>1. dialog' \in Widgets /\ dialog'.editable
    BY <1>1, <1>3 DEF Ready
  <2>2. QED BY <1>1, <1>2, <2>1 DEF EditInv, EditTypeOK
<1>6. EditInv'
  BY <1>2, <1>3, <1>4, <1>5 DEF EditInv, Ready, Complete, Holds, draw
<1>7. QED
  BY <1>2, <1>3, <1>6 DEF Signalled

\* What the dialog returns, by the response.
Answered == result' = IF response' = "apply" THEN wanted ELSE Nil

\* Apply returns the text that is wanted, another response none.
LEMMA CloseStep ==
  ASSUME sides > 1, EditInv, NEW r \in Responses, Close(r)
  PROVE  EditInv' /\ ~open' /\ Answered
<1>1. /\ open /\ ~open' /\ open' \in BOOLEAN /\ focus' = Nil /\ signals' = <<>>
      /\ dialog' = dialog /\ wanted' = wanted /\ response' = r
  BY DEF Close
<1>2. Answered
  BY <1>1, Applied DEF Close, Answered
<1>3. result' \in Texts \cup {Nil}
  BY <1>2 DEF Answered, EditInv, EditTypeOK
<1>4. QED
  BY <1>1, <1>2, <1>3 DEF EditInv, EditTypeOK

LEMMA EditStep ==
  ASSUME sides > 1
  PROVE  /\ EditInit => EditInv
         /\ EditInv /\ [EditNext]_evars =>
              /\ EditInv'
              /\ open /\ ~open' => Answered
              /\ open /\ open' => Signalled \/ UNCHANGED evars
<1>1. ASSUME EditInit PROVE EditInv
  <2>1. \E e \in BOOLEAN : e /\ dialog = sudoku_board_new(e)
    BY <1>1, Zenon DEF EditInit
  <2>2. dialog \in Widgets /\ dialog.editable
    BY <2>1, NewBoard
  <2>3. wanted \in Texts
    BY <1>1 DEF EditInit, Texts
  <2>4. open \in BOOLEAN /\ ~open /\ focus = Nil /\ signals = <<>>
        /\ response = "none" /\ result = Nil
    BY <1>1 DEF EditInit
  <2>5. QED BY <2>2, <2>3, <2>4 DEF EditInv, EditTypeOK
<1>2. ASSUME EditInv, [EditNext]_evars
      PROVE  /\ EditInv'
             /\ open /\ ~open' => Answered
             /\ open /\ open' => Signalled \/ UNCHANGED evars
  <2>1. CASE \E t \in Given \cup {Nil} : Open(t)
    <3>1. ~open
      BY <2>1 DEF Open
    <3>2. QED BY <1>2, <2>1, <3>1, OpenStep
  <2>2. CASE \E x \in Sites : Focus(x)
    <3>1. open'
      BY <2>2 DEF Focus
    <3>2. QED BY <1>2, <2>2, <3>1, FocusStep
  <2>3. CASE \E k \in Keys : KeyPress(k)
    <3>1. open'
      BY <2>3 DEF KeyPress
    <3>2. QED BY <1>2, <2>3, <3>1, KeyStep
  <2>4. CASE \E r \in Responses : Close(r)
    BY <1>2, <2>4, CloseStep
  <2>5. CASE UNCHANGED evars
    <3>1. /\ open' = open /\ dialog' = dialog /\ focus' = focus /\ signals' = signals
          /\ response' = response /\ result' = result /\ wanted' = wanted
      BY <2>5 DEF evars
    <3>2. EditInv'
      BY <1>2, <3>1 DEF EditInv, EditTypeOK, Ready, Complete, Holds, draw
    <3>3. QED BY <2>5, <3>1, <3>2
  <2>6. QED
    BY <1>2, <2>1, <2>2, <2>3, <2>4, <2>5 DEF EditNext
<1>3. QED
  BY <1>1, <1>2

\* The dialog shows what it will return, Apply returns the text as the user has
\* edited it and any other response none, and every cell that changes is signalled, and no
\* other (sudoku_edit_dialog, pressed_key).
THEOREM EditsAreRight ==
  ASSUME sides > 1
  PROVE  EditSpec => EditsRight
<1>1. (EditInit => EditInv) /\ (EditInv /\ [EditNext]_evars => EditInv')
  BY EditStep
<1>2. EditInv => EditTypeOK /\ ShowsEdits
  BY Reads DEF EditInv
<1>3. EditInv /\ [EditNext]_evars => [open /\ ~open' => result' = IF response' = "apply" THEN wanted ELSE Nil]_evars
  BY EditStep DEF Answered
<1>4. EditInv /\ [EditNext]_evars =>
        [open /\ open' =>
           signals' = (IF dialog'.val = dialog.val THEN <<>>
                       ELSE <<<<row(focus), col(focus), dialog'.val[focus], FALSE>>>>)]_evars
  BY EditStep DEF Signalled
<1>5. QED
  BY <1>1, <1>2, <1>3, <1>4, PTL DEF EditSpec, EditsRight, ReturnsEdits, SignalsChanges
=============================================================================
