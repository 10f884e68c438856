------------------------------- MODULE Widget -------------------------------
(***************************************************************************)
(* The board widget: a table of cells (src/src/sudokuboard.c), each a      *)
(* drawing area that knows a set of digits and a mode and paints them      *)
(* (src/src/sudokucell.c).  A widget is a record                           *)
(*                                                                         *)
(*   val, mode  the private fields of every cell,                          *)
(*   editable   keys change the cells,                                     *)
(*   window     the widgets have windows, so that they can be painted,     *)
(*   gray       the cells whose background is gray,                        *)
(*   screen     what has been painted last in each cell.                   *)
(*                                                                         *)
(* A value is the bit set of the C code: digit d is bit d - 1 of a number. *)
(***************************************************************************)
EXTENDS Board, FiniteSetsExt

CONSTANTS
  Unpainted,  \* Nothing has been painted, or it has been overwritten.
  Nil         \* No board, no text, or no cell.

ALL == 2 ^ digits - 1

Bit(d) == 2 ^ (d - 1)

\* The digits of a bit set, and the bit set of a set of digits.
DigitsOf(v) == {d \in Digit : (v \div Bit(d)) % 2 = 1}
BitsOf(D) == MapThenSumSet(Bit, D)

\* A set of digits is a number below 2 ^ digits, and can be read off it.
ASSUME BitsAssumption ==
  /\ ALL \in Nat /\ BitsOf({}) = 0 /\ BitsOf(Digit) = ALL
  /\ \A d \in Digit : BitsOf({d}) = Bit(d)
  /\ \A D \in SUBSET Digit : BitsOf(D) \in 0..ALL /\ DigitsOf(BitsOf(D)) = D

row(x) == zero_based_index(x[1], x[3])
col(x) == zero_based_index(x[2], x[4])

Borders == {"top", "left", "right", "bottom"}

-----------------------------------------------------------------------------
(***************************************************************************)
(* Painting a cell.                                                        *)
(*                                                                         *)
(* draw_square strokes some borders of the cell, according to its place in *)
(* its square; draw strokes the outside of the board with a thicker line   *)
(* and moves the glyph away from the thick lines.  A stroke is centered on *)
(* the border, so half of it is inside the cell.  Widths and offsets are   *)
(* in units of half the default line width.                                *)
(***************************************************************************)
OUTSIDE == 4
INSIDE == 2

draw_square(r, c) ==
  CASE r % sides = 0 /\ c % sides = 0 -> {"left", "top"}
    [] r % sides = 0 /\ c % sides = 1 -> {"left", "top", "right"}
    [] r % sides = 0 /\ c % sides = 2 -> {"top", "right"}
    [] r % sides = 1 /\ c % sides = 0 -> {"top", "left", "bottom"}
    [] r % sides = 1 /\ c % sides = 1 -> Borders
    [] r % sides = 1 /\ c % sides = 2 -> {"top", "right", "bottom"}
    [] r % sides = 2 /\ c % sides = 0 -> {"left", "bottom"}
    [] r % sides = 2 /\ c % sides = 1 -> {"left", "bottom", "right"}
    [] r % sides = 2 /\ c % sides = 2 -> {"right", "bottom"}
    [] OTHER -> {}

\* The borders of the board itself.
draw_outside(r, c) ==
  {s \in Borders : \/ s = "top" /\ r = 0
                   \/ s = "bottom" /\ r = 8
                   \/ s = "left" /\ c = 0
                   \/ s = "right" /\ c = 8}

\* How far draw moves the glyph right (for a column) or down (for a row).
offset(i) ==
  CASE i = 0         -> 2
    [] i \in {3, 6}  -> 1
    [] i = 8         -> -2
    [] i \in {2, 5}  -> -1
    [] OTHER         -> 0

\* The part of the line along border s that is inside the cell.
line(r, c, s) ==
  CASE s \in draw_outside(r, c) -> OUTSIDE
    [] s \in draw_square(r, c) \ draw_outside(r, c) -> INSIDE
    [] OTHER -> 0

\* The glyph for a value and a mode.
glyph(v, m) ==
  IF v = 0 THEN [ink |-> "question", digits |-> {}]
  ELSE IF ~m /\ \E d \in Digit : v = Bit(d)
       THEN [ink |-> "numeral", digits |-> DigitsOf(v)]
       ELSE IF v = ALL THEN [ink |-> "blank", digits |-> {}]
       ELSE [ink |-> "dots", digits |-> DigitsOf(v)]

draw(w, x) ==
  [glyph |-> glyph(w.val[x], w.mode[x]),
   lines |-> [s \in Borders |-> line(row(x), col(x), s)],
   at    |-> <<offset(col(x)), offset(row(x))>>,
   gray  |-> x \in w.gray]

-----------------------------------------------------------------------------
\* The fields that sudoku_cell_init sets.
sudoku_cell_init == [val |-> ALL, mode |-> FALSE]

\* sudoku_board_new, which calls sudoku_cell_new for every cell.
sudoku_board_new(editable) ==
  [val      |-> [x \in Cell |-> sudoku_cell_init.val],
   mode     |-> [x \in Cell |-> sudoku_cell_init.mode],
   editable |-> editable,
   window   |-> FALSE,
   gray     |-> {},
   screen   |-> [x \in Cell |-> Unpainted]]

\* sudoku_cell_redraw_canvas: a cell without a window is not painted.
redraw_canvas(w, S) ==
  IF w.window
  THEN [w EXCEPT !.screen = [x \in Cell |-> IF x \in S THEN draw(w, x) ELSE @[x]]]
  ELSE w

(***************************************************************************)
(* set_val called once for every cell of S, with the values v and the      *)
(* modes m: a cell is changed and painted only if its value or its mode    *)
(* changes.  & ALL keeps the lowest bits, of -1 all of them.               *)
(***************************************************************************)
masked(v) == v % (ALL + 1)

differs_val(w, x, v, m) == w.val[x] # masked(v)
differs(w, x, v, m) == w.val[x] # masked(v) \/ w.mode[x] # m

set_val(w, S, v, m) ==
  LET new == {x \in S : differs(w, x, v[x], m[x])}
  IN  redraw_canvas(
        [w EXCEPT
          !.val  = [x \in Cell |-> IF x \in new THEN masked(v[x]) ELSE @[x]],
          !.mode = [x \in Cell |-> IF x \in new THEN m[x] ELSE @[x]]],
        new)

\* The board redirects to the cell, unless there is no such cell.
sudoku_board_set_val(w, S, v, m) ==
  set_val(w, {x \in S : row(x) \in 0..digits - 1 /\ col(x) \in 0..digits - 1}, v, m)

sudoku_board_get_val(w, x) ==
  IF row(x) \in 0..digits - 1 /\ col(x) \in 0..digits - 1 THEN w.val[x] ELSE -1

\* GTK gives the widgets their windows and paints them all.
show_all(w) ==
  LET v == [w EXCEPT !.window = TRUE]
  IN  [v EXCEPT !.screen = [x \in Cell |-> draw(v, x)]]

\* Part of the screen is overwritten by other programs, and GTK is told so.
Overwrite(w, S) ==
  [w EXCEPT !.screen = [x \in Cell |-> IF x \in S THEN Unpainted ELSE @[x]]]

Expose(w) ==
  [w EXCEPT !.screen = [x \in Cell |-> IF @[x] = Unpainted THEN draw(w, x) ELSE @[x]]]

focus_in(w, x) == redraw_canvas([w EXCEPT !.gray = @ \cup {x}], {x})
focus_out(w, x) == redraw_canvas([w EXCEPT !.gray = @ \ {x}], {x})

Widgets ==
  [val      : [Cell -> 0..ALL],
   mode     : [Cell -> BOOLEAN],
   editable : BOOLEAN,
   window   : BOOLEAN,
   gray     : SUBSET Cell,
   screen   : [Cell -> [glyph : [ink : {"question", "numeral", "blank", "dots"},
                                 digits : SUBSET Digit],
                        lines : [Borders -> 0..OUTSIDE],
                        at    : (-2..2) \X (-2..2),
                        gray  : BOOLEAN] \cup {Unpainted}]]
=============================================================================
