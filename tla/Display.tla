------------------------------ MODULE Display ------------------------------
(***************************************************************************)
(* The board widget of the main window, as the commands of                 *)
(* src/src/sudoku.lua drive it through set_val (src/src/interp.c) and      *)
(* interp_set_val (src/src/gtksudoku.c).  Which boards the commands leave  *)
(* is in Puzzle and Session: here any command may leave any of a set of    *)
(* boards.  The module is about what the user reads.                       *)
(***************************************************************************)
EXTENDS Widget

CONSTANTS
  Shown,   \* The boards the commands may leave.
  Spots    \* Sets of cells that other programs may cover; bounds the model.

\* A determined cell has at most one digit left: Board:determine sets the flag
\* and leaves only its digit.
ASSUME ShownAssumption ==
  /\ Shown \subseteq Boards /\ Nil \notin Shown
  /\ \A b \in Shown : \A x \in b.det : \A d, e \in b.cand[x] : d = e
ASSUME SpotsAssumption == Spots \subseteq SUBSET Cell

VARIABLES
  it,        \* The current board, Nil if there is none.
  details,   \* The detailed view of cells.
  widget     \* The board widget of the main window.

vars == <<it, details, widget>>

-----------------------------------------------------------------------------
\* Cell:val.
cell_val(b, x) == BitsOf(b.cand[x])

\* The value print_item passes for a cell.
item_val(b, dt, x) ==
  IF cell_val(b, x) # 0 /\ ~dt /\ x \notin b.det THEN -1 ELSE cell_val(b, x)

print_all(b, dt) ==
  sudoku_board_set_val(widget, Cell, [x \in Cell |-> item_val(b, dt, x)],
                                     [x \in Cell |-> x \notin b.det])

\* set_val without a mode: lua_toboolean of an absent argument is false.
print_blank_board ==
  sudoku_board_set_val(widget, Cell, [x \in Cell |-> -1], [x \in Cell |-> FALSE])

Init ==
  /\ it = Nil
  /\ details = FALSE
  /\ widget = sudoku_board_new(FALSE)

\* main: the window is shown when the interpreter is ready.  A file named on
\* the command line has been loaded before that.
ShowWindow ==
  /\ ~widget.window
  /\ widget' = show_all(widget)
  /\ UNCHANGED <<it, details>>

LoadAtStart(b) ==
  /\ ~widget.window
  /\ it = Nil
  /\ it' = b
  /\ widget' = print_all(b, details)
  /\ UNCHANGED details

\* A file, an edit or a command leaves board b.
Change(b) ==
  /\ widget.window
  /\ it' = b
  /\ widget' = print_all(b, details)
  /\ UNCHANGED details

\* Commands details and normal.
SetDetails(v) ==
  /\ widget.window
  /\ it # Nil
  /\ details' = v
  /\ widget' = print_all(it, v)
  /\ UNCHANGED it

\* Any command without a board.
NoBoard ==
  /\ widget.window
  /\ it = Nil
  /\ widget' = print_blank_board
  /\ UNCHANGED <<it, details>>

Cover(S) ==
  /\ widget.window
  /\ widget' = Overwrite(widget, S)
  /\ UNCHANGED <<it, details>>

Uncover ==
  /\ widget.window
  /\ widget' = Expose(widget)
  /\ UNCHANGED <<it, details>>

Next ==
  \/ ShowWindow
  \/ \E b \in Shown : LoadAtStart(b)
  \/ \E b \in Shown : Change(b)
  \/ \E v \in BOOLEAN : SetDetails(v)
  \/ NoBoard
  \/ \E S \in Spots : Cover(S)
  \/ Uncover

Spec == Init /\ [][Next]_vars

-----------------------------------------------------------------------------
\* The fields of the widget hold what their types say.
TypeOK ==
  /\ it \in Shown \cup {Nil}
  /\ details \in BOOLEAN
  /\ widget \in Widgets

Readable(x) == widget.window /\ widget.screen[x] # Unpainted

(***************************************************************************)
(* What the user is to read in cell x, after intro_help: a determined cell *)
(* is a numeral; another one is blank in the normal view, and in the       *)
(* detailed view "each digit for a cell that has not been eliminated is    *)
(* shown using a dot".  A cell without digits is a question mark.          *)
(***************************************************************************)
Expected(x) ==
  LET blank == [ink |-> "blank", digits |-> {}]
  IN  IF it = Nil THEN blank
      ELSE IF it.cand[x] = {} THEN [ink |-> "question", digits |-> {}]
      ELSE IF x \in it.det THEN [ink |-> "numeral", digits |-> it.cand[x]]
      ELSE IF ~details THEN blank
      ELSE [ink |-> "dots", digits |-> it.cand[x]]

\* A cell with all its digits, in the detailed view.
Untouched(x) ==
  IF it = Nil THEN FALSE ELSE details /\ x \notin it.det /\ it.cand[x] = Digit

\* Whatever sequence of commands has changed the board and the view, and
\* although set_val paints only the cells whose value or mode differ, the
\* screen always shows the current board in the current view, but for the dots
\* of untouched cells ("if nothing has been eliminated draw a blank",
\* sudokucell.c).
ScreenCurrent ==
  \A x \in Cell : Readable(x) =>
    widget.screen[x].glyph =
      IF Untouched(x) THEN [ink |-> "blank", digits |-> {}] ELSE Expected(x)

\* "In a detailed view, each digit for a cell that has not been eliminated is
\* shown using a dot" (intro_help, sudoku.lua:1214): the cells that nothing has
\* been eliminated from show their dots too.
DotsShown ==
  \A x \in Cell : Readable(x) /\ Untouched(x) => widget.screen[x].glyph = Expected(x)

\* The lines that neighbouring cells paint add up to a grid: the borders of
\* the board and of the squares are twice as thick as the lines inside a
\* square, although every cell paints only some of its borders.
GridDrawn ==
  \A x \in Cell, y \in Cell :
    /\ Readable(x) /\ Readable(y) /\ row(x) = row(y) /\ col(y) = col(x) + 1
       => widget.screen[x].lines["right"] + widget.screen[y].lines["left"]
            = (IF SquareOf(x) = SquareOf(y) THEN 1 ELSE 2) * INSIDE
    /\ Readable(x) /\ Readable(y) /\ col(x) = col(y) /\ row(y) = row(x) + 1
       => widget.screen[x].lines["bottom"] + widget.screen[y].lines["top"]
            = (IF SquareOf(x) = SquareOf(y) THEN 1 ELSE 2) * INSIDE
    /\ Readable(x) =>
         /\ col(x) = 0 => widget.screen[x].lines["left"] = 2 * INSIDE
         /\ col(x) = digits - 1 => widget.screen[x].lines["right"] = 2 * INSIDE
         /\ row(x) = 0 => widget.screen[x].lines["top"] = 2 * INSIDE
         /\ row(x) = digits - 1 => widget.screen[x].lines["bottom"] = 2 * INSIDE

\* A glyph is centered in the part of its cell that no line covers.
GlyphCentered ==
  \A x \in Cell : Readable(x) =>
    LET p == widget.screen[x]
    IN  p.at = <<(p.lines["left"] - p.lines["right"]) \div 2,
                 (p.lines["top"] - p.lines["bottom"]) \div 2>>

\* What the user sees of the board is right (set_val, draw and the handler of
\* expose): the cells show the current board, in the grid that all of them draw
\* together.
ScreenRight == TypeOK /\ ScreenCurrent /\ GridDrawn /\ GlyphCentered
=============================================================================
