------------------------------- MODULE Puzzle -------------------------------
(***************************************************************************)
(* The life of one board object of src/src/sudoku.lua: it is built from a  *)
(* text by board(), one character at a time, or made blank by new(), and   *)
(* then changed by the rules the user names.  A basic rule starts a call   *)
(* of Board:determine; the calls nested in it run to the end before the    *)
(* next command is read, for the program has one thread.                   *)
(***************************************************************************)
EXTENDS Rules

CONSTANTS
  Puzzles,  \* The texts that may be loaded.
  Grids     \* Solved grids; the theorems hold for every set of them.

ASSUME PuzzlesAssumption == Puzzles \subseteq Texts
ASSUME GridsAssumption == \A g \in Grids : IsSolution(g)

VARIABLES
  text,    \* The text the board was built from.
  pos,     \* How many of its characters board() has read, and one more
           \* once board() has returned.
  board,   \* The board.
  stack,   \* The calls of determine that have not returned.
  failed   \* "Board inconsistent" has been raised on this board.

vars == <<text, pos, board, stack, failed>>

BlankText == [x \in Cell |-> Period]

Loaded == pos = digits2 + 1
AtRest == stack = <<>>

\* The state is well typed.
TypeOK ==
  /\ text \in Texts
  /\ pos \in 0..(digits2 + 1)
  /\ board \in Boards
  /\ stack \in Seq(Frames)
  /\ failed \in BOOLEAN

Init ==
  /\ text \in Puzzles
  /\ pos = 0
  /\ board = mk_board
  /\ stack = <<>>
  /\ failed = FALSE

-----------------------------------------------------------------------------
(***************************************************************************)
(* Building a board.                                                       *)
(***************************************************************************)

\* The next command or call leaves the computation m.
Becomes(m) ==
  /\ board' = m.board
  /\ stack' = m.stack
  /\ failed' = (failed \/ m.failed)

Load_noReset(t) ==
  /\ AtRest
  /\ Loaded \/ failed
  /\ text' = t
  /\ pos' = pos + 1
  /\ board' = mk_board
  /\ stack' = <<>>
  /\ failed' = FALSE

\* board() starts over on a new text.  A board whose text raised an error is
\* dropped.
Load(t) ==
  /\ AtRest
  /\ Loaded \/ failed
  /\ text' = t
  /\ pos' = 0
  /\ board' = mk_board
  /\ stack' = <<>>
  /\ failed' = FALSE

\* The body of the loop of board().
ReadGiven ==
  /\ AtRest
  /\ pos < digits2
  /\ ~failed
  /\ LET x == CellAt(pos + 1) IN Becomes(enter_given(board, x, text[x]))
  /\ pos' = pos + 1
  /\ UNCHANGED text

\* The end of board(): the board becomes the one the commands work on.
ReturnBoard ==
  /\ AtRest
  /\ pos = digits2
  /\ ~failed
  /\ pos' = pos + 1
  /\ UNCHANGED <<text, board, stack, failed>>

new ==
  /\ AtRest
  /\ Loaded \/ failed
  /\ text' = BlankText
  /\ pos' = digits2 + 1
  /\ board' = mk_board
  /\ failed' = FALSE
  /\ UNCHANGED stack

\* As Propagate, but a call that is done begins its sweeps again.
Propagate_again ==
  LET top == Len(stack)
      n   == Step([board |-> board, stack |-> stack, failed |-> FALSE])
  IN  /\ ~AtRest
      /\ Becomes(IF stack[top].stage = "return"
                 THEN [n EXCEPT !.stack = [stack EXCEPT ![top].stage = "square"]] ELSE n)
      /\ UNCHANGED <<text, pos>>

\* The innermost call of determine goes on.
Propagate ==
  /\ ~AtRest
  /\ Becomes(Step([board |-> board, stack |-> stack, failed |-> FALSE]))
  /\ UNCHANGED <<text, pos>>

-----------------------------------------------------------------------------
(***************************************************************************)
(* The commands, under the names the user types.  eval accepts only        *)
(* arguments from 1 to 9.                                                  *)
(***************************************************************************)
Command(m) ==
  /\ AtRest
  /\ Loaded
  /\ Becomes(m)
  /\ UNCHANGED <<text, pos>>

s(d, row, col) == Command(one_place_in_square(board, d, row, col))
r(d, row)      == Command(one_place_in_row(board, d, row))
c(d, col)      == Command(one_place_in_column(board, d, col))
d_(d, row, col) == Command(determine_digit(board, d, row, col))

rs(d, row, col) == Command(Idle(one_row_in_square(board, d, row, col)))
cs(d, row, col) == Command(Idle(one_column_in_square(board, d, row, col)))
sr(d, row, col) == Command(Idle(one_square_for_row(board, d, row, col)))
sc(d, row, col) == Command(Idle(one_square_for_column(board, d, row, col)))

ps(d1, d2, row, col) ==
  Command(Idle(two_places_for_pair_in_square(board, d1, d2, row, col)))
pr(d1, d2, row) == Command(Idle(two_places_for_pair_in_row(board, d1, d2, row)))
pc(d1, d2, col) ==
  Command(Idle(two_places_for_pair_in_column(board, d1, d2, col)))

sps(d1, d2, row, col) ==
  Command(Idle(same_pair_in_square(board, d1, d2, row, col)))
spr(d1, d2, row) == Command(Idle(same_pair_in_row(board, d1, d2, row)))
spc(d1, d2, col) == Command(Idle(same_pair_in_column(board, d1, d2, col)))

Basic(d, row) ==
  \/ \E col \in Digit : s(d, row, col) \/ d_(d, row, col)
  \/ r(d, row)
  \/ c(d, row)

Advanced(d, row, col) ==
  \/ rs(d, row, col)
  \/ cs(d, row, col)
  \/ sr(d, row, col)
  \/ sc(d, row, col)

Pairs(d1, d2, row) ==
  \/ \E col \in Digit : ps(d1, d2, row, col) \/ sps(d1, d2, row, col)
  \/ pr(d1, d2, row)
  \/ spr(d1, d2, row)
  \/ pc(d1, d2, row)
  \/ spc(d1, d2, row)

Next ==
  \/ \E t \in Puzzles : Load(t)
  \/ ReadGiven
  \/ ReturnBoard
  \/ new
  \/ Propagate
  \/ \E d, row \in Digit : Basic(d, row)
  \/ \E d, row, col \in Digit : Advanced(d, row, col)
  \/ \E d1, d2, row \in Digit : Pairs(d1, d2, row)

\* A call that has started runs to its end.
Spec == Init /\ [][Next]_vars /\ WF_vars(Propagate)

-----------------------------------------------------------------------------
(***************************************************************************)
(* Properties.                                                             *)
(***************************************************************************)

\* No rule, and no half-done propagation, ever eliminates a digit that some
\* solution of the puzzle needs: while its text is being read a board allows
\* every solution of the text, and so it does after any commands.
SolutionsKept == \A g \in Grids : Extends(g, text) => Allows(board, g)

\* "Board inconsistent" is raised, and a cell is left empty, only for a text
\* that has no solution.
NoFalseAlarm ==
  (failed \/ \E x \in Cell : board.cand[x] = {})
    => ~ \E g \in Grids : Extends(g, text)

\* Between commands, and as long as no error cut a propagation short, the
\* digit of a determined cell is gone from the other cells of its square, its
\* row and its column, whatever order the nested calls swept them in.
Settled ==
  AtRest /\ ~failed =>
    \A x \in board.det : \A u \in {SquareOf(x), RowOf(x), ColumnOf(x)} :
      \A y \in u \ {x} : board.cand[x] \cap board.cand[y] = {}

\* A board that shows a digit in every cell is a solved grid, even if errors
\* were raised on the way.
FinishedIsSolved ==
  (AtRest /\ \A x \in Cell : show(board, x) # Period)
    => IsSolution(tostring(board))

\* "Finish off square (row, column) with just one unknown": between commands
\* no unit has exactly one undetermined cell, unless the board is visibly
\* inconsistent.
NoLoneCell ==
  (AtRest /\ \A x \in Cell : board.cand[x] # {}) =>
    \A u \in Units : Cardinality(u \ board.det) # 1

\* Every call on the stack determines a cell of its own, so the recursion is
\* never deeper than the board has cells.
CallsDistinct ==
  /\ \A i, j \in 1..Len(stack) :
       stack[i].cell = stack[j].cell => i = j
  /\ \A i \in 1..Len(stack) : stack[i].cell \in board.det

\* Every call of determine returns.
CallsReturn == []<>AtRest

\* What basic_help says of command d: "Digit is the only one possible in the
\* given cell".  A digit that is not must leave the board alone.
DeterminesNamedDigit ==
  AtRest /\ Loaded =>
    \A d, row, col \in Digit :
      LET x == <<spread(row)[1], spread(col)[1], spread(row)[2], spread(col)[2]>>
      IN  determine_digit(board, d, row, col).board # board => board.cand[x] = {d}
=============================================================================
