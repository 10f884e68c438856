------------------------------- MODULE Rules -------------------------------
(***************************************************************************)
(* The rules of src/src/sudoku.lua.  The advanced and pair rules change    *)
(* the board in one loop and are functions from boards to boards.  The     *)
(* basic rules end in Board:determine, which calls itself through          *)
(* Board:propagate_elimination while its own sweeps over the row and the   *)
(* column are still to be done; that recursion is modelled with its call   *)
(* stack, one step per sweep, so that the half-swept boards the nested     *)
(* calls work on are states of the model.                                  *)
(***************************************************************************)
EXTENDS Board

(***************************************************************************)
(* Advanced rules.  If digit d occurs in unit u only where u meets unit v, *)
(* it cannot be elsewhere in v.                                            *)
(***************************************************************************)
Confine_unguarded(b, d, u, v) == Erase(b, v \ u, {d})

Confine(b, d, u, v) ==
  IF Places(b, u \ v, d) # {} THEN b ELSE Erase(b, v \ u, {d})

one_row_in_square(b, d, row, col) ==
  LET r == spread(row)  c == spread(col)
  IN  Confine(b, d, Square(r[1], c[1]), Row(r[1], r[2]))

one_column_in_square(b, d, row, col) ==
  LET r == spread(row)  c == spread(col)
  IN  Confine(b, d, Square(r[1], c[1]), Column(c[1], c[2]))

one_square_for_row(b, d, row, col) ==
  LET r == spread(row)  c == spread(col)
  IN  Confine(b, d, Row(r[1], r[2]), Square(r[1], c[1]))

one_square_for_column(b, d, row, col) ==
  LET r == spread(row)  c == spread(col)
  IN  Confine(b, d, Column(c[1], c[2]), Square(r[1], c[1]))

(***************************************************************************)
(* Pair rules.                                                             *)
(***************************************************************************)
TwoPlaces(b, d1, d2, u) ==
  LET places == Places(b, u, d1) \cup Places(b, u, d2)
  IN  IF d1 = d2 \/ Cardinality(places) # 2
      THEN b
      ELSE Erase(b, places, Digit \ {d1, d2})

SamePair_inverted(b, d1, d2, u) ==
  LET pair == {x \in u : only_pair_present(b, x, d1, d2)}
  IN  IF d1 = d2 \/ Cardinality(pair) # 2
      THEN b
      ELSE Erase(b, pair, {d1, d2})

SamePair(b, d1, d2, u) ==
  LET pair == {x \in u : only_pair_present(b, x, d1, d2)}
  IN  IF d1 = d2 \/ Cardinality(pair) # 2
      THEN b
      ELSE Erase(b, u \ pair, {d1, d2})

two_places_for_pair_in_square(b, d1, d2, row, col) ==
  TwoPlaces(b, d1, d2, Square(spread(row)[1], spread(col)[1]))

two_places_for_pair_in_row(b, d1, d2, row) ==
  TwoPlaces(b, d1, d2, Row(spread(row)[1], spread(row)[2]))

two_places_for_pair_in_column(b, d1, d2, col) ==
  TwoPlaces(b, d1, d2, Column(spread(col)[1], spread(col)[2]))

same_pair_in_square(b, d1, d2, row, col) ==
  SamePair(b, d1, d2, Square(spread(row)[1], spread(col)[1]))

same_pair_in_row(b, d1, d2, row) ==
  SamePair(b, d1, d2, Row(spread(row)[1], spread(row)[2]))

same_pair_in_column(b, d1, d2, col) ==
  SamePair(b, d1, d2, Column(spread(col)[1], spread(col)[2]))

-----------------------------------------------------------------------------
(***************************************************************************)
(* Board:determine.  A computation is a record of the board, the stack of  *)
(* the calls of determine that have not returned (the innermost last), and *)
(* whether the error "Board inconsistent" has been raised.  A frame holds  *)
(* the cell and the digit of its call and the sweep it does next.          *)
(***************************************************************************)
Stages == {"square", "row", "column", "return"}
Frames == [cell : Cell, d : Digit, stage : Stages]
Computations == [board : Boards, stack : Seq(Frames), failed : BOOLEAN]

Idle(b) == [board |-> b, stack |-> <<>>, failed |-> FALSE]

determine_unmarked(m, x, d) ==
  IF d \notin m.board.cand[x] \/ x \in m.board.det
  THEN m
  ELSE [board  |-> singleton(m.board, x, d),
        stack  |-> Append(m.stack, [cell |-> x, d |-> d, stage |-> "square"]),
        failed |-> m.failed]

\* The entry of Board:determine, up to its first sweep.
determine(m, x, d) ==
  IF d \notin m.board.cand[x] \/ x \in m.board.det
  THEN m
  ELSE [board  |-> [cand |-> singleton(m.board, x, d).cand,
                    det  |-> m.board.det \cup {x}],
        stack  |-> Append(m.stack, [cell |-> x, d |-> d, stage |-> "square"]),
        failed |-> m.failed]

\* Board:propagate_elimination.  On an empty cell Cell:first raises an error,
\* which unwinds every call and leaves the board as it is.
propagate_elimination(m, x) ==
  CASE unknowns(m.board, x) > 1 \/ x \in m.board.det -> m
    [] unknowns(m.board, x) = 0 /\ x \notin m.board.det ->
         [board |-> m.board, stack |-> <<>>, failed |-> TRUE]
    [] OTHER -> determine(m, x, first(m.board, x))

UnitOf(stage, x) ==
  CASE stage = "square" -> SquareOf(x)
    [] stage = "row"    -> RowOf(x)
    [] stage = "column" -> ColumnOf(x)

NextStage_noColumn(stage) == IF stage = "square" THEN "row" ELSE "return"

NextStage(stage) ==
  CASE stage = "square" -> "row"
    [] stage = "row"    -> "column"
    [] stage = "column" -> "return"

Sweep_unfinished(m) ==
  LET top == Len(m.stack)
      f   == m.stack[top]
  IN  [board  |-> Erase(m.board, UnitOf(f.stage, f.cell) \ {f.cell}, {f.d}),
       stack  |-> [m.stack EXCEPT ![top].stage = NextStage(@)],
       failed |-> m.failed]

\* One sweep of the innermost call: its digit is eliminated from the other
\* cells of the unit, and if all cells of the unit but one are determined
\* (m == digits - 1), that one goes through propagate_elimination.
Sweep(m) ==
  LET top  == Len(m.stack)
      f    == m.stack[top]
      unit == UnitOf(f.stage, f.cell)
      b    == Erase(m.board, unit \ {f.cell}, {f.d})
      open == unit \ b.det
      next == [cell |-> f.cell, d |-> f.d, stage |-> NextStage(f.stage)]
      n    == [board |-> b, stack |-> [m.stack EXCEPT ![top] = next],
               failed |-> m.failed]
  IN  IF Cardinality(open) = 1
      THEN propagate_elimination(n, CHOOSE x \in open : TRUE)
      ELSE n

Return(m) ==
  [board |-> m.board, stack |-> SubSeq(m.stack, 1, Len(m.stack) - 1),
   failed |-> m.failed]

\* One step of a computation that has calls to finish.
Step(m) ==
  IF m.stack[Len(m.stack)].stage = "return" THEN Return(m) ELSE Sweep(m)

-----------------------------------------------------------------------------
(***************************************************************************)
(* Basic rules: a digit with one place left in a unit is determined there. *)
(***************************************************************************)
OnePlace(b, d, u) ==
  IF Cardinality(Places(b, u, d)) = 1
  THEN determine(Idle(b), CHOOSE x \in Places(b, u, d) : TRUE, d)
  ELSE Idle(b)

one_place_in_square(b, d, row, col) ==
  OnePlace(b, d, Square(spread(row)[1], spread(col)[1]))

one_place_in_row(b, d, row) ==
  OnePlace(b, d, Row(spread(row)[1], spread(row)[2]))

one_place_in_column(b, d, col) ==
  OnePlace(b, d, Column(spread(col)[1], spread(col)[2]))

\* Command d.  The digit is passed on, but propagate_elimination has no
\* parameter for it.
determine_digit(b, d, row, col) ==
  LET r == spread(row)  c == spread(col)
  IN  propagate_elimination(Idle(b), <<r[1], c[1], r[2], c[2]>>)

enter_given_marked(b, x, d) ==
  IF d = Period THEN Idle(b)
  ELSE Idle([cand |-> singleton(b, x, d).cand, det |-> b.det \cup {x}])

\* One character of the text read by board(): a digit is entered as the only
\* candidate of its cell and determined there.
enter_given(b, x, d) ==
  IF d = Period THEN Idle(b) ELSE determine(Idle(singleton(b, x, d)), x, d)
=============================================================================
