------------------------------- MODULE Board -------------------------------
(***************************************************************************)
(* The board of src/src/sudoku.lua: its geometry, its cells and the        *)
(* queries and updates of class Cell and class Board that every rule is    *)
(* built from.  There is no state here: a board is a value, and an update  *)
(* of the Lua table is a function from the old board to the new one.       *)
(***************************************************************************)
EXTENDS Integers, FiniteSets, Sequences

CONSTANT sides  \* Number of cells on the side of a square; 3 in the code.

ASSUME SidesAssumption == sides \in Nat \ {0}

digits == sides * sides
digits2 == digits * digits

Coord == 1..sides
Digit == 1..digits

(***************************************************************************)
(* self[r1][c1][r2][c2] is the cell <<r1, c1, r2, c2>>: major row, major   *)
(* column, minor row, minor column.                                        *)
(***************************************************************************)
Cell == Coord \X Coord \X Coord \X Coord

Square(r1, c1) == {<<r1, c1, r2, c2>> : r2 \in Coord, c2 \in Coord}
Row(r1, r2)    == {<<r1, c1, r2, c2>> : c1 \in Coord, c2 \in Coord}
Column(c1, c2) == {<<r1, c1, r2, c2>> : r1 \in Coord, r2 \in Coord}

SquareOf(x) == Square(x[1], x[2])
RowOf(x)    == Row(x[1], x[3])
ColumnOf(x) == Column(x[2], x[4])

Squares == {Square(r1, c1) : r1 \in Coord, c1 \in Coord}
Rows    == {Row(r1, r2) : r1 \in Coord, r2 \in Coord}
Columns == {Column(c1, c2) : c1 \in Coord, c2 \in Coord}
Units   == Squares \cup Rows \cup Columns

(***************************************************************************)
(* A row or column number as a pair of a major and a minor coordinate,     *)
(* and back.  eval has already rejected numbers outside Digit, so the      *)
(* "Bad index number" error of spread is never raised.                     *)
(***************************************************************************)
spread(index) == <<(index + sides - 1) \div sides, ((index - 1) % sides) + 1>>

zero_based_index(major, minor) == sides * (major - 1) + minor - 1

(***************************************************************************)
(* The i-th cell of a board written as text: row by row, left to right.    *)
(***************************************************************************)
CellAt(i) ==
  LET r == spread(((i - 1) \div digits) + 1)
      c == spread(((i - 1) % digits) + 1)
  IN  <<r[1], c[1], r[2], c[2]>>

-----------------------------------------------------------------------------
(***************************************************************************)
(* Boards.  cand[x] is the set of digits i with cell[i] true, the ones not *)
(* eliminated yet; det is the set of cells whose flag determined is set.   *)
(* Board:same compares exactly these two fields, so it is =, and           *)
(* Board:clone copies them, so it is the identity on values.               *)
(***************************************************************************)
Boards == [cand : [Cell -> SUBSET Digit], det : SUBSET Cell]

mk_board == [cand |-> [x \in Cell |-> Digit], det |-> {}]

singleton(b, x, d) ==
  [cand |-> [b.cand EXCEPT ![x] = @ \cap {d}], det |-> b.det]

unknowns(b, x) == Cardinality(b.cand[x])

\* The least digit left.  Cell:first raises "Board inconsistent" on an empty
\* cell; its callers here test for that case before they use the value.
first(b, x) == CHOOSE d \in b.cand[x] : \A i \in b.cand[x] : d <= i

only_pair_present(b, x, d1, d2) == d1 # d2 /\ b.cand[x] = {d1, d2}

\* The text form of a cell: a determined digit, or a period.
Period == 0
show(b, x) == IF x \in b.det /\ unknowns(b, x) = 1 THEN first(b, x) ELSE Period

\* A board as text: what Board:__tostring and Board:show write, one
\* character per cell.
tostring(b) == [x \in Cell |-> show(b, x)]

Texts == [Cell -> Digit \cup {Period}]

\* The cells of unit u in which d has not been eliminated.
Places(b, u, d) == {x \in u : d \in b.cand[x]}

\* Every loop that sets self[..][d] = false: the digits in D are eliminated
\* from the cells in S.
Erase(b, S, D) ==
  [cand |-> [x \in Cell |-> IF x \in S THEN b.cand[x] \ D ELSE b.cand[x]],
   det  |-> b.det]

-----------------------------------------------------------------------------
(***************************************************************************)
(* What the game is about: "every row, column, and 3x3 square contains the *)
(* digits one through nine" (README).  A solved grid holds every digit     *)
(* exactly once in every unit.                                             *)
(***************************************************************************)
IsSolution(g) ==
  /\ g \in [Cell -> Digit]
  /\ \A u \in Units, d \in Digit :
       \E x \in u : g[x] = d /\ \A y \in u : g[y] = d => y = x

\* Grid g agrees with every digit written in text t.
Extends(g, t) == \A x \in Cell : t[x] # Period => g[x] = t[x]

\* Board b still allows grid g.
Allows(b, g) == \A x \in Cell : g[x] \in b.cand[x]
=============================================================================
