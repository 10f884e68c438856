------------------------------ MODULE MCPuzzle ------------------------------
(***************************************************************************)
(* Boards of 4 by 4 cells (sides = 2), to which the player applies rules   *)
(* one by one, each broken into its sweeps (Puzzle), and strategies        *)
(* (Strategies), in any order.                                             *)
(***************************************************************************)
EXTENDS Strategies

\* A text written as the sequence of its characters, 0 for a period.
Text(chars) ==
  [x \in Cell |-> chars[zero_based_index(x[1], x[3]) * digits
                          + zero_based_index(x[2], x[4]) + 1]]

\* All 288 solved grids, built from rows that are permutations.
Permutation == {p \in [Digit -> Digit] : \A i, j \in Digit : p[i] = p[j] => i = j}
Fit(p, q) == \A i \in Digit : p[i] # q[i]
Bands == {b \in Permutation \X Permutation :
            /\ Fit(b[1], b[2])
            /\ {b[1][1], b[1][2], b[2][1], b[2][2]} = Digit}
Stacks == {s2 \in Bands \X Bands :
             \A i, j \in 1..2 : Fit(s2[1][i], s2[2][j])}
AllGrids ==
  {[x \in Cell |-> st[x[1]][x[3]][zero_based_index(x[2], x[4]) + 1]] : st \in Stacks}

MCGrids == AllGrids

RulePuzzles == {
  \* One solution; every rule applies somewhere, calls nest six deep.
  Text(<<0, 0, 0, 3,
         3, 0, 0, 4,
         0, 3, 0, 0,
         2, 0, 0, 0>>),
  \* Calls nest nine deep.
  Text(<<0, 0, 0, 1,
         0, 0, 4, 0,
         3, 0, 0, 2,
         0, 2, 3, 0>>),
  \* Several solutions.
  Text(<<0, 0, 0, 2,
         0, 2, 0, 0,
         0, 0, 0, 0,
         0, 0, 3, 0>>),
  \* The same digit twice in a column.
  Text(<<0, 0, 2, 0,
         0, 0, 0, 1,
         1, 3, 0, 0,
         0, 2, 1, 0>>),
  \* Givens that contradict what the earlier ones determined.
  Text(<<2, 0, 0, 0,
         4, 0, 0, 1,
         0, 2, 3, 4,
         1, 0, 1, 2>>),
  \* No solution; rules and strategies raise errors.
  Text(<<3, 1, 4, 0,
         4, 0, 3, 0,
         1, 0, 0, 3,
         0, 4, 0, 3>>),
  \* No solution; reading the text raises an error.
  Text(<<0, 0, 0, 4,
         0, 0, 1, 2,
         0, 0, 3, 0,
         0, 4, 2, 0>>)}

\* Full texts, and texts with a few periods.
FullPuzzles == {
  \* A solved grid.
  Text(<<1, 2, 3, 4,
         3, 4, 1, 2,
         2, 1, 4, 3,
         4, 3, 2, 1>>),
  \* A solved grid but for two cells.
  Text(<<1, 2, 3, 4,
         3, 4, 1, 2,
         2, 1, 0, 3,
         4, 3, 2, 0>>),
  \* Right in every row and square, wrong in every column.
  Text(<<1, 2, 3, 4,
         3, 4, 1, 2,
         1, 2, 3, 4,
         3, 4, 1, 2>>),
  \* Right in every column and square, wrong in every row.
  Text(<<1, 3, 1, 3,
         2, 4, 2, 4,
         3, 1, 3, 1,
         4, 2, 4, 2>>),
  \* Right in every row and column, wrong in every square.
  Text(<<1, 2, 3, 4,
         2, 3, 4, 1,
         3, 4, 1, 2,
         4, 1, 2, 3>>),
  \* Wrong in the last row and in two columns.
  Text(<<1, 2, 3, 4,
         3, 4, 1, 2,
         2, 1, 4, 3,
         4, 3, 1, 0>>)}

MCPuzzles == RulePuzzles \cup FullPuzzles
=============================================================================
