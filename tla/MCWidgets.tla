----------------------------- MODULE MCWidgets -----------------------------
(***************************************************************************)
(* The two uses of the board widget, for boards of the real size.  The     *)
(* main window shows boards with cells of every kind: blank, determined,   *)
(* undetermined with one digit left, and empty.  In the editor the user    *)
(* visits two cells.                                                       *)
(***************************************************************************)
EXTENDS Display, Editor

VARIABLE part

-----------------------------------------------------------------------------
At(i, j) == CellAt(digits * (i - 1) + j)

Peers(x) == (SquareOf(x) \cup RowOf(x) \cup ColumnOf(x)) \ {x}

\* The board read from a text with the givens g, which finish off no unit.
Read(g) ==
  [cand |-> [x \in Cell |-> IF x \in DOMAIN g THEN {g[x]}
                            ELSE Digit \ {g[y] : y \in DOMAIN g \cap Peers(x)}],
   det  |-> DOMAIN g]

\* Digits 1 to 4 in the first row and 5 to 8 in the last column: the corner
\* holds only 9 and is not determined.
Cross == [x \in {At(1, j) : j \in 1..4} \cup {At(i, 9) : i \in 4..7} |->
            IF row(x) = 0 THEN col(x) + 1 ELSE row(x) + 2]
Corner == At(1, 9)

MCShown ==
  LET b == Read(Cross)
      lone == Read([x \in {Corner} |-> 9])
  IN  {mk_board, b, lone,
       [b EXCEPT !.det = @ \cup {Corner}],
       \* The same digit again in the row: the first one is eliminated.
       [lone EXCEPT !.cand[Corner] = {}, !.cand[At(1, 5)] = {9}, !.det = @ \cup {At(1, 5)}],
       \* An empty cell that is not determined.
       [b EXCEPT !.cand[Corner] = {}]}

MCSpots == {{Corner}, {At(5, 5), At(5, 6)}, RowOf(At(9, 1))}

-----------------------------------------------------------------------------
MCGiven ==
  {[x \in Cell |-> Period],
   [x \in Cell |-> IF x \in SquareOf(At(1, 1)) THEN 3 * (x[3] - 1) + x[4] ELSE Period]}

MCSites == {At(1, 2), At(4, 1)}

MCKeys == {1, 9, Period, Other}

-----------------------------------------------------------------------------
PartsInit == part \in {"display", "editor"} /\ Init /\ EditInit

PartsNext ==
  \/ part = "display" /\ Next /\ UNCHANGED <<part, evars>>
  \/ part = "editor" /\ EditNext /\ UNCHANGED <<part, vars>>

PartsSpec == PartsInit /\ [][PartsNext]_<<part, vars, evars>>
=============================================================================
