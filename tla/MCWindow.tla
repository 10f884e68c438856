------------------------------ MODULE MCWindow ------------------------------
(***************************************************************************)
(* Boards of 4 by 4 cells (sides = 2).  The user either works with a file  *)
(* and a few command lines, or types any short line and has no file.       *)
(***************************************************************************)
EXTENDS Window

CONSTANT Remark  \* A character of a file that means nothing.

VARIABLE part    \* "files" or "lines"

\* Like hint, b has no help entry.
MCCommands == {[name |-> <<"s">>, nargs |-> 1], [name |-> <<"b">>, nargs |-> 0]}
MCEdit == <<"e">>
MCHelp == <<"h">>
MCIndex == <<"i">>
MCTopics == {<<"s">>, <<"i">>}

-----------------------------------------------------------------------------
\* Givens that finish off cells; with one solution, with several, with none: the
\* same digit twice, and an error while the text is read.
One == <<0, 0, 0, 3,   3, 0, 0, 4,   0, 3, 0, 0,   2, 0, 0, 0>>
Many == <<0, 0, 0, 2,   0, 2, 0, 0,   0, 0, 0, 0,   0, 0, 3, 0>>
Full == <<1, 2, 3, 4,   3, 4, 1, 2,   2, 1, 4, 3,   4, 3, 2, 1>>
Most == <<1, 2, 3, 4,   3, 4, 1, 2,   2, 1, 0, 3,   4, 3, 2, 1>>
Twice == <<0, 0, 2, 0,   0, 0, 0, 1,   1, 3, 0, 0,   0, 2, 1, 0>>
Fails == <<0, 0, 0, 4,   0, 0, 1, 2,   0, 0, 3, 0,   0, 4, 2, 0>>
Raises == <<3, 1, 4, 0,   4, 0, 3, 0,   1, 0, 0, 3,   0, 4, 0, 3>>

Remarks(n) == [i \in 1..n |-> Remark]

\* Plain files of these texts, with lines and remarks; files that are too short,
\* too long, or longer than the buffer, with a text across its end or before;
\* and a Nul in a text and after one.
MCContents ==
  {One, Twice, Fails, Most, Remarks(48) \o Many,
   <<1, Remark>>, Append(One, Period),
   <<Newline>> \o Many \o Remarks(60), Remarks(50) \o One, One \o Remarks(50) \o Many,
   <<1, Nul>> \o One, One \o <<Nul>> \o Many}

\* Boards that commands leave: a new one, a full one, one with a digit
\* eliminated, two with digits determined, and one after an error.
MCMoves ==
  LET after(t, d, u) == Finished(OnePlace(board(t).board, d, u)).board
  IN  {mk_board, board(Full).board,
       one_row_in_square(board(Many).board, 2, 3, 3),
       after(One, 3, Row(2, 2)), after(One, 2, Column(2, 2)),
       after(Raises, 1, Row(2, 2))}

-----------------------------------------------------------------------------
\* All solved grids, built from rows that are permutations.
Permutation == {p \in [Digit -> Digit] : \A i, j \in Digit : p[i] = p[j] => i = j}
Differ(p, q) == \A i \in Digit : p[i] # q[i]
Bands == {b \in Permutation \X Permutation :
            /\ Differ(b[1], b[2])
            /\ {b[1][1], b[1][2], b[2][1], b[2][2]} = Digit}
MCGrids ==
  {[x \in Cell |-> st[x[1]][x[3]][zero_based_index(x[2], x[4]) + 1]] :
     st \in {two \in Bands \X Bands : \A i, j \in 1..2 : Differ(two[1][i], two[2][j])}}

-----------------------------------------------------------------------------
\* A few command lines of every kind.
FewLines ==
  {<<>>, <<" ">>, <<"b">>, <<"s", " ", "1">>, <<"s", " ", "h">>, <<"b", " ", "h">>,
   <<"h", " ", "i">>, <<"i">>, <<"e">>, <<"s", " ", "x", " ", "1", " ", "0">>}

\* Every command line of up to five characters.
AllLines ==
  UNION {[1..n -> {" ", "s", "3"}] : n \in 0..5}

Typing == INSTANCE Window WITH Lines <- AllLines, FileNames <- {}, Faults <- {}, Moves <- {mk_board}

-----------------------------------------------------------------------------
PartsInit ==
  \/ part = "files" /\ Init
  \/ part = "lines" /\ Typing!Init

PartsNext ==
  \/ part = "files" /\ Next /\ UNCHANGED part
  \/ part = "lines" /\ Typing!Next /\ UNCHANGED part

PartsSpec == PartsInit /\ [][PartsNext]_<<part, vars>>

-----------------------------------------------------------------------------
\* The state is well typed.
PartsTypeOK == IF part = "files" THEN TypeOK ELSE Typing!TypeOK

\* Files and boards agree: load_file makes the board in the file current, and
\* what save_file wrote can be read back.
FilesRight == PartsTypeOK /\ LoadsBoard /\ SavedReadBack
=============================================================================
