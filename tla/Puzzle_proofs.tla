---------------------------- MODULE Puzzle_proofs ----------------------------
(***************************************************************************)
(* What is proved about Puzzle and Strategies, for boards of any number of *)
(* sides, every set of texts and every set of solved grids.  First come    *)
(* facts about boards, their units, texts and cells, and about the rules:  *)
(* every rule gives a board, keeps every solution that the board before it *)
(* allowed, and leaves the sweeps of Board:determine in order.             *)
(***************************************************************************)
EXTENDS Strategies, FiniteSetTheorems, WellFoundedInduction, TLAPS

-----------------------------------------------------------------------------
(***************************************************************************)
(* Geometry.                                                               *)
(***************************************************************************)

\* The sizes derived from sides are positive numbers.
LEMMA DigitsType == digits \in Nat \ {0} /\ digits2 \in Nat \ {0} /\ sides \in Nat \ {0}
<1>1. sides \in Nat \ {0}
  BY SidesAssumption
<1>2. digits \in Nat \ {0}
  BY <1>1 DEF digits
<1>3. QED
  BY <1>1, <1>2 DEF digits2

\* spread turns a row or column number into two coordinates on the board.
LEMMA SpreadType ==
  ASSUME NEW index \in Digit
  PROVE  spread(index)[1] \in Coord /\ spread(index)[2] \in Coord
<1>1. sides \in Nat /\ sides > 0
  BY SidesAssumption
<1>2. index \in Int /\ 1 <= index /\ index <= sides * sides
  BY <1>1 DEF Digit, digits
<1>3. (index - 1) % sides \in 0..(sides - 1)
  BY <1>1, <1>2
<1>4. DEFINE q == (index + sides - 1) \div sides
<1>5. q \in Int /\ sides * q <= index + sides - 1 /\ index + sides - 1 < sides * q + sides
  BY <1>1, <1>2
<1>6. q \in 1..sides
  <2> HIDE DEF q
  <2>1. ASSUME q <= 0 PROVE FALSE
    <3>1. sides * q <= 0
      BY <1>1, <1>5, <2>1
    <3>2. QED BY <3>1, <1>1, <1>2, <1>5
  <2>2. ASSUME q >= sides + 1 PROVE FALSE
    <3>1. sides * q >= sides * (sides + 1)
      BY <1>1, <1>5, <2>2
    <3>2. sides * (sides + 1) = sides * sides + sides
      BY <1>1
    <3>3. QED BY <3>1, <3>2, <1>1, <1>2, <1>5
  <2>3. QED BY <2>1, <2>2, <1>1, <1>5
<1>7. QED
  BY <1>1, <1>3, <1>6 DEF spread, Coord

\* The units a cell belongs to contain it and are units of the board.
LEMMA UnitsOfCell ==
  ASSUME NEW x \in Cell
  PROVE  /\ x \in SquareOf(x) /\ SquareOf(x) \in Units
         /\ x \in RowOf(x) /\ RowOf(x) \in Units
         /\ x \in ColumnOf(x) /\ ColumnOf(x) \in Units
<1>1. /\ x = <<x[1], x[2], x[3], x[4]>>
      /\ x[1] \in Coord /\ x[2] \in Coord /\ x[3] \in Coord /\ x[4] \in Coord
  BY DEF Cell
<1>2. x \in SquareOf(x) /\ SquareOf(x) \in Units
  BY <1>1 DEF SquareOf, Square, Squares, Units
<1>3. x \in RowOf(x) /\ RowOf(x) \in Units
  BY <1>1 DEF RowOf, Row, Rows, Units
<1>4. x \in ColumnOf(x) /\ ColumnOf(x) \in Units
  BY <1>1 DEF ColumnOf, Column, Columns, Units
<1>5. QED
  BY <1>2, <1>3, <1>4

\* Units are sets of cells.
LEMMA UnitsType ==
  ASSUME NEW u \in Units
  PROVE  u \subseteq Cell
<1>1. CASE u \in Squares
  BY <1>1 DEF Squares, Square, Cell
<1>2. CASE u \in Rows
  BY <1>2 DEF Rows, Row, Cell
<1>3. CASE u \in Columns
  BY <1>3 DEF Columns, Column, Cell
<1>4. QED
  BY <1>1, <1>2, <1>3 DEF Units

\* The units named by the arguments of a command are units of the board.
LEMMA NamedUnits ==
  ASSUME NEW i \in Coord, NEW j \in Coord
  PROVE  Square(i, j) \in Units /\ Row(i, j) \in Units /\ Column(i, j) \in Units
BY DEF Squares, Rows, Columns, Units

\* Every character of a text has a cell.
LEMMA CellAtType ==
  ASSUME NEW i \in 1..digits2
  PROVE  CellAt(i) \in Cell
<1>1. digits \in Nat /\ digits > 0 /\ i \in Int /\ i - 1 >= 0
      /\ i - 1 < digits * digits
  BY DigitsType DEF digits2
<1>2. (i - 1) % digits \in 0..(digits - 1)
  BY <1>1
<1>3. DEFINE q == (i - 1) \div digits
<1>4. q \in Int /\ digits * q <= i - 1 /\ i - 1 < digits * q + digits
  BY <1>1
<1>5. q \in 0..(digits - 1)
  <2> HIDE DEF q
  <2>1. ASSUME q < 0 PROVE FALSE
    <3>1. digits * q + digits <= 0
      <4>1. digits * (q + 1) <= 0
        BY <1>1, <1>4, <2>1
      <4>2. digits * (q + 1) = digits * q + digits
        BY <1>1, <1>4
      <4>3. QED BY <4>1, <4>2
    <3>2. QED BY <3>1, <1>1, <1>4
  <2>2. ASSUME q >= digits PROVE FALSE
    <3>1. digits * q >= digits * digits
      BY <1>1, <1>4, <2>2
    <3>2. QED BY <3>1, <1>1, <1>4
  <2>3. QED BY <2>1, <2>2, <1>1, <1>4
<1>6. q + 1 \in Digit /\ ((i - 1) % digits) + 1 \in Digit
  <2> HIDE DEF q
  <2> QED BY <1>1, <1>2, <1>5 DEF Digit
<1>7. /\ spread(q + 1)[1] \in Coord /\ spread(q + 1)[2] \in Coord
      /\ spread(((i - 1) % digits) + 1)[1] \in Coord
      /\ spread(((i - 1) % digits) + 1)[2] \in Coord
  BY <1>6, SpreadType
<1>8. QED
  BY <1>7 DEF CellAt, Cell

\* The board and its units are finite.
LEMMA CellsFinite ==
  IsFiniteSet(Cell) /\ \A S \in SUBSET Cell : IsFiniteSet(S)
<1> DEFINE P == Coord \X Coord
           f == [p \in P \X P |-> <<p[1][1], p[1][2], p[2][1], p[2][2]>>]
<1>1. IsFiniteSet(Coord)
  BY SidesAssumption, FS_Interval DEF Coord
<1>2. IsFiniteSet(P \X P)
  BY <1>1, FS_Product
<1>3. f \in Surjection(P \X P, Cell)
  <2>1. f \in [P \X P -> Cell]
    BY DEF Cell
  <2>2. ASSUME NEW x \in Cell
        PROVE  \E p \in P \X P : f[p] = x
    <3>1. /\ x = <<x[1], x[2], x[3], x[4]>>
          /\ x[1] \in Coord /\ x[2] \in Coord /\ x[3] \in Coord /\ x[4] \in Coord
      BY DEF Cell
    <3>2. <<<<x[1], x[2]>>, <<x[3], x[4]>>>> \in P \X P
      BY <3>1
    <3>3. f[<<<<x[1], x[2]>>, <<x[3], x[4]>>>>] = x
      BY <3>1, <3>2
    <3>4. QED BY <3>2, <3>3
  <2>3. QED BY <2>1, <2>2 DEF Surjection
<1>4. IsFiniteSet(Cell)
  BY <1>2, <1>3, FS_Surjection
<1>5. QED
  BY <1>4, FS_Subset

-----------------------------------------------------------------------------
(***************************************************************************)
(* Counting.                                                               *)
(***************************************************************************)

\* A unit has as many cells as there are digits.
LEMMA UnitSize ==
  ASSUME NEW u \in Units
  PROVE  IsFiniteSet(u) /\ Cardinality(u) = digits
<1> DEFINE P == Coord \X Coord
<1>1. IsFiniteSet(P) /\ Cardinality(P) = digits
  <2>1. IsFiniteSet(Coord) /\ Cardinality(Coord) = sides
    BY DigitsType, FS_Interval DEF Coord
  <2>2. QED BY <2>1, FS_Product DEF digits
<1>2. ASSUME NEW f \in [P -> u], \A p, q \in P : f[p] = f[q] => p = q,
             \A x \in u : \E p \in P : f[p] = x
      PROVE  IsFiniteSet(u) /\ Cardinality(u) = digits
  <2>1. f \in Bijection(P, u)
    BY <1>2 DEF Bijection, Injection, Surjection, IsInjective
  <2>2. ExistsBijection(P, u)
    BY <2>1 DEF ExistsBijection
  <2>3. QED BY <1>1, <2>2, FS_Bijection
<1>3. ASSUME NEW i \in Coord, NEW j \in Coord, u = Square(i, j)
      PROVE  IsFiniteSet(u) /\ Cardinality(u) = digits
  <2> DEFINE f == [p \in P |-> <<i, j, p[1], p[2]>>]
  <2>1. f \in [P -> u]
    BY <1>3 DEF Square
  <2>2. \A p, q \in P : f[p] = f[q] => p = q
    OBVIOUS
  <2>3. ASSUME NEW x \in u PROVE \E p \in P : f[p] = x
    <3>1. PICK k \in Coord, l \in Coord : x = <<i, j, k, l>>
      BY <1>3 DEF Square
    <3>2. <<k, l>> \in P /\ f[<<k, l>>] = x
      BY <3>1
    <3>3. QED BY <3>2
  <2>4. QED BY <1>2, <2>1, <2>2, <2>3
<1>4. ASSUME NEW i \in Coord, NEW j \in Coord, u = Row(i, j)
      PROVE  IsFiniteSet(u) /\ Cardinality(u) = digits
  <2> DEFINE f == [p \in P |-> <<i, p[1], j, p[2]>>]
  <2>1. f \in [P -> u]
    BY <1>4 DEF Row
  <2>2. \A p, q \in P : f[p] = f[q] => p = q
    OBVIOUS
  <2>3. ASSUME NEW x \in u PROVE \E p \in P : f[p] = x
    <3>1. PICK k \in Coord, l \in Coord : x = <<i, k, j, l>>
      BY <1>4 DEF Row
    <3>2. <<k, l>> \in P /\ f[<<k, l>>] = x
      BY <3>1
    <3>3. QED BY <3>2
  <2>4. QED BY <1>2, <2>1, <2>2, <2>3
<1>5. ASSUME NEW i \in Coord, NEW j \in Coord, u = Column(i, j)
      PROVE  IsFiniteSet(u) /\ Cardinality(u) = digits
  <2> DEFINE f == [p \in P |-> <<p[1], i, p[2], j>>]
  <2>1. f \in [P -> u]
    BY <1>5 DEF Column
  <2>2. \A p, q \in P : f[p] = f[q] => p = q
    OBVIOUS
  <2>3. ASSUME NEW x \in u PROVE \E p \in P : f[p] = x
    <3>1. PICK k \in Coord, l \in Coord : x = <<k, i, l, j>>
      BY <1>5 DEF Column
    <3>2. <<k, l>> \in P /\ f[<<k, l>>] = x
      BY <3>1
    <3>3. QED BY <3>2
  <2>4. QED BY <1>2, <2>1, <2>2, <2>3
<1>6. QED
  BY <1>3, <1>4, <1>5 DEF Units, Squares, Rows, Columns

\* A unit whose cells have different digits has every digit.
LEMMA EveryDigit ==
  ASSUME NEW u \in Units, NEW g \in [Cell -> Digit],
         \A x, y \in u : g[x] = g[y] => x = y
  PROVE  \A d \in Digit : \E x \in u : g[x] = d
<1> DEFINE f == [x \in u |-> g[x]]
<1>1. IsFiniteSet(Digit) /\ Cardinality(Digit) = digits
  BY DigitsType, FS_Interval DEF Digit
<1>2. f \in Injection(u, Digit)
  BY UnitsType DEF Injection, IsInjective
<1>3. f \in Surjection(u, Digit)
  BY <1>1, <1>2, UnitSize, FS_Injection
<1>4. QED
  BY <1>3 DEF Surjection

\* A set of cells that a loop counts as one has exactly one member, the one
\* that the second loop then picks.
LEMMA OneMember ==
  ASSUME NEW S \in SUBSET Cell, Cardinality(S) = 1
  PROVE  \E x \in Cell : S = {x} /\ (CHOOSE y \in S : TRUE) = x
<1>1. PICK x : S = {x}
  BY CellsFinite, FS_Singleton
<1>2. QED
  BY <1>1

\* Two different members of a set that a loop counts as two are all of it.
LEMMA TwoMembers ==
  ASSUME NEW S \in SUBSET Cell, Cardinality(S) = 2,
         NEW x \in S, NEW y \in S, x # y
  PROVE  S = {x, y}
<1>1. IsFiniteSet(S)
  BY CellsFinite
<1>2. IsFiniteSet(S \ {x}) /\ Cardinality(S \ {x}) = 1
  BY <1>1, FS_RemoveElement
<1>3. PICK z : S \ {x} = {z}
  BY <1>2, FS_Singleton
<1>4. QED
  BY <1>3

\* A set that a loop counts as two has two different members.
LEMMA TwoExist ==
  ASSUME NEW S \in SUBSET Cell, Cardinality(S) = 2
  PROVE  \E x, y \in S : x # y /\ S = {x, y}
<1>1. IsFiniteSet(S) /\ S # {}
  BY CellsFinite, FS_EmptySet
<1>2. PICK x \in S : TRUE
  BY <1>1
<1>3. IsFiniteSet(S \ {x}) /\ Cardinality(S \ {x}) = 1
  BY <1>1, FS_RemoveElement
<1>4. PICK z : S \ {x} = {z}
  BY <1>3, FS_Singleton
<1>5. QED
  BY <1>4

\* Cell:unknowns is a number; it is 0 for an empty cell, and Cell:first
\* returns the only digit of a cell for which it is 1.
LEMMA UnknownsType ==
  ASSUME NEW b \in Boards, NEW x \in Cell
  PROVE  /\ unknowns(b, x) \in Nat
         /\ unknowns(b, x) = 0 <=> b.cand[x] = {}
         /\ unknowns(b, x) = 1 =>
              \E d \in Digit : b.cand[x] = {d} /\ first(b, x) = d
<1>1. b.cand[x] \in SUBSET Digit
  BY DEF Boards
<1>2. IsFiniteSet(Digit)
  BY DigitsType, FS_Interval DEF Digit
<1>3. IsFiniteSet(b.cand[x])
  BY <1>1, <1>2, FS_Subset
<1>4. unknowns(b, x) \in Nat /\ (unknowns(b, x) = 0 <=> b.cand[x] = {})
  BY <1>3, FS_CardinalityType, FS_EmptySet DEF unknowns
<1>5. ASSUME unknowns(b, x) = 1
      PROVE  \E d \in Digit : b.cand[x] = {d} /\ first(b, x) = d
  <2>1. PICK d : b.cand[x] = {d}
    BY <1>3, <1>5, FS_Singleton DEF unknowns
  <2>2. d \in Digit /\ d <= d
    BY <1>1, <2>1, DigitsType DEF Digit
  <2>3. first(b, x) = d
    BY <2>1, <2>2 DEF first
  <2>4. QED BY <2>1, <2>2, <2>3
<1>6. QED
  BY <1>4, <1>5

-----------------------------------------------------------------------------
(***************************************************************************)
(* Updates.                                                                *)
(***************************************************************************)

\* b2 is a board with no candidate that b does not have.
Shrinks(b, b2) == \A x \in Cell : b2.cand[x] \subseteq b.cand[x]

\* Eliminating digits from cells gives a board with fewer candidates and the
\* same determined cells.
LEMMA EraseType ==
  ASSUME NEW b \in Boards, NEW S, NEW D
  PROVE  /\ Erase(b, S, D) \in Boards
         /\ Erase(b, S, D).det = b.det
         /\ \A x \in Cell : Erase(b, S, D).cand[x] =
                              (IF x \in S THEN b.cand[x] \ D ELSE b.cand[x])
         /\ Shrinks(b, Erase(b, S, D))
<1>1. /\ b.cand \in [Cell -> SUBSET Digit] /\ b.det \in SUBSET Cell
      /\ b = [cand |-> b.cand, det |-> b.det]
  BY DEF Boards
<1> DEFINE f == [x \in Cell |-> IF x \in S THEN b.cand[x] \ D ELSE b.cand[x]]
<1>2. Erase(b, S, D) = [cand |-> f, det |-> b.det]
  BY <1>1 DEF Erase
<1>3. f \in [Cell -> SUBSET Digit] /\ \A x \in Cell : f[x] \subseteq b.cand[x]
  BY <1>1
<1>4. QED
  BY <1>1, <1>2, <1>3 DEF Boards, Shrinks

\* Entering a digit as the only candidate of a cell.
LEMMA SingletonType ==
  ASSUME NEW b \in Boards, NEW x \in Cell, NEW d
  PROVE  /\ singleton(b, x, d) \in Boards
         /\ singleton(b, x, d).det = b.det
         /\ singleton(b, x, d).cand = [b.cand EXCEPT ![x] = b.cand[x] \cap {d}]
         /\ Shrinks(b, singleton(b, x, d))
<1>1. /\ b.cand \in [Cell -> SUBSET Digit] /\ b.det \in SUBSET Cell
      /\ b = [cand |-> b.cand, det |-> b.det]
  BY DEF Boards
<1>2. singleton(b, x, d) =
        [cand |-> [b.cand EXCEPT ![x] = b.cand[x] \cap {d}], det |-> b.det]
  BY <1>1 DEF singleton
<1>3. QED
  BY <1>1, <1>2 DEF Boards, Shrinks

\* The blank board is a board and allows every grid.
LEMMA BlankBoard ==
  /\ mk_board \in Boards
  /\ \A g \in [Cell -> Digit] : Allows(mk_board, g)
BY DEF mk_board, Boards, Allows

-----------------------------------------------------------------------------
(***************************************************************************)
(* Soundness of the advanced and the pair rules.                           *)
(***************************************************************************)

\* Eliminating the digits D from the cells in S keeps a grid that has none of
\* these digits there.
LEMMA EraseSound ==
  ASSUME NEW b \in Boards, NEW S, NEW D, NEW g, Allows(b, g),
         \A x \in Cell \cap S : g[x] \notin D
  PROVE  Allows(Erase(b, S, D), g)
<1>1. \A x \in Cell : g[x] \in b.cand[x]
  BY DEF Allows
<1>2. \A x \in Cell : Erase(b, S, D).cand[x] =
                        (IF x \in S THEN b.cand[x] \ D ELSE b.cand[x])
  BY DEF Erase
<1>3. \A x \in Cell : g[x] \in Erase(b, S, D).cand[x]
  BY <1>1, <1>2
<1>4. QED
  BY <1>3 DEF Allows

\* The advanced rules: a solution has the digit somewhere in u, so where u
\* meets v, so nowhere else in v.
LEMMA ConfineSound ==
  ASSUME NEW b \in Boards, NEW g, IsSolution(g), Allows(b, g),
         NEW d \in Digit, NEW u \in Units, NEW v \in Units
  PROVE  Allows(Confine(b, d, u, v), g)
<1>1. CASE Places(b, u \ v, d) # {}
  BY <1>1 DEF Confine
<1>2. CASE Places(b, u \ v, d) = {}
  <2>1. PICK x \in u : g[x] = d
    BY DEF IsSolution
  <2>2. u \subseteq Cell /\ v \subseteq Cell
    BY UnitsType
  <2>3. x \in v
    BY <1>2, <2>1, <2>2 DEF Places, Allows
  <2>4. PICK y \in v : g[y] = d /\ \A z \in v : g[z] = d => z = y
    BY DEF IsSolution
  <2>5. \A z \in v \ u : g[z] # d
    BY <2>1, <2>3, <2>4
  <2>6. Allows(Erase(b, v \ u, {d}), g)
    BY <2>5, EraseSound
  <2>7. QED BY <1>2, <2>6 DEF Confine
<1>3. QED
  BY <1>1, <1>2

\* Rules ps, pr and pc: a solution has d1 and d2 in the two places.
LEMMA TwoPlacesSound ==
  ASSUME NEW b \in Boards, NEW g, IsSolution(g), Allows(b, g),
         NEW d1 \in Digit, NEW d2 \in Digit, NEW u \in Units
  PROVE  Allows(TwoPlaces(b, d1, d2, u), g)
<1> DEFINE places == Places(b, u, d1) \cup Places(b, u, d2)
<1>1. CASE d1 = d2 \/ Cardinality(places) # 2
  BY <1>1 DEF TwoPlaces
<1>2. CASE d1 # d2 /\ Cardinality(places) = 2
  <2>1. u \subseteq Cell /\ places \in SUBSET Cell
    BY UnitsType DEF Places
  <2>2. PICK x \in u : g[x] = d1
    BY DEF IsSolution
  <2>3. PICK y \in u : g[y] = d2
    BY DEF IsSolution
  <2>4. x \in places /\ y \in places /\ x # y
    BY <1>2, <2>1, <2>2, <2>3 DEF Places, Allows
  <2>5. places = {x, y}
    <3> HIDE DEF places
    <3> QED BY <1>2, <2>1, <2>4, TwoMembers
  <2>6. \A z \in Cell \cap places : g[z] \notin Digit \ {d1, d2}
    BY <2>2, <2>3, <2>5
  <2>7. Allows(Erase(b, places, Digit \ {d1, d2}), g)
    BY <2>6, EraseSound
  <2>8. QED BY <1>2, <2>7 DEF TwoPlaces
<1>3. QED
  BY <1>1, <1>2

\* Rules sps, spr and spc: the two cells of the pair hold d1 and d2 in any
\* solution, so no other cell of the unit does.
LEMMA SamePairSound ==
  ASSUME NEW b \in Boards, NEW g, IsSolution(g), Allows(b, g),
         NEW d1 \in Digit, NEW d2 \in Digit, NEW u \in Units
  PROVE  Allows(SamePair(b, d1, d2, u), g)
<1> DEFINE pair == {x \in u : only_pair_present(b, x, d1, d2)}
<1>1. CASE d1 = d2 \/ Cardinality(pair) # 2
  BY <1>1 DEF SamePair
<1>2. CASE d1 # d2 /\ Cardinality(pair) = 2
  <2>1. u \subseteq Cell /\ pair \in SUBSET Cell
    BY UnitsType
  <2>2. PICK x \in pair, y \in pair : x # y
    <3> HIDE DEF pair
    <3> QED BY <1>2, <2>1, TwoExist
  <2>3. g[x] \in {d1, d2} /\ g[y] \in {d1, d2}
    BY <2>1, <2>2 DEF only_pair_present, Allows
  <2>4. PICK p \in u : g[p] = d1 /\ \A z \in u : g[z] = d1 => z = p
    BY DEF IsSolution
  <2>5. PICK q \in u : g[q] = d2 /\ \A z \in u : g[z] = d2 => z = q
    BY DEF IsSolution
  <2>6. \A z \in u \ pair : g[z] \notin {d1, d2}
    BY <2>2, <2>3, <2>4, <2>5
  <2>7. Allows(Erase(b, u \ pair, {d1, d2}), g)
    BY <2>6, EraseSound
  <2>8. QED BY <1>2, <2>7 DEF SamePair
<1>3. QED
  BY <1>1, <1>2

-----------------------------------------------------------------------------
(***************************************************************************)
(* Computations of Board:determine.                                        *)
(***************************************************************************)

\* The candidates of a cell that is being determined are cut down to the
\* digit of its call.
FrameCand(b, st) ==
  \A i \in 1..Len(st) : b.cand[st[i].cell] \subseteq {st[i].d}

\* Every call determines a cell of its own, and has marked it.
FrameDet(b, st) ==
  /\ \A i \in 1..Len(st) : st[i].cell \in b.det
  /\ \A i, j \in 1..Len(st) : st[i].cell = st[j].cell => i = j

\* The sweeps a call has behind it when it is at a stage.
Done(stage) ==
  CASE stage = "square" -> {}
    [] stage = "row"    -> {"square"}
    [] stage = "column" -> {"square", "row"}
    [] stage = "return" -> {"square", "row", "column"}

\* No cell of u other than x has a candidate of x.
Apart(b, x, u) == \A y \in u \ {x} : b.cand[x] \cap b.cand[y] = {}

\* What the sweeps achieve, in the middle of any nest of calls: the candidates
\* of a determined cell are gone from the rest of each unit that no call is
\* still to sweep.
Swept(b, st) ==
  \A x \in b.det, k \in {"square", "row", "column"} :
    (\A i \in 1..Len(st) : st[i].cell = x => k \in Done(st[i].stage))
      => Apart(b, x, UnitOf(k, x))

\* Every grid that the board allows has the digits that are being determined.
FrameAgrees(st, g) == \A i \in 1..Len(st) : g[st[i].cell] = st[i].d

\* A computation in good order.  old says that an error cut short an earlier
\* computation on this board, and left it partly swept.
Orderly(m, old) ==
  /\ m \in Computations
  /\ FrameCand(m.board, m.stack)
  /\ FrameDet(m.board, m.stack)
  /\ old \/ m.failed \/ Swept(m.board, m.stack)
  /\ m.failed => \E x \in Cell : m.board.cand[x] = {}

\* n may come after m, in the middle of a call of Board:determine or at its end.
Continues(m, n, old) ==
  /\ Orderly(n, old)
  /\ Shrinks(m.board, n.board)
  /\ \A g : IsSolution(g) /\ Allows(m.board, g) /\ FrameAgrees(m.stack, g)
              => Allows(n.board, g) /\ FrameAgrees(n.stack, g)

\* The units of a cell that the sweeps run over are units of the board.
LEMMA UnitOfType ==
  ASSUME NEW x \in Cell, NEW k \in {"square", "row", "column"}
  PROVE  UnitOf(k, x) \in Units /\ x \in UnitOf(k, x) /\ UnitOf(k, x) \subseteq Cell
<1>1. UnitOf(k, x) \in Units /\ x \in UnitOf(k, x)
  BY UnitsOfCell DEF UnitOf
<1>2. QED
  BY <1>1, UnitsType

\* The units that contain a cell are the three its sweeps run over.
LEMMA UnitsThrough ==
  ASSUME NEW u \in Units, NEW x \in u
  PROVE  \E k \in {"square", "row", "column"} : u = UnitOf(k, x)
<1>1. ASSUME NEW i \in Coord, NEW j \in Coord, u = Square(i, j)
      PROVE  u = UnitOf("square", x)
  <2>1. PICK k \in Coord, l \in Coord : x = <<i, j, k, l>>
    BY <1>1 DEF Square
  <2>2. QED BY <1>1, <2>1 DEF UnitOf, SquareOf
<1>2. ASSUME NEW i \in Coord, NEW j \in Coord, u = Row(i, j)
      PROVE  u = UnitOf("row", x)
  <2>1. PICK k \in Coord, l \in Coord : x = <<i, k, j, l>>
    BY <1>2 DEF Row
  <2>2. QED BY <1>2, <2>1 DEF UnitOf, RowOf
<1>3. ASSUME NEW i \in Coord, NEW j \in Coord, u = Column(i, j)
      PROVE  u = UnitOf("column", x)
  <2>1. PICK k \in Coord, l \in Coord : x = <<k, i, l, j>>
    BY <1>3 DEF Column
  <2>2. QED BY <1>3, <2>1 DEF UnitOf, ColumnOf
<1>4. QED
  BY <1>1, <1>2, <1>3 DEF Units, Squares, Rows, Columns

\* Cells stay apart when candidates are eliminated.
LEMMA ApartStays ==
  ASSUME NEW b, NEW b2, Shrinks(b, b2), NEW x \in Cell, NEW u \in SUBSET Cell,
         Apart(b, x, u)
  PROVE  Apart(b2, x, u)
BY DEF Apart, Shrinks

\* Board:determine, up to its first sweep, leaves a computation in good order
\* and keeps every solution that has the digit in the cell.
LEMMA DetermineContinues ==
  ASSUME NEW old, NEW m, Orderly(m, old), NEW x \in Cell, NEW d \in Digit,
         \A g : IsSolution(g) /\ Allows(m.board, g) /\ FrameAgrees(m.stack, g)
                  => g[x] = d
  PROVE  Continues(m, determine(m, x, d), old)
<1> DEFINE b == m.board
           fr == [cell |-> x, d |-> d, stage |-> "square"]
           b2 == [cand |-> singleton(b, x, d).cand, det |-> b.det \cup {x}]
           st == Append(m.stack, fr)
           n == [board |-> b2, stack |-> st, failed |-> m.failed]
<1>1. CASE d \notin b.cand[x] \/ x \in b.det
  <2>1. determine(m, x, d) = m
    BY <1>1 DEF determine
  <2>2. Shrinks(m.board, m.board)
    BY DEF Shrinks
  <2>3. QED BY <2>1, <2>2 DEF Continues
<1>2. CASE d \in b.cand[x] /\ x \notin b.det
  <2>1. determine(m, x, d) = n
    BY <1>2 DEF determine
  <2>2. /\ m \in Computations /\ b \in Boards /\ m.stack \in Seq(Frames)
        /\ m.failed \in BOOLEAN /\ fr \in Frames
    BY DEF Orderly, Computations, Frames, Stages
  <2>3. /\ b.cand \in [Cell -> SUBSET Digit] /\ b.det \in SUBSET Cell
        /\ b2.cand = [b.cand EXCEPT ![x] = b.cand[x] \cap {d}]
        /\ b2.det = b.det \cup {x}
    BY <2>2, SingletonType DEF Boards
  <2>4. b2 \in Boards
    BY <2>3 DEF Boards
  <2>5. Shrinks(b, b2)
    BY <2>3 DEF Shrinks
  <2>6. /\ st \in Seq(Frames) /\ Len(st) = Len(m.stack) + 1
        /\ Len(m.stack) \in Nat
        /\ st[Len(st)] = fr /\ \A i \in 1..Len(m.stack) : st[i] = m.stack[i]
        /\ \A i \in 1..Len(m.stack) : m.stack[i] \in Frames
    BY <2>2
  <2>7. n \in Computations
    BY <2>2, <2>4, <2>6 DEF Computations
  <2> HIDE DEF b2, st, fr
  <2>8. FrameCand(b2, st)
    <3> SUFFICES ASSUME NEW i \in 1..Len(st)
                 PROVE  b2.cand[st[i].cell] \subseteq {st[i].d}
      BY DEF FrameCand
    <3>1. CASE i = Len(st)
      BY <3>1, <2>3, <2>6 DEF fr
    <3>2. CASE i \in 1..Len(m.stack)
      <4>1. st[i].cell \in Cell /\ b.cand[st[i].cell] \subseteq {st[i].d}
        BY <3>2, <2>6 DEF Orderly, FrameCand, Frames
      <4>2. QED BY <4>1, <2>5 DEF Shrinks
    <3>3. QED BY <3>1, <3>2, <2>6
  <2>9. FrameDet(b2, st)
    <3>1. \A i \in 1..Len(m.stack) : st[i].cell \in b.det
      BY <2>6 DEF Orderly, FrameDet
    <3>2. \A i, j \in 1..Len(m.stack) : st[i].cell = st[j].cell => i = j
      BY <2>6 DEF Orderly, FrameDet
    <3>3. st[Len(st)].cell = x
      BY <2>6 DEF fr
    <3>4. \A i \in 1..Len(st) : i = Len(st) \/ i \in 1..Len(m.stack)
      BY <2>6
    <3>5. QED BY <3>1, <3>2, <3>3, <3>4, <1>2, <2>3 DEF FrameDet
  <2>10. ASSUME ~old, ~m.failed PROVE Swept(b2, st)
    <3> SUFFICES ASSUME NEW y \in b2.det, NEW k \in {"square", "row", "column"},
                        \A i \in 1..Len(st) :
                          st[i].cell = y => k \in Done(st[i].stage)
                 PROVE  Apart(b2, y, UnitOf(k, y))
      BY DEF Swept
    <3>1. y # x
      BY <2>6 DEF fr, Done
    <3>2. y \in b.det /\ y \in Cell
      BY <3>1, <2>3
    <3>3. Apart(b, y, UnitOf(k, y))
      <4>1. \A i \in 1..Len(m.stack) :
              m.stack[i].cell = y => k \in Done(m.stack[i].stage)
        BY <2>6
      <4>2. QED BY <4>1, <3>2, <2>10 DEF Orderly, Swept
    <3>4. QED BY <3>2, <3>3, <2>5, ApartStays, UnitOfType
  <2>11. m.failed => \E y \in Cell : b2.cand[y] = {}
    BY <2>5 DEF Orderly, Shrinks
  <2>12. Orderly(n, old)
    BY <2>7, <2>8, <2>9, <2>10, <2>11 DEF Orderly
  <2>13. ASSUME NEW g, IsSolution(g), Allows(b, g), FrameAgrees(m.stack, g)
         PROVE  Allows(b2, g) /\ FrameAgrees(st, g)
    <3>1. g[x] = d
      BY <2>13
    <3>2. Allows(b2, g)
      BY <3>1, <2>3, <2>13 DEF Allows
    <3>3. FrameAgrees(st, g)
      <4>1. \A i \in 1..Len(st) : i = Len(st) \/ i \in 1..Len(m.stack)
        BY <2>6
      <4>2. QED BY <4>1, <3>1, <2>6, <2>13 DEF FrameAgrees, fr
    <3>4. QED BY <3>2, <3>3
  <2>14. QED BY <2>1, <2>5, <2>12, <2>13 DEF Continues
<1>3. QED
  BY <1>1, <1>2

\* Continues is transitive.
LEMMA ContinuesTransitive ==
  ASSUME NEW old, NEW m, NEW n, NEW o, Continues(m, n, old), Continues(n, o, old)
  PROVE  Continues(m, o, old)
BY DEF Continues, Shrinks

\* Board:propagate_elimination determines a cell only when a single candidate
\* is left in it, and raises its error only on an empty cell.
LEMMA PropagateContinues ==
  ASSUME NEW old, NEW m, Orderly(m, old), NEW x \in Cell
  PROVE  Continues(m, propagate_elimination(m, x), old)
<1> DEFINE n == [board |-> m.board, stack |-> <<>>, failed |-> TRUE]
<1>0. m \in Computations /\ m.board \in Boards
  BY DEF Orderly, Computations
<1>1. /\ unknowns(m.board, x) \in Nat
      /\ unknowns(m.board, x) = 0 <=> m.board.cand[x] = {}
      /\ unknowns(m.board, x) = 1 =>
           \E d \in Digit : m.board.cand[x] = {d} /\ first(m.board, x) = d
  BY <1>0, UnknownsType
<1>2. CASE unknowns(m.board, x) > 1 \/ x \in m.board.det
  <2>1. propagate_elimination(m, x) = m
    BY <1>1, <1>2 DEF propagate_elimination
  <2>2. QED BY <2>1 DEF Continues, Shrinks
<1>3. CASE unknowns(m.board, x) = 0 /\ x \notin m.board.det
  <2>1. propagate_elimination(m, x) = n
    BY <1>1, <1>3 DEF propagate_elimination
  <2>2. n \in Computations
    BY <1>0 DEF Computations
  <2>3. Orderly(n, old)
    BY <1>1, <1>3, <2>2 DEF Orderly, FrameCand, FrameDet
  <2>4. QED BY <2>1, <2>3 DEF Continues, Shrinks, FrameAgrees
<1>4. CASE ~(unknowns(m.board, x) > 1 \/ x \in m.board.det)
           /\ unknowns(m.board, x) # 0
  <2>1. PICK d \in Digit : m.board.cand[x] = {d} /\ first(m.board, x) = d
    BY <1>1, <1>4
  <2>2. propagate_elimination(m, x) = determine(m, x, d)
    BY <1>1, <1>4, <2>1 DEF propagate_elimination
  <2>3. \A g : Allows(m.board, g) => g[x] = d
    BY <2>1 DEF Allows
  <2>4. QED BY <2>2, <2>3, DetermineContinues
<1>5. QED
  BY <1>2, <1>3, <1>4

\* A solution keeps its place on the board when the digit it has in x is
\* eliminated from the rest of a unit of x.
LEMMA SweepSound ==
  ASSUME NEW b \in Boards, NEW g, IsSolution(g), Allows(b, g),
         NEW u \in Units, NEW x \in u
  PROVE  Allows(Erase(b, u \ {x}, {g[x]}), g)
<1>1. g[x] \in Digit /\ u \subseteq Cell
  BY UnitsType DEF IsSolution
<1>2. PICK y \in u : \A z \in u : g[z] = g[x] => z = y
  BY <1>1 DEF IsSolution
<1>3. \A z \in Cell \cap (u \ {x}) : g[z] \notin {g[x]}
  BY <1>2
<1>4. QED
  BY <1>3, EraseSound

\* The innermost call, the unit it sweeps, and its sweep but for the cell that
\* the sweep goes on with.
Innermost(m) == m.stack[Len(m.stack)]
SweptUnit(m) == UnitOf(Innermost(m).stage, Innermost(m).cell)
Advanced_(m) == [cell |-> Innermost(m).cell, d |-> Innermost(m).d,
                 stage |-> NextStage(Innermost(m).stage)]
Cleared(m) ==
  [board  |-> Erase(m.board, SweptUnit(m) \ {Innermost(m).cell}, {Innermost(m).d}),
   stack  |-> [m.stack EXCEPT ![Len(m.stack)] = Advanced_(m)],
   failed |-> m.failed]

\* A sweep of the innermost call settles the unit it sweeps, disturbs nothing
\* that other calls have swept, and changes no frame but its own.
LEMMA ClearedContinues ==
  ASSUME NEW old, NEW m, Orderly(m, old), ~m.failed, m.stack # <<>>,
         Innermost(m).stage # "return"
  PROVE  /\ Continues(m, Cleared(m), old)
         /\ SweptUnit(m) \in Units
         /\ Len(m.stack) \in 1..Len(m.stack)
         /\ Innermost(m) \in Frames
         /\ Done(NextStage(Innermost(m).stage))
              = Done(Innermost(m).stage) \cup {Innermost(m).stage}
         /\ Len(Cleared(m).stack) = Len(m.stack)
         /\ Cleared(m).stack[Len(m.stack)] = Advanced_(m)
         /\ \A i \in 1..Len(m.stack) :
              i # Len(m.stack) => Cleared(m).stack[i] = m.stack[i]
         /\ Cleared(m).board.det = m.board.det
<1> DEFINE top  == Len(m.stack)
           f    == m.stack[top]
           unit == UnitOf(f.stage, f.cell)
           b    == Erase(m.board, unit \ {f.cell}, {f.d})
           next == [cell |-> f.cell, d |-> f.d, stage |-> NextStage(f.stage)]
           st   == [m.stack EXCEPT ![top] = next]
           n    == [board |-> b, stack |-> st, failed |-> m.failed]
<1>0. f.stage # "return"
  BY DEF Innermost
<1>1. /\ m \in Computations /\ m.board \in Boards /\ m.stack \in Seq(Frames)
      /\ m.failed = FALSE
  BY DEF Orderly, Computations
<1>2. top \in 1..Len(m.stack) /\ Len(m.stack) \in Nat
  BY <1>1
<1>3. /\ f \in Frames /\ f.cell \in Cell /\ f.d \in Digit
      /\ f.stage \in {"square", "row", "column"}
  <2>1. f \in Frames
    BY <1>1, <1>2
  <2> HIDE DEF f
  <2>2. f.cell \in Cell /\ f.d \in Digit /\ f.stage \in Stages
    BY <2>1 DEF Frames
  <2>3. f.stage # "return"
    BY <1>0 DEF f
  <2>4. QED BY <2>1, <2>2, <2>3 DEF Stages
<1>4. unit \in Units /\ f.cell \in unit /\ unit \subseteq Cell
  BY <1>3, UnitOfType
<1>5. /\ NextStage(f.stage) \in Stages
      /\ Done(NextStage(f.stage)) = Done(f.stage) \cup {f.stage}
  <2>1. CASE f.stage = "square"
    BY <2>1 DEF NextStage, Done, Stages
  <2>2. CASE f.stage = "row"
    BY <2>2 DEF NextStage, Done, Stages
  <2>3. CASE f.stage = "column"
    BY <2>3 DEF NextStage, Done, Stages
  <2>4. QED BY <1>3, <2>1, <2>2, <2>3
<1>6. next \in Frames
  BY <1>3, <1>5 DEF Frames
<1>7. /\ st \in Seq(Frames) /\ Len(st) = Len(m.stack)
      /\ st[top] = next /\ \A i \in 1..Len(st) : i # top => st[i] = m.stack[i]
  BY <1>1, <1>2, <1>6
<1>8. \A i \in 1..Len(st) : /\ st[i].cell = m.stack[i].cell
                            /\ st[i].d = m.stack[i].d
                            /\ st[i].cell \in Cell
  <2> SUFFICES ASSUME NEW i \in 1..Len(st)
               PROVE  /\ st[i].cell = m.stack[i].cell
                      /\ st[i].d = m.stack[i].d
                      /\ st[i].cell \in Cell
    OBVIOUS
  <2>1. next.cell = f.cell /\ next.d = f.d
    OBVIOUS
  <2> HIDE DEF st, next
  <2>2. CASE i = top
    BY <1>3, <1>7, <2>1, <2>2
  <2>3. CASE i # top
    <3>1. st[i] = m.stack[i] /\ m.stack[i] \in Frames
      BY <1>1, <1>7, <2>3
    <3>2. QED BY <3>1 DEF Frames
  <2>4. QED BY <2>2, <2>3
<1>9. /\ b \in Boards /\ b.det = m.board.det /\ Shrinks(m.board, b)
      /\ \A y \in unit \ {f.cell} : b.cand[y] = m.board.cand[y] \ {f.d}
  <2>1. b \in Boards /\ b.det = m.board.det /\ Shrinks(m.board, b)
    BY <1>1, EraseType
  <2>2. \A y \in unit \ {f.cell} : b.cand[y] = m.board.cand[y] \ {f.d}
    BY <1>4 DEF Erase
  <2>3. QED BY <2>1, <2>2
<1>10. n \in Computations
  BY <1>1, <1>7, <1>9 DEF Computations
<1> HIDE DEF b, st, next
<1>11. FrameCand(b, st)
  <2>1. \A i \in 1..Len(st) :
          st[i].cell \in Cell /\ m.board.cand[st[i].cell] \subseteq {st[i].d}
    BY <1>7, <1>8 DEF Orderly, FrameCand
  <2>2. QED BY <2>1, <1>9 DEF FrameCand, Shrinks
<1>12. FrameDet(b, st)
  BY <1>7, <1>8, <1>9 DEF Orderly, FrameDet
<1>13. ASSUME ~old PROVE Swept(b, st)
  <2> SUFFICES ASSUME NEW y \in b.det, NEW k \in {"square", "row", "column"},
                      \A i \in 1..Len(st) :
                        st[i].cell = y => k \in Done(st[i].stage)
               PROVE  Apart(b, y, UnitOf(k, y))
    BY DEF Swept
  <2>1. y \in Cell /\ y \in m.board.det
    BY <1>9 DEF Boards
  <2>2. CASE y = f.cell /\ k = f.stage
    <3>1. b.cand[y] \subseteq {f.d}
      <4>1. b.cand[st[top].cell] \subseteq {st[top].d}
        BY <1>2, <1>7, <1>11 DEF FrameCand
      <4>2. st[top].cell = f.cell /\ st[top].d = f.d
        BY <1>2, <1>7, <1>8
      <4>3. QED BY <4>1, <4>2, <2>2
    <3>2. QED BY <1>9, <2>2, <3>1 DEF Apart
  <2>3. CASE ~(y = f.cell /\ k = f.stage)
    <3>1. ASSUME NEW i \in 1..Len(m.stack), m.stack[i].cell = y
          PROVE  k \in Done(m.stack[i].stage)
      <4>1. k \in Done(st[i].stage)
        BY <1>7, <1>8, <3>1
      <4>2. CASE i = top
        BY <1>5, <1>7, <2>3, <3>1, <4>1, <4>2 DEF next
      <4>3. CASE i # top
        BY <1>7, <4>1, <4>3
      <4>4. QED BY <4>2, <4>3
    <3>2. Apart(m.board, y, UnitOf(k, y))
      BY <2>1, <3>1, <1>1, <1>13 DEF Orderly, Swept
    <3>3. QED BY <2>1, <3>2, <1>9, ApartStays, UnitOfType
  <2>4. QED BY <2>2, <2>3
<1>14. Orderly(n, old)
  BY <1>1, <1>10, <1>11, <1>12, <1>13 DEF Orderly
<1>15. ASSUME NEW g, IsSolution(g), Allows(m.board, g), FrameAgrees(m.stack, g)
       PROVE  Allows(b, g) /\ FrameAgrees(st, g)
  <2>1. g[f.cell] = f.d
    BY <1>2, <1>15 DEF FrameAgrees
  <2>2. Allows(b, g)
    BY <1>1, <1>4, <1>15, <2>1, SweepSound DEF b
  <2>3. FrameAgrees(st, g)
    BY <1>7, <1>8, <1>15 DEF FrameAgrees
  <2>4. QED BY <2>2, <2>3
<1>16. Continues(m, n, old)
  BY <1>9, <1>14, <1>15 DEF Continues
<1>17. /\ Cleared(m) = n /\ SweptUnit(m) = unit /\ Innermost(m) = f
       /\ Advanced_(m) = next
  BY DEF Cleared, SweptUnit, Innermost, Advanced_, b, st, next
<1>18. n.board = b /\ n.stack = st
  OBVIOUS
<1> HIDE DEF n, unit, f, top
<1>19. QED
  BY <1>2, <1>3, <1>4, <1>5, <1>7, <1>9, <1>16, <1>17, <1>18 DEF top

\* A sweep, and what it does with the one cell of the unit that is left.
LEMMA SweepContinues ==
  ASSUME NEW old, NEW m, Orderly(m, old), ~m.failed, m.stack # <<>>,
         Innermost(m).stage # "return"
  PROVE  Continues(m, Sweep(m), old)
<1> DEFINE n    == Cleared(m)
           open == SweptUnit(m) \ n.board.det
<1>1. Continues(m, n, old) /\ SweptUnit(m) \subseteq Cell
  BY ClearedContinues, UnitsType
<1>2. Sweep(m) = IF Cardinality(open) = 1
                 THEN propagate_elimination(n, CHOOSE x \in open : TRUE) ELSE n
  BY DEF Sweep, Cleared, SweptUnit, Innermost, Advanced_
<1> HIDE DEF n
<1>3. CASE Cardinality(open) = 1
  <2>1. PICK x \in Cell : (CHOOSE y \in open : TRUE) = x
    BY <1>1, <1>3, OneMember
  <2>2. Orderly(n, old)
    BY <1>1 DEF Continues
  <2>3. QED BY <1>1, <1>2, <1>3, <2>1, <2>2, PropagateContinues, ContinuesTransitive
<1>4. CASE Cardinality(open) # 1
  BY <1>1, <1>2, <1>4
<1>5. QED
  BY <1>3, <1>4

\* A call returns only after its three sweeps.
LEMMA ReturnContinues ==
  ASSUME NEW old, NEW m, Orderly(m, old), ~m.failed, m.stack # <<>>,
         Innermost(m).stage = "return"
  PROVE  Continues(m, Return(m), old)
<1> DEFINE st == SubSeq(m.stack, 1, Len(m.stack) - 1)
           n  == [board |-> m.board, stack |-> st, failed |-> m.failed]
<1>1. /\ m \in Computations /\ m.board \in Boards /\ m.stack \in Seq(Frames)
      /\ m.failed = FALSE
  BY DEF Orderly, Computations
<1>2. /\ st \in Seq(Frames) /\ Len(st) = Len(m.stack) - 1 /\ Len(m.stack) \in Nat
      /\ \A i \in 1..Len(st) : i \in 1..Len(m.stack) /\ st[i] = m.stack[i]
  BY <1>1
<1>3. n \in Computations
  BY <1>1, <1>2 DEF Computations
<1> HIDE DEF st
<1>4. FrameCand(m.board, st) /\ FrameDet(m.board, st)
  BY <1>2 DEF Orderly, FrameCand, FrameDet
<1>5. ASSUME ~old PROVE Swept(m.board, st)
  <2> SUFFICES ASSUME NEW y \in m.board.det, NEW k \in {"square", "row", "column"},
                      \A i \in 1..Len(st) :
                        st[i].cell = y => k \in Done(st[i].stage)
               PROVE  Apart(m.board, y, UnitOf(k, y))
    BY DEF Swept
  <2>1. k \in Done("return")
    BY DEF Done
  <2>2. \A i \in 1..Len(m.stack) : i = Len(m.stack) \/ i \in 1..Len(st)
    BY <1>2
  <2>3. \A i \in 1..Len(m.stack) :
          m.stack[i].cell = y => k \in Done(m.stack[i].stage)
    BY <1>2, <2>1, <2>2 DEF Innermost
  <2>4. QED BY <1>1, <1>5, <2>3 DEF Orderly, Swept
<1>6. Orderly(n, old)
  BY <1>1, <1>3, <1>4, <1>5 DEF Orderly
<1>7. QED
  BY <1>2, <1>6 DEF Continues, Shrinks, FrameAgrees, Return, st

\* One step of a computation leaves it in good order and loses no solution.
LEMMA StepContinues ==
  ASSUME NEW old, NEW m, Orderly(m, old), ~m.failed, m.stack # <<>>
  PROVE  Continues(m, Step(m), old)
BY SweepContinues, ReturnContinues DEF Step, Innermost

-----------------------------------------------------------------------------
(***************************************************************************)
(* Units with one cell left.                                               *)
(***************************************************************************)

\* A determined cell has no two candidates.
Decided(b) == \A x \in b.det : \E d \in Digit : b.cand[x] \subseteq {d}

\* No cell of the board is empty.
Whole(b) == \A x \in Cell : b.cand[x] # {}

\* If a single cell of unit u is not determined, a call is still to sweep u.
Watched(b, st, u) ==
  Cardinality(u \ b.det) = 1 =>
    \E i \in 1..Len(st), k \in {"square", "row", "column"} :
      k \notin Done(st[i].stage) /\ u = UnitOf(k, st[i].cell)

\* No unit with a single cell left is forgotten.
Watchful(m) ==
  /\ Decided(m.board)
  /\ Whole(m.board) => \A u \in Units : Watched(m.board, m.stack, u)

\* n may follow m.
Follows(m, n, old) ==
  /\ Continues(m, n, old)
  /\ ~old /\ Watchful(m) => Watchful(n)

\* Elimination keeps the determined cells decided and makes no cell whole.
LEMMA DecidedStays ==
  ASSUME NEW b \in Boards, NEW b2, Shrinks(b, b2), b2.det = b.det
  PROVE  /\ Decided(b) => Decided(b2)
         /\ Whole(b2) => Whole(b)
<1>1. \A x \in Cell : b2.cand[x] \subseteq b.cand[x]
  BY DEF Shrinks
<1>2. b.det \subseteq Cell
  BY DEF Boards
<1>3. QED
  BY <1>1, <1>2 DEF Decided, Whole

\* When every sweep of a unit is done, its last cell has one candidate: the
\* other cells have different digits, and it lacks all of them.
LEMMA LastCell ==
  ASSUME NEW b \in Boards, NEW st, Decided(b), Whole(b), Swept(b, st),
         NEW u \in Units, NEW x \in u, u \ b.det = {x}, ~Watched(b, st, u)
  PROVE  unknowns(b, x) = 1
<1>1. u \subseteq Cell /\ x \in Cell /\ \A y \in Cell : b.cand[y] \in SUBSET Digit
  BY UnitsType DEF Boards
<1>2. ASSUME NEW y \in u \ {x}
      PROVE  Apart(b, y, u) /\ \E d \in Digit : b.cand[y] = {d}
  <2>1. y \in b.det /\ y \in Cell
    BY <1>1
  <2>2. PICK k \in {"square", "row", "column"} : u = UnitOf(k, y)
    BY UnitsThrough
  <2>3. \A i \in 1..Len(st) : st[i].cell = y => k \in Done(st[i].stage)
    BY <2>2 DEF Watched
  <2>4. Apart(b, y, u)
    BY <2>1, <2>2, <2>3 DEF Swept
  <2>5. PICK d \in Digit : b.cand[y] \subseteq {d}
    BY <2>1 DEF Decided
  <2>6. b.cand[y] = {d}
    BY <2>1, <2>5 DEF Whole
  <2>7. QED BY <2>4, <2>6
<1>3. ASSUME NEW d \in b.cand[x], NEW d2 \in b.cand[x], d # d2
      PROVE  FALSE
  <2> DEFINE g == [y \in Cell |-> IF y \in u \ {x}
                                  THEN CHOOSE n \in Digit : b.cand[y] = {n} ELSE d]
  <2>1. d \in Digit /\ d2 \in Digit
    BY <1>1
  <2>2. \A y \in u \ {x} : g[y] \in Digit /\ b.cand[y] = {g[y]}
    BY <1>1, <1>2
  <2>3. g[x] = d /\ g \in [Cell -> Digit]
    <3>1. \A y \in Cell : y \notin u \ {x} => g[y] = d
      OBVIOUS
    <3>2. g = [y \in Cell |-> g[y]]
      OBVIOUS
    <3> HIDE DEF g
    <3>3. \A y \in Cell : g[y] \in Digit
      BY <2>1, <2>2, <3>1
    <3>4. QED BY <1>1, <3>1, <3>2, <3>3
  <2> HIDE DEF g
  <2>4. \A y, z \in u : g[y] = g[z] => y = z
    BY <1>2, <2>2, <2>3 DEF Apart
  <2>5. PICK y \in u : g[y] = d2
    BY <2>1, <2>3, <2>4, EveryDigit
  <2>6. y # x
    BY <1>3, <2>3, <2>5
  <2>7. QED BY <1>2, <2>2, <2>5, <2>6 DEF Apart
<1>4. PICK d \in b.cand[x] : TRUE
  BY <1>1 DEF Whole
<1>5. b.cand[x] = {d}
  BY <1>3
<1>6. QED
  BY <1>5, FS_Singleton DEF unknowns

\* A call of Board:determine is still to sweep every unit of its cell.
LEMMA DetermineWatchful ==
  ASSUME NEW m \in Computations, NEW x \in Cell, NEW d \in m.board.cand[x],
         x \notin m.board.det, Decided(m.board),
         Whole(m.board) =>
           \A u \in Units : x \notin u => Watched(m.board, m.stack, u)
  PROVE  Watchful(determine(m, x, d))
<1> DEFINE b  == m.board
           fr == [cell |-> x, d |-> d, stage |-> "square"]
           b2  == [cand |-> singleton(b, x, d).cand, det |-> b.det \cup {x}]
           st == Append(m.stack, fr)
           n  == [board |-> b2, stack |-> st, failed |-> m.failed]
<1>1. determine(m, x, d) = n /\ n.board = b2 /\ n.stack = st
  BY DEF determine
<1>2. b \in Boards /\ m.stack \in Seq(Frames)
  BY DEF Computations
<1>3. /\ b.cand \in [Cell -> SUBSET Digit] /\ b.det \subseteq Cell
      /\ b2.cand = [b.cand EXCEPT ![x] = b.cand[x] \cap {d}]
      /\ b2.det = b.det \cup {x}
  BY <1>2, SingletonType DEF Boards
<1>4. /\ Len(st) = Len(m.stack) + 1 /\ Len(m.stack) \in Nat
      /\ st[Len(st)] = fr /\ \A i \in 1..Len(m.stack) : st[i] = m.stack[i]
  BY <1>2
<1>5. fr.cell = x /\ fr.stage = "square"
  OBVIOUS
<1> HIDE DEF b2, st, fr
<1>6. Decided(b2)
  <2>1. d \in Digit /\ b2.cand[x] = {d}
    BY <1>3
  <2>2. \A y \in b.det : b2.cand[y] \subseteq b.cand[y]
    BY <1>3
  <2>3. QED BY <1>3, <2>1, <2>2 DEF Decided
<1>7. ASSUME Whole(b2), NEW u \in Units
      PROVE  Watched(b2, st, u)
  <2>1. CASE x \in u
    <3>1. PICK k \in {"square", "row", "column"} : u = UnitOf(k, x)
      BY <2>1, UnitsThrough
    <3>2. Len(st) \in 1..Len(st) /\ k \notin Done(st[Len(st)].stage)
      BY <1>4, <1>5 DEF Done
    <3>3. QED BY <1>4, <1>5, <3>1, <3>2 DEF Watched
  <2>2. CASE x \notin u
    <3>1. Whole(b)
      BY <1>3, <1>7 DEF Whole
    <3>2. Watched(b, m.stack, u)
      BY <2>2, <3>1
    <3>3. u \ b2.det = u \ b.det
      BY <1>3, <2>2
    <3>4. \A i \in 1..Len(m.stack) : i \in 1..Len(st)
      BY <1>4
    <3>5. QED BY <1>4, <3>2, <3>3, <3>4 DEF Watched
  <2>3. QED BY <2>1, <2>2
<1>8. QED
  BY <1>1, <1>6, <1>7 DEF Watchful

\* Board:propagate_elimination forgets no unit.
LEMMA PropagateWatchful ==
  ASSUME NEW m \in Computations, NEW x \in Cell, Decided(m.board),
         Whole(m.board) =>
           /\ \A u \in Units : x \notin u => Watched(m.board, m.stack, u)
           /\ unknowns(m.board, x) > 1 \/ x \in m.board.det =>
                \A u \in Units : Watched(m.board, m.stack, u)
  PROVE  Watchful(propagate_elimination(m, x))
<1>1. /\ unknowns(m.board, x) \in Nat
      /\ unknowns(m.board, x) = 0 <=> m.board.cand[x] = {}
      /\ unknowns(m.board, x) = 1 =>
           \E d \in Digit : m.board.cand[x] = {d} /\ first(m.board, x) = d
  BY UnknownsType DEF Computations
<1>2. CASE unknowns(m.board, x) > 1 \/ x \in m.board.det
  <2>1. propagate_elimination(m, x) = m
    BY <1>2 DEF propagate_elimination
  <2>2. QED BY <1>2, <2>1 DEF Watchful
<1>3. CASE unknowns(m.board, x) = 0 /\ x \notin m.board.det
  <2>1. propagate_elimination(m, x).board = m.board
    BY <1>3 DEF propagate_elimination
  <2>2. ~Whole(m.board)
    BY <1>1, <1>3 DEF Whole
  <2>3. QED BY <2>1, <2>2 DEF Watchful
<1>4. CASE ~(unknowns(m.board, x) > 1 \/ x \in m.board.det)
           /\ unknowns(m.board, x) # 0
  <2>1. PICK d \in Digit : m.board.cand[x] = {d} /\ first(m.board, x) = d
    BY <1>1, <1>4
  <2>2. propagate_elimination(m, x) = determine(m, x, d)
    BY <1>1, <1>4, <2>1 DEF propagate_elimination
  <2>3. QED BY <1>4, <2>1, <2>2, DetermineWatchful
<1>5. QED
  BY <1>2, <1>3, <1>4

\* A sweep forgets neither the unit it sweeps nor any other.
LEMMA SweepWatchful ==
  ASSUME NEW m, Orderly(m, FALSE), ~m.failed, m.stack # <<>>,
         Innermost(m).stage # "return", Watchful(m)
  PROVE  Watchful(Sweep(m))
<1> DEFINE n    == Cleared(m)
           unit == SweptUnit(m)
           open == unit \ n.board.det
<1>1. /\ Orderly(n, FALSE) /\ Shrinks(m.board, n.board)
      /\ n.board.det = m.board.det
      /\ unit \in Units /\ unit \subseteq Cell
  BY ClearedContinues, UnitsType DEF Continues
<1>2. /\ n \in Computations /\ n.board \in Boards
      /\ m.board \in Boards /\ n.failed = FALSE
  BY <1>1 DEF Orderly, Computations, Cleared
<1>3. Sweep(m) = IF Cardinality(open) = 1
                 THEN propagate_elimination(n, CHOOSE x \in open : TRUE) ELSE n
  BY DEF Sweep, Cleared, SweptUnit, Innermost, Advanced_
<1>4. Decided(n.board) /\ (Whole(n.board) => Whole(m.board))
  BY <1>1, <1>2, DecidedStays DEF Watchful
<1>5. ASSUME Whole(n.board), NEW v \in Units, v # unit
      PROVE  Watched(n.board, n.stack, v)
  <2> SUFFICES ASSUME Cardinality(v \ n.board.det) = 1
               PROVE  \E i \in 1..Len(n.stack), k \in {"square", "row", "column"} :
                        /\ k \notin Done(n.stack[i].stage)
                        /\ v = UnitOf(k, n.stack[i].cell)
    BY DEF Watched
  <2>1. PICK i \in 1..Len(m.stack), k \in {"square", "row", "column"} :
          k \notin Done(m.stack[i].stage) /\ v = UnitOf(k, m.stack[i].cell)
    BY <1>1, <1>4, <1>5 DEF Watchful, Watched
  <2>2. Len(n.stack) = Len(m.stack)
    BY ClearedContinues
  <2>3. CASE i # Len(m.stack)
    <3>1. n.stack[i] = m.stack[i]
      BY <2>3, ClearedContinues
    <3>2. QED BY <2>1, <2>2, <3>1
  <2>4. CASE i = Len(m.stack)
    <3>1. /\ n.stack[i].cell = Innermost(m).cell
          /\ n.stack[i].stage = NextStage(Innermost(m).stage)
          /\ Done(n.stack[i].stage) = Done(Innermost(m).stage) \cup {Innermost(m).stage}
      <4>1. n.stack[i] = Advanced_(m)
        BY <2>4, ClearedContinues
      <4>2. Done(NextStage(Innermost(m).stage))
              = Done(Innermost(m).stage) \cup {Innermost(m).stage}
        BY ClearedContinues
      <4> HIDE DEF n
      <4>3. QED BY <4>1, <4>2 DEF Advanced_
    <3>2. m.stack[i] = Innermost(m)
      BY <2>4 DEF Innermost
    <3>3. k # Innermost(m).stage
      BY <1>5, <2>1, <3>2 DEF SweptUnit
    <3>4. QED BY <2>1, <2>2, <3>1, <3>2, <3>3
  <2>5. QED BY <2>3, <2>4
<1> HIDE DEF n, unit
<1>6. CASE Cardinality(open) = 1
  <2>1. PICK x \in Cell : open = {x} /\ (CHOOSE y \in open : TRUE) = x
    <3>1. open \in SUBSET Cell
      BY <1>1
    <3> HIDE DEF open
    <3>2. QED BY <1>6, <3>1, OneMember
  <2>2. x \in unit /\ x \notin n.board.det
    BY <2>1
  <2>3. ASSUME Whole(n.board), unknowns(n.board, x) > 1
        PROVE  Watched(n.board, n.stack, unit)
    <3>1. Swept(n.board, n.stack)
      BY <1>1, <1>2 DEF Orderly
    <3>2. QED BY <1>1, <1>2, <1>4, <2>1, <2>2, <2>3, <3>1, LastCell
  <2>4. Watchful(propagate_elimination(n, x))
    BY <1>2, <1>4, <1>5, <2>2, <2>3, PropagateWatchful
  <2>5. QED BY <1>3, <1>6, <2>1, <2>4
<1>7. CASE Cardinality(open) # 1
  <2>1. Watched(n.board, n.stack, unit)
    BY <1>7 DEF Watched
  <2>2. QED BY <1>3, <1>4, <1>5, <1>7, <2>1 DEF Watchful
<1>8. QED
  BY <1>6, <1>7

\* A call that returns has no unit left to sweep.
LEMMA ReturnWatchful ==
  ASSUME NEW m \in Computations, m.stack # <<>>, Innermost(m).stage = "return",
         Watchful(m)
  PROVE  Watchful(Return(m))
<1> DEFINE st == SubSeq(m.stack, 1, Len(m.stack) - 1)
<1>1. /\ Len(st) = Len(m.stack) - 1 /\ Len(m.stack) \in Nat
      /\ \A i \in 1..Len(st) : i \in 1..Len(m.stack) /\ st[i] = m.stack[i]
  BY DEF Computations
<1>2. Return(m).board = m.board /\ Return(m).stack = st
  BY DEF Return
<1> HIDE DEF st
<1>3. ASSUME NEW u \in Units, Watched(m.board, m.stack, u)
      PROVE  Watched(m.board, st, u)
  <2> SUFFICES ASSUME Cardinality(u \ m.board.det) = 1
               PROVE  \E i \in 1..Len(st), k \in {"square", "row", "column"} :
                        k \notin Done(st[i].stage) /\ u = UnitOf(k, st[i].cell)
    BY DEF Watched
  <2>1. PICK i \in 1..Len(m.stack), k \in {"square", "row", "column"} :
          k \notin Done(m.stack[i].stage) /\ u = UnitOf(k, m.stack[i].cell)
    BY <1>3 DEF Watched
  <2>2. i # Len(m.stack)
    BY <2>1 DEF Innermost, Done
  <2>3. i \in 1..Len(st)
    BY <1>1, <2>2
  <2>4. QED BY <1>1, <2>1, <2>3
<1>4. QED
  BY <1>2, <1>3 DEF Watchful

\* One step of a computation leaves it in good order, loses no solution and
\* forgets no unit.
LEMMA StepFollows ==
  ASSUME NEW old, NEW m, Orderly(m, old), ~m.failed, m.stack # <<>>
  PROVE  Follows(m, Step(m), old)
<1>1. Step(m) = IF Innermost(m).stage = "return" THEN Return(m) ELSE Sweep(m)
  BY DEF Step, Innermost
<1>2. Continues(m, Step(m), old)
  BY StepContinues
<1>3. ASSUME ~old, Watchful(m) PROVE Watchful(Step(m))
  <2>1. Orderly(m, FALSE) /\ m \in Computations
    BY <1>3 DEF Orderly
  <2>2. CASE Innermost(m).stage = "return"
    BY <1>1, <1>3, <2>1, <2>2, ReturnWatchful
  <2>3. CASE Innermost(m).stage # "return"
    BY <1>1, <1>3, <2>1, <2>3, SweepWatchful
  <2>4. QED BY <2>2, <2>3
<1>4. QED
  BY <1>2, <1>3 DEF Follows

-----------------------------------------------------------------------------
(***************************************************************************)
(* Commands, started on a board with no call under way.                    *)
(***************************************************************************)

\* A rule that only eliminates candidates, and no digit of a solution.
LEMMA EliminationFollows ==
  ASSUME NEW old, NEW b, Orderly(Idle(b), old), NEW b2 \in Boards,
         b2.det = b.det, Shrinks(b, b2),
         \A g : IsSolution(g) /\ Allows(b, g) => Allows(b2, g)
  PROVE  Follows(Idle(b), Idle(b2), old)
<1>1. /\ Idle(b).board = b /\ Idle(b).stack = <<>> /\ Idle(b).failed = FALSE
      /\ Idle(b2).board = b2 /\ Idle(b2).stack = <<>> /\ Idle(b2).failed = FALSE
  BY DEF Idle
<1>2. Idle(b2) \in Computations
  BY DEF Idle, Computations
<1>3. b \in Boards
  BY <1>1 DEF Orderly, Computations
<1>4. ASSUME ~old PROVE Swept(b2, <<>>)
  <2> SUFFICES ASSUME NEW x \in b2.det, NEW k \in {"square", "row", "column"}
               PROVE  Apart(b2, x, UnitOf(k, x))
    BY DEF Swept
  <2>1. Swept(b, <<>>)
    BY <1>1, <1>4 DEF Orderly
  <2>2. x \in b.det /\ x \in Cell
    BY <1>3 DEF Boards
  <2>3. Apart(b, x, UnitOf(k, x))
    BY <2>1, <2>2 DEF Swept
  <2>4. QED BY <2>2, <2>3, ApartStays, UnitOfType
<1>5. Orderly(Idle(b2), old)
  BY <1>1, <1>2, <1>4 DEF Orderly, FrameCand, FrameDet
<1>6. Continues(Idle(b), Idle(b2), old)
  BY <1>1, <1>5 DEF Continues, FrameAgrees
<1>7. Watchful(Idle(b)) => Watchful(Idle(b2))
  <2>1. /\ Decided(b) => Decided(b2)
        /\ Whole(b2) => Whole(b)
    BY <1>3, DecidedStays
  <2>2. \A u \in Units : Watched(b, <<>>, u) => Watched(b2, <<>>, u)
    BY DEF Watched
  <2>3. QED BY <1>1, <2>1, <2>2 DEF Watchful
<1>8. QED
  BY <1>6, <1>7 DEF Follows

\* The advanced rules rs, cs, sr and sc.
LEMMA ConfineFollows ==
  ASSUME NEW old, NEW b, Orderly(Idle(b), old),
         NEW d \in Digit, NEW u \in Units, NEW v \in Units
  PROVE  Follows(Idle(b), Idle(Confine(b, d, u, v)), old)
<1>1. b \in Boards
  BY DEF Orderly, Idle, Computations
<1>2. /\ Confine(b, d, u, v) \in Boards
      /\ Confine(b, d, u, v).det = b.det
      /\ Shrinks(b, Confine(b, d, u, v))
  <2>1. /\ Erase(b, v \ u, {d}) \in Boards
        /\ Erase(b, v \ u, {d}).det = b.det
        /\ Shrinks(b, Erase(b, v \ u, {d}))
    BY <1>1, EraseType
  <2>2. Shrinks(b, b)
    BY DEF Shrinks
  <2>3. QED BY <1>1, <2>1, <2>2 DEF Confine
<1>3. \A g : IsSolution(g) /\ Allows(b, g) => Allows(Confine(b, d, u, v), g)
  BY <1>1, ConfineSound
<1>4. QED
  BY <1>2, <1>3, EliminationFollows

\* The pair rules ps, pr and pc.
LEMMA TwoPlacesFollows ==
  ASSUME NEW old, NEW b, Orderly(Idle(b), old),
         NEW d1 \in Digit, NEW d2 \in Digit, NEW u \in Units
  PROVE  Follows(Idle(b), Idle(TwoPlaces(b, d1, d2, u)), old)
<1> DEFINE S == Places(b, u, d1) \cup Places(b, u, d2)
           b2 == TwoPlaces(b, d1, d2, u)
<1>1. b \in Boards
  BY DEF Orderly, Idle, Computations
<1>2. b2 \in Boards /\ b2.det = b.det /\ Shrinks(b, b2)
  <2>1. /\ Erase(b, S, Digit \ {d1, d2}) \in Boards
        /\ Erase(b, S, Digit \ {d1, d2}).det = b.det
        /\ Shrinks(b, Erase(b, S, Digit \ {d1, d2}))
    BY <1>1, EraseType
  <2>2. Shrinks(b, b)
    BY DEF Shrinks
  <2>3. b2 = b \/ b2 = Erase(b, S, Digit \ {d1, d2})
    BY DEF TwoPlaces
  <2>4. QED BY <1>1, <2>1, <2>2, <2>3
<1>3. \A g : IsSolution(g) /\ Allows(b, g) => Allows(b2, g)
  BY <1>1, TwoPlacesSound
<1>4. QED
  BY <1>2, <1>3, EliminationFollows

\* The pair rules sps, spr and spc.
LEMMA SamePairFollows ==
  ASSUME NEW old, NEW b, Orderly(Idle(b), old),
         NEW d1 \in Digit, NEW d2 \in Digit, NEW u \in Units
  PROVE  Follows(Idle(b), Idle(SamePair(b, d1, d2, u)), old)
<1> DEFINE S == u \ {x \in u : only_pair_present(b, x, d1, d2)}
           b2 == SamePair(b, d1, d2, u)
<1>1. b \in Boards
  BY DEF Orderly, Idle, Computations
<1>2. b2 \in Boards /\ b2.det = b.det /\ Shrinks(b, b2)
  <2>1. /\ Erase(b, S, {d1, d2}) \in Boards
        /\ Erase(b, S, {d1, d2}).det = b.det
        /\ Shrinks(b, Erase(b, S, {d1, d2}))
    BY <1>1, EraseType
  <2>2. Shrinks(b, b)
    BY DEF Shrinks
  <2>3. b2 = b \/ b2 = Erase(b, S, {d1, d2})
    BY DEF SamePair
  <2>4. QED BY <1>1, <2>1, <2>2, <2>3
<1>3. \A g : IsSolution(g) /\ Allows(b, g) => Allows(b2, g)
  BY <1>1, SamePairSound
<1>4. QED
  BY <1>2, <1>3, EliminationFollows

\* Command d.
LEMMA PropagateFollows ==
  ASSUME NEW old, NEW b, Orderly(Idle(b), old), NEW x \in Cell
  PROVE  Follows(Idle(b), propagate_elimination(Idle(b), x), old)
<1>1. Continues(Idle(b), propagate_elimination(Idle(b), x), old)
  BY PropagateContinues
<1>2. Idle(b) \in Computations
  BY DEF Orderly
<1>3. QED
  BY <1>1, <1>2, PropagateWatchful DEF Follows, Watchful

\* The basic rules s, r and c: every solution the board allows has the digit
\* in its only place.
LEMMA OnePlaceFollows ==
  ASSUME NEW old, NEW b, Orderly(Idle(b), old), NEW d \in Digit, NEW u \in Units
  PROVE  Follows(Idle(b), OnePlace(b, d, u), old)
<1>1. Idle(b).board = b
  BY DEF Idle
<1>2. u \subseteq Cell /\ Places(b, u, d) \in SUBSET Cell
  BY UnitsType DEF Places
<1>3. CASE Cardinality(Places(b, u, d)) = 1
  <2>1. PICK x \in Cell : /\ Places(b, u, d) = {x}
                          /\ (CHOOSE y \in Places(b, u, d) : TRUE) = x
    BY <1>2, <1>3, OneMember
  <2>2. ASSUME NEW g, IsSolution(g), Allows(b, g)
        PROVE  g[x] = d
    <3>1. PICK y \in u : g[y] = d
      BY <2>2 DEF IsSolution
    <3>2. y \in Places(b, u, d)
      BY <1>2, <2>2, <3>1 DEF Places, Allows
    <3>3. QED BY <2>1, <3>1, <3>2
  <2>3. Continues(Idle(b), determine(Idle(b), x, d), old)
    BY <1>1, <2>2, DetermineContinues
  <2>4. ASSUME Watchful(Idle(b)) PROVE Watchful(determine(Idle(b), x, d))
    <3>1. d \in b.cand[x] /\ Idle(b) \in Computations
      BY <2>1 DEF Places, Orderly
    <3>2. CASE x \in b.det
      BY <1>1, <2>4, <3>2 DEF determine
    <3>3. CASE x \notin b.det
      BY <1>1, <2>4, <3>1, <3>3, DetermineWatchful DEF Watchful
    <3>4. QED BY <3>2, <3>3
  <2>5. QED BY <1>3, <2>1, <2>3, <2>4 DEF OnePlace, Follows
<1>4. CASE Cardinality(Places(b, u, d)) # 1
  BY <1>4 DEF OnePlace, Follows, Continues, Shrinks
<1>5. QED
  BY <1>3, <1>4

\* One character of a text: every solution the board allows that has the given
\* digit in its cell is kept.
LEMMA GivenFollows ==
  ASSUME NEW old, NEW b, Orderly(Idle(b), old), NEW x \in Cell,
         NEW d \in Digit \cup {Period}
  PROVE  /\ Orderly(enter_given(b, x, d), old)
         /\ Shrinks(b, enter_given(b, x, d).board)
         /\ \A g : /\ IsSolution(g)
                   /\ Allows(b, g)
                   /\ d # Period => g[x] = d
                   => /\ Allows(enter_given(b, x, d).board, g)
                      /\ FrameAgrees(enter_given(b, x, d).stack, g)
         /\ Watchful(Idle(b)) => Watchful(enter_given(b, x, d))
<1> DEFINE b2 == singleton(b, x, d)
           n == enter_given(b, x, d)
<1>1. /\ Idle(b).board = b /\ Idle(b).stack = <<>> /\ Idle(b).failed = FALSE
      /\ Idle(b2).board = b2 /\ Idle(b2).stack = <<>> /\ Idle(b2).failed = FALSE
  BY DEF Idle
<1>2. b \in Boards
  BY <1>1 DEF Orderly, Computations
<1>3. CASE d = Period
  <2>1. n = Idle(b)
    BY <1>3 DEF enter_given
  <2>2. QED BY <1>1, <2>1 DEF Shrinks, FrameAgrees
<1>4. CASE d # Period
  <2>1. n = determine(Idle(b2), x, d)
    BY <1>4 DEF enter_given
  <2>2. /\ b2 \in Boards /\ b2.det = b.det /\ Shrinks(b, b2)
        /\ b2.cand = [b.cand EXCEPT ![x] = b.cand[x] \cap {d}]
        /\ b.cand \in [Cell -> SUBSET Digit]
    BY <1>2, SingletonType DEF Boards
  <2> HIDE DEF b2, n
  <2>3. Orderly(Idle(b2), old)
    <3>1. Idle(b2) \in Computations
      BY <2>2 DEF Idle, Computations
    <3>2. ASSUME ~old PROVE Swept(b2, <<>>)
      <4> SUFFICES ASSUME NEW y \in b2.det, NEW k \in {"square", "row", "column"}
                   PROVE  Apart(b2, y, UnitOf(k, y))
        BY DEF Swept
      <4>1. Swept(b, <<>>)
        BY <1>1, <3>2 DEF Orderly
      <4>2. y \in b.det /\ y \in Cell
        BY <1>2, <2>2 DEF Boards
      <4>3. Apart(b, y, UnitOf(k, y))
        BY <4>1, <4>2 DEF Swept
      <4>4. QED BY <2>2, <4>2, <4>3, ApartStays, UnitOfType
    <3>3. QED BY <1>1, <3>1, <3>2 DEF Orderly, FrameCand, FrameDet
  <2>4. \A g : Allows(b2, g) => g[x] = d
    BY <2>2 DEF Allows
  <2>5. Continues(Idle(b2), n, old)
    BY <1>1, <1>4, <2>1, <2>3, <2>4, DetermineContinues
  <2>6. \A g : Allows(b, g) /\ g[x] = d => Allows(b2, g)
    BY <2>2 DEF Allows
  <2>7. Orderly(n, old)
    BY <2>5 DEF Continues
  <2>8. Shrinks(b, n.board)
    BY <1>1, <2>2, <2>5 DEF Continues, Shrinks
  <2>9. ASSUME NEW g, IsSolution(g), Allows(b, g), g[x] = d
        PROVE  Allows(n.board, g) /\ FrameAgrees(n.stack, g)
    <3>1. Allows(b2, g) /\ FrameAgrees(<<>>, g)
      BY <2>6, <2>9 DEF FrameAgrees
    <3>2. QED BY <1>1, <2>5, <2>9, <3>1 DEF Continues
  <2>10. ASSUME Watchful(Idle(b)) PROVE Watchful(n)
    <3>1. Watchful(Idle(b2))
      <4>1. /\ Decided(b) => Decided(b2)
            /\ Whole(b2) => Whole(b)
        BY <1>2, <2>2, DecidedStays
      <4>2. \A u \in Units : Watched(b, <<>>, u) => Watched(b2, <<>>, u)
        BY <2>2 DEF Watched
      <4>3. QED BY <1>1, <2>10, <4>1, <4>2 DEF Watchful
    <3>2. CASE d \notin b2.cand[x] \/ x \in b2.det
      BY <1>1, <2>1, <3>1, <3>2 DEF determine
    <3>3. CASE d \in b2.cand[x] /\ x \notin b2.det
      <4>1. Idle(b2) \in Computations
        BY <2>3 DEF Orderly
      <4>2. QED BY <1>1, <2>1, <3>1, <3>3, <4>1, DetermineWatchful DEF Watchful
    <3>4. QED BY <3>2, <3>3
  <2>11. QED BY <1>4, <2>7, <2>8, <2>9, <2>10 DEF n
<1>5. QED
  BY <1>3, <1>4

-----------------------------------------------------------------------------
(***************************************************************************)
(* Puzzle.                                                                 *)
(***************************************************************************)
\* The computation under way.
Now == [board |-> board, stack |-> stack, failed |-> FALSE]

\* The inductive invariant.  What a call on the stack has still to sweep, and
\* the digit it sweeps for, are what the properties say nothing about and the
\* next sweep relies on.  A blank board of one cell has a unit with one cell
\* left: that no such unit is forgotten holds of boards with more sides.
Inv ==
  /\ TypeOK
  /\ Orderly(Now, failed)
  /\ failed => \E x \in Cell : board.cand[x] = {}
  /\ \A g \in Grids :
       Extends(g, text) => Allows(board, g) /\ FrameAgrees(stack, g)
  /\ sides > 1 /\ ~failed => Watchful(Now)

-----------------------------------------------------------------------------

\* What a computation that follows the present one leaves of the invariant.
LEMMA BecomesInv ==
  ASSUME Inv, NEW m, Follows(Now, m, failed), Becomes(m), text' = text,
         pos' \in 0..(digits2 + 1)
  PROVE  Inv'
<1>1. /\ Now.board = board /\ Now.stack = stack /\ Now.failed = FALSE
  BY DEF Now
<1>2. /\ board' = m.board /\ stack' = m.stack
      /\ failed' = (failed \/ m.failed)
  BY DEF Becomes
<1>3. Orderly(m, failed) /\ Continues(Now, m, failed)
  BY DEF Follows, Continues
<1>4. /\ m \in Computations
      /\ m.board \in Boards /\ m.stack \in Seq(Frames) /\ m.failed \in BOOLEAN
  BY <1>3 DEF Orderly, Computations
<1>5. TypeOK'
  BY <1>2, <1>4 DEF Inv, TypeOK
<1>6. /\ Now' = [board |-> m.board, stack |-> m.stack, failed |-> FALSE]
      /\ Now' \in Computations
      /\ Now'.board = m.board /\ Now'.stack = m.stack /\ Now'.failed = FALSE
  BY <1>2, <1>4 DEF Now, Computations
<1>7. Orderly(Now', failed')
  <2>1. FrameCand(m.board, m.stack) /\ FrameDet(m.board, m.stack)
    BY <1>3 DEF Orderly
  <2>2. failed' \/ Swept(m.board, m.stack)
    BY <1>2, <1>3 DEF Orderly
  <2>3. QED BY <1>6, <2>1, <2>2 DEF Orderly
<1>8. ASSUME failed' PROVE \E x \in Cell : board'.cand[x] = {}
  <2>1. CASE m.failed
    BY <1>2, <1>3, <2>1 DEF Orderly
  <2>2. CASE failed
    BY <1>1, <1>2, <1>3, <2>2 DEF Inv, Continues, Shrinks
  <2>3. QED BY <1>2, <1>8, <2>1, <2>2
<1>9. ASSUME NEW g \in Grids, Extends(g, text')
      PROVE  Allows(board', g) /\ FrameAgrees(stack', g)
  <2>1. IsSolution(g)
    BY GridsAssumption
  <2>2. Allows(board, g) /\ FrameAgrees(stack, g)
    BY <1>9 DEF Inv
  <2>3. QED BY <1>1, <1>2, <1>3, <2>1, <2>2 DEF Continues
<1>10. ASSUME sides > 1, ~failed' PROVE Watchful(Now')
  <2>1. ~failed /\ Watchful(Now)
    BY <1>2, <1>10 DEF Inv
  <2>2. Watchful(m)
    BY <2>1 DEF Follows
  <2>3. QED BY <1>6, <2>2 DEF Watchful
<1>11. QED
  BY <1>5, <1>7, <1>8, <1>9, <1>10 DEF Inv

\* With no call under way, the computation to start from is the board.
LEMMA NowAtRest ==
  ASSUME Inv, AtRest
  PROVE  Now = Idle(board) /\ Orderly(Idle(board), failed) /\ board \in Boards
BY DEF Inv, TypeOK, Now, Idle, AtRest

\* A command that is a rule keeps the invariant.
LEMMA CommandInv ==
  ASSUME Inv, NEW m, Command(m),
         Orderly(Idle(board), failed) => Follows(Idle(board), m, failed)
  PROVE  Inv'
<1>1. Now = Idle(board) /\ Orderly(Idle(board), failed)
  BY NowAtRest DEF Command
<1>2. pos' \in 0..(digits2 + 1)
  BY DEF Inv, TypeOK, Command
<1>3. QED
  BY <1>1, <1>2, BecomesInv DEF Command

\* A blank board has no unit with one cell left, if it has more than one cell.
LEMMA BlankWatchful ==
  ASSUME sides > 1, NEW m, m.board = mk_board
  PROVE  Watchful(m)
<1>1. digits # 1
  <2>1. sides \in Nat /\ sides * sides > sides
    BY SidesAssumption
  <2>2. QED BY <2>1 DEF digits
<1>2. mk_board.det = {}
  BY DEF mk_board
<1>3. \A u \in Units : Cardinality(u \ {}) # 1
  <2>1. \A u \in Units : u \ {} = u
    OBVIOUS
  <2>2. QED BY <1>1, <2>1, UnitSize
<1>4. QED
  BY <1>2, <1>3 DEF Watchful, Watched, Decided

\* A board that is new is in good order.
LEMMA FreshInv ==
  ASSUME board' = mk_board, stack' = <<>>, failed' = FALSE,
         text' \in Texts, pos' \in 0..(digits2 + 1)
  PROVE  Inv'
<1>1. TypeOK'
  <2>1. mk_board \in Boards
    BY BlankBoard
  <2>2. <<>> \in Seq(Frames)
    OBVIOUS
  <2>3. QED BY <2>1, <2>2 DEF TypeOK
<1>2. /\ Now' = Idle(mk_board) /\ Now' \in Computations
      /\ Now'.board = mk_board /\ Now'.stack = <<>> /\ Now'.failed = FALSE
  BY BlankBoard DEF Now, Idle, Computations
<1>3. Swept(mk_board, <<>>)
  BY DEF Swept, mk_board
<1>4. Orderly(Now', failed')
  BY <1>2, <1>3 DEF Orderly, FrameCand, FrameDet
<1>5. \A g \in Grids : Allows(board', g) /\ FrameAgrees(stack', g)
  BY BlankBoard, GridsAssumption DEF IsSolution, FrameAgrees
<1>6. sides > 1 => Watchful(Now')
  BY <1>2, BlankWatchful
<1>7. QED
  BY <1>1, <1>4, <1>5, <1>6 DEF Inv

\* The basic commands keep the invariant.
LEMMA BasicInv ==
  ASSUME Inv, NEW d \in Digit, NEW row \in Digit, Basic(d, row)
  PROVE  Inv'
<1>1. ASSUME NEW col \in Digit, s(d, row, col)
      PROVE  Inv'
  <2>1. Square(spread(row)[1], spread(col)[1]) \in Units
    BY SpreadType, NamedUnits
  <2>2. QED BY <1>1, <2>1, OnePlaceFollows, CommandInv DEF s, one_place_in_square
<1>2. ASSUME NEW col \in Digit, d_(d, row, col)
      PROVE  Inv'
  <2>1. <<spread(row)[1], spread(col)[1], spread(row)[2], spread(col)[2]>> \in Cell
    BY SpreadType DEF Cell
  <2>2. Orderly(Idle(board), failed)
          => Follows(Idle(board), determine_digit(board, d, row, col), failed)
    BY <2>1, PropagateFollows DEF determine_digit
  <2>3. QED BY <1>2, <2>2, CommandInv DEF d_
<1>3. CASE r(d, row)
  <2>1. Row(spread(row)[1], spread(row)[2]) \in Units
    BY SpreadType, NamedUnits
  <2>2. QED BY <1>3, <2>1, OnePlaceFollows, CommandInv DEF r, one_place_in_row
<1>4. CASE c(d, row)
  <2>1. Column(spread(row)[1], spread(row)[2]) \in Units
    BY SpreadType, NamedUnits
  <2>2. QED BY <1>4, <2>1, OnePlaceFollows, CommandInv DEF c, one_place_in_column
<1>5. QED
  BY <1>1, <1>2, <1>3, <1>4 DEF Basic

\* The advanced commands keep the invariant.
LEMMA AdvancedInv ==
  ASSUME Inv, NEW d \in Digit, NEW row \in Digit, NEW col \in Digit,
         Advanced(d, row, col)
  PROVE  Inv'
<1>1. /\ Square(spread(row)[1], spread(col)[1]) \in Units
      /\ Row(spread(row)[1], spread(row)[2]) \in Units
      /\ Column(spread(col)[1], spread(col)[2]) \in Units
  BY SpreadType, NamedUnits
<1>2. CASE rs(d, row, col)
  BY <1>1, <1>2, ConfineFollows, CommandInv DEF rs, one_row_in_square
<1>3. CASE cs(d, row, col)
  BY <1>1, <1>3, ConfineFollows, CommandInv DEF cs, one_column_in_square
<1>4. CASE sr(d, row, col)
  BY <1>1, <1>4, ConfineFollows, CommandInv DEF sr, one_square_for_row
<1>5. CASE sc(d, row, col)
  BY <1>1, <1>5, ConfineFollows, CommandInv DEF sc, one_square_for_column
<1>6. QED
  BY <1>2, <1>3, <1>4, <1>5 DEF Advanced

\* The commands for pairs keep the invariant.
LEMMA PairsInv ==
  ASSUME Inv, NEW d1 \in Digit, NEW d2 \in Digit, NEW row \in Digit,
         Pairs(d1, d2, row)
  PROVE  Inv'
<1>1. /\ Row(spread(row)[1], spread(row)[2]) \in Units
      /\ Column(spread(row)[1], spread(row)[2]) \in Units
      /\ \A col \in Digit : Square(spread(row)[1], spread(col)[1]) \in Units
  BY SpreadType, NamedUnits
<1>2. ASSUME NEW col \in Digit, ps(d1, d2, row, col)
      PROVE  Inv'
  BY <1>1, <1>2, TwoPlacesFollows, CommandInv DEF ps, two_places_for_pair_in_square
<1>3. ASSUME NEW col \in Digit, sps(d1, d2, row, col)
      PROVE  Inv'
  BY <1>1, <1>3, SamePairFollows, CommandInv DEF sps, same_pair_in_square
<1>4. CASE pr(d1, d2, row)
  BY <1>1, <1>4, TwoPlacesFollows, CommandInv DEF pr, two_places_for_pair_in_row
<1>5. CASE spr(d1, d2, row)
  BY <1>1, <1>5, SamePairFollows, CommandInv DEF spr, same_pair_in_row
<1>6. CASE pc(d1, d2, row)
  BY <1>1, <1>6, TwoPlacesFollows, CommandInv DEF pc, two_places_for_pair_in_column
<1>7. CASE spc(d1, d2, row)
  BY <1>1, <1>7, SamePairFollows, CommandInv DEF spc, same_pair_in_column
<1>8. QED
  BY <1>2, <1>3, <1>4, <1>5, <1>6, <1>7 DEF Pairs

\* Reading a character of the text keeps the invariant.
LEMMA ReadGivenInv ==
  ASSUME Inv, ReadGiven
  PROVE  Inv'
<1> DEFINE x == CellAt(pos + 1)
           m == enter_given(board, x, text[x])
<1>1. /\ Now = Idle(board) /\ Orderly(Idle(board), failed)
      /\ ~failed /\ board \in Boards
  BY NowAtRest DEF ReadGiven
<1>2. pos + 1 \in 1..digits2 /\ text \in Texts
  BY DigitsType DEF Inv, TypeOK, ReadGiven
<1>3. x \in Cell /\ text[x] \in Digit \cup {Period}
  BY <1>2, CellAtType DEF Texts
<1> HIDE DEF x
<1>4. /\ Orderly(m, failed)
      /\ \A g : IsSolution(g) /\ Allows(board, g) /\ (text[x] # Period => g[x] = text[x])
                => Allows(m.board, g) /\ FrameAgrees(m.stack, g)
      /\ Watchful(Idle(board)) => Watchful(m)
  BY <1>1, <1>3, GivenFollows
<1>5. /\ board' = m.board /\ stack' = m.stack /\ failed' = m.failed
      /\ text' = text /\ pos' = pos + 1
  BY <1>1, <1>4 DEF ReadGiven, Becomes, x, Orderly, Computations
<1> HIDE DEF m
<1>6. /\ m \in Computations
      /\ m.board \in Boards /\ m.stack \in Seq(Frames) /\ m.failed \in BOOLEAN
  BY <1>4 DEF Orderly, Computations
<1>7. TypeOK'
  BY <1>2, <1>5, <1>6, DigitsType DEF TypeOK
<1>8. Orderly(Now', failed')
  <2>1. /\ Now' \in Computations
        /\ Now'.board = m.board /\ Now'.stack = m.stack /\ Now'.failed = FALSE
    BY <1>5, <1>6 DEF Now, Computations
  <2>2. /\ FrameCand(m.board, m.stack) /\ FrameDet(m.board, m.stack)
        /\ failed' \/ Swept(m.board, m.stack)
    BY <1>1, <1>4, <1>5 DEF Orderly
  <2>3. QED BY <2>1, <2>2 DEF Orderly
<1>9. failed' => \E y \in Cell : board'.cand[y] = {}
  BY <1>4, <1>5 DEF Orderly
<1>10. ASSUME NEW g \in Grids, Extends(g, text')
       PROVE  Allows(board', g) /\ FrameAgrees(stack', g)
  <2>1. IsSolution(g) /\ Allows(board, g)
    BY <1>5, <1>10, GridsAssumption DEF Inv
  <2>2. text[x] # Period => g[x] = text[x]
    BY <1>3, <1>5, <1>10 DEF Extends
  <2>3. QED BY <1>4, <1>5, <2>1, <2>2
<1>11. ASSUME sides > 1 PROVE Watchful(Now')
  <2>1. Watchful(m)
    BY <1>1, <1>4, <1>11 DEF Inv
  <2>2. Now'.board = m.board /\ Now'.stack = m.stack
    BY <1>5 DEF Now
  <2>3. QED BY <2>1, <2>2 DEF Watchful
<1>12. QED
  BY <1>7, <1>8, <1>9, <1>10, <1>11 DEF Inv

\* A board about to be read is in good order.
LEMMA InitInv ==
  ASSUME Init
  PROVE  Inv
<1>1. TypeOK
  <2>1. mk_board \in Boards
    BY BlankBoard
  <2>2. <<>> \in Seq(Frames)
    OBVIOUS
  <2>3. 0 \in 0..(digits2 + 1)
    BY DigitsType
  <2>4. QED BY <2>1, <2>2, <2>3, PuzzlesAssumption DEF Init, TypeOK
<1>2. /\ Now = Idle(mk_board) /\ Now \in Computations
      /\ Now.board = mk_board /\ Now.stack = <<>> /\ Now.failed = FALSE
  BY BlankBoard DEF Init, Now, Idle, Computations
<1>3. Swept(mk_board, <<>>)
  BY DEF Swept, mk_board
<1>4. Orderly(Now, failed)
  BY <1>2, <1>3 DEF Orderly, FrameCand, FrameDet
<1>5. \A g \in Grids : Allows(board, g) /\ FrameAgrees(stack, g)
  BY BlankBoard, GridsAssumption DEF Init, IsSolution, FrameAgrees
<1>6. sides > 1 => Watchful(Now)
  BY <1>2, BlankWatchful
<1>7. QED BY <1>1, <1>4, <1>5, <1>6 DEF Init, Inv

\* Every step keeps the invariant.
LEMMA NextInv ==
  ASSUME Inv, [Next]_vars
  PROVE  Inv'
<1>1. ASSUME NEW t \in Puzzles, Load(t) PROVE Inv'
  <2>1. 0 \in 0..(digits2 + 1)
    BY DigitsType
  <2>2. QED BY <1>1, <2>1, FreshInv, PuzzlesAssumption DEF Load
<1>2. CASE ReadGiven
  BY <1>2, ReadGivenInv
<1>3. CASE ReturnBoard
  BY <1>3, DigitsType DEF ReturnBoard, Inv, TypeOK, Now
<1>4. CASE new
  <2>1. BlankText \in Texts
    BY DEF BlankText, Texts
  <2>2. digits2 + 1 \in 0..(digits2 + 1)
    BY DigitsType
  <2>3. QED BY <1>4, <2>1, <2>2, FreshInv DEF new, AtRest
<1>5. CASE Propagate
  <2>1. Follows(Now, Step(Now), failed)
    <3>1. Orderly(Now, failed) /\ Now.failed = FALSE /\ Now.stack # <<>>
      BY <1>5 DEF Inv, Propagate, AtRest, Now
    <3>2. QED BY <3>1, StepFollows
  <2>2. Becomes(Step(Now)) /\ text' = text /\ pos' \in 0..(digits2 + 1)
    BY <1>5 DEF Propagate, Now, Inv, TypeOK
  <2>3. QED BY <2>1, <2>2, BecomesInv
<1>6. ASSUME NEW d \in Digit, NEW row \in Digit, Basic(d, row)
      PROVE  Inv'
  BY <1>6, BasicInv
<1>7. ASSUME NEW d \in Digit, NEW row \in Digit, NEW col \in Digit,
             Advanced(d, row, col)
      PROVE  Inv'
  BY <1>7, AdvancedInv
<1>8. ASSUME NEW d1 \in Digit, NEW d2 \in Digit, NEW row \in Digit,
             Pairs(d1, d2, row)
      PROVE  Inv'
  BY <1>8, PairsInv
<1>9. CASE UNCHANGED vars
  BY <1>9 DEF vars, Inv, TypeOK, Now
<1>10. QED
  BY <1>1, <1>2, <1>3, <1>4, <1>5, <1>6, <1>7, <1>8, <1>9 DEF Next

\* The invariant holds of every behavior of the program.
THEOREM Invariance == Spec => []Inv
BY InitInv, NextInv, PTL DEF Spec

\* Type correctness: every state of the program is made of a board, a stack of
\* calls of Board:determine and a position in the text.
THEOREM TypeCorrect == Spec => []TypeOK
BY Invariance, PTL DEF Inv

\* Soundness: board() and the commands, with every half-done propagation,
\* keep every solution of the text that was loaded.
THEOREM Soundness == Spec => []SolutionsKept
<1>1. Inv => SolutionsKept
  BY DEF Inv, SolutionsKept
<1>2. QED
  BY <1>1, Invariance, PTL

\* "Board inconsistent" is raised, and an empty cell shown, only for a text
\* that none of the grids solves.
THEOREM Alarms == Spec => []NoFalseAlarm
<1>1. Inv => NoFalseAlarm
  BY DEF Inv, NoFalseAlarm, Allows
<1>2. QED
  BY <1>1, Invariance, PTL

\* The recursion of Board:determine never determines a cell twice.
THEOREM Recursion == Spec => []CallsDistinct
<1>1. Inv => CallsDistinct
  BY DEF Inv, CallsDistinct, Orderly, FrameDet, Now
<1>2. QED
  BY <1>1, Invariance, PTL

\* When the calls have returned, the determined digits are gone from their
\* squares, rows and columns, in whatever order the nested calls swept.
THEOREM Settlement == Spec => []Settled
<1>1. Inv => Settled
  <2> SUFFICES ASSUME Inv, AtRest, ~failed, NEW x \in board.det,
                      NEW u \in {SquareOf(x), RowOf(x), ColumnOf(x)}
               PROVE  Apart(board, x, u)
    BY DEF Settled, Apart
  <2>1. Swept(board, <<>>)
    BY DEF Inv, Orderly, Now, AtRest
  <2>2. \A k \in {"square", "row", "column"} : Apart(board, x, UnitOf(k, x))
    BY <2>1 DEF Swept
  <2>3. /\ UnitOf("square", x) = SquareOf(x) /\ UnitOf("row", x) = RowOf(x)
        /\ UnitOf("column", x) = ColumnOf(x)
    BY DEF UnitOf
  <2>4. QED BY <2>2, <2>3
<1>2. QED
  BY <1>1, Invariance, PTL

\* A board that shows a digit in every cell is a solved grid: no error can have
\* been raised on it, for that leaves a cell empty for good, so its determined
\* cells are settled, and the digits of a unit, all different, are all of them.
THEOREM Finish == Spec => []FinishedIsSolved
<1>1. Inv => FinishedIsSolved
  <2> SUFFICES ASSUME Inv, AtRest, \A x \in Cell : show(board, x) # Period
               PROVE  IsSolution(tostring(board))
    BY DEF FinishedIsSolved
  <2> DEFINE g == tostring(board)
  <2>1. ASSUME NEW x \in Cell
        PROVE  x \in board.det /\ g[x] \in Digit /\ board.cand[x] = {g[x]}
    <3>1. x \in board.det /\ unknowns(board, x) = 1 /\ show(board, x) = first(board, x)
      BY DEF show
    <3>2. PICK d \in Digit : board.cand[x] = {d} /\ first(board, x) = d
      BY <3>1, UnknownsType DEF Inv, TypeOK
    <3>3. g[x] = show(board, x)
      BY DEF tostring
    <3>4. QED BY <3>1, <3>2, <3>3
  <2>2. g \in [Cell -> Digit]
    <3>1. g = [x \in Cell |-> g[x]]
      BY DEF tostring
    <3> HIDE DEF g
    <3>2. QED BY <2>1, <3>1
  <2>3. Swept(board, <<>>)
    BY <2>1 DEF Inv, Orderly, Now, AtRest
  <2> HIDE DEF g
  <2>4. ASSUME NEW u \in Units, NEW x \in u, NEW y \in u, g[x] = g[y]
        PROVE  x = y
    <3>1. x \in Cell /\ y \in Cell
      BY UnitsType
    <3>2. PICK k \in {"square", "row", "column"} : u = UnitOf(k, x)
      BY UnitsThrough
    <3>3. Apart(board, x, u)
      BY <2>1, <2>3, <3>1, <3>2 DEF Swept
    <3>4. QED BY <2>1, <2>4, <3>1, <3>3 DEF Apart
  <2>5. \A u \in Units, d \in Digit : \E x \in u : g[x] = d
    BY <2>2, <2>4, EveryDigit
  <2>6. QED BY <2>2, <2>4, <2>5 DEF IsSolution, g
<1>2. QED
  BY <1>1, Invariance, PTL

\* "Finish off square (row, column) with just one unknown": the call that
\* leaves a unit with one undetermined cell, or one that waits for it, sweeps
\* the unit later, and the last of them determines the cell.
THEOREM NothingForgotten ==
  ASSUME sides > 1
  PROVE  Spec => []NoLoneCell
<1>1. Inv => NoLoneCell
  <2> SUFFICES ASSUME Inv, AtRest, \A x \in Cell : board.cand[x] # {},
                      NEW u \in Units, Cardinality(u \ board.det) = 1
               PROVE  FALSE
    BY DEF NoLoneCell
  <2>1. ~failed /\ Whole(board)
    BY DEF Inv, Whole
  <2>2. Watched(board, <<>>, u)
    BY <2>1 DEF Inv, Watchful, Now, AtRest
  <2>3. QED BY <2>2 DEF Watched
<1>2. QED
  BY <1>1, Invariance, PTL

-----------------------------------------------------------------------------
(***************************************************************************)
(* The strategies.  What a try does, in terms of the rules.                *)
(***************************************************************************)

\* A number of the form s * q + k, split again.
LEMMA Division ==
  ASSUME NEW n \in Nat \ {0}, NEW q \in Nat, NEW k \in 0..(n - 1)
  PROVE  (n * q + k) \div n = q /\ (n * q + k) % n = k
<1> DEFINE a == n * q + k
<1>1. a \in Nat
  OBVIOUS
<1>2. /\ a \div n \in Int /\ a % n \in 0..(n - 1)
      /\ a = n * (a \div n) + (a % n)
  <2> HIDE DEF a
  <2>1. QED BY <1>1
<1> DEFINE p == a \div n  m == a % n
<1>3. p \in Int /\ m \in 0..(n - 1) /\ n * q + k = n * p + m
  BY <1>2
<1> HIDE DEF p, m, a
<1>4. ASSUME p >= q + 1 PROVE FALSE
  <2>1. n * p >= n * (q + 1)
    BY <1>3, <1>4
  <2>2. n * (q + 1) = n * q + n
    OBVIOUS
  <2>3. QED BY <2>1, <2>2, <1>3
<1>5. ASSUME p <= q - 1 PROVE FALSE
  <2>1. n * p <= n * (q - 1)
    BY <1>3, <1>5
  <2>2. n * (q - 1) = n * q - n
    OBVIOUS
  <2>3. QED BY <2>1, <2>2, <1>3
<1>6. p = q
  BY <1>3, <1>4, <1>5
<1>7. m = k
  BY <1>3, <1>6
<1>8. QED BY <1>6, <1>7 DEF p, m, a

\* Every pair of coordinates is that of a row or column number.
LEMMA SpreadOnto ==
  ASSUME NEW i \in Coord, NEW j \in Coord
  PROVE  \E n \in Digit : spread(n)[1] = i /\ spread(n)[2] = j
<1>1. sides \in Nat \ {0} /\ i \in 1..sides /\ j \in 1..sides
  BY SidesAssumption DEF Coord
<1> DEFINE n == sides * (i - 1) + j
<1>2. n + sides - 1 = sides * i + (j - 1) /\ n - 1 = sides * (i - 1) + (j - 1)
  BY <1>1
<1>3. (sides * i + (j - 1)) \div sides = i
  BY <1>1, Division
<1>4. (sides * (i - 1) + (j - 1)) % sides = j - 1
  <2>1. i - 1 \in Nat /\ j - 1 \in 0..(sides - 1)
    BY <1>1
  <2>2. QED BY <1>1, <2>1, Division
<1>5. n \in Digit
  <2>1. i - 1 \in Nat /\ sides * (i - 1) >= 0
    BY <1>1
  <2>2. sides * (i - 1) <= sides * (sides - 1)
    BY <1>1
  <2>3. sides * (sides - 1) = sides * sides - sides
    BY <1>1
  <2>4. QED BY <1>1, <2>1, <2>2, <2>3 DEF Digit, digits
<1>6. spread(n)[1] = i
  BY <1>2, <1>3 DEF spread
<1>7. spread(n)[2] = j
  BY <1>1, <1>2, <1>4 DEF spread
<1>8. QED BY <1>5, <1>6, <1>7

\* The square that one_place_in_all_squares means.
LEMMA SpreadSquare ==
  ASSUME NEW i \in Coord
  PROVE  i * sides \in Digit /\ spread(i * sides)[1] = i
<1>1. sides \in Nat \ {0} /\ i \in 1..sides
  BY SidesAssumption DEF Coord
<1>2. i * sides + sides - 1 = sides * i + (sides - 1)
  BY <1>1
<1>3. (sides * i + (sides - 1)) \div sides = i
  BY <1>1, Division
<1>4. i * sides \in Digit
  <2>1. i * sides >= 1 * sides /\ i * sides <= sides * sides
    BY <1>1
  <2>2. QED BY <1>1, <2>1 DEF Digit, digits
<1>5. QED BY <1>2, <1>3, <1>4 DEF spread

\* The least of a set of tuples, in the order of loops.
LEMMA FirstExists ==
  ASSUME NEW n \in Nat, NEW S \in SUBSET [1..n -> Nat], S # {}
  PROVE  \E t \in S : \A u \in S : ~Before(u, t)
<1> DEFINE R == OpToRel(<, Nat)
<1>1. IsWellFoundedOn(LexProductOrdering(R, Nat, n), [1..n -> Nat])
  BY NatLessThanWellFounded, WFLexProductOrdering
<1>2. PICK t \in S : \A u \in S : <<u, t>> \notin LexProductOrdering(R, Nat, n)
  BY <1>1, WFMin
<1>3. ASSUME NEW u \in S, Before(u, t) PROVE FALSE
  <2>1. PICK i \in 1..n : u[i] < t[i] /\ \A j \in 1..(i - 1) : u[j] = t[j]
    BY <1>3 DEF Before
  <2>2. <<u[i], t[i]>> \in R
    BY <2>1 DEF OpToRel
  <2>3. <<u, t>> \in LexProductOrdering(R, Nat, n)
    BY <2>1, <2>2 DEF LexProductOrdering
  <2>4. QED BY <1>2, <2>3
<1>4. QED BY <1>3

\* Command d, or a try of p, changes the board where a cell has one candidate
\* and is not determined, and determines it.
LEMMA CellTried ==
  ASSUME NEW b \in Boards, NEW x \in Cell,
         NEW m, m = propagate_elimination(Idle(b), x)
  PROVE  /\ m = Idle(b) <=> x \in b.det \/ unknowns(b, x) > 1
         /\ unknowns(b, x) = 1 /\ x \notin b.det => m.board # b
         /\ m # Idle(b) /\ ~m.failed => x \in m.board.det
         /\ b.det \subseteq m.board.det
<1>1. /\ Idle(b).board = b /\ Idle(b).stack = <<>> /\ Idle(b).failed = FALSE
  BY DEF Idle
<1>2. /\ unknowns(b, x) \in Nat
      /\ unknowns(b, x) = 1 => \E d \in Digit : b.cand[x] = {d} /\ first(b, x) = d
  BY UnknownsType
<1>3. CASE unknowns(b, x) > 1 \/ x \in b.det
  <2>1. m = Idle(b)
    BY <1>1, <1>3 DEF propagate_elimination
  <2>2. QED BY <1>1, <1>2, <1>3, <2>1
<1>4. CASE unknowns(b, x) = 0 /\ x \notin b.det
  <2>1. m = [board |-> b, stack |-> <<>>, failed |-> TRUE]
    BY <1>1, <1>4 DEF propagate_elimination
  <2>2. m.failed /\ m.board = b
    BY <2>1
  <2>3. QED BY <1>1, <1>4, <2>2
<1>5. CASE unknowns(b, x) = 1 /\ x \notin b.det
  <2>1. PICK d \in Digit : b.cand[x] = {d} /\ first(b, x) = d
    BY <1>2, <1>5
  <2>2. m = determine(Idle(b), x, d)
    BY <1>1, <1>5, <2>1 DEF propagate_elimination
  <2>3. m.board = [cand |-> singleton(b, x, d).cand, det |-> b.det \cup {x}]
    BY <1>1, <1>5, <2>1, <2>2 DEF determine
  <2>4. m.board.det = b.det \cup {x}
    BY <2>3
  <2>5. QED BY <1>1, <1>5, <2>4
<1>6. QED
  BY <1>2, <1>3, <1>4, <1>5

\* A basic rule changes the board where a digit has a single place and that
\* place is not determined, and determines it.
LEMMA PlaceTried ==
  ASSUME NEW b \in Boards, NEW d \in Digit, NEW u \in Units,
         NEW m, m = OnePlace(b, d, u)
  PROVE  \/ m = Idle(b) /\ \A x : Places(b, u, d) = {x} => x \in b.det
         \/ \E x \in Cell : /\ Places(b, u, d) = {x} /\ x \notin b.det
                            /\ m.board.det = b.det \cup {x} /\ m.board # b
<1>1. /\ Idle(b).board = b /\ Idle(b).stack = <<>> /\ Idle(b).failed = FALSE
  BY DEF Idle
<1>2. u \subseteq Cell /\ Places(b, u, d) \in SUBSET Cell
  BY UnitsType DEF Places
<1>3. CASE Cardinality(Places(b, u, d)) = 1
  <2>1. PICK x \in Cell : /\ Places(b, u, d) = {x}
                          /\ (CHOOSE y \in Places(b, u, d) : TRUE) = x
    BY <1>2, <1>3, OneMember
  <2>2. m = determine(Idle(b), x, d)
    BY <1>3, <2>1 DEF OnePlace
  <2>3. d \in b.cand[x]
    BY <2>1 DEF Places
  <2>4. CASE x \in b.det
    <3>1. m = Idle(b)
      BY <1>1, <2>2, <2>4 DEF determine
    <3>2. QED BY <2>1, <2>4, <3>1
  <2>5. CASE x \notin b.det
    <3>1. m.board = [cand |-> singleton(b, x, d).cand, det |-> b.det \cup {x}]
      BY <1>1, <2>2, <2>3, <2>5 DEF determine
    <3>2. m.board.det = b.det \cup {x}
      BY <3>1
    <3>3. QED BY <2>1, <2>5, <3>2
  <2>6. QED BY <2>4, <2>5
<1>4. CASE Cardinality(Places(b, u, d)) # 1
  <2>1. m = Idle(b)
    BY <1>4 DEF OnePlace
  <2>2. \A x : Cardinality({x}) = 1
    BY FS_Singleton
  <2>3. QED BY <1>4, <2>1, <2>2
<1>5. QED
  BY <1>3, <1>4

-----------------------------------------------------------------------------
\* The sweeps that simp repeats.
Simple == {"singletons", "squares", "rows", "columns"}

\* A try of a sweep of simp looks at one cell, or for one digit in one unit.
LEMMA SimpleTry ==
  ASSUME NEW sw \in Simple, NEW t \in Tries(sw)
  PROVE  \/ /\ sw = "singletons"
            /\ \E x \in Cell : \A b : Try(sw, b, t) = propagate_elimination(Idle(b), x)
         \/ \E d \in Digit, u \in Units : \A b : Try(sw, b, t) = OnePlace(b, d, u)
<1>1. CASE sw = "singletons"
  <2>1. t \in Coord \X Coord \X Coord \X Coord
    BY <1>1 DEF Tries
  <2>2. <<t[1], t[3], t[2], t[4]>> \in Cell
    BY <2>1 DEF Cell
  <2>3. \A b : Try(sw, b, t) = propagate_elimination(Idle(b), <<t[1], t[3], t[2], t[4]>>)
    BY <1>1 DEF Try
  <2>4. QED BY <1>1, <2>2, <2>3
<1>2. CASE sw = "squares"
  <2>1. t[1] \in Digit /\ t[2] \in Coord /\ t[3] \in Coord
    BY <1>2 DEF Tries
  <2>2. Square(spread(t[2] * sides)[1], spread(t[3] * sides)[1]) \in Units
    BY <2>1, SpreadSquare, NamedUnits
  <2>3. \A b : Try(sw, b, t)
                 = OnePlace(b, t[1], Square(spread(t[2] * sides)[1], spread(t[3] * sides)[1]))
    BY <1>2 DEF Try, one_place_in_square
  <2>4. QED BY <2>1, <2>2, <2>3
<1>3. CASE sw = "rows"
  <2>1. t[1] \in Digit /\ t[2] \in Digit
    BY <1>3 DEF Tries
  <2>2. Row(spread(t[2])[1], spread(t[2])[2]) \in Units
    BY <2>1, SpreadType, NamedUnits
  <2>3. \A b : Try(sw, b, t) = OnePlace(b, t[1], Row(spread(t[2])[1], spread(t[2])[2]))
    BY <1>3 DEF Try, one_place_in_row
  <2>4. QED BY <2>1, <2>2, <2>3
<1>4. CASE sw = "columns"
  <2>1. t[1] \in Digit /\ t[2] \in Digit
    BY <1>4 DEF Tries
  <2>2. Column(spread(t[2])[1], spread(t[2])[2]) \in Units
    BY <2>1, SpreadType, NamedUnits
  <2>3. \A b : Try(sw, b, t) = OnePlace(b, t[1], Column(spread(t[2])[1], spread(t[2])[2]))
    BY <1>4 DEF Try, one_place_in_column
  <2>4. QED BY <2>1, <2>2, <2>3
<1>5. QED
  BY <1>1, <1>2, <1>3, <1>4 DEF Simple

\* A try of the other rules is an advanced rule or a rule for pairs, in one or
\* two units.
LEMMA AdvancedTry ==
  ASSUME NEW t \in AdvancedTries
  PROVE  \E d \in Digit, u \in Units, v \in Units :
           \A b : Try("rules", b, t) = Idle(Confine(b, d, u, v))
<1>1. /\ t[1] = 1 /\ t[2] \in Digit /\ t[3] \in Digit /\ t[4] \in Digit
      /\ t[5] \in 1..4
  BY DEF AdvancedTries
<1> DEFINE S == Square(spread(t[3])[1], spread(t[4])[1])
           R == Row(spread(t[3])[1], spread(t[3])[2])
           C == Column(spread(t[4])[1], spread(t[4])[2])
<1>2. S \in Units /\ R \in Units /\ C \in Units
  BY <1>1, SpreadType, NamedUnits
<1>3. \A b : Try("rules", b, t) = Idle(advanced_rule(b, t[2], t[3], t[4], t[5]))
  BY <1>1 DEF Try
<1>4. /\ \A b : one_row_in_square(b, t[2], t[3], t[4]) = Confine(b, t[2], S, R)
      /\ \A b : one_column_in_square(b, t[2], t[3], t[4]) = Confine(b, t[2], S, C)
      /\ \A b : one_square_for_row(b, t[2], t[3], t[4]) = Confine(b, t[2], R, S)
      /\ \A b : one_square_for_column(b, t[2], t[3], t[4]) = Confine(b, t[2], C, S)
  BY DEF one_row_in_square, one_column_in_square, one_square_for_row, one_square_for_column
<1> HIDE DEF S, R, C
<1>5. CASE t[5] = 1
  <2>1. \A b : Try("rules", b, t) = Idle(Confine(b, t[2], S, R))
    BY <1>3, <1>4, <1>5 DEF advanced_rule
  <2>2. QED BY <1>1, <1>2, <2>1
<1>6. CASE t[5] = 2
  <2>1. \A b : Try("rules", b, t) = Idle(Confine(b, t[2], S, C))
    BY <1>3, <1>4, <1>6 DEF advanced_rule
  <2>2. QED BY <1>1, <1>2, <2>1
<1>7. CASE t[5] = 3
  <2>1. \A b : Try("rules", b, t) = Idle(Confine(b, t[2], R, S))
    BY <1>3, <1>4, <1>7 DEF advanced_rule
  <2>2. QED BY <1>1, <1>2, <2>1
<1>8. CASE t[5] = 4
  <2>1. \A b : Try("rules", b, t) = Idle(Confine(b, t[2], C, S))
    BY <1>3, <1>4, <1>8 DEF advanced_rule
  <2>2. QED BY <1>1, <1>2, <2>1
<1>9. QED
  BY <1>1, <1>5, <1>6, <1>7, <1>8

\* A try of the rules for pairs is a rule for two places or one for the same
\* pair, in one unit.
LEMMA PairTry ==
  ASSUME NEW t \in PairTries
  PROVE  \E d1 \in Digit, d2 \in Digit, u \in Units :
           \/ \A b : Try("rules", b, t) = Idle(TwoPlaces(b, d1, d2, u))
           \/ \A b : Try("rules", b, t) = Idle(SamePair(b, d1, d2, u))
<1>1. /\ t[1] = 2 /\ t[2] \in Digit /\ t[3] \in Digit /\ t[5] \in Digit
      /\ t[7] \in 1..2
      /\ t[4] = 1 \/ (t[4] = 2 /\ t[6] \in 0..digits)
  BY DEF PairTries
<1> DEFINE C == Column(spread(t[5])[1], spread(t[5])[2])
           R == Row(spread(t[5])[1], spread(t[5])[2])
           S == Square(spread(t[5])[1], spread(t[6])[1])
<1>2. C \in Units /\ R \in Units
  BY <1>1, SpreadType, NamedUnits
<1>3. \A b : Try("rules", b, t)
               = Idle(pair_rule(b, t[2], t[3], t[4], t[5], t[6], t[7]))
  BY <1>1 DEF Try
<1>4. /\ \A b : two_places_for_pair_in_column(b, t[2], t[3], t[5]) = TwoPlaces(b, t[2], t[3], C)
      /\ \A b : same_pair_in_column(b, t[2], t[3], t[5]) = SamePair(b, t[2], t[3], C)
      /\ \A b : two_places_for_pair_in_row(b, t[2], t[3], t[5]) = TwoPlaces(b, t[2], t[3], R)
      /\ \A b : same_pair_in_row(b, t[2], t[3], t[5]) = SamePair(b, t[2], t[3], R)
      /\ \A b : two_places_for_pair_in_square(b, t[2], t[3], t[5], t[6])
                  = TwoPlaces(b, t[2], t[3], S)
      /\ \A b : same_pair_in_square(b, t[2], t[3], t[5], t[6]) = SamePair(b, t[2], t[3], S)
  BY DEF two_places_for_pair_in_column, same_pair_in_column, two_places_for_pair_in_row,
         same_pair_in_row, two_places_for_pair_in_square, same_pair_in_square
<1>5. t[4] = 2 /\ t[6] # 0 => S \in Units
  <2>1. t[4] = 2 /\ t[6] # 0 => t[6] \in Digit
    BY <1>1, DigitsType DEF Digit
  <2>2. QED BY <1>1, <2>1, SpreadType, NamedUnits
<1> HIDE DEF C, R, S
<1>6. CASE t[4] = 1
  <2>1. CASE t[7] = 1
    <3>1. \A b : Try("rules", b, t) = Idle(TwoPlaces(b, t[2], t[3], C))
      BY <1>3, <1>4, <1>6, <2>1 DEF pair_rule
    <3>2. QED BY <1>1, <1>2, <3>1
  <2>2. CASE t[7] = 2
    <3>1. \A b : Try("rules", b, t) = Idle(SamePair(b, t[2], t[3], C))
      BY <1>3, <1>4, <1>6, <2>2 DEF pair_rule
    <3>2. QED BY <1>1, <1>2, <3>1
  <2>3. QED BY <1>1, <2>1, <2>2
<1>7. CASE t[4] = 2 /\ t[6] = 0
  <2>1. CASE t[7] = 1
    <3>1. \A b : Try("rules", b, t) = Idle(TwoPlaces(b, t[2], t[3], R))
      BY <1>3, <1>4, <1>7, <2>1 DEF pair_rule
    <3>2. QED BY <1>1, <1>2, <3>1
  <2>2. CASE t[7] = 2
    <3>1. \A b : Try("rules", b, t) = Idle(SamePair(b, t[2], t[3], R))
      BY <1>3, <1>4, <1>7, <2>2 DEF pair_rule
    <3>2. QED BY <1>1, <1>2, <3>1
  <2>3. QED BY <1>1, <2>1, <2>2
<1>8. CASE t[4] = 2 /\ t[6] # 0
  <2>1. CASE t[7] = 1
    <3>1. \A b : Try("rules", b, t) = Idle(TwoPlaces(b, t[2], t[3], S))
      BY <1>3, <1>4, <1>8, <2>1 DEF pair_rule
    <3>2. QED BY <1>1, <1>5, <1>8, <3>1
  <2>2. CASE t[7] = 2
    <3>1. \A b : Try("rules", b, t) = Idle(SamePair(b, t[2], t[3], S))
      BY <1>3, <1>4, <1>8, <2>2 DEF pair_rule
    <3>2. QED BY <1>1, <1>5, <1>8, <3>1
  <2>3. QED BY <1>1, <2>1, <2>2
<1>9. QED
  BY <1>1, <1>6, <1>7, <1>8

\* The rules for advanced play eliminate candidates, and determine no cell.
LEMMA RulesKeepDet ==
  ASSUME NEW b \in Boards, NEW d \in Digit, NEW d1 \in Digit, NEW u, NEW v
  PROVE  /\ Confine(b, d, u, v) \in Boards /\ Confine(b, d, u, v).det = b.det
         /\ TwoPlaces(b, d, d1, u) \in Boards /\ TwoPlaces(b, d, d1, u).det = b.det
         /\ SamePair(b, d, d1, u) \in Boards /\ SamePair(b, d, d1, u).det = b.det
<1>1. \A S, D : Erase(b, S, D) \in Boards /\ Erase(b, S, D).det = b.det
  BY EraseType
<1>2. /\ \A S, D : Confine(b, d, u, v) = b \/ \E S1, D1 : Confine(b, d, u, v) = Erase(b, S1, D1)
      /\ TwoPlaces(b, d, d1, u) = b \/ \E S1, D1 : TwoPlaces(b, d, d1, u) = Erase(b, S1, D1)
      /\ SamePair(b, d, d1, u) = b \/ \E S1, D1 : SamePair(b, d, d1, u) = Erase(b, S1, D1)
  BY DEF Confine, TwoPlaces, SamePair
<1>3. QED
  BY <1>1, <1>2

\* A try of the rules of all calls no sweep of Board:determine, and determines
\* no cell.
LEMMA RuleTried ==
  ASSUME NEW b \in Boards, NEW t \in Tries("rules")
  PROVE  \E b1 \in Boards : Try("rules", b, t) = Idle(b1) /\ b1.det = b.det
<1>1. t \in AdvancedTries \/ t \in PairTries
  BY DEF Tries, Sweeps, Returned
<1>2. CASE t \in AdvancedTries
  <2>1. PICK d \in Digit, u \in Units, v \in Units :
          Try("rules", b, t) = Idle(Confine(b, d, u, v))
    BY <1>2, AdvancedTry
  <2>2. QED BY <2>1, RulesKeepDet
<1>3. CASE t \in PairTries
  <2>1. PICK d1 \in Digit, d2 \in Digit, u \in Units :
          \/ Try("rules", b, t) = Idle(TwoPlaces(b, d1, d2, u))
          \/ Try("rules", b, t) = Idle(SamePair(b, d1, d2, u))
    BY <1>3, PairTry
  <2>2. QED BY <2>1, RulesKeepDet
<1>4. QED
  BY <1>1, <1>2, <1>3

\* A try does what a command of Puzzle does.
LEMMA TryFollows ==
  ASSUME NEW old, NEW b, Orderly(Idle(b), old), NEW sw \in Sweeps, NEW t \in Tries(sw)
  PROVE  Follows(Idle(b), Try(sw, b, t), old)
<1>1. CASE sw \in Simple
  <2>1. CASE \E x \in Cell : Try(sw, b, t) = propagate_elimination(Idle(b), x)
    BY <2>1, PropagateFollows
  <2>2. CASE \E d \in Digit, u \in Units : Try(sw, b, t) = OnePlace(b, d, u)
    BY <2>2, OnePlaceFollows
  <2>3. QED BY <1>1, <2>1, <2>2, SimpleTry
<1>2. CASE sw = "rules"
  <2>1. t \in AdvancedTries \/ t \in PairTries
    BY <1>2 DEF Tries
  <2>2. CASE t \in AdvancedTries
    BY <1>2, <2>2, AdvancedTry, ConfineFollows
  <2>3. CASE t \in PairTries
    BY <1>2, <2>3, PairTry, TwoPlacesFollows, SamePairFollows
  <2>4. QED BY <2>1, <2>2, <2>3
<1>3. QED
  BY <1>1, <1>2 DEF Sweeps, Simple

\* Determined cells stay determined.
LEMMA TryGrows ==
  ASSUME NEW b \in Boards, NEW sw \in Sweeps, NEW t \in Tries(sw)
  PROVE  b.det \subseteq Try(sw, b, t).board.det
<1>0. Idle(b).board = b
  BY DEF Idle
<1>1. CASE sw \in Simple
  <2>1. CASE \E x \in Cell : Try(sw, b, t) = propagate_elimination(Idle(b), x)
    BY <2>1, CellTried
  <2>2. CASE \E d \in Digit, u \in Units : Try(sw, b, t) = OnePlace(b, d, u)
    <3>1. PICK d \in Digit, u \in Units : Try(sw, b, t) = OnePlace(b, d, u)
      BY <2>2
    <3>2. QED BY <1>0, <3>1, PlaceTried
  <2>3. QED BY <1>1, <2>1, <2>2, SimpleTry
<1>2. CASE sw = "rules"
  <2>1. PICK b1 \in Boards : Try("rules", b, t) = Idle(b1) /\ b1.det = b.det
    BY <1>2, RuleTried
  <2>2. Idle(b1).board = b1
    BY DEF Idle
  <2>3. QED BY <1>2, <2>1, <2>2
<1>3. QED
  BY <1>1, <1>2 DEF Sweeps, Simple

\* A sweep of Board:determine leaves the determined cells determined.
LEMMA StepGrows ==
  ASSUME NEW m
  PROVE  m.board.det \subseteq Step(m).board.det
<1>1. \A n, x, d : n.board.det \subseteq determine(n, x, d).board.det
  BY DEF determine
<1>2. \A n, x : n.board.det \subseteq propagate_elimination(n, x).board.det
  <2> TAKE n, x
  <2>1. \/ propagate_elimination(n, x) = n
        \/ propagate_elimination(n, x) = [board |-> n.board, stack |-> <<>>, failed |-> TRUE]
        \/ propagate_elimination(n, x) = determine(n, x, first(n.board, x))
    BY DEF propagate_elimination
  <2>2. QED BY <1>1, <2>1
<1>3. \A b, S, D : Erase(b, S, D).det = b.det
  BY DEF Erase
<1>4. Return(m).board = m.board
  BY DEF Return
<1>5. m.board.det \subseteq Sweep(m).board.det
  <2> DEFINE f == m.stack[Len(m.stack)]
             b == Erase(m.board, UnitOf(f.stage, f.cell) \ {f.cell}, {f.d})
             n == [board |-> b,
                   stack |-> [m.stack EXCEPT ![Len(m.stack)] =
                                [cell |-> f.cell, d |-> f.d, stage |-> NextStage(f.stage)]],
                   failed |-> m.failed]
  <2>1. n.board.det = m.board.det
    BY <1>3
  <2>2. Sweep(m) = n \/ \E x : Sweep(m) = propagate_elimination(n, x)
    BY DEF Sweep
  <2> HIDE DEF n
  <2>3. QED BY <1>2, <2>1, <2>2
<1>6. QED
  BY <1>4, <1>5 DEF Step

\* Candidates that are the same at the end were the same on the way.
LEMMA SameBetween ==
  ASSUME NEW b1 \in Boards, NEW b2 \in Boards, NEW b3 \in Boards,
         Shrinks(b1, b2), Shrinks(b2, b3), ~Eliminated(b1, b3)
  PROVE  ~Eliminated(b1, b2) /\ ~Eliminated(b2, b3)
<1>1. /\ b1.cand = [x \in Cell |-> b1.cand[x]] /\ b2.cand = [x \in Cell |-> b2.cand[x]]
      /\ b1.cand = b3.cand
  BY DEF Boards, Eliminated
<1>2. \A x \in Cell : b2.cand[x] = b1.cand[x]
  BY <1>1 DEF Shrinks
<1>3. b1.cand = b2.cand
  BY <1>1, <1>2
<1>4. QED
  BY <1>1, <1>3 DEF Eliminated

\* A simple rule that does nothing does nothing on a board with the same
\* candidates and more determined cells.
LEMMA QuietStays ==
  ASSUME NEW b1 \in Boards, NEW b2 \in Boards,
         ~Eliminated(b1, b2), b1.det \subseteq b2.det,
         NEW sw \in Simple, NEW t \in Tries(sw), Quiet(sw, b1, t)
  PROVE  Quiet(sw, b2, t)
<1>1. b1.cand = b2.cand
  BY DEF Eliminated
<1>2. ASSUME NEW x \in Cell, \A b : Try(sw, b, t) = propagate_elimination(Idle(b), x)
      PROVE  Quiet(sw, b2, t)
  <2>1. propagate_elimination(Idle(b1), x) = Idle(b1)
    BY <1>2 DEF Quiet
  <2>2. x \in b1.det \/ unknowns(b1, x) > 1
    BY <2>1, CellTried
  <2>3. x \in b2.det \/ unknowns(b2, x) > 1
    BY <1>1, <2>2 DEF unknowns
  <2>4. propagate_elimination(Idle(b2), x) = Idle(b2)
    BY <2>3, CellTried
  <2>5. QED BY <1>2, <2>4 DEF Quiet
<1>3. ASSUME NEW d \in Digit, NEW u \in Units, \A b : Try(sw, b, t) = OnePlace(b, d, u)
      PROVE  Quiet(sw, b2, t)
  <2>1. OnePlace(b1, d, u) = Idle(b1) /\ Idle(b1).board = b1
    BY <1>3 DEF Quiet, Idle
  <2>2. \A x : Places(b1, u, d) = {x} => x \in b1.det
    BY <2>1, PlaceTried
  <2>3. Places(b1, u, d) = Places(b2, u, d)
    BY <1>1 DEF Places
  <2>4. OnePlace(b2, d, u) = Idle(b2)
    BY <2>2, <2>3, PlaceTried
  <2>5. QED BY <1>3, <2>4 DEF Quiet
<1>4. QED
  BY <1>2, <1>3, SimpleTry

\* A simple rule that has been tried, and eliminated nothing so far, does
\* nothing any more: it determined its cell before it swept.
LEMMA TriedIsQuiet ==
  ASSUME NEW b \in Boards, NEW sw \in Simple, NEW t \in Tries(sw), ~Quiet(sw, b, t),
         NEW m, m = Try(sw, b, t), ~m.failed, m.board \in Boards,
         ~Eliminated(b, m.board)
  PROVE  Quiet(sw, m.board, t)
<1>1. m.board.cand = b.cand
  BY DEF Eliminated
<1> DEFINE b2 == m.board
<1>2. ASSUME NEW x \in Cell, \A b1 : Try(sw, b1, t) = propagate_elimination(Idle(b1), x)
      PROVE  Quiet(sw, b2, t)
  <2>1. m = propagate_elimination(Idle(b), x) /\ m # Idle(b)
    BY <1>2 DEF Quiet
  <2>2. x \in b2.det
    BY <2>1, CellTried
  <2>3. propagate_elimination(Idle(b2), x) = Idle(b2)
    BY <2>2, CellTried
  <2>4. QED BY <1>2, <2>3 DEF Quiet
<1>3. ASSUME NEW d \in Digit, NEW u \in Units, \A b1 : Try(sw, b1, t) = OnePlace(b1, d, u)
      PROVE  Quiet(sw, b2, t)
  <2>1. m = OnePlace(b, d, u) /\ m # Idle(b)
    BY <1>3 DEF Quiet
  <2>2. PICK x \in Cell : Places(b, u, d) = {x} /\ b2.det = b.det \cup {x}
    BY <2>1, PlaceTried
  <2>3. Places(b2, u, d) = Places(b, u, d)
    BY <1>1 DEF Places
  <2>4. \A y : Places(b2, u, d) = {y} => y \in b2.det
    BY <2>2, <2>3
  <2> HIDE DEF b2
  <2>5. b2 \in Boards
    BY DEF b2
  <2>6. OnePlace(b2, d, u) = Idle(b2)
    <3>1. \A x1 : Places(b2, u, d) = {x1} => x1 \in b2.det
      BY <2>4
    <3>2. QED BY <2>5, <3>1, PlaceTried
  <2>7. QED BY <1>3, <2>6 DEF Quiet
<1>4. QED
  BY <1>2, <1>3, SimpleTry

\* A rule of all that does something eliminates a candidate.
LEMMA RuleEliminates ==
  ASSUME NEW b \in Boards, NEW t \in Tries("rules"), ~Quiet("rules", b, t)
  PROVE  Eliminated(b, Try("rules", b, t).board) /\ ~Try("rules", b, t).failed
<1>1. PICK b1 \in Boards : Try("rules", b, t) = Idle(b1) /\ b1.det = b.det
  BY RuleTried
<1>2. Idle(b1).board = b1 /\ Idle(b1).failed = FALSE
  BY DEF Idle
<1>3. b1 # b
  BY <1>1 DEF Quiet
<1>4. b1 = [cand |-> b1.cand, det |-> b1.det] /\ b = [cand |-> b.cand, det |-> b.det]
  BY DEF Boards
<1>5. QED
  BY <1>1, <1>2, <1>3, <1>4 DEF Eliminated

-----------------------------------------------------------------------------
\* What the sweeps try.
LEMMA TriesOf ==
  /\ Tries("singletons") = Coord \X Coord \X Coord \X Coord
  /\ Tries("squares") = Digit \X Coord \X Coord
  /\ Tries("rows") = Digit \X Digit
  /\ Tries("columns") = Digit \X Digit
  /\ Tries("rules") = AdvancedTries \cup PairTries
  /\ Tries(Returned) = {}
BY DEF Tries, Returned

\* Sweep sw would do nothing on board b.
Clear(sw, b) == \A t \in Tries(sw) : Quiet(sw, b, t)

\* When p has nothing left to try, no undetermined cell has one candidate.
LEMMA ClearCells ==
  ASSUME NEW b \in Boards, Clear("singletons", b), NEW x \in Cell, x \notin b.det
  PROVE  unknowns(b, x) # 1
<1>1. PICK i, j, k, n \in Coord : x = <<i, j, k, n>>
  BY DEF Cell
<1> DEFINE t == <<i, k, j, n>>
<1>2. t \in Tries("singletons")
  BY TriesOf
<1>3. Try("singletons", b, t) = propagate_elimination(Idle(b), x)
  BY <1>1 DEF Try
<1>4. propagate_elimination(Idle(b), x) = Idle(b)
  BY <1>2, <1>3 DEF Clear, Quiet
<1>5. x \in b.det \/ unknowns(b, x) > 1
  BY <1>4, CellTried
<1>6. QED
  BY <1>5

\* When simp has nothing left to try, no digit has a single place that is not
\* determined: the row and column numbers that are tried name every unit.
LEMMA ClearUnits ==
  ASSUME NEW b \in Boards, \A sw \in Simple : Clear(sw, b),
         NEW u \in Units, NEW d \in Digit
  PROVE  OnePlace(b, d, u).board = b
<1>0. Idle(b).board = b
  BY DEF Idle
<1>1. ASSUME NEW i \in Coord, NEW j \in Coord, u = Square(i, j)
      PROVE  OnePlace(b, d, u) = Idle(b)
  <2> DEFINE t == <<d, i, j>>
  <2>1. t \in Tries("squares")
    BY TriesOf
  <2>2. Try("squares", b, t) = OnePlace(b, d, u)
    <3>1. spread(i * sides)[1] = i /\ spread(j * sides)[1] = j
      BY SpreadSquare
    <3>2. Try("squares", b, t) = one_place_in_square(b, d, i * sides, j * sides)
      BY DEF Try
    <3>3. QED BY <1>1, <3>1, <3>2 DEF one_place_in_square
  <2>3. QED BY <2>1, <2>2 DEF Clear, Quiet, Simple
<1>2. ASSUME NEW i \in Coord, NEW j \in Coord, u = Row(i, j)
      PROVE  OnePlace(b, d, u) = Idle(b)
  <2>1. PICK n \in Digit : spread(n)[1] = i /\ spread(n)[2] = j
    BY SpreadOnto
  <2> DEFINE t == <<d, n>>
  <2>2. t \in Tries("rows")
    BY TriesOf
  <2>3. Try("rows", b, t) = OnePlace(b, d, u)
    BY <1>2, <2>1 DEF Try, one_place_in_row
  <2>4. QED BY <2>2, <2>3 DEF Clear, Quiet, Simple
<1>3. ASSUME NEW i \in Coord, NEW j \in Coord, u = Column(i, j)
      PROVE  OnePlace(b, d, u) = Idle(b)
  <2>1. PICK n \in Digit : spread(n)[1] = i /\ spread(n)[2] = j
    BY SpreadOnto
  <2> DEFINE t == <<d, n>>
  <2>2. t \in Tries("columns")
    BY TriesOf
  <2>3. Try("columns", b, t) = OnePlace(b, d, u)
    BY <1>3, <2>1 DEF Try, one_place_in_column
  <2>4. QED BY <2>2, <2>3 DEF Clear, Quiet, Simple
<1>4. QED
  BY <1>0, <1>1, <1>2, <1>3 DEF Units, Squares, Rows, Columns

\* A rule that is tried on the numbers n and k of a row and a column.
LEMMA ClearAdvanced ==
  ASSUME NEW b, Clear("rules", b),
         NEW d \in Digit, NEW row \in Digit, NEW col \in Digit
  PROVE  /\ one_row_in_square(b, d, row, col) = b
         /\ one_column_in_square(b, d, row, col) = b
         /\ one_square_for_row(b, d, row, col) = b
         /\ one_square_for_column(b, d, row, col) = b
<1>1. ASSUME NEW k \in 1..4
      PROVE  Idle(advanced_rule(b, d, row, col, k)) = Idle(b)
  <2> DEFINE t == <<1, d, row, col, k>>
  <2>1. t \in Tries("rules")
    BY TriesOf DEF AdvancedTries
  <2>2. Try("rules", b, t) = Idle(advanced_rule(b, t[2], t[3], t[4], t[5]))
    <3>1. t[1] = 1
      OBVIOUS
    <3> HIDE DEF t
    <3>2. QED BY <3>1 DEF Try
  <2>3. Try("rules", b, t) = Idle(b)
    BY <2>1 DEF Clear, Quiet
  <2>4. QED BY <2>2, <2>3
<1>2. \A b1 : Idle(b1).board = b1
  BY DEF Idle
<1>3. \A k \in 1..4 : advanced_rule(b, d, row, col, k) = b
  BY <1>1, <1>2
<1>4. /\ advanced_rule(b, d, row, col, 1) = one_row_in_square(b, d, row, col)
      /\ advanced_rule(b, d, row, col, 2) = one_column_in_square(b, d, row, col)
      /\ advanced_rule(b, d, row, col, 3) = one_square_for_row(b, d, row, col)
      /\ advanced_rule(b, d, row, col, 4) = one_square_for_column(b, d, row, col)
  BY DEF advanced_rule
<1>5. QED
  BY <1>3, <1>4

\* A rule for pairs that is tried on the number n of a row or column, or on
\* the numbers of a square.
LEMMA ClearPairs ==
  ASSUME NEW b, Clear("rules", b),
         NEW d1 \in Digit, NEW d2 \in Digit, d1 # d2, NEW n \in Digit, NEW col \in Digit
  PROVE  /\ two_places_for_pair_in_column(b, d1, d2, n) = b
         /\ same_pair_in_column(b, d1, d2, n) = b
         /\ two_places_for_pair_in_row(b, d1, d2, n) = b
         /\ same_pair_in_row(b, d1, d2, n) = b
         /\ two_places_for_pair_in_square(b, d1, d2, n, col) = b
         /\ same_pair_in_square(b, d1, d2, n, col) = b
<1>0. col # 0 /\ col \in 0..digits /\ 0 \in 0..digits
  BY DigitsType DEF Digit
<1>1. ASSUME NEW i, NEW q, NEW k \in 1..2, (i = 1 /\ q = 0) \/ (i = 2 /\ q \in 0..digits)
      PROVE  pair_rule(b, d1, d2, i, n, q, k) = b
  <2> DEFINE t == <<2, d1, d2, i, n, q, k>>
  <2>1. t \in PairTries
    BY <1>1 DEF PairTries
  <2>2. t \in Tries("rules")
    BY <2>1, TriesOf
  <2>3. /\ t[1] = 2 /\ t[2] = d1 /\ t[3] = d2 /\ t[4] = i /\ t[5] = n
        /\ t[6] = q /\ t[7] = k
    OBVIOUS
  <2> HIDE DEF t
  <2>4. Try("rules", b, t) = Idle(pair_rule(b, t[2], t[3], t[4], t[5], t[6], t[7]))
    BY <2>3 DEF Try
  <2>5. Idle(pair_rule(b, d1, d2, i, n, q, k)) = Idle(b)
    BY <2>2, <2>3, <2>4 DEF Clear, Quiet
  <2>6. \A b1 : Idle(b1).board = b1
    BY DEF Idle
  <2>7. QED BY <2>5, <2>6
<1>2. /\ pair_rule(b, d1, d2, 1, n, 0, 1) = two_places_for_pair_in_column(b, d1, d2, n)
      /\ pair_rule(b, d1, d2, 1, n, 0, 2) = same_pair_in_column(b, d1, d2, n)
      /\ pair_rule(b, d1, d2, 2, n, 0, 1) = two_places_for_pair_in_row(b, d1, d2, n)
      /\ pair_rule(b, d1, d2, 2, n, 0, 2) = same_pair_in_row(b, d1, d2, n)
      /\ pair_rule(b, d1, d2, 2, n, col, 1)
           = two_places_for_pair_in_square(b, d1, d2, n, col)
      /\ pair_rule(b, d1, d2, 2, n, col, 2) = same_pair_in_square(b, d1, d2, n, col)
  BY <1>0 DEF pair_rule
<1>3. /\ pair_rule(b, d1, d2, 1, n, 0, 1) = b /\ pair_rule(b, d1, d2, 1, n, 0, 2) = b
      /\ pair_rule(b, d1, d2, 2, n, 0, 1) = b /\ pair_rule(b, d1, d2, 2, n, 0, 2) = b
      /\ pair_rule(b, d1, d2, 2, n, col, 1) = b /\ pair_rule(b, d1, d2, 2, n, col, 2) = b
  BY <1>0, <1>1
<1>4. QED
  BY <1>2, <1>3

\* When the rules do nothing, they do nothing in any units.
LEMMA ClearRules ==
  ASSUME NEW b, Clear("rules", b)
  PROVE  /\ \A u, v \in Units, d \in Digit :
              (u # v /\ u \cap v # {} /\ {u, v} \cap Squares # {})
                => Confine(b, d, u, v) = b
         /\ \A u \in Units, d1, d2 \in Digit :
              TwoPlaces(b, d1, d2, u) = b /\ SamePair(b, d1, d2, u) = b
<1>1. ASSUME NEW i \in Coord, NEW j \in Coord, NEW k \in Coord, NEW d \in Digit
      PROVE  /\ Confine(b, d, Square(i, j), Row(i, k)) = b
             /\ Confine(b, d, Row(i, k), Square(i, j)) = b
             /\ Confine(b, d, Square(i, j), Column(j, k)) = b
             /\ Confine(b, d, Column(j, k), Square(i, j)) = b
  <2>1. PICK row \in Digit : spread(row)[1] = i /\ spread(row)[2] = k
    BY SpreadOnto
  <2>2. PICK col \in Digit : spread(col)[1] = j /\ spread(col)[2] = k
    BY SpreadOnto
  <2>3. /\ one_row_in_square(b, d, row, col) = b
        /\ one_column_in_square(b, d, row, col) = b
        /\ one_square_for_row(b, d, row, col) = b
        /\ one_square_for_column(b, d, row, col) = b
    BY ClearAdvanced
  <2>4. QED
    BY <2>1, <2>2, <2>3 DEF one_row_in_square, one_column_in_square,
                            one_square_for_row, one_square_for_column
<1>2. ASSUME NEW u \in Units, NEW v \in Units, NEW d \in Digit,
             u # v, u \cap v # {}, {u, v} \cap Squares # {}
      PROVE  Confine(b, d, u, v) = b
  <2>1. ASSUME NEW w \in Squares, NEW z \in Units, w # z, w \cap z # {}
        PROVE  \E i, j, k \in Coord :
                 w = Square(i, j) /\ (z = Row(i, k) \/ z = Column(j, k))
    <3>1. PICK i \in Coord, j \in Coord : w = Square(i, j)
      BY DEF Squares
    <3>2. PICK x \in w : x \in z
      BY <2>1
    <3>3. PICK k \in Coord, n \in Coord : x = <<i, j, k, n>>
      BY <3>1, <3>2 DEF Square
    <3>4. PICK h \in {"square", "row", "column"} : z = UnitOf(h, x)
      BY <3>2, UnitsThrough
    <3>5. /\ UnitOf("square", x) = Square(i, j) /\ UnitOf("row", x) = Row(i, k)
          /\ UnitOf("column", x) = Column(j, n)
      BY <3>3 DEF UnitOf, SquareOf, RowOf, ColumnOf
    <3>6. QED BY <2>1, <3>1, <3>4, <3>5
  <2>2. CASE u \in Squares
    BY <1>1, <1>2, <2>1, <2>2
  <2>3. CASE v \in Squares
    <3>1. v # u /\ v \cap u # {}
      BY <1>2
    <3>2. QED BY <1>1, <2>1, <2>3, <3>1
  <2>4. QED BY <1>2, <2>2, <2>3
<1>3. ASSUME NEW u \in Units, NEW d1 \in Digit, NEW d2 \in Digit
      PROVE  TwoPlaces(b, d1, d2, u) = b /\ SamePair(b, d1, d2, u) = b
  <2>1. CASE d1 = d2
    BY <2>1 DEF TwoPlaces, SamePair
  <2>2. CASE d1 # d2
    <3>1. ASSUME NEW i \in Coord, NEW j \in Coord
          PROVE  \A w \in {Square(i, j), Row(i, j), Column(i, j)} :
                   TwoPlaces(b, d1, d2, w) = b /\ SamePair(b, d1, d2, w) = b
      <4>1. PICK n \in Digit : spread(n)[1] = i /\ spread(n)[2] = j
        BY SpreadOnto
      <4>2. PICK col \in Digit : spread(col)[1] = j /\ spread(col)[2] = j
        BY SpreadOnto
      <4>3. /\ two_places_for_pair_in_column(b, d1, d2, n) = b
            /\ same_pair_in_column(b, d1, d2, n) = b
            /\ two_places_for_pair_in_row(b, d1, d2, n) = b
            /\ same_pair_in_row(b, d1, d2, n) = b
            /\ two_places_for_pair_in_square(b, d1, d2, n, col) = b
            /\ same_pair_in_square(b, d1, d2, n, col) = b
        BY <2>2, ClearPairs
      <4>4. QED
        BY <4>1, <4>2, <4>3
           DEF two_places_for_pair_in_column, same_pair_in_column,
               two_places_for_pair_in_row, same_pair_in_row,
               two_places_for_pair_in_square, same_pair_in_square
    <3>2. QED BY <3>1 DEF Units, Squares, Rows, Columns
  <2>3. QED BY <2>1, <2>2
<1>4. QED
  BY <1>2, <1>3

\* The sweeps that have found nothing when sweep sw is begun, and those that
\* have found nothing when a command returns.
Prior(sw) ==
  CASE sw = "singletons" -> {}
    [] sw = "squares"    -> {"singletons"}
    [] sw = "rows"       -> {"singletons", "squares"}
    [] sw = "columns"    -> {"singletons", "squares", "rows"}
    [] sw = "rules"      -> {"singletons", "squares", "rows", "columns"}

Looked(name) ==
  CASE name = "p"     -> {"singletons"}
    [] name = "simp"  -> Simple
    [] name = "all"   -> {}
    [] name = "solve" -> Sweeps

\* Some candidate has been eliminated since the strategy started.
Progress(flags) == flags.p \/ flags.simp \/ flags.solve

\* Where each of the flags e may be set.
FlagsFit(name, sw, flags) ==
  /\ name = "p" => sw = "singletons" /\ ~flags.simp
  /\ name = "simp" => sw # "rules"
  /\ name # "solve" => ~flags.solve
  /\ sw # "singletons" => ~flags.p
  /\ sw = "rules" => ~flags.simp

Flags == [p : BOOLEAN, simp : BOOLEAN, solve : BOOLEAN, value : BOOLEAN]

\* What comes after a sweep, by what it eliminated.
LEMMA AfterRight ==
  ASSUME cmd \in Commands, NEW sw \in Sweeps, NEW flags \in Flags, FlagsFit(cmd, sw, flags),
         NEW f \in BOOLEAN, NEW a, a = After(sw, f, flags)
  PROVE  /\ a.e \in Flags
         /\ \/ /\ a.sweep \in Sweeps
               /\ FlagsFit(cmd, a.sweep, a.e)
               /\ Progress(a.e) <=> f \/ Progress(flags)
               /\ Prior(a.sweep) \subseteq (IF f THEN {} ELSE Prior(sw) \cup {sw})
            \/ /\ a.sweep = Returned
               /\ a.e.value <=> f \/ Progress(flags)
               /\ Looked(cmd) \subseteq (IF f THEN {} ELSE Prior(sw) \cup {sw})
<1> DEFINE Good(x) ==
      /\ x.e \in Flags
      /\ \/ /\ x.sweep \in Sweeps
            /\ FlagsFit(cmd, x.sweep, x.e)
            /\ Progress(x.e) <=> f \/ Progress(flags)
            /\ Prior(x.sweep) \subseteq (IF f THEN {} ELSE Prior(sw) \cup {sw})
         \/ /\ x.sweep = Returned
            /\ x.e.value <=> f \/ Progress(flags)
            /\ Looked(cmd) \subseteq (IF f THEN {} ELSE Prior(sw) \cup {sw})
<1>1. \A v \in BOOLEAN :
        /\ Finished(v).sweep = Returned /\ Finished(v).e \in Flags /\ Finished(v).e.value = v
  BY DEF Finished, Continue, NoFlags, Flags
<1>2. \A next, x : Continue(next, x).sweep = next /\ Continue(next, x).e = x
  BY DEF Continue
<1>3. ASSUME NEW v \in BOOLEAN, v <=> f \/ Progress(flags),
             Looked(cmd) \subseteq (IF f THEN {} ELSE Prior(sw) \cup {sw})
      PROVE  Good(Finished(v))
  BY <1>1, <1>3
<1>4. ASSUME NEW next \in Sweeps, NEW x \in Flags, FlagsFit(cmd, next, x),
             Progress(x) <=> f \/ Progress(flags),
             Prior(next) \subseteq (IF f THEN {} ELSE Prior(sw) \cup {sw})
      PROVE  Good(Continue(next, x))
  BY <1>2, <1>4
<1> SUFFICES Good(a)
  OBVIOUS
<1> HIDE DEF Good
<1>5. /\ flags.p \in BOOLEAN /\ flags.simp \in BOOLEAN /\ flags.solve \in BOOLEAN
      /\ [NoFlags EXCEPT !.solve = flags.solve] \in Flags
      /\ [NoFlags EXCEPT !.solve = TRUE] \in Flags
      /\ [flags EXCEPT !.p = FALSE, !.simp = TRUE] \in Flags
      /\ [flags EXCEPT !.p = FALSE] \in Flags
      /\ [flags EXCEPT !.p = TRUE] \in Flags
  BY DEF Flags, NoFlags
<1>6. /\ ~[NoFlags EXCEPT !.solve = flags.solve].p
      /\ ~[NoFlags EXCEPT !.solve = flags.solve].simp
      /\ [NoFlags EXCEPT !.solve = flags.solve].solve = flags.solve
      /\ ~[NoFlags EXCEPT !.solve = TRUE].p
      /\ ~[NoFlags EXCEPT !.solve = TRUE].simp
      /\ [NoFlags EXCEPT !.solve = TRUE].solve
  BY DEF NoFlags
<1>7. /\ ~[flags EXCEPT !.p = FALSE, !.simp = TRUE].p
      /\ [flags EXCEPT !.p = FALSE, !.simp = TRUE].simp
      /\ [flags EXCEPT !.p = FALSE, !.simp = TRUE].solve = flags.solve
      /\ ~[flags EXCEPT !.p = FALSE].p
      /\ [flags EXCEPT !.p = FALSE].simp = flags.simp
      /\ [flags EXCEPT !.p = FALSE].solve = flags.solve
      /\ [flags EXCEPT !.p = TRUE].p
      /\ [flags EXCEPT !.p = TRUE].simp = flags.simp
      /\ [flags EXCEPT !.p = TRUE].solve = flags.solve
  BY DEF Flags
<1>8. Prior("singletons") = {} /\ "singletons" \in Sweeps
  BY DEF Prior, Sweeps
<1>9. ASSUME f \/ Progress(flags), cmd \in {"all", "solve"}
      PROVE  Good(After_all(TRUE, flags))
  <2>1. CASE cmd = "solve"
    <3>1. After_all(TRUE, flags) = Continue("singletons", [NoFlags EXCEPT !.solve = TRUE])
      BY <2>1 DEF After_all
    <3>2. FlagsFit(cmd, "singletons", [NoFlags EXCEPT !.solve = TRUE])
      BY <1>6, <2>1 DEF FlagsFit
    <3>3. Progress([NoFlags EXCEPT !.solve = TRUE])
      BY <1>6 DEF Progress
    <3>4. QED BY <1>4, <1>5, <1>8, <1>9, <3>1, <3>2, <3>3
  <2>2. CASE cmd = "all"
    <3>1. After_all(TRUE, flags) = Finished(TRUE)
      BY <2>2 DEF After_all
    <3>2. Looked(cmd) = {}
      BY <2>2 DEF Looked
    <3>3. QED BY <1>3, <1>9, <3>1, <3>2
  <2>3. QED BY <1>9, <2>1, <2>2
\* simp's loop begins again.
<1>10. ASSUME f \/ Progress(flags), cmd # "p"
       PROVE  Good(Continue("singletons", [flags EXCEPT !.p = FALSE, !.simp = TRUE]))
  <2>1. FlagsFit(cmd, "singletons", [flags EXCEPT !.p = FALSE, !.simp = TRUE])
    BY <1>7, <1>10 DEF FlagsFit
  <2>2. Progress([flags EXCEPT !.p = FALSE, !.simp = TRUE])
    BY <1>7 DEF Progress
  <2>3. QED BY <1>4, <1>5, <1>8, <1>10, <2>1, <2>2
\* The next alternative of simp.
<1>11. ASSUME ~f, ~flags.p, cmd # "p", NEW next \in {"squares", "rows", "columns"},
              Prior(next) \subseteq Prior(sw) \cup {sw}
       PROVE  Good(Continue(next, [flags EXCEPT !.p = FALSE]))
  <2>1. FlagsFit(cmd, next, [flags EXCEPT !.p = FALSE])
    BY <1>7, <1>11 DEF FlagsFit
  <2>2. Progress([flags EXCEPT !.p = FALSE]) <=> Progress(flags)
    BY <1>7, <1>11 DEF Progress
  <2>3. next \in Sweeps
    BY DEF Sweeps
  <2>4. QED BY <1>4, <1>5, <1>11, <2>1, <2>2, <2>3
<1>12. CASE sw = "singletons"
  <2>1. a = After_singletons(f, flags)
    BY <1>12 DEF After
  <2>2. CASE f
    <3>1. a = Continue("singletons", [flags EXCEPT !.p = TRUE])
      BY <2>1, <2>2 DEF After_singletons
    <3>2. FlagsFit(cmd, "singletons", [flags EXCEPT !.p = TRUE])
      BY <1>7, <1>12 DEF FlagsFit
    <3>3. Progress([flags EXCEPT !.p = TRUE])
      BY <1>7 DEF Progress
    <3>4. QED BY <1>4, <1>5, <1>8, <2>2, <3>1, <3>2, <3>3
  <2>3. CASE ~f /\ cmd = "p"
    <3>1. a = Finished(flags.p)
      BY <2>1, <2>3 DEF After_singletons
    <3>2. flags.p <=> f \/ Progress(flags)
      BY <2>3 DEF FlagsFit, Progress
    <3>3. Looked(cmd) = {"singletons"}
      BY <2>3 DEF Looked
    <3>4. QED BY <1>3, <1>5, <1>12, <2>3, <3>1, <3>2, <3>3
  <2>4. CASE ~f /\ cmd # "p"
    <3>1. a = After_try(flags.p, flags, "squares")
      BY <2>1, <2>4 DEF After_singletons
    <3>2. CASE flags.p
      <4>1. a = Continue("singletons", [flags EXCEPT !.p = FALSE, !.simp = TRUE])
        BY <3>1, <3>2 DEF After_try
      <4>2. QED BY <1>10, <2>4, <3>2, <4>1 DEF Progress
    <3>3. CASE ~flags.p
      <4>1. a = Continue("squares", [flags EXCEPT !.p = FALSE])
        BY <3>1, <3>3 DEF After_try
      <4>2. Prior("squares") \subseteq Prior(sw) \cup {sw}
        BY <1>12 DEF Prior
      <4>3. QED BY <1>11, <2>4, <3>3, <4>1, <4>2
    <3>4. QED BY <3>2, <3>3
  <2>5. QED BY <2>2, <2>3, <2>4
<1>13. CASE sw = "squares" \/ sw = "rows"
  <2> DEFINE next == IF sw = "squares" THEN "rows" ELSE "columns"
  <2>1. a = After_try(f, flags, next)
    BY <1>13 DEF After
  <2>2. cmd # "p" /\ ~flags.p
    BY <1>13 DEF FlagsFit
  <2>3. CASE f
    <3>1. a = Continue("singletons", [flags EXCEPT !.p = FALSE, !.simp = TRUE])
      BY <2>1, <2>3 DEF After_try
    <3>2. QED BY <1>10, <2>2, <2>3, <3>1
  <2>4. CASE ~f
    <3>1. a = Continue(next, [flags EXCEPT !.p = FALSE])
      BY <2>1, <2>4 DEF After_try
    <3>2. Prior(next) \subseteq Prior(sw) \cup {sw}
      BY <1>13 DEF Prior
    <3>3. QED BY <1>11, <2>2, <2>4, <3>1, <3>2
  <2>5. QED BY <2>3, <2>4
<1>14. CASE sw = "columns"
  <2>1. a = After_try(f, flags, "end")
    BY <1>14 DEF After
  <2>2. cmd # "p" /\ ~flags.p
    BY <1>14 DEF FlagsFit
  <2>3. CASE f
    <3>1. a = Continue("singletons", [flags EXCEPT !.p = FALSE, !.simp = TRUE])
      BY <2>1, <2>3 DEF After_try
    <3>2. QED BY <1>10, <2>2, <2>3, <3>1
  <2>4. CASE ~f
    <3>1. a = After_simp(flags.simp, flags)
      BY <2>1, <2>4 DEF After_try
    <3>2. CASE cmd = "simp"
      <4>1. a = Finished(flags.simp)
        BY <3>1, <3>2 DEF After_simp
      <4>2. flags.simp <=> f \/ Progress(flags)
        BY <2>2, <2>4, <3>2 DEF FlagsFit, Progress
      <4>3. Looked(cmd) \subseteq Prior(sw) \cup {sw}
        BY <1>14, <3>2 DEF Looked, Prior, Simple
      <4>4. QED BY <1>3, <1>5, <2>4, <4>1, <4>2, <4>3
    <3>3. CASE cmd # "simp" /\ flags.simp
      <4>1. a = After_all(TRUE, flags)
        BY <3>1, <3>3 DEF After_simp, After_all
      <4>2. cmd \in {"all", "solve"}
        BY <2>2, <3>3 DEF Commands
      <4>3. QED BY <1>9, <3>3, <4>1, <4>2 DEF Progress
    <3>4. CASE cmd # "simp" /\ ~flags.simp
      <4>1. a = Continue("rules", [NoFlags EXCEPT !.solve = flags.solve])
        BY <3>1, <3>4 DEF After_simp
      <4>2. FlagsFit(cmd, "rules", [NoFlags EXCEPT !.solve = flags.solve])
        BY <1>6, <2>2, <3>4 DEF FlagsFit
      <4>3. Progress([NoFlags EXCEPT !.solve = flags.solve]) <=> f \/ Progress(flags)
        BY <1>6, <2>2, <2>4, <3>4 DEF Progress
      <4>4. Prior("rules") \subseteq Prior(sw) \cup {sw} /\ "rules" \in Sweeps
        BY <1>14 DEF Prior, Sweeps
      <4>5. QED BY <1>4, <1>5, <2>4, <4>1, <4>2, <4>3, <4>4
    <3>5. QED BY <3>2, <3>3, <3>4
  <2>5. QED BY <2>3, <2>4
<1>15. CASE sw = "rules"
  <2>1. a = After_all(f, flags)
    BY <1>15 DEF After
  <2>2. cmd \in {"all", "solve"} /\ ~flags.p /\ ~flags.simp
    BY <1>15 DEF FlagsFit, Commands
  <2>3. CASE f
    BY <1>9, <2>1, <2>2, <2>3
  <2>4. CASE ~f
    <3>1. Looked(cmd) \subseteq Prior(sw) \cup {sw}
      BY <1>15, <2>2 DEF Looked, Prior, Sweeps
    <3>2. CASE cmd = "solve"
      <4>1. a = Finished(flags.solve)
        BY <2>1, <2>4, <3>2 DEF After_all
      <4>2. flags.solve <=> f \/ Progress(flags)
        BY <2>2, <2>4 DEF Progress
      <4>3. QED BY <1>3, <1>5, <2>4, <3>1, <4>1, <4>2
    <3>3. CASE cmd # "solve"
      <4>1. a = Finished(f)
        BY <2>1, <3>3 DEF After_all
      <4>2. f <=> f \/ Progress(flags)
        BY <2>2, <3>3 DEF Progress, FlagsFit
      <4>3. QED BY <1>3, <2>4, <3>1, <4>1, <4>2
    <3>4. QED BY <3>2, <3>3
  <2>5. QED BY <2>3, <2>4
<1>16. QED
  BY <1>12, <1>13, <1>14, <1>15 DEF Sweeps

\* A strategy under way, in sweep sweep: what it has found to do nothing so
\* far, and what its flags say.
Underway ==
  /\ Shrinks(start, base) /\ Shrinks(base, board) /\ base.det \subseteq board.det
  /\ Eliminated(base, board) \/ \A t \in Tries(sweep) \ todo : Quiet(sweep, board, t)
  /\ \A sw \in Prior(sweep) : Clear(sw, base)
  /\ FlagsFit(cmd, sweep, e)
  /\ Progress(e) <=> Eliminated(start, base)
  /\ sweep = "rules" => AtRest

\* A strategy that has returned.
Over ==
  /\ \A sw \in Looked(cmd) : Clear(sw, board)
  /\ e.value <=> Eliminated(start, board)

StrategyInv ==
  /\ Inv
  /\ StrategyTypeOK
  /\ sweep = Player => e = NoFlags
  /\ sweep # Player => Loaded /\ cmd \in Commands
  /\ sweep \in Sweeps => Underway
  /\ sweep = Returned => failed \/ Over

\* Candidates go in one of two stretches if they go at all.
LEMMA EliminatedBetween ==
  ASSUME NEW b1 \in Boards, NEW b2 \in Boards, NEW b3 \in Boards,
         Shrinks(b1, b2), Shrinks(b2, b3)
  PROVE  /\ Shrinks(b1, b3)
         /\ Eliminated(b1, b3) <=> Eliminated(b1, b2) \/ Eliminated(b2, b3)
<1>1. Shrinks(b1, b3)
  BY DEF Shrinks
<1>2. ~Eliminated(b1, b2) /\ ~Eliminated(b2, b3) => ~Eliminated(b1, b3)
  BY DEF Eliminated
<1>3. QED
  BY <1>1, <1>2, SameBetween

\* The sweeps are distinct, and neither Player nor Returned is one.
LEMMA SweepNames ==
  /\ Sweeps = Simple \cup {"rules"} /\ "rules" \notin Simple
  /\ Player \notin Sweeps /\ Returned \notin Sweeps /\ Player # Returned
  /\ \A sw \in Sweeps : Prior(sw) \subseteq Simple
  /\ Prior("singletons") = {} /\ "singletons" \in Simple
BY DEF Sweeps, Simple, Player, Returned, Prior

\* A call that goes on, or a try, keeps what its strategy relies on.
LEMMA GoesInv ==
  ASSUME StrategyInv, sweep \in Sweeps, NEW m, Follows(Now, m, failed), Goes(m),
         board.det \subseteq m.board.det,
         todo' \subseteq Tries(sweep), m.failed => todo' = {},
         ~m.failed /\ ~Eliminated(base, m.board) =>
           \A t \in Tries(sweep) \ todo' : Quiet(sweep, m.board, t),
         sweep = "rules" => m.stack = <<>>
  PROVE  StrategyInv'
<1>1. /\ Now.board = board /\ Now.stack = stack /\ Now.failed = FALSE
  BY DEF Now
<1>2. /\ board' = m.board /\ stack' = m.stack /\ failed' = (failed \/ m.failed)
      /\ sweep' = (IF m.failed THEN Returned ELSE sweep)
      /\ e' = (IF m.failed THEN NoFlags ELSE e)
      /\ text' = text /\ pos' = pos /\ cmd' = cmd /\ start' = start /\ base' = base
  BY DEF Goes, Becomes
<1>3. Inv'
  <2>1. Becomes(m) /\ pos' \in 0..(digits2 + 1)
    BY <1>2 DEF Goes, StrategyInv, Inv, TypeOK
  <2>2. QED BY <1>2, <2>1, BecomesInv DEF StrategyInv
<1>4. m.board \in Boards /\ m.failed \in BOOLEAN /\ Shrinks(board, m.board)
  BY <1>1 DEF Follows, Continues, Orderly, Computations
<1>5. StrategyTypeOK /\ Underway /\ board \in Boards /\ Loaded /\ cmd \in Commands
  BY SweepNames DEF StrategyInv, Inv, TypeOK
<1>6. StrategyTypeOK'
  BY <1>2, <1>4, <1>5, SweepNames DEF StrategyTypeOK, NoFlags
<1>7. sweep' # Player /\ Loaded' /\ cmd' \in Commands
  BY <1>2, <1>5, SweepNames DEF Loaded
<1>8. CASE m.failed
  <2>1. sweep' = Returned /\ failed'
    BY <1>2, <1>8
  <2>2. QED BY <1>3, <1>6, <1>7, <2>1, SweepNames DEF StrategyInv
<1>9. CASE ~m.failed
  <2>1. sweep' = sweep /\ e' = e
    BY <1>2, <1>9
  <2>2. base \in Boards /\ Shrinks(base, board)
    BY <1>5 DEF StrategyTypeOK, Underway
  <2>3. Shrinks(base, m.board)
    BY <1>4, <1>5, <2>2, EliminatedBetween
  <2>4. base.det \subseteq board'.det
    BY <1>2, <1>5 DEF Underway
  <2>5. Eliminated(base, m.board) \/ \A t \in Tries(sweep) \ todo' : Quiet(sweep, m.board, t)
    BY <1>9
  <2>6. Underway'
    BY <1>2, <1>5, <2>1, <2>3, <2>4, <2>5 DEF Underway, AtRest
  <2>7. QED BY <1>3, <1>6, <1>7, <2>1, <2>6, SweepNames DEF StrategyInv
<1>10. QED
  BY <1>4, <1>8, <1>9

\* A sweep of a call of Board:determine keeps the invariant.
LEMMA CallInv ==
  ASSUME StrategyInv, Call
  PROVE  StrategyInv'
<1> DEFINE m == Step([board |-> board, stack |-> stack, failed |-> FALSE])
<1>1. /\ sweep \in Sweeps /\ ~AtRest /\ Goes(m)
      /\ todo' = (IF m.failed THEN {} ELSE todo)
  BY DEF Call
<1>2. m = Step(Now)
  BY DEF Now
<1>3. Follows(Now, m, failed)
  <2>1. Orderly(Now, failed) /\ Now.failed = FALSE /\ Now.stack # <<>>
    BY <1>1 DEF StrategyInv, Inv, AtRest, Now
  <2>2. QED BY <1>2, <2>1, StepFollows
<1>4. board.det \subseteq m.board.det
  BY <1>2, StepGrows DEF Now
<1> HIDE DEF m
<1>5. /\ board \in Boards /\ base \in Boards /\ todo \subseteq Tries(sweep)
      /\ Underway /\ sweep \in Simple
  BY <1>1, SweepNames DEF StrategyInv, StrategyTypeOK, Inv, TypeOK, Underway
<1>6. m.board \in Boards /\ Shrinks(board, m.board)
  BY <1>3 DEF Follows, Continues, Orderly, Computations, Now
<1>7. ASSUME ~m.failed, ~Eliminated(base, m.board), NEW t \in Tries(sweep) \ todo'
      PROVE  Quiet(sweep, m.board, t)
  <2>1. ~Eliminated(base, board) /\ ~Eliminated(board, m.board)
    BY <1>5, <1>6, <1>7, SameBetween DEF Underway
  <2>2. Quiet(sweep, board, t)
    BY <1>1, <1>5, <1>7, <2>1 DEF Underway
  <2>3. QED BY <1>4, <1>5, <1>6, <2>1, <2>2, QuietStays
<1>8. QED
  BY <1>1, <1>3, <1>4, <1>5, <1>7, SweepNames, GoesInv

\* A try keeps the invariant: it leaves behind it only tries that would do
\* nothing, or has eliminated a candidate since the sweep began.
LEMMA TurnInv ==
  ASSUME StrategyInv, Turn
  PROVE  StrategyInv'
<1>1. sweep \in Sweeps /\ AtRest
  BY DEF Turn
<1>2. PICK t \in todo :
        /\ ~Quiet(sweep, board, t)
        /\ \A u \in todo : Before(u, t) => Quiet(sweep, board, u)
        /\ Goes(Try(sweep, board, t))
        /\ todo' = (IF sweep = "rules" \/ Try(sweep, board, t).failed THEN {}
                    ELSE {u \in todo : u # t /\ ~Before(u, t)})
  BY DEF Turn
<1> DEFINE m == Try(sweep, board, t)
<1>3. /\ board \in Boards /\ base \in Boards /\ todo \subseteq Tries(sweep)
      /\ Underway
  BY <1>1, SweepNames DEF StrategyInv, StrategyTypeOK, Inv, TypeOK
<1>4. Follows(Now, m, failed)
  <2>1. Now = Idle(board) /\ Orderly(Idle(board), failed)
    BY <1>1, NowAtRest DEF StrategyInv
  <2>2. t \in Tries(sweep)
    BY <1>2, <1>3
  <2>3. QED BY <1>1, <2>1, <2>2, TryFollows
<1>5. board.det \subseteq m.board.det
  BY <1>1, <1>2, <1>3, TryGrows
<1>6. m.board \in Boards /\ Shrinks(board, m.board)
  BY <1>4 DEF Follows, Continues, Orderly, Computations, Now
<1>7. CASE sweep = "rules"
  <2>1. Eliminated(board, m.board) /\ m.stack = <<>>
    <3>1. t \in Tries("rules") /\ ~Quiet("rules", board, t)
      BY <1>2, <1>3, <1>7
    <3>2. Eliminated(board, m.board)
      BY <1>3, <1>7, <3>1, RuleEliminates
    <3>3. PICK b1 \in Boards : m = Idle(b1)
      BY <1>3, <1>7, <3>1, RuleTried
    <3>4. QED BY <3>2, <3>3 DEF Idle
  <2> HIDE DEF m
  <2>2. Eliminated(base, m.board)
    BY <1>3, <1>6, <2>1, SameBetween DEF Underway
  <2>3. todo' = {}
    BY <1>2, <1>7
  <2>4. Goes(m)
    BY <1>2 DEF m
  <2>5. QED BY <1>1, <1>4, <1>5, <2>1, <2>2, <2>3, <2>4, GoesInv
<1>8. CASE sweep \in Simple
  <2> HIDE DEF m
  <2>1. ASSUME ~m.failed, ~Eliminated(base, m.board), NEW u \in Tries(sweep) \ todo'
        PROVE  Quiet(sweep, m.board, u)
    <3>1. ~Eliminated(base, board) /\ ~Eliminated(board, m.board)
      BY <1>3, <1>6, <2>1, SameBetween DEF Underway
    <3>2. CASE u = t
      BY <1>2, <1>3, <1>6, <1>8, <2>1, <3>1, <3>2, TriedIsQuiet DEF m
    <3>3. CASE u # t
      <4>1. u \notin todo \/ Before(u, t)
        BY <1>2, <1>8, <2>1, <3>3, SweepNames DEF m
      <4>2. Quiet(sweep, board, u)
        BY <1>2, <1>3, <2>1, <3>1, <4>1 DEF Underway
      <4>3. QED BY <1>3, <1>5, <1>6, <1>8, <2>1, <3>1, <4>2, QuietStays
    <3>4. QED BY <3>2, <3>3
  <2>2. Goes(m) /\ todo' \subseteq Tries(sweep) /\ (m.failed => todo' = {})
    BY <1>2, <1>3 DEF m
  <2>3. QED BY <1>1, <1>4, <1>5, <1>8, <2>1, <2>2, SweepNames, GoesInv
<1>9. QED
  BY <1>1, <1>7, <1>8, SweepNames

\* The end of a sweep keeps the invariant: a sweep that eliminated nothing
\* leaves nothing to try, and After goes on to where no more than that and what
\* earlier sweeps left is relied on.
LEMMA EndSweepInv ==
  ASSUME StrategyInv, EndSweep
  PROVE  StrategyInv'
<1> DEFINE f == Eliminated(base, board)
           a == After(sweep, f, e)
<1>1. /\ sweep \in Sweeps /\ AtRest
      /\ \A t \in todo : Quiet(sweep, board, t)
      /\ sweep' = a.sweep /\ todo' = Tries(a.sweep) /\ e' = a.e
      /\ base' = board /\ cmd' = cmd /\ start' = start
      /\ board' = board /\ stack' = stack /\ failed' = failed /\ pos' = pos
      /\ UNCHANGED vars
  BY DEF EndSweep, vars
<1>2. /\ board \in Boards /\ base \in Boards /\ start \in Boards
      /\ e \in Flags /\ cmd \in Commands /\ Loaded /\ Underway
  BY <1>1, SweepNames DEF StrategyInv, StrategyTypeOK, Inv, TypeOK, Flags
<1>3. /\ Shrinks(start, board)
      /\ Eliminated(start, board) <=> f \/ Progress(e)
  BY <1>2, EliminatedBetween DEF Underway
<1>4. f \in BOOLEAN
  BY DEF Eliminated
<1> HIDE DEF f
<1>5. /\ a.e \in Flags
      /\ \/ /\ a.sweep \in Sweeps
            /\ FlagsFit(cmd, a.sweep, a.e)
            /\ Progress(a.e) <=> f \/ Progress(e)
            /\ Prior(a.sweep) \subseteq (IF f THEN {} ELSE Prior(sweep) \cup {sweep})
         \/ /\ a.sweep = Returned
            /\ a.e.value <=> f \/ Progress(e)
            /\ Looked(cmd) \subseteq (IF f THEN {} ELSE Prior(sweep) \cup {sweep})
  BY <1>1, <1>2, <1>4, AfterRight DEF Underway
<1> HIDE DEF a
<1>6. ASSUME ~f, NEW sw \in Prior(sweep) \cup {sweep}
      PROVE  Clear(sw, board)
  <2>1. CASE sw = sweep
    BY <1>1, <1>2, <1>6, <2>1 DEF Underway, Clear, f
  <2>2. CASE sw \in Prior(sweep)
    <3>1. sw \in Simple /\ Clear(sw, base) /\ base.det \subseteq board.det
      BY <1>1, <1>2, <2>2, SweepNames DEF Underway
    <3>2. QED BY <1>2, <1>6, <3>1, QuietStays DEF Clear, f
  <2>3. QED BY <1>6, <2>1, <2>2
<1>7. Inv'
  BY <1>1, NextInv DEF StrategyInv
<1>8. StrategyTypeOK'
  BY <1>1, <1>2, <1>5, SweepNames DEF StrategyTypeOK, Flags
<1>9. Loaded' /\ sweep' # Player /\ cmd' \in Commands
  BY <1>1, <1>2, <1>5, SweepNames DEF Loaded
<1>10. CASE a.sweep \in Sweeps
  <2>1. \A sw \in Prior(a.sweep) : Clear(sw, board)
    BY <1>5, <1>6, <1>10, SweepNames
  <2>2. FlagsFit(cmd, a.sweep, a.e) /\ (Progress(a.e) <=> Eliminated(start, board))
    BY <1>3, <1>5, <1>10, SweepNames
  <2>3. Shrinks(board, board)
    BY DEF Shrinks
  <2>4. Underway'
    BY <1>1, <1>3, <2>1, <2>2, <2>3 DEF Underway, AtRest
  <2>5. QED BY <1>1, <1>7, <1>8, <1>9, <1>10, <2>4, SweepNames DEF StrategyInv
<1>11. CASE a.sweep = Returned
  <2>1. \A sw \in Looked(cmd) : Clear(sw, board)
    BY <1>5, <1>6, <1>11, SweepNames
  <2>2. a.e.value <=> Eliminated(start, board)
    BY <1>3, <1>5, <1>11, SweepNames
  <2>3. Over'
    BY <1>1, <2>1, <2>2 DEF Over
  <2>4. QED BY <1>1, <1>7, <1>8, <1>9, <1>11, <2>3, SweepNames DEF StrategyInv
<1>12. QED
  BY <1>5, <1>10, <1>11

\* The strategies keep their inductive invariant, on every board and for all
\* texts.
THEOREM StrategyInvariance == StrategySpec => []StrategyInv
<1>1. StrategyInit => StrategyInv
  <2> SUFFICES ASSUME StrategyInit PROVE StrategyInv
    OBVIOUS
  <2>1. Inv
    BY InitInv DEF StrategyInit
  <2>2. StrategyTypeOK
    BY BlankBoard DEF StrategyInit, StrategyTypeOK, NoFlags
  <2>3. QED BY <2>1, <2>2, SweepNames DEF StrategyInit, StrategyInv
<1>2. StrategyInv /\ [StrategyNext]_<<vars, svars>> => StrategyInv'
  <2> SUFFICES ASSUME StrategyInv, [StrategyNext]_<<vars, svars>> PROVE StrategyInv'
    OBVIOUS
  <2>1. CASE Play
    <3>1. Inv'
      BY <2>1, NextInv DEF Play, StrategyInv
    <3>2. StrategyTypeOK' /\ sweep' = Player /\ e' = NoFlags
      BY <2>1 DEF Play, svars, StrategyInv, StrategyTypeOK
    <3>3. QED BY <3>1, <3>2, SweepNames DEF StrategyInv
  <2>2. ASSUME NEW name \in Commands, Type(name)
        PROVE  StrategyInv'
    <3>1. /\ cmd' = name /\ sweep' = "singletons" /\ todo' = Tries("singletons")
          /\ start' = board /\ base' = board /\ e' = NoFlags
          /\ board' = board /\ pos' = pos /\ UNCHANGED vars /\ Loaded
      BY <2>2 DEF Type, vars, StrategyInv
    <3>2. Inv'
      BY <3>1, NextInv DEF StrategyInv
    <3>3. board \in Boards
      BY DEF StrategyInv, Inv, TypeOK
    <3>4. StrategyTypeOK'
      BY <3>1, <3>3, SweepNames DEF StrategyTypeOK, NoFlags
    <3>5. Underway'
      <4>1. Shrinks(board, board) /\ ~Eliminated(board, board)
        BY DEF Shrinks, Eliminated
      <4>2. FlagsFit(name, "singletons", NoFlags) /\ ~Progress(NoFlags)
        BY DEF FlagsFit, Progress, NoFlags
      <4>3. QED BY <3>1, <4>1, <4>2, SweepNames DEF Underway
    <3>6. QED BY <3>1, <3>2, <3>4, <3>5, SweepNames DEF StrategyInv, Loaded
  <2>3. CASE Call
    BY <2>3, CallInv
  <2>4. CASE Turn
    BY <2>4, TurnInv
  <2>5. CASE EndSweep
    BY <2>5, EndSweepInv
  <2>6. CASE Report
    <3>1. /\ cmd' = Player /\ sweep' = Player /\ start' = mk_board /\ base' = mk_board
          /\ e' = NoFlags /\ UNCHANGED vars
      BY <2>6 DEF Report, vars
    <3>2. Inv'
      BY <3>1, NextInv DEF StrategyInv
    <3>3. StrategyTypeOK'
      BY <3>1, BlankBoard DEF StrategyTypeOK, NoFlags
    <3>4. QED BY <3>1, <3>2, <3>3, SweepNames DEF StrategyInv
  <2>7. CASE UNCHANGED <<vars, svars>>
    BY <2>7, NextInv DEF svars, vars, StrategyInv, StrategyTypeOK, Underway, Over,
                         Loaded, AtRest
  <2>8. QED
    BY <2>1, <2>2, <2>3, <2>4, <2>5, <2>6, <2>7 DEF StrategyNext, Run
<1>3. QED
  BY <1>1, <1>2, PTL DEF StrategySpec

\* A strategy that has returned has found nothing more to do, and says truly
\* whether it eliminated a candidate.
THEOREM StrategiesReturn == StrategySpec => []StrategiesDone
<1>1. StrategyInv => StrategiesDone
  <2> SUFFICES ASSUME StrategyInv PROVE StrategiesDone
    OBVIOUS
  <2>1. StrategyTypeOK /\ board \in Boards
    BY DEF StrategyInv, Inv, TypeOK
  <2>2. ASSUME NEW names, Succeeded(names)
        PROVE  cmd \in names /\ Over
    BY <2>2 DEF Succeeded, StrategyInv
  <2>3. NoSingletonLeft
    <3> SUFFICES ASSUME Succeeded({"p", "simp", "solve"}), NEW x \in Cell \ board.det
                 PROVE  unknowns(board, x) # 1
      BY DEF NoSingletonLeft
    <3>1. "singletons" \in Looked(cmd)
      BY <2>2 DEF Looked, Simple, Sweeps
    <3>2. Clear("singletons", board)
      BY <2>2, <3>1 DEF Over
    <3>3. QED BY <2>1, <3>2, ClearCells
  <2>4. SimpleExhausted
    <3> SUFFICES ASSUME Succeeded({"simp", "solve"}), NEW u \in Units, NEW d \in Digit
                 PROVE  OnePlace(board, d, u).board = board
      BY DEF SimpleExhausted
    <3>1. Simple \subseteq Looked(cmd)
      BY <2>2, SweepNames DEF Looked
    <3>2. \A sw \in Simple : Clear(sw, board)
      BY <2>2, <3>1 DEF Over
    <3>3. QED BY <2>1, <3>2, ClearUnits
  <2>5. AllExhausted
    <3> SUFFICES ASSUME Succeeded({"solve"})
                 PROVE  AllExhausted!2
      BY DEF AllExhausted
    <3>1. Looked(cmd) = Sweeps
      BY <2>2 DEF Looked
    <3>2. Clear("rules", board)
      BY <2>2, <3>1 DEF Over, Sweeps
    <3>3. \A u \in Units, d \in Digit : OnePlace(board, d, u).board = board
      <4>1. Succeeded({"simp", "solve"})
        BY DEF Succeeded
      <4>2. QED BY <2>4, <4>1 DEF SimpleExhausted
    <3>4. QED BY <3>2, <3>3, ClearRules
  <2>6. ReportsProgress
    BY <2>2 DEF ReportsProgress, Over
  <2>7. QED BY <2>1, <2>3, <2>4, <2>5, <2>6 DEF StrategiesDone
<1>2. QED
  BY <1>1, StrategyInvariance, PTL

-----------------------------------------------------------------------------
\* Between commands a digit of a determined cell is nowhere else in its units.
LEMMA DeterminedAlone ==
  ASSUME Inv, AtRest, ~failed, NEW u \in Units, NEW d \in Digit,
         NEW x \in u, x \in board.det, d \in board.cand[x]
  PROVE  Places(board, u, d) = {x}
<1>1. PICK k \in {"square", "row", "column"} : u = UnitOf(k, x)
  BY UnitsThrough
<1>2. Swept(board, <<>>)
  BY DEF Inv, Orderly, Now, AtRest
<1>3. Apart(board, x, u)
  BY <1>1, <1>2 DEF Swept
<1>4. QED
  BY <1>3 DEF Apart, Places

\* hint is one of the hints, if there are any.
LEMMA HintExists ==
  ASSUME NEW b, hints(b) # {}
  PROVE  hint(b) \in hints(b)
<1>1. ASSUME NEW h \in hints(b) PROVE h \in [1..5 -> Nat]
  <2>1. h \in UnitHints \/ h \in CellHints
    BY DEF hints, LoneCells
  <2>2. Coord \subseteq Nat /\ Digit \subseteq Nat /\ 1..3 \subseteq Nat
    BY DigitsType DEF Coord, Digit
  <2>3. CASE h \in UnitHints
    <3>1. /\ h = <<h[1], h[2], h[3], h[4], h[5]>>
          /\ h[1] \in 1..3 /\ h[2] \in Coord /\ h[3] \in Coord
          /\ h[4] \in Digit /\ h[5] \in {0}
      BY <2>3 DEF UnitHints
    <3>2. /\ h[1] \in Nat /\ h[2] \in Nat /\ h[3] \in Nat
          /\ h[4] \in Nat /\ h[5] \in Nat
      BY <2>2, <3>1
    <3>3. QED BY <3>1, <3>2
  <2>4. CASE h \in CellHints
    <3>1. /\ h = <<h[1], h[2], h[3], h[4], h[5]>>
          /\ h[1] \in {4} /\ h[2] \in Coord /\ h[3] \in Coord
          /\ h[4] \in Coord /\ h[5] \in Coord
      BY <2>4 DEF CellHints
    <3>2. /\ h[1] \in Nat /\ h[2] \in Nat /\ h[3] \in Nat
          /\ h[4] \in Nat /\ h[5] \in Nat
      BY <2>2, <3>1
    <3>3. QED BY <3>1, <3>2
  <2>5. QED BY <2>1, <2>3, <2>4
<1>2. \E h \in hints(b) : \A k \in hints(b) : ~Before(k, h)
  <2>1. hints(b) \in SUBSET [1..5 -> Nat]
    BY <1>1
  <2> DEFINE H == hints(b)
  <2>2. H \in SUBSET [1..5 -> Nat] /\ H # {}
    BY <2>1
  <2> HIDE DEF H
  <2>3. \E h \in H : \A k \in H : ~Before(k, h)
    BY <2>2, FirstExists
  <2>4. QED BY <2>3 DEF H
<1>3. QED
  BY <1>2 DEF hint

\* The hint is right whenever no error has been raised: following it changes
\* the board, and when there is none no basic rule would.
THEOREM HintsHold == StrategySpec => []HintRight
<1>1. StrategyInv => HintRight
  <2> SUFFICES ASSUME StrategyInv, AtRest, ~failed
               PROVE  IF NoHint(board)
                      THEN \A u \in Units, d \in Digit : OnePlace(board, d, u).board = board
                      ELSE Follow(board, hint(board)).board # board
    BY DEF HintRight
  <2>1. Inv /\ board \in Boards /\ Idle(board).board = board
    BY DEF StrategyInv, Inv, TypeOK, Idle
  <2>2. ASSUME NoHint(board), NEW u \in Units, NEW d \in Digit,
               OnePlace(board, d, u).board # board
        PROVE  FALSE
    <3>1. PICK x \in Cell : Places(board, u, d) = {x} /\ x \notin board.det
      BY <2>1, <2>2, PlaceTried
    <3>2. {y \in u : y \notin board.det /\ d \in board.cand[y]} = {x}
      BY <3>1 DEF Places
    <3>3. PICK i \in Coord, j \in Coord :
            u = Square(i, j) \/ u = Row(i, j) \/ u = Column(i, j)
      BY DEF Units, Squares, Rows, Columns
    <3>4. \E k \in 1..3 : UnitFor(<<k, i, j, d, 0>>) = u
      <4>1. /\ UnitFor(<<1, i, j, d, 0>>) = Square(i, j)
            /\ UnitFor(<<2, i, j, d, 0>>) = Row(i, j)
            /\ UnitFor(<<3, i, j, d, 0>>) = Column(i, j)
        BY DEF UnitFor
      <4>2. QED BY <3>3, <4>1
    <3>5. PICK h \in UnitHints : UnitFor(h) = u /\ h[4] = d
      BY <3>4 DEF UnitHints
    <3>6. h \in hints(board)
      BY <3>2, <3>5, FS_Singleton DEF hints
    <3>7. QED BY <2>2, <3>6 DEF NoHint
  <2>3. ASSUME ~NoHint(board)
        PROVE  Follow(board, hint(board)).board # board
    <3> DEFINE h == hint(board)
    <3>1. h \in hints(board)
      BY <2>3, HintExists DEF NoHint
    <3> HIDE DEF h
    <3>2. CASE h \in LoneCells(board)
      <4>1. /\ h[1] = 4 /\ CellFor(h) \in Cell
            /\ CellFor(h) \notin board.det /\ unknowns(board, CellFor(h)) = 1
        BY <3>2 DEF LoneCells, CellHints, CellFor, Cell
      <4>2. Follow(board, h) = propagate_elimination(Idle(board), CellFor(h))
        BY <4>1 DEF Follow
      <4>3. QED BY <2>1, <4>1, <4>2, CellTried DEF h
    <3>3. CASE /\ h \in UnitHints
               /\ Cardinality({y \in UnitFor(h) : /\ y \notin board.det
                                                  /\ h[4] \in board.cand[y]}) = 1
      <4> DEFINE u == UnitFor(h)  d == h[4]
                 S == {y \in u : y \notin board.det /\ d \in board.cand[y]}
      <4>1. h[1] \in 1..3 /\ h[2] \in Coord /\ h[3] \in Coord /\ d \in Digit
        BY <3>3 DEF UnitHints
      <4>2. u \in Units
        BY <4>1, NamedUnits DEF UnitFor
      <4>3. S \in SUBSET Cell
        BY <4>2, UnitsType
      <4>4. PICK x \in Cell : S = {x}
        BY <3>3, <4>3, OneMember
      <4>5. Places(board, u, d) = {x}
        <5>1. \A y \in u : d \in board.cand[y] => y \notin board.det
          BY <2>1, <4>1, <4>2, <4>4, DeterminedAlone DEF Places
        <5>2. QED BY <4>4, <5>1 DEF Places
      <4>6. x \notin board.det
        BY <4>4
      <4>7. Follow(board, h) = OnePlace(board, d, u)
        BY <4>1 DEF Follow
      <4> HIDE DEF u, d, S
      <4>8. OnePlace(board, d, u).board # board
        BY <2>1, <4>1, <4>2, <4>5, <4>6, PlaceTried
      <4>9. QED BY <4>7, <4>8 DEF h
    <3>4. QED BY <3>1, <3>2, <3>3 DEF hints
  <2>4. QED BY <2>2, <2>3
<1>2. QED
  BY <1>1, StrategyInvariance, PTL

-----------------------------------------------------------------------------
\* A basic rule on a unit, or a try of p on a cell, is a command the player
\* could type: its numbers name the unit or the cell.
LEMMA SimpleIsCommand ==
  ASSUME AtRest, Loaded, NEW m, Becomes(m), UNCHANGED <<text, pos>>,
         \/ \E x \in Cell : m = propagate_elimination(Idle(board), x)
         \/ \E d \in Digit, u \in Units : m = OnePlace(board, d, u)
  PROVE  Next
<1>1. Command(m)
  BY DEF Command
<1>2. ASSUME NEW x \in Cell, m = propagate_elimination(Idle(board), x)
      PROVE  Next
  <2>1. /\ x = <<x[1], x[2], x[3], x[4]>>
        /\ x[1] \in Coord /\ x[2] \in Coord /\ x[3] \in Coord /\ x[4] \in Coord
    BY DEF Cell
  <2>2. PICK row \in Digit : spread(row)[1] = x[1] /\ spread(row)[2] = x[3]
    BY <2>1, SpreadOnto
  <2>3. PICK col \in Digit : spread(col)[1] = x[2] /\ spread(col)[2] = x[4]
    BY <2>1, SpreadOnto
  <2>4. m = determine_digit(board, row, row, col)
    BY <1>2, <2>1, <2>2, <2>3 DEF determine_digit
  <2>5. d_(row, row, col)
    BY <1>1, <2>4 DEF d_
  <2>6. Basic(row, row)
    BY <2>5 DEF Basic
  <2>7. QED BY <2>6 DEF Next
<1>3. ASSUME NEW d \in Digit, NEW u \in Units, m = OnePlace(board, d, u)
      PROVE  Next
  <2>1. PICK i \in Coord, j \in Coord :
          u = Square(i, j) \/ u = Row(i, j) \/ u = Column(i, j)
    BY DEF Units, Squares, Rows, Columns
  <2>2. PICK n \in Digit : spread(n)[1] = i /\ spread(n)[2] = j
    BY SpreadOnto
  <2>3. CASE u = Square(i, j)
    <3>1. /\ i * sides \in Digit /\ spread(i * sides)[1] = i
          /\ j * sides \in Digit /\ spread(j * sides)[1] = j
      BY SpreadSquare
    <3>2. m = one_place_in_square(board, d, i * sides, j * sides)
      BY <1>3, <2>3, <3>1 DEF one_place_in_square
    <3>3. s(d, i * sides, j * sides)
      BY <1>1, <3>2 DEF s
    <3>4. Basic(d, i * sides)
      BY <3>1, <3>3 DEF Basic
    <3>5. QED BY <3>1, <3>4 DEF Next
  <2>4. CASE u = Row(i, j)
    <3>1. m = one_place_in_row(board, d, n)
      BY <1>3, <2>2, <2>4 DEF one_place_in_row
    <3>2. r(d, n)
      BY <1>1, <3>1 DEF r
    <3>3. Basic(d, n)
      BY <3>2 DEF Basic
    <3>4. QED BY <3>3 DEF Next
  <2>5. CASE u = Column(i, j)
    <3>1. m = one_place_in_column(board, d, n)
      BY <1>3, <2>2, <2>5 DEF one_place_in_column
    <3>2. c(d, n)
      BY <1>1, <3>1 DEF c
    <3>3. Basic(d, n)
      BY <3>2 DEF Basic
    <3>4. QED BY <3>3 DEF Next
  <2>6. QED BY <2>1, <2>3, <2>4, <2>5
<1>4. QED
  BY <1>2, <1>3

\* A try of the other rules is a command the player could type.
LEMMA RuleIsCommand ==
  ASSUME AtRest, Loaded, NEW t \in Tries("rules"),
         Becomes(Try("rules", board, t)), UNCHANGED <<text, pos>>
  PROVE  Next
<1>1. Command(Try("rules", board, t))
  BY DEF Command
<1>2. CASE t \in AdvancedTries
  <2>1. /\ t[1] = 1 /\ t[2] \in Digit /\ t[3] \in Digit /\ t[4] \in Digit
        /\ t[5] = 1 \/ t[5] = 2 \/ t[5] = 3 \/ t[5] = 4
    BY <1>2 DEF AdvancedTries
  <2>2. Command(Idle(advanced_rule(board, t[2], t[3], t[4], t[5])))
    BY <1>1, <2>1 DEF Try
  <2>3. \/ rs(t[2], t[3], t[4]) \/ cs(t[2], t[3], t[4])
        \/ sr(t[2], t[3], t[4]) \/ sc(t[2], t[3], t[4])
    BY <2>1, <2>2 DEF advanced_rule, rs, cs, sr, sc
  <2>4. Advanced(t[2], t[3], t[4])
    BY <2>3 DEF Advanced
  <2>5. QED BY <2>1, <2>4 DEF Next
<1>3. CASE t \in PairTries
  <2>1. /\ t[1] = 2 /\ t[2] \in Digit /\ t[3] \in Digit /\ t[5] \in Digit
        /\ t[7] = 1 \/ t[7] = 2
        /\ t[4] = 1 \/ (t[4] = 2 /\ t[6] \in 0..digits)
    BY <1>3 DEF PairTries
  <2>2. Command(Idle(pair_rule(board, t[2], t[3], t[4], t[5], t[6], t[7])))
    BY <1>1, <2>1 DEF Try
  <2>3. CASE t[4] = 1
    <3>1. pc(t[2], t[3], t[5]) \/ spc(t[2], t[3], t[5])
      BY <2>1, <2>2, <2>3 DEF pair_rule, pc, spc
    <3>2. Pairs(t[2], t[3], t[5])
      BY <3>1 DEF Pairs
    <3>3. QED BY <2>1, <3>2 DEF Next
  <2>4. CASE t[4] = 2 /\ t[6] = 0
    <3>1. pr(t[2], t[3], t[5]) \/ spr(t[2], t[3], t[5])
      BY <2>1, <2>2, <2>4 DEF pair_rule, pr, spr
    <3>2. Pairs(t[2], t[3], t[5])
      BY <3>1 DEF Pairs
    <3>3. QED BY <2>1, <3>2 DEF Next
  <2>5. CASE t[4] = 2 /\ t[6] # 0
    <3>1. t[6] \in Digit
      BY <2>1, <2>5, DigitsType DEF Digit
    <3>2. ps(t[2], t[3], t[5], t[6]) \/ sps(t[2], t[3], t[5], t[6])
      BY <2>1, <2>2, <2>5 DEF pair_rule, ps, sps
    <3>3. Pairs(t[2], t[3], t[5])
      BY <3>1, <3>2 DEF Pairs
    <3>4. QED BY <2>1, <3>3 DEF Next
  <2>6. QED BY <2>1, <2>3, <2>4, <2>5
<1>4. QED
  BY <1>2, <1>3 DEF Tries

\* What a strategy does to the board the player could have typed, rule by rule:
\* the strategies implement Puzzle, so what is proved of every sequence of
\* commands holds while p, simp, all and solve run.
THEOREM StrategiesArePlay == StrategySpec => Spec
<1>1. StrategyInit => Init
  BY DEF StrategyInit
<1>2. StrategyInv /\ [StrategyNext]_<<vars, svars>> => [Next]_vars
  <2> SUFFICES ASSUME StrategyInv, [StrategyNext]_<<vars, svars>> PROVE [Next]_vars
    OBVIOUS
  <2>1. CASE Play
    BY <2>1 DEF Play
  <2>2. ASSUME NEW name \in Commands, Type(name) PROVE [Next]_vars
    BY <2>2 DEF Type
  <2>3. CASE Call
    <3>1. Propagate
      BY <2>3 DEF Call, Goes, Propagate
    <3>2. QED BY <3>1 DEF Next
  <2>4. CASE Turn
    <3>1. sweep \in Sweeps /\ AtRest /\ todo \subseteq Tries(sweep) /\ Loaded
      BY <2>4, SweepNames DEF Turn, StrategyInv, StrategyTypeOK
    <3>2. PICK t \in todo : Goes(Try(sweep, board, t))
      BY <2>4 DEF Turn
    <3>3. Becomes(Try(sweep, board, t)) /\ UNCHANGED <<text, pos>>
      BY <3>2 DEF Goes
    <3>4. t \in Tries(sweep)
      BY <3>1
    <3>5. CASE sweep = "rules"
      BY <3>1, <3>3, <3>4, <3>5, RuleIsCommand
    <3>6. CASE sweep \in Simple
      <4>1. \/ \E x \in Cell :
                 Try(sweep, board, t) = propagate_elimination(Idle(board), x)
            \/ \E d \in Digit, u \in Units : Try(sweep, board, t) = OnePlace(board, d, u)
        BY <3>4, <3>6, SimpleTry
      <4>2. QED BY <3>1, <3>3, <4>1, SimpleIsCommand
    <3>7. QED BY <3>1, <3>5, <3>6 DEF Sweeps, Simple
  <2>5. CASE EndSweep
    BY <2>5 DEF EndSweep
  <2>6. CASE Report
    BY <2>6 DEF Report
  <2>7. CASE UNCHANGED <<vars, svars>>
    BY <2>7
  <2>8. QED
    BY <2>1, <2>2, <2>3, <2>4, <2>5, <2>6, <2>7 DEF StrategyNext, Run
<1>3. QED
  BY <1>1, <1>2, StrategyInvariance, PTL DEF StrategySpec, Spec
=============================================================================
