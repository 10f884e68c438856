----------------------------- MODULE Strategies -----------------------------
(***************************************************************************)
(* The commands "for the impatient" of src/src/sudoku.lua, p, simp, all    *)
(* and solve, and the command hint, beside the commands of Puzzle.  A      *)
(* strategy is a nest of repeat loops whose sweeps try rules on all places *)
(* of the board, and a loop goes on as long as its sweep says that a       *)
(* candidate was eliminated.  A step of the model is the next try of the   *)
(* sweep that changes the board, a sweep of a call of Board:determine that *)
(* it starts, or the end of the sweep.  A call that meets an empty cell    *)
(* raises "Board inconsistent", and pcall takes the session out of all the *)
(* loops at once.                                                          *)
(***************************************************************************)
EXTENDS Puzzle

Commands == {"p", "simp", "all", "solve"}
Sweeps == {"singletons", "squares", "rows", "columns", "rules"}
Player == "player"       \* No strategy runs; the player may type a command.
Returned == "returned"   \* The strategy has returned to eval.

VARIABLES
  cmd,    \* The strategy that runs.
  sweep,  \* The sweep it is in.
  todo,   \* The tries that the loops of the sweep have still to come to.
  start,  \* The board on which the strategy started.
  base,   \* The board on which the sweep started.
  e       \* The local variables e of propagate_all_singletons, simp and
          \* solve, and the value that the strategy returned.

svars == <<cmd, sweep, todo, start, base, e>>

NoFlags == [p |-> FALSE, simp |-> FALSE, solve |-> FALSE, value |-> FALSE]

-----------------------------------------------------------------------------
(***************************************************************************)
(* Sweeps.  A try is the tuple of the values of the loop variables, the    *)
(* outermost first; where one loop follows another, or one rule another in *)
(* the body of a loop, the tuple has the number of its place.              *)
(***************************************************************************)
AdvancedTries == {1} \X Digit \X Digit \X Digit \X (1..4)

PairTries ==
  {t \in ({2} \X Digit \X Digit \X {1} \X Digit \X {0} \X (1..2))
           \cup ({2} \X Digit \X Digit \X {2} \X Digit \X (0..digits) \X (1..2)) :
     t[2] # t[3]}

Tries(sw) ==
  CASE sw = "singletons" -> Coord \X Coord \X Coord \X Coord
    [] sw = "squares"    -> Digit \X Coord \X Coord
    [] sw = "rows"       -> Digit \X Digit
    [] sw = "columns"    -> Digit \X Digit
    [] sw = "rules"      -> AdvancedTries \cup PairTries
    [] sw = Returned     -> {}

\* The loops come to t before u.
Before(t, u) ==
  \E i \in DOMAIN t \cap DOMAIN u :
    t[i] < u[i] /\ \A j \in 1..(i - 1) : t[j] = u[j]

advanced_rule(b, d, row, col, k) ==
  CASE k = 1 -> one_row_in_square(b, d, row, col)
    [] k = 2 -> one_column_in_square(b, d, row, col)
    [] k = 3 -> one_square_for_row(b, d, row, col)
    [] k = 4 -> one_square_for_column(b, d, row, col)

\* The loop over the columns, then the one over the rows, with the one over
\* the columns in it.
pair_rule(b, d1, d2, i, n, col, k) ==
  CASE i = 1 /\ k = 1 -> two_places_for_pair_in_column(b, d1, d2, n)
    [] i = 1 /\ k = 2 -> same_pair_in_column(b, d1, d2, n)
    [] i = 2 /\ col = 0 /\ k = 1 -> two_places_for_pair_in_row(b, d1, d2, n)
    [] i = 2 /\ col = 0 /\ k = 2 -> same_pair_in_row(b, d1, d2, n)
    [] i = 2 /\ col # 0 /\ k = 1 -> two_places_for_pair_in_square(b, d1, d2, n, col)
    [] i = 2 /\ col # 0 /\ k = 2 -> same_pair_in_square(b, d1, d2, n, col)

\* What try t does to board b, up to the first sweep of Board:determine.
Try(sw, b, t) ==
  CASE sw = "singletons" -> propagate_elimination(Idle(b), <<t[1], t[3], t[2], t[4]>>)
    [] sw = "squares" -> one_place_in_square(b, t[1], t[2] * sides, t[3] * sides)
    [] sw = "rows"    -> one_place_in_row(b, t[1], t[2])
    [] sw = "columns" -> one_place_in_column(b, t[1], t[2])
    [] sw = "rules" /\ t[1] = 1 ->
         Idle(advanced_rule(b, t[2], t[3], t[4], t[5]))
    [] sw = "rules" /\ t[1] = 2 ->
         Idle(pair_rule(b, t[2], t[3], t[4], t[5], t[6], t[7]))

\* Try t would leave the board alone.
Quiet(sw, b, t) == Try(sw, b, t) = Idle(b)

\* A rule's result says whether it eliminated a candidate.  Candidates never
\* come back, so the flags that a sweep combines say whether any is gone.
Eliminated(b1, b2) == b1.cand # b2.cand

-----------------------------------------------------------------------------
(***************************************************************************)
(* The loops.  For each, what comes after a sweep that eliminated nothing  *)
(* (f = FALSE) or something; e holds the flags e of the loops.             *)
(***************************************************************************)
Continue(next, flags) == [sweep |-> next, e |-> flags]
Finished(value) == Continue(Returned, [NoFlags EXCEPT !.value = value])

After_all_once(f, flags) == Finished(f)

\* solve repeats all until it has nothing to report; all itself returns.
After_all(f, flags) ==
  IF cmd = "solve"
  THEN IF f THEN Continue("singletons", [NoFlags EXCEPT !.solve = TRUE])
       ELSE Finished(flags.solve)
  ELSE Finished(f)

\* simp returned f: all goes on to the other rules only if it is false.
After_simp(f, flags) ==
  CASE cmd = "simp" -> Finished(f)
    [] cmd # "simp" /\ f -> After_all(TRUE, flags)
    [] OTHER -> Continue("rules", [NoFlags EXCEPT !.solve = flags.solve])

\* One of the four alternatives of simp returned f; the next one is tried
\* only if it is false, and after the last one the loop ends.
After_try_notE(f, flags, next) ==
  CASE f \/ (next = "end" /\ flags.simp) ->
         Continue("singletons", [flags EXCEPT !.p = FALSE, !.simp = TRUE])
    [] ~f /\ next = "end" /\ ~flags.simp -> After_simp(FALSE, flags)
    [] OTHER -> Continue(next, [flags EXCEPT !.p = FALSE])

After_try(f, flags, next) ==
  CASE f -> Continue("singletons", [flags EXCEPT !.p = FALSE, !.simp = TRUE])
    [] ~f /\ next = "end" -> After_simp(flags.simp, flags)
    [] OTHER -> Continue(next, [flags EXCEPT !.p = FALSE])

\* A sweep of propagate_all_singletons has ended.
After_singletons(f, flags) ==
  CASE f -> Continue("singletons", [flags EXCEPT !.p = TRUE])
    [] ~f /\ cmd = "p" -> Finished(flags.p)
    [] OTHER -> After_try(flags.p, flags, "squares")

After(sw, f, flags) ==
  CASE sw = "singletons" -> After_singletons(f, flags)
    [] sw = "squares"    -> After_try(f, flags, "rows")
    [] sw = "rows"       -> After_try(f, flags, "columns")
    [] sw = "columns"    -> After_try(f, flags, "end")
    [] sw = "rules"      -> After_all(f, flags)

-----------------------------------------------------------------------------
StrategyInit ==
  /\ Init
  /\ cmd = Player
  /\ sweep = Player
  /\ todo = {}
  /\ start = mk_board
  /\ base = mk_board
  /\ e = NoFlags

\* Anything else that Puzzle does.
Play ==
  /\ sweep = Player
  /\ Next
  /\ UNCHANGED svars

\* The player types p, simp, all or solve.
Type(name) ==
  /\ sweep = Player
  /\ AtRest
  /\ Loaded
  /\ cmd' = name
  /\ sweep' = "singletons"
  /\ todo' = Tries("singletons")
  /\ start' = board
  /\ base' = board
  /\ UNCHANGED <<vars, e>>

\* A rule, or a sweep of Board:determine, leaves the computation m.  If it
\* raised an error the strategy is over, and eval takes its value for false.
Goes(m) ==
  /\ Becomes(m)
  /\ sweep' = IF m.failed THEN Returned ELSE sweep
  /\ e' = IF m.failed THEN NoFlags ELSE e
  /\ UNCHANGED <<text, pos, cmd, start, base>>

\* The innermost call of determine goes on.
Call ==
  /\ sweep \in Sweeps
  /\ ~AtRest
  /\ LET m == Step([board |-> board, stack |-> stack, failed |-> FALSE])
     IN  Goes(m) /\ todo' = IF m.failed THEN {} ELSE todo

\* The loops come to the first try that changes the board.  In all, the first
\* rule that eliminates a candidate ends the search.
Turn ==
  /\ sweep \in Sweeps
  /\ AtRest
  /\ LET loud == {t \in todo : ~Quiet(sweep, board, t)}
     IN  \E t \in loud :
           /\ \A u \in loud : ~Before(u, t)
           /\ Goes(Try(sweep, board, t))
           /\ todo' = IF sweep = "rules" \/ Try(sweep, board, t).failed THEN {}
                      ELSE {u \in todo : u # t /\ ~Before(u, t)}

\* The loops are through; f is whether the sweep eliminated a candidate.
EndSweep ==
  /\ sweep \in Sweeps
  /\ AtRest
  /\ \A t \in todo : Quiet(sweep, board, t)
  /\ LET f == Eliminated(base, board)
         a == After(sweep, f, e)
     IN  sweep' = a.sweep /\ todo' = Tries(a.sweep) /\ e' = a.e
  /\ base' = board
  /\ UNCHANGED <<vars, cmd, start>>

\* eval reports the value to the player.
Report ==
  /\ sweep = Returned
  /\ cmd' = Player
  /\ sweep' = Player
  /\ start' = mk_board
  /\ base' = mk_board
  /\ e' = NoFlags
  /\ UNCHANGED <<vars, todo>>

Run == Call \/ Turn \/ EndSweep \/ Report

StrategyNext ==
  \/ Play
  \/ \E name \in Commands : Type(name)
  \/ Run

\* A command that has been typed runs on as long as it has not returned: weak
\* fairness of Run, with ENABLED written out.
StrategyFairness == []<>(sweep = Player) \/ []<><<Run>>_<<vars, svars>>

StrategySpec ==
  /\ StrategyInit
  /\ [][StrategyNext]_<<vars, svars>>
  /\ WF_vars(Propagate)
  /\ StrategyFairness

-----------------------------------------------------------------------------
(***************************************************************************)
(* hint.  Digits are looked for in the squares, the rows and the columns,  *)
(* and then a candidate that is alone in its cell; only cells that are not *)
(* determined count.  hints are all the places at which a loop would stop. *)
(* Each names the loop and the values of its variables; hint stops at the  *)
(* first of them.                                                          *)
(***************************************************************************)
UnitFor(h) ==
  CASE h[1] = 1 -> Square(h[2], h[3])
    [] h[1] = 2 -> Row(h[2], h[3])
    [] h[1] = 3 -> Column(h[2], h[3])

CellFor(h) == <<h[2], h[3], h[4], h[5]>>

UnitHints == (1..3) \X Coord \X Coord \X Digit \X {0}
CellHints == {4} \X Coord \X Coord \X Coord \X Coord

LoneCells(b) == {h \in CellHints : CellFor(h) \notin b.det /\ unknowns(b, CellFor(h)) = 1}

hints_determined(b) ==
  {h \in UnitHints : Cardinality(Places(b, UnitFor(h), h[4])) = 1} \cup LoneCells(b)

hints(b) ==
  {h \in UnitHints :
     Cardinality({x \in UnitFor(h) : x \notin b.det /\ h[4] \in b.cand[x]}) = 1}
  \cup LoneCells(b)

\* "No hint available" is an empty set of hints.
NoHint(b) == hints(b) = {}
hint(b) == CHOOSE h \in hints(b) : \A k \in hints(b) : ~Before(k, h)

\* What the rule that h names does.
Follow(b, h) ==
  IF h[1] = 4 THEN propagate_elimination(Idle(b), CellFor(h))
              ELSE OnePlace(b, h[4], UnitFor(h))

-----------------------------------------------------------------------------
(***************************************************************************)
(* Properties.                                                             *)
(***************************************************************************)
\* The state of the strategies is well typed.
StrategyTypeOK ==
  /\ cmd \in Commands \cup {Player}
  /\ sweep \in Sweeps \cup {Player, Returned}
  /\ sweep # Player => todo \subseteq Tries(sweep)
  /\ start \in Boards
  /\ base \in Boards
  /\ e \in [p : BOOLEAN, simp : BOOLEAN, solve : BOOLEAN, value : BOOLEAN]

\* One of the strategies in names has just returned, and no error has been
\* raised on the board so far.
Succeeded(names) == sweep = Returned /\ cmd \in names /\ ~failed

\* "Determines each cell in which all but one possibility has been
\* eliminated": the cells that become singletons behind the sweep's back, by
\* the determination of a later cell, are not missed.
NoSingletonLeft ==
  Succeeded({"p", "simp", "solve"}) =>
    \A x \in Cell \ board.det : unknowns(board, x) # 1

\* "The simple rules" are exhausted when simp or solve returns: no digit has
\* a single place left in a unit, no matter which rule made it single.
SimpleExhausted ==
  Succeeded({"simp", "solve"}) =>
    \A u \in Units, d \in Digit : OnePlace(board, d, u).board = board

\* "Stops when no rule is applicable": after solve none of the rules changes
\* the board, although the loop watches eliminations only and a rule that
\* determines a cell may eliminate nothing.
AllExhausted ==
  Succeeded({"solve"}) =>
    /\ \A u \in Units, d \in Digit : OnePlace(board, d, u).board = board
    /\ \A u, v \in Units, d \in Digit :
         (u # v /\ u \cap v # {} /\ {u, v} \cap Squares # {})
           => Confine(board, d, u, v) = board
    /\ \A u \in Units, d1, d2 \in Digit :
         TwoPlaces(board, d1, d2, u) = board /\ SamePair(board, d1, d2, u) = board

\* The value of a strategy, which eval reports to the player, says whether
\* it eliminated a candidate.
ReportsProgress ==
  Succeeded(Commands) => (e.value <=> Eliminated(start, board))

\* Every strategy ends, on every board.
StrategyEnds == []<>(sweep = Player)

\* "One of the above rules is applicable if a hint is suggested", and the
\* other way round: as long as no error has been raised, the hint is right,
\* and there is one whenever a basic rule can change the board.
HintRight ==
  sweep = Player /\ AtRest /\ Loaded /\ ~failed =>
    IF NoHint(board)
    THEN \A u \in Units, d \in Digit : OnePlace(board, d, u).board = board
    ELSE Follow(board, hint(board)).board # board

\* A strategy that returns has done what its help says: nothing it looks for is
\* left, and it reports truly whether it eliminated anything (the repeat loops
\* of p, simp, all and solve).
StrategiesDone ==
  /\ StrategyTypeOK
  /\ NoSingletonLeft
  /\ SimpleExhausted
  /\ AllExhausted
  /\ ReportsProgress
=============================================================================
