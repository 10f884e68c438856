# A verification project for GTK Sudoku

GTK Sudoku helps a person solve Sudoku puzzles by logic: the user names the
rule that justifies each change of the board, and the program applies it. The
game is one Lua program, `src/src/sudoku.lua`. A small GTK+ program in C shows
the board, reads the commands and runs the Lua program with the Lua 5.1 runtime
whose sources are part of the repository and are compiled into the program. This
directory holds TLA+ models of that code, the TLC runs that check them on small
instances, and theorems that TLAPS proves for instances of every size.

## The system

| part | source | state | operations |
|---|---|---|---|
| Board and cells | `sudoku.lua` 37-284 | per cell the digits not eliminated and a flag `determined` | `singleton`, `unknowns`, `first`, `only_pair_present`, `show`, `same`, `clone` |
| Rules | `sudoku.lua` 286-446, 475-925 | a board, and the call stack of `Board:determine` | basic rules s r c d, advanced rules rs cs sr sc, pair rules ps pr pc sps spr spc, `board()` |
| Strategies and hint | `sudoku.lua` 448-600, 927-1089 | a board | `p`, `simp`, `all`, `solve`, `hint` |
| Session and history | `sudoku.lua` 1091-1173, 1416-1511 | `it`, `history`, `details` | `eval`, `push`, `back`, `swap`, `new`, `load`, `save`, `do_edit` |
| Interpreter glue | `interp.c` | the Lua stack | `interp_eval`, `interp_load`, `interp_save`, `push_item` |
| Main window | `gtksudoku.c` | status line, entry, board widget, files | `load_file`, `save_file`, `entry_callback`, menus |
| Display | `sudokucell.c`, `sudokuboard.c` | `val` and `mode` of 81 cells, what is painted | `set_val`, `get_val`, `draw`, key presses |
| Board editor | `sudokuedit.c`, `board.c` | a modal dialog with an editable board | conversion of a board to characters and back |
| Help | `sudoku.lua` 1175-1414, `showtext.c` | none | text shown in a dialog |
| Build tools | `bin2c.c`, `u2d.c` | files | a Lua text as a C array, ends of lines |
| Lua: values in memory | `lgc.c`, `lstring.c`, `lfunc.c`, `ltable.c`, `ltm.c` | the heap, the phase of the collector, tables, metatables | allocation, writes, collector steps; get, set, next, length |
| Lua: running code | `ldo.c`, `lvm.c`, `lapi.c`, `ldebug.c` | threads, frames, the C stack, registers, upvalues | calls, errors, protected calls, coroutines; instructions; the C interface |
| Lua: compiling | `lparser.c`, `lcode.c`, `lzio.c`, `ldump.c`, `lundump.c`, `luac.c` | functions under construction, streams, chunks | parse, generate code, dump, load |
| Lua: libraries | `ltablib.c`, `lstrlib.c`, `lbaselib.c` and others | none of their own | lists, sorting, patterns, `pcall`, coroutines |

How they interact. The main window hands each command line to `interp_eval`,
which calls the Lua function `eval`. `eval` pushes the current board on the
history, runs the command under `pcall`, and prints the board it leaves through
`set_val`, cell by cell, into the board widget. Opening a file calls `load`,
saving one calls `save`, command `edit` calls back into C for a modal dialog.
There is one thread, and dialogs are modal, so a command ends before the next
begins. Nothing is persisted but the text files that the user saves.

The Lua runtime is under all of this: `sudoku.lua` is a text in the program
(written there by `bin2c` when it is built) that the compiler of the runtime
translates at each start. Its boards are tables that the collector frees, its
errors are jumps over C frames, its loops are jumps the code generator has
patched. The runtime makes up most of the lines of the program, and what it does
wrong the game does wrong. It is modelled part by part.

What is hard.

* `Board:determine` calls itself through `propagate_elimination` while its own
  sweeps of the row and the column are still to be done. The nested calls work
  on half-swept boards, and each counts determined cells that the others are
  changing.
* `Cell:first` raises an error in the middle of any nest of calls. The board
  stays as it is then, partly swept, and the user goes on with it.
* Rules change the board table in place, and history, `it` and the local
  variables of `swap` and `back` refer to such tables.
* `eval` pushes before every command, also before `back`, `swap` and `new`,
  which push and pop themselves; the duplicates have to cancel out.
* The loops of the strategies stop on flags; they must end, and not too early.
* The display is correct only because every path that changes the board or the
  view prints it, and because a cell knows when it has to be painted again.
* Files may be missing, unreadable, too long or full; the status line has to
  tell.
* The collector works in small steps between any two writes of the program.
* Errors, error handlers and coroutines share one C stack and a few counters.
* Hash tables move their nodes, are traversed while they change, and are kept
  for dead keys.
* The compiler has one pass: it patches jumps, registers and constants of code
  that it has already emitted.

The `hazards` of `PROJECT.json` list these and the others at their lines, with
the properties that cover them.

## Modules

| module | models |
|---|---|
| `Board` | geometry, boards as values, class `Cell` and the text form of a board; also what a solution is |
| `Rules` | every rule as an operator; `Board:determine` as a computation with its call stack, one step per sweep |
| `Puzzle` | the life of one board: `board()` reads a text character by character, or `new` makes a blank board, and then the user's commands, broken into the steps of the nested calls |
| `Strategies` | `p`, `simp`, `all`, `solve` as nests of loops over sweeps of tries, and `hint`, beside the commands of `Puzzle` |
| `UndoStack` | abstract: what the history promises, over values |
| `Session` | `eval`, the history commands, loading and editing, over a heap of board objects; implements `UndoStack` |
| `CommandLine` | how `interp_eval` splits and converts a line |
| `Window` | the main window: commands, files that may fail and what the rules make of them, the status line |
| `Slots` | the slots of the Lua stack under the calls of `interp.c`, push by push, with the growth and the shrinking of the stack |
| `Widget` | the board widget: fields of a cell, what is drawn for them, what is painted |
| `Display` | the widget in the main window, driven by commands, covered and uncovered |
| `Editor` | the edit dialog: keys, focus, signals, conversions |
| `BuildTools` | `bin2c` and `u2d` |
| `Collector` | the incremental garbage collector and the writes between its steps |
| `Dictionary` | abstract: what a table promises |
| `HashTable` | tables with their two parts, traversal and length; implements `Dictionary` |
| `TableLib` | `insert`, `remove`, `concat`, `sort` |
| `Metatables` | reading, writing and comparing through metatables, and the cache of absent methods |
| `Pattern` | the pattern matcher, `find`, `gmatch`, `gsub`, and all ways to match as the reference |
| `Calls` | calls, errors, protected calls, error handlers and coroutines over one C stack |
| `Zio` | input streams |
| `Chunk` | `luac`: combining, dumping to a device that may fill up, loading |
| `ApiSpec` | abstract: what the C interface promises, a stack of values |
| `Api` | the C interface over slots and indices; implements `ApiSpec` |
| `LuaValue` | values and their operations |
| `CodeGen`, `Parser` | `lcode.c` and `lparser.c`, function by function |
| `CodeCheck` | `luaG_checkcode` |
| `Language` | the reference: what a program means, without registers, jumps and upvalues |
| `Execution` | the compiled program run by `luaV_execute`, one instruction a step |
| `MC...` | the instances TLC checks |
| `..._proofs` | the proofs |

Definitions have the names of the source where there is one. The mutated forms
that some definitions are preceded by (`Confine_unguarded`, `push_alias`, ...)
are plausible bugs; replacing the definition by one of them makes the property
named in `PROJECT.json` fail.

### Correspondence, Board, Rules and Puzzle

`board.cand[x]` is the set of the `i` with `cell[i]` true and `board.det` the
set of cells whose `determined` is set. `Board:same` compares exactly these and
`Board:clone` copies them. `sides` is a constant; the code has 3.

The loops of a rule become sets: the cells of a unit, the places of a digit.
Advanced and pair rules change the board in one loop with no call in it, and are
functions from boards to boards. `determine` is the exception. A computation is
a board, a stack of frames and a flag `failed`; a frame is a call that has not
returned, with its cell, its digit and the sweep it does next. One step of the
model is one sweep of the innermost call (elimination over one unit, the count,
and the call for the last open cell if there is one) or its return. Nothing else
in the program can run between two of these steps, but the next nested call
can, and that is what makes intermediate boards visible to code. An error
empties the stack and leaves the board.

`Puzzle!Load` drops a board, finished or rejected, and starts on a text;
`ReadGiven` is one turn of the loop of `board()`; `ReturnBoard` its end. The
remaining actions are the commands, guarded by what `eval` guarantees: a board
that is loaded, arguments from 1 to 9. A command whose preconditions fail
leaves the board as it is, as in the code.

### Correspondence, Session

A board here is a member of `Positions`; what a rule does to it is any change
in place (`Rule`), with or without an error. `heap` maps objects to boards; a
table that nothing refers to is collected at once. `push` clones into a fresh
object, `back` and `swap` move references, `new`, `load` and `edit` make
objects. `shown` is what the widget displays: board and view of the last
`print_all`. A file that `board()` rejects changes nothing and is not an action;
an edit that it rejects is `EditRejected`.

### Correspondence, Strategies

`StrategyNext` adds the commands for the impatient to those of `Puzzle`: `Play`
is any step of `Puzzle` while no strategy runs, `Type` the player's `p`, `simp`,
`all` or `solve`. A sweep is one of the nests of `for` loops: over the
singletons, over the squares, rows and columns, and over the other rules.
`Tries` is the set of the values that its loop variables take, in the order of
`Before`, and `todo` those that are still to come. `Turn` goes on to the first
of them that changes the board (`Try`; a try that changes nothing is not worth a
step), `Call` is a sweep of the call of `Board:determine` it has started, and
`EndSweep` comes when the loops are through: `After` says what each strategy
does then, by whether the sweep has eliminated a candidate and by the variables
`e` of the `repeat` loops around it. `Report` hands the value to `eval`. An
error leaves all the loops at once, as `pcall` does. `start` and `base` are the
boards on which the strategy and the sweep began; they are compared with
`board`, where the code keeps a flag. `hint` changes nothing and is an operator;
`Follow` does what it says.

### Correspondence, Window, CommandLine and Slots

A line is a sequence of characters. `Tokens` is the loop of `interp_eval`;
`push_item` gives the set of arguments an item may become, because `atoi` of a
number that does not fit an int is undefined. In `Window` a file is `Nil` or a
sequence of characters, `Contents` are what other programs have left in the
files before the start, and `Faults` are what may go wrong with a file.
`load_file` and `save_file` are one action each, with every return. What
`load_file` passes on is what `fread` reads of the file (`NBOARD` characters),
up to the first `Nul`, where a text of C ends (`Cut`). `board` reads it with the
rules of `Rules`: each given is entered and all calls of `Board:determine` that
follow are run (`Finished`), so the board that becomes current has the cells
that the givens finish off, or is rejected half-way. Commands leave any of a set
of boards (`Moves`): what they do to them is in `Puzzle`. The help of a command
is there only if its name is one of `Topics`; the program has none for `hint`.

`Slots` counts: `top` is the first free slot of the Lua stack, `last` the size
of the part that may be used, `words` the arguments pushed for the call under
way. A call of `interp.c` is taken apart: `Begin` pushes the function, `Push` one
argument, `Start` enters the function with `luaD_precall`, which makes room for
its frame, `Deeper` is what the functions it calls ask for, and `Finish` leaves
the result or the error message. The collector traverses the stack, and may
halve it, between any two of these, also after the frame is gone, and as often as
it likes (`Collect`). The initial state is that after `interp_init`: the main
function of `sudoku.lua` has a frame of 36 slots (`MainFrame`, as `luac -l` lists
it), and the library functions it calls have made the stack grow once. When a
push has left the array of slots the behavior is not defined and the model stops
(`Defined`).

### Correspondence, Widget, Display and Editor

A value of a cell is a number, the bit set of the C code. `screen` is what was
painted last. A cell without a window, or one that is covered, cannot be
painted; GTK+ asks it to paint itself when it appears. The lines of the grid are
drawn by the cells, and widths and offsets are kept, in units of half a line;
fonts and scaling are not. `widget` of `Display` is the widget of the main
window, `dialog` of `Editor` the one of the edit dialog, and both are changed by
the operators of `Widget`. `response` is what ended the dialog: Apply, Cancel, or
that its window was closed.

### Correspondence, the Lua runtime

`Collector`: objects have a kind, a color and one or two references; a step of
`singlestep` is one action (`Mark`, `Propagate`, `SweepList`, ...), and the
actions of the code are what makes or overwrites a reference, each with its
barrier. `atomic` is taken apart at its calls of `propagateall`
(`RemarkUpvalues`, `MarkWeak`, `MarkAgain`, `MarkUdata`, `AtomicEnd`), and the
code waits until it is done (`Running`); so is `luaC_fullgc`. The two whites are
named by what they are for, `white` for the current one and `old` for the other,
so `flip` changes the objects where the code changes `currentwhite`. The lists
are sets. A sweep visits any `SweepMax` objects that are left, and a new object
is, as in the code, visited by it only if it is linked into the part that lies
ahead. Sizes and pace are left out: the collector may take a step at any time.

`HashTable`: nodes are a sequence, `next` an index. `Hash` gives the hash values
of the real functions for the keys of the instance. `newkey` and `rehash` are
whole, in the action that assigns a new key. `call` remembers the key and the
value of the assignment that was made last, so that the step of `Dictionary` that
a write has to be is the assignment of that value to that key, and a step of a
traversal or of the collector is none.

`Pattern`: a pattern is a sequence of items. `gsub` takes one of three kinds of
replacement, and each looks at other captures (`Asked`): a function is given all
of them, a table is looked up with the first, a text takes those it names. Only
the captures that are asked for may stop the loop with an error
(`push_onecapture`). `find` takes a pattern without special characters as it
stands, and a closing bracket is not one of them (`Literal`).

`Zio`: a reader gives pieces of any size; an empty one is the end of the stream,
whatever the reader has left.

`Calls`: `cstack` is the C stack, one entry for each C function that matters
(`luaD_call`, `pcall`, `resume`, the error handler); `th` holds of each thread
its frames, its counters and the entry that errors jump to. A jump cuts `cstack`.
An error is raised in one step and goes on in the next (`RaiseError`, which is
`luaG_errormsg`), because the error handler may itself raise an error, and so
on: `raised` is true between the two, and nothing else happens then. `luaD_call`
puts its entry on the C stack before it tests the limits. `reallocCI` is the
part of `checkstacksizes` that halves the array of frames; `Slots` has the part
about the stack.

`Execution`: a program is compiled in the initial state by the operators of
`Parser`, which return the functions and whether every `lua_assert` was true.
Actions are opcodes. `Language` evaluates the same program by recursion over it,
and `AsWritten` compares the two. Compiler and meaning are parameters of
`Execution` (`Compiled`, `Intended`); `MCPrograms` gives them `luaY_parser` and
`Language`.

`Api`: `mem` are the slots of a frame, `top` how many are in use; slots above
`top` keep what was in them. The refinement mapping shows only the slots below
`top`, so nothing that is promised may depend on the rest. What `api_check` asks
of the caller is a guard.

## Runs

Several runs have more than one part: their MC module chooses a part in its
initial states, and from then on only that part takes steps. The parts share no
state, and each property is about one or two of them.

Where a component makes several promises that belong together, a run checks
their conjunction under one name, together with the type invariant of the
component; the parts have names and comments of their own in its module:
`StrategiesDone` (`NoSingletonLeft`, `SimpleExhausted`, `AllExhausted`,
`ReportsProgress`), `FilesRight` (`LoadsBoard`, `SavedReadBack`), `ScreenRight`
(`ScreenCurrent`, `GridDrawn`, `GlyphCentered`), `EditsRight` (`ShowsEdits`,
`ReturnsEdits`, `SignalsChanges`), `CStackSound` (`JumpsLand`,
`NothingLeftBehind`), `LimitsHold` (`CStackBounded`, `FramesFit`), `HeapSound`
(`NoDangling`, `NoBlackToWhite`), `ReadsRight` (`LengthIsBorder`,
`TraversalComplete`, `TraversalGoesOn`), `ListsKept` (`KeepsLists`,
`LosesNothing`, `ConcatJoins`), `SortRight` (`Sorted`, `InBounds`,
`ShallowRecursion`, `OnlySwaps`, `SortEnds`), `MetaRight` (`CacheRight`,
`ReadsChain`, `WritesChain`, `EqSymmetric`), `CodeSound` (`AssertionsTrue`,
`UpvaluesLive`), `MatchRight` (`FirstWay`, `Leftmost`), `LoopsRight` (`Tiled`,
`TextKept`, `Returns`), `StreamRight`, `ChunkRight` and `ToolsRight`.

| run | question | bounds |
|---|---|---|
| `puzzle` | Do the rules, in every order, keep solutions, raise errors only where they should, and does the recursion end with its work done? Is a finished board a solution? Do the strategies end with nothing left to find, and is the hint right? | `sides` = 2; 13 texts, all strategies at any point |
| `digit` | Does command d do what its help says? It does not: a finding. | as above |
| `tables` | Does the history implement `UndoStack`, with no sharing and a current display? Are tables dictionaries, lists lists, sorts sorted, chains of metatables followed? | three boards, `MaxHistory` = 4; integer keys 1 to 3 and two strings that collide; lists of five (sorted) and six elements (by any function); two tables with metatables |
| `window` | Is what is typed passed on, is the board that is loaded the one in the file, can what is saved be read back, and is the status line true? | `sides` = 2; a file with twelve contents that fails to open or to be read, six boards that commands leave, ten lines; and every line of up to five characters out of a space, a letter and a digit |
| `nullboard` | Does the program survive a save without a board? It does not: a finding. | as above |
| `widgets` | Does the screen show the board, and does the editor return what it shows if, and only if, Apply is pressed? | the real size, six boards, three covered regions; in the editor two texts, two cells, four keys |
| `dots` | Does the detailed view show a dot for each digit that has not been eliminated? Not in an untouched cell: a finding. | as above |
| `calls` | Does every push of `interp.c` fit the stack, on lines of at most 12 words? Do errors and coroutines leave the C stack and the threads in order? | the real sizes, lines of up to 14 words, calls that need up to 160 slots, up to 60 slots in use; one coroutine with all kinds of C functions; two with `pcall` and `resume` and at most three frames |
| `longline` | Does every push fit the array of slots, on any line? It does not: a finding. | lines of up to 60 words |
| `heap` | Is nothing in use freed, everything else freed in the end, and each finalizer called once? | two objects of three sets of kinds, besides the globals and the main thread; sweeps of two objects at a time |
| `texts` | Do compiled programs do what they say? Does the matcher find the first way? Do the loops end? Are streams, chunks and build tools exact? | expressions of two operators in every place; programs with loops, closures, assignments, functions, tables; again with low limits; texts of up to three characters, patterns of up to four items, two captures, five replacements; streams of six bytes; up to two files out of two functions |
| `api` | Does the C interface keep its promise? | five frames of two or three slots: garbage in them, upvalues, closures, the registry and the globals, tables, environments |

Bounds of `puzzle`. With `sides` = 2 a board has 16 cells, squares differ from
rows and columns, and each rule has cases where it applies and where it does
not. The first seven texts were picked by running the real Lua code with `sides
= 2`: one with a single solution on which every rule applies and calls nest six
deep, one on which they nest nine deep, one with many solutions, one that
repeats a digit in a column, one whose givens contradict what earlier ones
determined, one where rules and strategies raise errors, and one where reading
raises an error. From each, every sequence of commands and strategies is
explored. The number of boards that TLC finds for each text (343, 119, 127, 30,
26 and 196) is the number that a breadth-first search over the real code finds;
and the boards and values with which `p`, `simp`, `all` and `solve` return from
each of them, 3364 in all, are those of the real code. `Grids` is the set of all
288 solved grids. The others are full or nearly so, since a board has to be
finished for `FinishedIsSolved` to mean something: a solved grid, one with two
periods, texts that are wrong only in their columns, only in their rows or only
in their squares, and one that contradicts itself in its last row.

Bounds of `tables`. For the session three boards allow the pattern A B A in the
history, the shortest in which the duplicate test of `push` meets an older equal
board; a history of four leaves room for it below a pushed current board. Three
integer keys reach array parts of 1, 2 and 4; the keys collide in nodes of every size. A
list of six makes `auxsort` recurse on both sides and reach each of its loops
with any answers of the comparison.

Bounds of `window`. `NBOARD` is 64 for boards of 16 cells, as 729 is for 81. The
texts in the files have one solution, several or none, repeat a digit, empty a
cell, or raise an error before they are read; most of them finish off cells. They
stand alone, between remarks that fit, before and across the end of the buffer,
and with a `Nul` in the text or behind it. The boards that commands leave are
blank, full, with one digit eliminated, half determined, and broken by an error.
`LoadsBoard` is about the files that a user would take for the file of a board:
every character fits the buffer, none is `Nul`, and the text has a solution. A
failing write is an action of `Window` that this run leaves out (see Findings).

Bounds of `calls`. `EvalFrame` is 12: the Lua function `eval` has a frame of 12
slots, and the calls of `load` and `save` make room for as many and more by what
they call. Lines of 14 words are longer than that frame. With up to 60 slots in
use and calls that need 160 more the stack grows and is halved again. Limits of
three C calls (and two more for error handlers) and four frames are reached by ordinary calls, by error handlers and across
coroutines, so the states at the limit, and beyond it, are explored. The array
of frames starts with one, so it doubles twice. With two coroutines the run
leaves out `xpcall` and functions that call back (`FewFrames`); the theorems
about `Calls` hold without these bounds.

Bounds of `heap`. A closure has an upvalue and a thread a slot, so two objects
allow every shape in which a barrier matters: black to white through a table, an
upvalue, a weak table and a string found again. With the main thread and the
globals that is four objects to sweep, so a sweep of two at a time stops halfway
with the code running in between (40 at a time in the code). The theorems about
`Collector` hold without these bounds.

Bounds of `texts`. Two operators are enough for every pair of priorities, for
jumps of one inside the lists of the other, and for operands in registers,
constants and pending jumps. Lists are stored two items at a time instead of 50.
In the part with low limits, the limits on registers, variables, constants and
levels are so low that some of the programs pass them and others just fit. The patterns hold every
item beside every other one, captures that nest, repeat, fail and stay open, and
texts with closing brackets. What is replaced may name no capture, one that is
there, one that is not, or all. A stream of six bytes comes in every sequence of
pieces, empty ones included.

Deadlock is checked except where a program comes to its end: the main window
may be closed, a stream or a tool is finished, and the small heap may be full
(the collector then still runs).

Fairness. A call or a loop that has started runs on, as in a single thread:
weak fairness of `Propagate` (`Puzzle`), of the steps of a strategy, of a sort,
of the loop of `gmatch` or `gsub`, of the instructions of a program. It is
written out without ENABLED where the action always has a step to take. In
`Collector`, the collector takes infinitely many steps, because every allocation
of the code drives it. No fairness is assumed of the user, of files, or of the
code that runs between two steps of the collector.

## Findings

* `digit`: command `d` ignores the digit. `cmds.d.op` passes it as a fifth
  argument to `propagate_elimination`, which has four parameters.
* `nullboard`: `save_file` tests `*board` where `interp_save` has set `board` to
  NULL because no board is loaded.
* `dots`: in the detailed view a cell from which nothing was eliminated is blank
  (`sudokucell.c:492-493`), where the help promises a dot for each digit that has not
  been eliminated (`sudoku.lua:1212-1216`). `Expected` follows the help, and
  `ScreenCurrent` makes this one exception (`Untouched`).
* `longline`: `interp_eval` pushes every word of a line and asks for no room.
  After the start the array has 96 slots, and 54 when the collector has halved
  it; a line of more than fifty words then runs over its end.

Other disagreements met while modelling, without a run of their own:

* A file with the characters of a board and many others is refused as bad input
  when it is longer than `NBOARD` (`gtksudoku.c:130`), although the help says
  that other characters are ignored; and a `Nul` in a file ends it
  (`interp.c:129`). Nothing tells the user that a part was not read.
* `hint help` says that there is no help entry for `hint`: its entry is filed
  under `hist` (`sudoku.lua:1641`).
* The size of the array part is, by the comment at `ltable.c:12`, "the largest n
  such that at least half the slots between 0 and n are in use". The code takes
  the largest power of two of whose slots more than half are in use
  (`computesizes`, `ltable.c:189-206`): with the keys 1 and 3 the comment says 4
  and the code 1. `ArrayWellUsed` is what the code is to compute.
* `save_file` does not look at the results of `fputs` and `fclose`
  (`gtksudoku.c:155`); a failed write is reported like a successful one.
* A number that does not fit an int may be taken for a digit (`interp.c:93`).
* After some twenty commands `interp.c` pushes beyond the slots that `lapi.c:45`
  (`api_incr_top`) grants to C code, because each command leaves its result, and
  with more than 12 words in a line it may push beyond `stack_last` into the
  spare slots. `StackSafe` and its proof show that on lines of at most 12 words
  it stays before `stack_last`.
* After an error a hint may name a rule that does nothing; `HintRight` is about
  boards without an error.
* A sort by an inconsistent function may not end; `SortEnds` is about sorts by `<`.
* A constructor of more than 25,550 items stores its count as a bare word
  (`lcode.c:823`), which other code may take for an instruction.

## Proofs

`Puzzle_proofs` proves, for every `sides` > 0, every set of texts and every set
of solved grids, every safety property of `Puzzle`: `TypeOK`, `SolutionsKept`,
`NoFalseAlarm`, `CallsDistinct`, `Settled`, `FinishedIsSolved` and, for `sides` >
1, `NoLoneCell` (a blank board of one cell is itself a unit with one
undetermined cell, and nothing is forgotten there). The assumptions are those
named in `Board` and `Puzzle`, which TLC evaluates in run `puzzle`.

None of the properties is inductive: a sweep is right only because of what its
own call and the calls below it on the stack have yet to do. The invariant
`Inv` adds (`Orderly`, `FrameAgrees`)

* the cell of every frame is determined, has no candidate but the digit of its
  call, and is in no other frame;
* for every determined cell and each of its three units, either some frame of
  the cell has yet to sweep the unit, or the candidates of the cell are gone
  from the rest of the unit;
* the solutions of the text have the digit of every frame in its cell;
* after an error some cell is empty, and it stays empty;
* a unit with one undetermined cell, on a board with no empty cell, is still to
  be swept by some frame (`Watchful`), as long as no error was raised.

`FinishedIsSolved` follows from `Settled` by counting: a unit has as many cells
as there are digits (`UnitSize`), its digits are all different, so each occurs
(`EveryDigit`). `NoLoneCell` needs the last part of the invariant: the sweep
that leaves one open cell in a unit is often not a sweep of that unit, but of
another one through the cell that has just been determined. `Watchful` says that
the call of that cell, or one that waits for it, has the unit yet to sweep, and
that sweep finds the cell.

The first part of `Puzzle_proofs` has the geometry and the counting. The second
shows that each rule and each step of `determine` leads from an orderly
computation to an orderly one and keeps every solution (`Follows`); the heart of
it is one lemma for each kind of rule (`ConfineSound`, `TwoPlacesSound`,
`SamePairSound`, `SweepSound`, `OnePlaceFollows`).

The last part is about `Strategies`: `StrategiesDone` and `HintRight` hold on
boards of any size, for all texts and at any point of a session
(`StrategiesReturn`, `HintsHold`), and a run of the strategies is a run of
`Puzzle` (`StrategiesArePlay`: `StrategySpec => Spec`), so that everything above
holds while they run. A strategy may miss nothing although it stops on flags
that tell eliminations only, and although a try that has been passed may become
possible again when a later try determines a cell. The invariant `StrategyInv`
therefore says, while a strategy is under way (`Underway`),

* that as long as the sweep has eliminated nothing, the tries that are behind it
  would do nothing, on the board as it is now. A basic rule determines its cell
  before it sweeps, so it is done with even if it eliminates nothing
  (`TriedIsQuiet`), and on a board with the same candidates and more determined
  cells what did nothing does nothing (`QuietStays`); the other rules do something
  only if they eliminate a candidate (`RuleEliminates`);
* that the sweeps the strategy has been through since the last elimination have
  nothing left (`Prior`, `Clear`);
* what the flags `e` of the loops around the sweep say of the candidates that are
  gone since the strategy began (`FlagsFit`, `Progress`): candidates never come
  back, so one that is gone in either of two stretches is gone at the end
  (`EliminatedBetween`).

`AfterRight` is the heart: wherever a sweep leads, the invariant is what the next
sweep, or the return, relies on (`Looked`). What `Clear` means for a board is in
`ClearCells`, `ClearUnits` and `ClearRules`: the row and column numbers that the
loops go through name every cell and every unit (`SpreadOnto`, a lemma about
division by `sides`). For the hint, a digit that is possible in one undetermined
cell of a unit is nowhere else in it, because the digits of the determined cells
are gone from it (`DeterminedAlone`, from `Inv`); and that the loops have a first
hint is well-foundedness of the lexicographic order of their variables
(`FirstExists`).

`Session_proofs` proves, for every set of boards, every set of board objects and
every bound on the history: `TypeOK`, `NoSharing`, `DisplayCurrent`,
`KeepsBoard`, and the refinement `Spec => UndoSpec`. The assumptions are those
named in `Session`, which TLC evaluates in run `tables`; `TypeOK` and
`KeepsBoard`, which the proofs establish and `UndoSpec` nearly implies, are not
checked again there. The refinement mapping
takes the last entry off the history when it equals the current board, for that
is the entry `eval` has just pushed. The mapping works only under an invariant
(`Good`): every object in use holds a board, none is in use twice, there is no
history without a board, and no two entries next to each other are equal.
Without the last part, a history A A with current board B would go back to A
twice, and the duplicate that `push` avoids could come back through `swap`.
`PushFacts`, `BackFacts` and `SwapFacts` say what the functions of the history
do; `Outcome` is what each action is shown to achieve: the invariant again, and
a step of `UndoStack` or none.

The end of `Slots` proves `StackSafe` (`SlotsSafe`): a slot that `interp.c` has
pushed is beyond the usable part of the Lua stack only on a line that has more
words than the frame of `eval` has slots. The theorem bounds neither the words of
a line nor the number of commands nor the depth of what `eval` calls, and the
collector may run anywhere; `FrameAssumption` is that the frame is at most
`LUA_MINSTACK`. On long lines there is no such promise (run `longline`), but a
long line that did fit does no harm to the commands after it. The argument: a
call makes room for a frame of `EvalFrame` slots above its arguments (`Grown`),
its result takes at most the place of the function, so more than `EvalFrame`
slots are free afterwards; and the collector halves the stack only when less
than a quarter of it is used or granted, which leaves twice that (`Shrunk`). The
inductive invariant `SlotsInv` says this while a call is under way: the room is
measured from the slot of its function, whatever has been pushed since, and, once
the function has been entered, from above the arguments. `Reserve` is what it
says between two calls.

`Calls_proofs` proves, for any number of coroutines, any of the C functions and
any limits, `CStackSound`, `LimitsHold` and `PcallRestores`. The assumption
(`CallsAssumption`, which TLC evaluates in run `calls`) is that the limits are
positive and the initial array of frames is not beyond its limit. What makes a
jump right is spread over the C stack, for each protected call saves where the
one around it is, and the calls of several threads lie on top of each other. The
invariant `Inv` says

* of every place of the C stack (`Placed`): it belongs to the thread below it,
  or is the `lua_resume` of a coroutine that has nothing below; a place of a
  protected call remembers the innermost guard of its thread below it (`Lands`)
  and, for `luaD_pcall`, the number of counted calls below it (`Depth`); the
  frames recorded in the places of a thread grow upwards as the kinds of the two
  functions say (`Follows`);
* of every thread with a place on the stack (`Matches`): it has not yielded and
  is not dead, and, if nothing is above it but other threads, its count of C
  calls is the number of counted calls up to there;
* of every thread (`Kept`): its errors jump to its innermost guard, and its
  frames fit in their array; a coroutine that has frames is on the stack, or
  has yielded;
* the interpreter on top of the stack has a frame, and the calls are below the
  limit.

What is said of a place is only about it and the places below, so it survives
when the stack is cut (`Cut`). That is the heart of the proof: after a jump the
guard that is now innermost is the one the cut place remembered, and the counts
and frames it saved are those of the stack that is left. One lemma for each
function of `Calls` shows that it leads from a good state to a good one and puts
back what the protected calls it ends have saved (`Outcome`: `ThrowRight`,
`PrecallRight`, `CallRight`, ...), and each action follows from them. The proof
also shows that an error is never without a guard, so the panic function is
never called. That the count is exactly the number of calls, and not only at
least that, is what the limits rest on: a coroutine starts with the count of the
thread that resumes it, and leaves no trace in it.

`Api_proofs` proves that the C interface implements `ApiSpec` (`Implements`), for
every set of frames: any number of slots, any garbage in them, any upvalues,
pseudo-indices and tables. `FramesAssumption` is what is assumed of them: names
of objects are not names of other values, and pseudo-indices are at most -10
(the real ones are below -10000) while frames count from -1. The refinement
mapping cuts the slots off at `top`, and the work is to show that each function
of `lapi.c` writes exactly the slots that the promise names: a call that takes
`d` values off and leaves the sequence `s` writes `s` from slot `top - d + 1` on
and nothing below (`Moves`), so that the window becomes what is promised
(`Moved`, `SequenceMoves`). There is one lemma for each function (`InsertRight`,
`NextRight`, `ConcatRight`, ...). The mapping works only under an invariant
(`Inv`, theorem `Invariance`): every slot, upvalue and field holds a value of the
language, garbage of the frame or an object that exists, and environments and
metatables are tables that exist or nil. Without the latter `lua_tolstring` at
the index of the environment would change a copy that nobody sees again, while
the promise changes the environment.

`Widgets_proofs` proves that the screen is right, in the main window
(`ScreenShown`: `ScreenRight`, for every set of boards and of covered regions)
and in the edit dialog (`EditsAreRight`: `EditsRight`, for every set of texts,
cells and keys). `ScreenShown` is about `sides` = 3 only: `draw_square` and `draw`
have the places of the lines in a board of nine by nine cells written out.
`EditsAreRight` holds for every `sides` > 1; in a board of one cell the only digit
and a blank cell are the same bit set. `ReturnsEdits` is about the button: Apply returns
the wanted text, and Cancel, or closing the window, returns nothing. The assumptions, which TLC evaluates in
run `widgets`, are that a bit set of digits is below `2 ^ digits` and gives its
digits back (`BitsAssumption`: a fact of arithmetic about the sums of powers of
two, by induction over the digits, which the provers cannot do; the run evaluates
it for the nine digits of the program), and that the boards, texts, cells and keys
are those the program can have: a determined cell has at most one digit left
(`ShownAssumption`), a text has a character for each cell, a key is a digit, the
period or one that changes nothing.

Neither promise is inductive. A cell that `set_val` finds unchanged is not
painted, so what is on the screen must be what `draw` would paint now, for every
cell that is not covered (`Painted`), and a cell whose fields and background are
those of the board shows what the user should read (`Agrees`), or nothing if it
is untouched: the two make
`ScreenInv`, and `ShowsBoard` and `GridRight` draw the conclusions. The one lemma
behind all changes, `Redrawn`, says that painting the cells of a set is enough
when nothing outside the set would be painted differently. For the editor
(`EditInv`) the cells hold the bits of the wanted text (`Holds`), everything is
painted, and only the cell with the focus is gray; `Characters` says what becomes
of a character on its way through the bits and back, and what is painted for it.

`Collector_proofs` proves that the heap is sound (`HeapIsSound`: `HeapSound`) and
that a finalizer is called once, and before its userdata is freed
(`FinalizersCalledOnce`: `FinalizedOnce`), for every set of objects, of kinds and
of slots, and every pace of the sweep. `ConstantsAssumption` says that the kinds
are those of the model and the names differ. `HeapSound` is about what the code
can reach, and that is not inductive: the collector does not know it. The
invariant `Inv` is about every object that is used and not of the old white
(`Sound`), reachable or not:

* such an object refers only to such objects, and so does the stack (`Refs`), so
  that what the code can reach is sound;
* every used object is in a list that a sweep will visit, and outside
  the mark phase what is not white is still ahead of the sweep (`Lists`,
  `Colors`, `Phase`);
* while marking goes on, every marked object is `Settled`: what it refers to is
  marked, or it is in a list that the rest of the phase will traverse. Which
  lists these are shrinks from state to state of `atomic` (`Pending`); the main
  thread is always in one of them, because the stack has no barrier (`Tri`);
* a userdata whose finalizer has not been called is not dead (`Finals`).

At the end of `atomic` nothing is pending, so what is marked refers to what is
marked (`AtomicEndKeeps`); the flip then makes `Refs` true of the rest. `Inv` has
a set of objects as a parameter that `Tri` leaves out, and is about any heap,
collector and counts, not about the variables: an action is a barrier that paints
(`ForwardKeeps`, `BackKeeps`), a write (`WriteKeeps`, `MoveKeeps`), an
allocation (`BornKeeps`), a free (`FreeKeeps`), and between the barrier and the
write the object that is written to may be out of order. That `markobjects` marks
no more than three objects in turn, the depth of the recursion of
`reallymarkobject`, rests on `Refs`: no value is an upvalue and an environment is
a table (`Chains`).

`Window_proofs` proves `ArgsAsTyped` (`LinesReadRight`) for every line and every
width of an int: `interp_eval` passes the words of a line, in their order, none
lost, merged or empty. That is a fact about the loop of `interp_eval`, which
looks for the next space, pushes what is before it and skips the spaces behind
it. `LinesAssumption`, which TLC evaluates in run `window`, only says that lines
are sequences. The promise counts: the word that has `n - 1` words to its left is
argument `n`. So the proof is about the rest of a line, from a position where a
word starts: the items pushed from there are the words from there, the word
with `n - 1` words between the position and itself is item `n` (`ItemsRight`).
What is pushed from a position depends on later positions only, so a position
where this fails would have a later one, and there is a last one. The words of
the rest of a line are the first of them and those of the rest of the rest.
`StatusCurrent` (`StatusTellsTruth`) holds for every set of files, contents
and boards, and for all `Faults` but failed writes, as run `window` has it: then
the code says that all is well (see Findings). It holds because every way out of
`load_file` and `save_file` sets the status (`LoadTells`, `SaveTells`).

Only model-checked: `FilesRight` of `Window`, for what is left of a file when
the other characters are dropped, and the board that a whole text leaves, are
recursive (what one given does to a board is proved in `Puzzle_proofs`); all properties of the Lua runtime besides its C
interface, its calls and its collector; the refinement of `Dictionary`. Liveness
(`CallsReturn`, `StrategyEnds`, `SortEnds`, `Returns`, `Finishes`,
`GarbageGoes`) is out of the prover's reach, and so is what the recursive
operators of `HashTable`, `Pattern` and the compiler compute.

## Plan

1. `Board`, `Rules`, `Puzzle` and their proofs: done.
2. `UndoStack`, `Session` and the proof of the refinement: done.
3. `Strategies`, `Widget`, `Display`, `Editor`, `CommandLine`, `Window`, `Slots`,
   `BuildTools`, and the proof about `Slots`: done.
4. The Lua runtime: memory, tables, calls, compiler and machine, libraries the
   program uses: done as far as listed under Not modelled.
5. Proofs: `NoLoneCell` and `FinishedIsSolved`, the refinement of `ApiSpec`, the
   calls and errors of `Calls`, the widgets, the barriers and finalizers of
   `Collector`, what the strategies and the hint leave, the command line and the
   status of `Window`: done.

## Not modelled

GTK+ itself, fonts and scaling, the wording of help, and `gtksudoku.html`, a
separate JavaScript page. Of the Lua runtime: the lexer (a function from
characters to tokens); the mathematics, input, operating system, debug and
package libraries, wrappers around the C library that the program never calls;
the stand-alone interpreter `lua.c` and the listings of `print.c`; hooks, which
the program never sets; memory that runs out; fractional numbers and division;
the table `arg` of functions with dots, which none here names; line information
and the names in error messages; formatting by `string.format`. Models of these
would translate single calls of the C library and have no behaviour to check.
