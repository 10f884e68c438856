------------------------------- MODULE Window -------------------------------
(***************************************************************************)
(* The main window (src/src/gtksudoku.c) and the interpreter behind it     *)
(* (src/src/interp.c): commands, files and the status line.  The boards    *)
(* that commands leave are those of Puzzle; here any command may leave any *)
(* of a set of boards, and load reads a file with the rules.  What the     *)
(* calls leave on the stack of the Lua state is in Slots.                  *)
(***************************************************************************)
EXTENDS CommandLine, Rules

CONSTANTS
  Lines,      \* The command lines the user types.
  Commands,   \* Number of arguments of each command, by name.
  Edit,       \* The names of the commands edit,
  Help,       \* help
  Index,      \* and index.
  Topics,     \* The words with a help entry.
  FileNames,  \* The files.
  Contents,   \* What other programs may leave in a file.
  Moves,      \* The boards the commands may leave.
  Grids,      \* The solved grids.
  Newline,    \* A character that is no cell of a board.
  Nul,        \* The character that ends a text of C.
  Faults,     \* What may go wrong with a file: "open", "read", "write".
  Nil         \* No board, or no file.

ASSUME LinesAssumption == \A s \in Lines : s \in Seq(Range(s))
ASSUME MovesAssumption == Moves \subseteq Boards /\ Nil \notin Boards
ASSUME GridsAssumption == \A g \in Grids : IsSolution(g)

VARIABLES
  phase,   \* "starting", "running", "exited" or "crashed".
  it,      \* The current board, or Nil.
  files,   \* The contents of each file, or Nil.
  status,  \* The status line.
  line,    \* The command line of the last call of eval,
  args,    \* and the arguments passed for it.
  outcome  \* The last operation: whether it did what it is for, and what load_file
           \* found in the file or save_file wrote there, or Nil.

vars == <<phase, it, files, status, line, args, outcome>>

-----------------------------------------------------------------------------
(***************************************************************************)
(* The Lua functions.  A file is a sequence of characters; those of a      *)
(* board are the digits and the period.                                    *)
(***************************************************************************)
strip_string(s) == SelectSeq(s, LAMBDA ch : ch \in Digit \cup {Period})

\* A computation, run until all its calls have returned.
Finished(m) ==
  LET run[c \in Computations] == IF c.stack = <<>> THEN c ELSE run[Step(c)]
  IN  run[m]

\* board(s) for a stripped text of the right length: the givens are entered one
\* by one, until all are or an error is raised.
board(t) ==
  LET entered[i \in 0..digits2] ==
        IF i = 0 THEN Idle(mk_board)
        ELSE LET m == entered[i - 1]
             IN  IF m.failed THEN m ELSE Finished(enter_given(m.board, CellAt(i), t[i]))
  IN  entered[digits2]

\* Board:show writes a line for every row.
Board_show(b) ==
  FlattenSeq([r \in 1..digits |->
                Append([c \in 1..digits |-> show(b, CellAt(digits * (r - 1) + c))], Newline)])

Is(a, word) == a.type = "string" /\ a.value = word

InRange(a) == a.type = "number" /\ a.value \in 1..9

\* do_help for an argument: nothing is returned when there is an entry to show.
do_help(a) ==
  IF a.type = "string" /\ a.value \in Topics THEN {<<"", it>>} ELSE {<<"no help entry", it>>}

\* What the word of a command that is not in the table leads to.
NotInTable(name, rest) ==
  IF Is(name, Edit)
  THEN {<<"edit canceled", it>>, <<"inconsistent", it>>} \cup {<<"", b>> : b \in Moves}
  ELSE IF Is(name, Help)
  THEN IF rest = <<>> THEN {<<"", it>>} ELSE do_help(Head(rest))
  ELSE IF Is(name, Index) THEN do_help(name)
  ELSE {<<"command unknown", it>>}

\* What eval may return for arguments a, and the board it may leave.  An
\* operation that fails or raises an error may have changed the board too.
eval(a) ==
  LET name == Head(a)
      rest == Tail(a)
      cmd  == CHOOSE c \in Commands : Is(name, c.name)
  IN  IF \A c \in Commands : ~Is(name, c.name)
      THEN NotInTable(name, rest)
      ELSE IF rest # <<>> /\ Is(Head(rest), Help)
      THEN do_help(name)
      ELSE IF Len(rest) # cmd.nargs \/ \E i \in DOMAIN rest : ~InRange(rest[i])
      THEN {<<"usage", it>>}
      ELSE IF it = Nil
      THEN {<<"no board", it>>}
      ELSE {"yes", "no", "error"} \X (Moves \cup {it})

-----------------------------------------------------------------------------
Init ==
  /\ phase = "starting"
  /\ it = Nil
  /\ files \in [FileNames -> Contents \cup {Nil}]
  /\ status = ""
  /\ line = <<>>
  /\ args = <<>>
  /\ outcome = [op |-> "none", ok |-> TRUE, text |-> Nil]

\* main up to the main loop: the program stops if the interpreter fails.
interp_init ==
  /\ phase = "starting"
  /\ phase' \in {"running", "exited"}
  /\ UNCHANGED <<it, files, status, line, args, outcome>>

\* set_status: a message, or nothing.
set_status_keep(msg) == status' = IF msg = "" THEN status ELSE msg
set_status(msg) == status' = msg

\* interp_eval: nothing is evaluated when the line is blank.
entry_callback(s) ==
  /\ phase = "running"
  /\ line' = s
  /\ IF Tokens(s) = <<>>
     THEN /\ set_status("")
          /\ args' = <<>>
          /\ UNCHANGED it
     ELSE \E a \in Arguments(s) : \E out \in eval(a) :
            /\ args' = a
            /\ set_status(out[1])
            /\ it' = out[2]
  /\ outcome' = [op |-> "eval", ok |-> TRUE, text |-> Nil]
  /\ UNCHANGED <<phase, files>>

(***************************************************************************)
(* load_file: at most NBOARD characters of the file are read, and the text *)
(* passed to Lua ends at the first of them that is Nul.  load(s) raises an *)
(* error unless the text has one character for each cell, and when the     *)
(* givens leave a cell without digits; the current board then stays.       *)
(***************************************************************************)
NBOARD == digits * digits * digits

fread_cells(s) == SubSeq(s, 1, IF Len(s) < digits2 THEN Len(s) ELSE digits2)
fread(s) == SubSeq(s, 1, IF Len(s) < NBOARD THEN Len(s) ELSE NBOARD)

Cut(s) == SubSeq(s, 1, CHOOSE n \in 0..Len(s) :
                         /\ \A i \in 1..n : s[i] # Nul
                         /\ n < Len(s) => s[n + 1] = Nul)

Did(op, ok, text) == outcome' = [op |-> op, ok |-> ok, text |-> text]

\* The cells in what load_file reads of a file.
Read(s) == strip_string(Cut(fread(s)))

interp_load(s) ==
  LET t == Read(s)
      m == board(t)
      msg == IF Len(t) # digits2 THEN "bad input"
             ELSE IF m.failed THEN "inconsistent" ELSE ""
  IN  /\ set_status(msg)
      /\ Did("load", msg = "", s)
      /\ it' = IF msg = "" THEN m.board ELSE it

load_file(f, fault) ==
  /\ phase = "running"
  /\ IF files[f] = Nil \/ fault = "open"
     THEN /\ set_status("failed to open file")
          /\ Did("load", FALSE, Nil)
          /\ UNCHANGED it
     ELSE IF fault = "read"
     THEN /\ set_status("failed to read file")
          /\ Did("load", FALSE, Nil)
          /\ UNCHANGED it
     ELSE interp_load(files[f])
  /\ UNCHANGED <<phase, files, line, args>>

(***************************************************************************)
(* save_file.  interp_save sets board to NULL when there is nothing to     *)
(* save, and *board is then read from the null pointer.                    *)
(***************************************************************************)
save_file(f, fault) ==
  /\ phase = "running"
  /\ IF it = Nil
     THEN /\ phase' = "crashed"
          /\ UNCHANGED <<status, outcome, files>>
     ELSE /\ IF fault = "open"
             THEN /\ set_status("failed to open file")
                  /\ Did("save", FALSE, Nil)
                  /\ UNCHANGED files
             ELSE /\ set_status("")
                  /\ files' = [files EXCEPT ![f] =
                                 IF fault = "write" THEN <<>> ELSE Board_show(it)]
                  /\ Did("save", fault # "write", files'[f])
          /\ UNCHANGED phase
  /\ UNCHANGED <<it, line, args>>

Next ==
  \/ interp_init
  \/ \E s \in Lines : entry_callback(s)
  \/ \E f \in FileNames, fault \in (Faults \cap {"open", "read"}) \cup {"none"} :
       load_file(f, fault)
  \/ \E f \in FileNames, fault \in (Faults \cap {"open", "write"}) \cup {"none"} :
       save_file(f, fault)

Spec == Init /\ [][Next]_vars

-----------------------------------------------------------------------------
Messages ==
  {"", "failed to open file", "failed to read file", "bad input", "inconsistent",
   "edit canceled", "no help entry", "command unknown", "usage",
   "no board", "yes", "no", "error"}

\* The state is well typed.
TypeOK ==
  /\ phase \in {"starting", "running", "exited", "crashed"}
  /\ it \in Boards \cup {Nil}
  /\ DOMAIN files = FileNames
  /\ status \in Messages
  /\ line \in Lines \cup {<<>>}
  /\ outcome.op \in {"none", "eval", "load", "save"} /\ outcome.ok \in BOOLEAN

\* eval receives the words of the line the user typed, none lost, merged or
\* empty wherever the spaces are, and a word that is a number an int can hold
\* as that number.
ArgsAsTyped ==
  outcome.op = "eval" =>
    /\ Len(args) = Cardinality(Runs(line))
    /\ \A r \in Runs(line) :
         LET word == Word(line, r)
             arg  == args[NumberOf(line, r)]
         IN  IF \E k \in DOMAIN word : ~IsDigit(word[k])
             THEN arg = String(word)
             ELSE arg.type = "number"
                  /\ (Decimal(word) <= IntMax => arg.value = Decimal(word))

\* The status line is never stale: after a file has been loaded or saved it
\* is empty, and it is not empty when the file could not be loaded or saved.
StatusCurrent ==
  phase = "running" /\ outcome.op \in {"load", "save"} => (status = "" <=> outcome.ok)

\* A file with a text for every cell, that fits the buffer and has no Nul.
Plain(s) ==
  /\ Len(s) <= NBOARD
  /\ \A i \in DOMAIN s : s[i] # Nul
  /\ Len(strip_string(s)) = digits2

Agrees(g, t) == \A i \in 1..digits2 : t[i] # Period => g[CellAt(i)] = t[i]

\* A plain file whose text has a solution is loaded, whatever other characters
\* it holds and although the givens finish off cells that are read later: the
\* board shows every given and still allows every solution of the text.
LoadsBoard ==
  outcome.op = "load" /\ outcome.text # Nil =>
    LET t == strip_string(outcome.text)
        solutions == IF Plain(outcome.text) THEN {g \in Grids : Agrees(g, t)} ELSE {}
    IN  solutions # {} =>
          /\ outcome.ok
          /\ \A g \in solutions : Allows(it, g)
          /\ \A i \in 1..digits2 : t[i] # Period => show(it, CellAt(i)) = t[i]

\* A saved board that has a solution can be read back: the lines save_file
\* writes are within what load_file reads and ignores, and reading them
\* determines the cells that were determined and no others.
SavedReadBack ==
  outcome.op = "save" /\ outcome.ok /\ (\E g \in Grids : Allows(it, g)) =>
    LET t == Read(outcome.text)
        m == board(t)
    IN  Len(t) = digits2 /\ ~m.failed /\ tostring(m.board) = tostring(it)

-----------------------------------------------------------------------------
\* "Sets board to NULL when no board is loaded.  [...]  Returns a non-NULL
\* message on error." (src/src/interp.h:41): the program survives a save
\* without a board.
SurvivesSave == phase # "crashed"
=============================================================================
