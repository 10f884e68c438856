------------------------------ MODULE Session ------------------------------
(***************************************************************************)
(* A session with the program: the functions of src/src/sudoku.lua that    *)
(* eval, load and the edit dialog end in, and what they do to the board on *)
(* display and to the history.  Boards are Lua tables that the rules       *)
(* change in place, so the model has a heap of board objects: it and the   *)
(* entries of history refer to objects, and what a rule leaves in an       *)
(* object is any board.  Which boards the rules leave is in Puzzle.        *)
(***************************************************************************)
EXTENDS Naturals, Sequences, SequencesExt

CONSTANTS
  Positions,   \* The boards a board object may hold.
  Blank,       \* The board that mk_board makes.
  Refs,        \* Names of board objects.
  Nil,         \* No board object, no board.
  MaxHistory   \* Bound on the length of the history; the code has none.

ASSUME BlankAssumption == Blank \in Positions
ASSUME NilAssumption == Nil \notin Positions /\ Nil \notin Refs
ASSUME MaxHistoryAssumption == MaxHistory \in Nat \ {0}

VARIABLES
  heap,      \* What each board object holds; Nil if it is not in use.
  it,        \* The current board.
  history,   \* The history of boards.
  details,   \* The detailed cell view is enabled.
  shown      \* The board and the view that the board widget displays.

vars == <<heap, it, history, details, shown>>

-----------------------------------------------------------------------------
(***************************************************************************)
(* The history.  Each function takes the three variables it may change as  *)
(* a record.  A table is collected as soon as nothing refers to it.        *)
(***************************************************************************)
Here == [heap |-> heap, it |-> it, history |-> history]

Live(st) == {st.it} \cup {st.history[i] : i \in DOMAIN st.history}

\* The objects that the next command may allocate: three that are not in use.
\* Which ones they are is immaterial.
Fresh ==
  LET free == Refs \ Live(Here)
  IN  {t \in free \X free \X free : t[1] # t[2] /\ t[1] # t[3] /\ t[2] # t[3]}

Spare == CHOOSE t \in Fresh : TRUE

\* Board:same with the latest entry of the history.
SameAsTop(st) ==
  st.history # <<>> /\ st.heap[st.it] = st.heap[Last(st.history)]

push_always(st, o) ==
  IF st.it = Nil
  THEN st
  ELSE [heap    |-> [st.heap EXCEPT ![o] = st.heap[st.it]],
        it      |-> st.it,
        history |-> Append(st.history, o)]

push_alias(st, o) ==
  IF st.it = Nil \/ SameAsTop(st)
  THEN st
  ELSE [heap |-> st.heap, it |-> st.it, history |-> Append(st.history, st.it)]

\* o becomes a clone of the current board.
push(st, o) ==
  IF st.it = Nil \/ SameAsTop(st)
  THEN st
  ELSE [heap    |-> [st.heap EXCEPT ![o] = st.heap[st.it]],
        it      |-> st.it,
        history |-> Append(st.history, o)]

back(st) ==
  IF st.history = <<>>
  THEN st
  ELSE LET rest == Front(st.history)
       IN  IF ~SameAsTop(st)
           THEN [heap |-> st.heap, it |-> Last(st.history), history |-> rest]
           ELSE IF rest = <<>>
           THEN [heap |-> st.heap, it |-> st.it, history |-> rest]
           ELSE [heap |-> st.heap, it |-> Last(rest), history |-> Front(rest)]

swap(st, o) ==
  LET ultimate == back(st)
      pushed   == push([heap |-> st.heap, it |-> st.it,
                        history |-> ultimate.history], o)
  IN  [heap |-> pushed.heap, it |-> ultimate.it, history |-> pushed.history]

\* n is the object that mk_board makes.
new(st, o, n) ==
  LET pushed == push(st, o)
  IN  [heap    |-> [pushed.heap EXCEPT ![n] = Blank],
       it      |-> n,
       history |-> pushed.history]

-----------------------------------------------------------------------------
(***************************************************************************)
(* The commands.  eval pushes the current board, runs the command under    *)
(* pcall, and prints the board it leaves, also after an error.             *)
(***************************************************************************)

\* Board:print_all, and print_blank_board when there is no board.
print_all(st, det) ==
  IF st.it = Nil THEN Nil ELSE [board |-> st.heap[st.it], details |-> det]

\* The three variables become those of st, and its dead tables are collected.
Become(st) ==
  /\ heap' = [o \in Refs |-> IF o \in Live(st) THEN st.heap[o] ELSE Nil]
  /\ it' = st.it
  /\ history' = st.history

Eval_unprinted(st, det) ==
  /\ it # Nil
  /\ Become(st)
  /\ details' = det
  /\ UNCHANGED shown

Eval(st, det) ==
  /\ it # Nil
  /\ Become(st)
  /\ details' = det
  /\ shown' = print_all(st, det)

\* Every command starts with a push, which the bound leaves room for, and
\* memory does not run out.
Room == Len(history) < MaxHistory /\ Fresh # {}
Pushed == push(Here, Spare[1])

\* A rule, a strategy or hint: whatever it does, and whether or not it ends in
\* an error, it changes the current board object in place, to v.
Rule(v) ==
  /\ Room
  /\ Eval([heap |-> [Pushed.heap EXCEPT ![it] = v], it |-> it,
           history |-> Pushed.history], details)

BackCommand == Room /\ Eval(back(Pushed), details)

SwapCommand == Room /\ Eval(swap(Pushed, Spare[2]), details)

\* The second push, in new itself, finds the board already pushed.
NewCommand == Room /\ Eval(new(Pushed, Spare[2], Spare[3]), details)

\* Commands details and normal.
SetDetails(det) == Room /\ Eval(Pushed, det)

\* A command when there is no board.
NoBoard ==
  /\ it = Nil
  /\ shown' = print_all(Here, details)
  /\ UNCHANGED <<heap, it, history, details>>

(***************************************************************************)
(* Reading boards.  A file that board() rejects changes nothing; an edit   *)
(* that board() rejects has already pushed the current board.              *)
(***************************************************************************)
Read(st) ==
  /\ Become(st)
  /\ shown' = print_all(st, details)
  /\ UNCHANGED details

Load(v) ==
  /\ Fresh # {}
  /\ Read([heap |-> [heap EXCEPT ![Spare[3]] = v], it |-> Spare[3],
           history |-> <<>>])

Edit(v) ==
  /\ Room
  /\ Read([heap |-> [Pushed.heap EXCEPT ![Spare[3]] = v], it |-> Spare[3],
           history |-> Pushed.history])

EditRejected ==
  /\ Room
  /\ Become(Pushed)
  /\ UNCHANGED <<details, shown>>

-----------------------------------------------------------------------------
Init ==
  /\ heap = [o \in Refs |-> Nil]
  /\ it = Nil
  /\ history = <<>>
  /\ details = FALSE
  /\ shown = Nil

Next ==
  \/ \E v \in Positions : Rule(v) \/ Load(v) \/ Edit(v)
  \/ BackCommand
  \/ SwapCommand
  \/ NewCommand
  \/ SetDetails(TRUE)
  \/ SetDetails(FALSE)
  \/ NoBoard
  \/ EditRejected

Spec == Init /\ [][Next]_vars

-----------------------------------------------------------------------------
(***************************************************************************)
(* Properties.                                                             *)
(***************************************************************************)

\* The state is well typed.
TypeOK ==
  /\ heap \in [Refs -> Positions \cup {Nil}]
  /\ it \in Refs \cup {Nil}
  /\ history \in Seq(Refs)
  /\ Len(history) <= MaxHistory
  /\ details \in BOOLEAN
  /\ shown \in [board : Positions, details : BOOLEAN] \cup {Nil}
  /\ \A o \in Live(Here) \ {Nil} : heap[o] \in Positions

\* The rules change the current board in place: no entry of the history is
\* the current board, nor the same object as another entry.
NoSharing ==
  /\ \A i \in DOMAIN history : history[i] # it
  /\ \A i, j \in DOMAIN history : history[i] = history[j] => i = j

\* The widget displays the current board in the current view, although some
\* paths (a rejected edit, a rejected file) do not print it.
DisplayCurrent ==
  shown = IF it = Nil THEN Nil ELSE [board |-> heap[it], details |-> details]

\* eval prints the board after every command, so no command, least of all
\* back on a short history, may leave the session without one.
KeepsBoard == [][it # Nil => it' # Nil]_vars

\* What UndoStack calls now and past.  A board that was pushed before a command
\* that did not change it is not remembered yet.
Now == IF it = Nil THEN Nil ELSE heap[it]

Past ==
  LET q == IF it # Nil /\ SameAsTop(Here) THEN Front(history) ELSE history
  IN  [i \in DOMAIN q |-> heap[q[i]]]

Undo == INSTANCE UndoStack WITH now <- Now, past <- Past, Absent <- Nil

\* The history does what UndoStack promises (push, back, swap and the pushes of
\* eval).
UndoSpec == Undo!Spec
=============================================================================
