------------------------------- MODULE Editor -------------------------------
(***************************************************************************)
(* The board editor: sudoku_edit_dialog (src/src/sudokuedit.c) opens a     *)
(* modal dialog with an editable board widget, set from the text of the    *)
(* current board; keys change its cells; Apply returns the cells as a text *)
(* again, through the conversions of src/src/board.c.  The dialog may be   *)
(* opened any number of times, each time with a new widget.                *)
(***************************************************************************)
EXTENDS Widget

CONSTANTS
  Given,   \* The texts of boards that the dialog is opened with.
  Other,   \* A key that changes no cell.
  Sites,   \* The cells the user visits; bounds the model.
  Keys     \* The keys the user presses; bounds the model.

ASSUME GivenAssumption == Given \subseteq Texts /\ Nil \notin Texts
ASSUME SitesAssumption == Sites \subseteq Cell /\ Nil \notin Cell
ASSUME KeysAssumption == Keys \subseteq Digit \cup {Period, Other}

VARIABLES
  open,      \* The dialog is running.
  dialog,    \* The widget of the dialog.
  focus,     \* The cell with the keyboard focus.
  signals,   \* The board-changed signals of the last event.
  response,  \* What ended the dialog that was closed last.
  result,    \* What it has returned: a text, or Nil.
  wanted     \* What the user has asked for: the text, with the typed cells.

evars == <<open, dialog, focus, signals, response, result, wanted>>

\* Apply, Cancel, or the window is closed.
Responses == {"apply", "cancel", "delete"}

-----------------------------------------------------------------------------
(***************************************************************************)
(* A text is a character for each cell: a digit or a period.  A text that  *)
(* is not there has no characters; Board:__tostring writes nothing else,   *)
(* so the other texts all have digits2 of them.                            *)
(***************************************************************************)
boardlen(t) == IF t = Nil THEN 0 ELSE Cardinality({x \in Cell : t[x] \in Digit \cup {Period}})

boardchar2val(c) == IF c \in Digit THEN Bit(c) ELSE ALL

val2boardchar_any(v) ==
  IF DigitsOf(v) # {} THEN CHOOSE d \in DigitsOf(v) : \A e \in DigitsOf(v) : d <= e
  ELSE Period

val2boardchar(v) ==
  IF \E d \in Digit : v = Bit(d) THEN CHOOSE d \in Digit : v = Bit(d) ELSE Period

sudoku_dialog_set(w, t) ==
  IF boardlen(t) # digits2 THEN w
  ELSE sudoku_board_set_val(w, Cell, [x \in Cell |-> boardchar2val(t[x])],
                                     [x \in Cell |-> FALSE])

EditInit ==
  /\ open = FALSE
  /\ dialog = sudoku_board_new(TRUE)
  /\ focus = Nil
  /\ signals = <<>>
  /\ response = "none"
  /\ result = Nil
  /\ wanted = [x \in Cell |-> Period]

\* sudoku_edit_dialog up to gtk_dialog_run.
Open(t) ==
  /\ ~open
  /\ open' = TRUE
  /\ dialog' = show_all(sudoku_dialog_set(sudoku_board_new(TRUE), t))
  /\ focus' = Nil
  /\ signals' = <<>>
  /\ wanted' = IF t = Nil THEN [x \in Cell |-> Period] ELSE t
  /\ UNCHANGED <<response, result>>

\* sudoku_cell_button_press, or a key of GTK that moves the focus: the cell
\* that loses the focus gets focus_out, the other focus_in.
Focus(x) ==
  /\ open
  /\ focus # x
  /\ focus' = x
  /\ dialog' = focus_in(IF focus = Nil THEN dialog ELSE focus_out(dialog, focus), x)
  /\ signals' = <<>>
  /\ UNCHANGED <<open, response, result, wanted>>

pressed_value(k) == IF k \in Digit THEN Bit(k) ELSE ALL

\* When pressed_key emits the signal.
emits(old, new) == new # old

pressed_key(x, k) ==
  LET new == pressed_value(k)
      w   == set_val(dialog, {x}, [y \in {x} |-> new], [y \in {x} |-> FALSE])
  IN  /\ dialog' = w
      /\ signals' = IF emits(dialog.val[x], new)
                    THEN <<<<row(x), col(x), w.val[x], w.mode[x]>>>>
                    ELSE <<>>

\* sudoku_cell_key_press: other keys are left to GTK.
KeyPress(k) ==
  /\ open
  /\ focus # Nil
  /\ IF dialog.editable /\ k # Other
     THEN /\ pressed_key(focus, k)
          /\ wanted' = [wanted EXCEPT ![focus] = k]
     ELSE /\ signals' = <<>>
          /\ UNCHANGED <<dialog, wanted>>
  /\ UNCHANGED <<open, focus, response, result>>

\* gtk_dialog_run returns; only Apply makes a text.
Close(r) ==
  /\ open
  /\ open' = FALSE
  /\ response' = r
  /\ result' = IF r = "apply"
               THEN [x \in Cell |-> val2boardchar(sudoku_board_get_val(dialog, x))]
               ELSE Nil
  /\ focus' = Nil
  /\ signals' = <<>>
  /\ UNCHANGED <<dialog, wanted>>

EditNext ==
  \/ \E t \in Given \cup {Nil} : Open(t)
  \/ \E x \in Sites : Focus(x)
  \/ \E k \in Keys : KeyPress(k)
  \/ \E r \in Responses : Close(r)

EditSpec == EditInit /\ [][EditNext]_evars

-----------------------------------------------------------------------------
\* The state is well typed.
EditTypeOK ==
  /\ open \in BOOLEAN
  /\ dialog \in Widgets
  /\ focus \in Sites \cup {Nil}
  /\ Len(signals) <= 1
  /\ response \in Responses \cup {"none"}
  /\ result \in Texts \cup {Nil}
  /\ wanted \in Texts

\* Apply returns the text the dialog was opened with, changed by the last key
\* typed in each cell and by nothing else, whatever the path of conversions
\* to bit sets and back; any other end of the dialog returns no text.
ReturnsEdits ==
  [][open /\ ~open' => result' = IF response' = "apply" THEN wanted ELSE Nil]_evars

\* What the dialog shows is what Apply would return: the digit of every cell
\* is painted as a numeral, the others are blank, and only the cell with the
\* focus has a gray background.
ShowsEdits ==
  open => \A x \in Cell :
    /\ dialog.screen[x].gray <=> x = focus
    /\ dialog.screen[x].glyph =
         IF wanted[x] = Period THEN [ink |-> "blank", digits |-> {}]
         ELSE [ink |-> "numeral", digits |-> {wanted[x]}]

\* "A signal is emitted when a cell's value changes via a key press"
\* (sudokuboard.h): once for the cell that changed, with its new value, and
\* never for a key that leaves the value as it was.
SignalsChanges ==
  [][open /\ open' =>
       signals' = (IF dialog'.val = dialog.val THEN <<>>
                   ELSE <<<<row(focus), col(focus), dialog'.val[focus], FALSE>>>>)]_evars

\* The dialog shows what it will return, Apply returns the text as the user has
\* edited it and Cancel none, and every cell that changes is signalled, and no
\* other (sudoku_edit_dialog, pressed_key).
EditsRight == []EditTypeOK /\ []ShowsEdits /\ ReturnsEdits /\ SignalsChanges
=============================================================================
