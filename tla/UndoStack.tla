----------------------------- MODULE UndoStack -----------------------------
(***************************************************************************)
(* What the history of GTK Sudoku promises, as values: a present board and *)
(* the boards before it, the latest last.  Changing the board remembers    *)
(* it, back returns to the latest remembered board and swap exchanges the  *)
(* two.  There are no board objects here, so nothing can be shared.        *)
(***************************************************************************)
EXTENDS Sequences, SequencesExt

CONSTANTS
  Positions,  \* The boards.
  Absent      \* Stands for no board at all, and is not one of them.

VARIABLES now, past

undoVars == <<now, past>>

\* The present board is never remembered twice in a row.
Remember(q, b) ==
  IF b = Absent \/ (q # <<>> /\ Last(q) = b) THEN q ELSE Append(q, b)

Init ==
  /\ now = Absent
  /\ past = <<>>

Change(b) ==
  /\ b # now
  /\ now' = b
  /\ past' = Remember(past, now)

Load(b) ==
  /\ now' = b
  /\ past' = <<>>

Back ==
  /\ past # <<>>
  /\ now' = Last(past)
  /\ past' = Front(past)

Swap ==
  /\ past # <<>>
  /\ now' = Last(past)
  /\ past' = Remember(Front(past), now)

Next ==
  \/ \E b \in Positions : Change(b) \/ Load(b)
  \/ Back
  \/ Swap

Spec == Init /\ [][Next]_undoVars
=============================================================================
