------------------------------ MODULE BuildTools ------------------------------
(***************************************************************************)
(* The programs that prepare files of the distribution: bin2c              *)
(* (src/src/bin2c.c) turns the Lua program into a C array, and u2d         *)
(* (src/src/u2d.c) turns the ends of lines into those of Windows.  Both    *)
(* read one file, byte by byte, and write another one.                     *)
(***************************************************************************)
EXTENDS Integers, Sequences, SequencesExt

CONSTANTS
  Bytes,      \* The bytes a file may hold.
  MaxText,    \* The longest file.
  Names,      \* The names that may be given to bin2c: sequences of characters.
  COLUMNS     \* Numbers on a line of the array.

CR == 13
LF == 10
UNDERSCORE == 95
Letters == 97..122
Digits == 48..57

VARIABLES
  tool,      \* Which program runs.
  args,      \* How many files follow the options; help: -h (or -v) is given.
  can,       \* Whether the input can be read and the output be written.
  text,      \* The contents of the input.
  at,        \* How much of it has been read.
  opened,    \* Whether the output has been opened, which empties it.
  ident,     \* bin2c: the identifier, the string and the lines of the array.
  source,
  lines,
  out,       \* u2d: the output.
  first,     \* u2d: the output of a first pass, and which pass this is.
  pass,
  exit       \* The exit code, -1 while the program runs.

vars == <<tool, args, can, text, at, opened, ident, source, lines, out, first, pass, exit>>

Texts == UNION {[1..n -> Bytes] : n \in 0..MaxText}

-----------------------------------------------------------------------------
emit_name(name) ==
  IF name = <<>> THEN <<UNDERSCORE>>
  ELSE [i \in DOMAIN name |->
          IF name[i] \in Letters \/ (i > 1 /\ name[i] \in Digits) THEN name[i] ELSE UNDERSCORE]

Init ==
  /\ tool \in {"bin2c", "u2d"}
  /\ args \in [files : 0..2, help : BOOLEAN] /\ can \in [read : BOOLEAN, write : BOOLEAN]
  /\ text \in Texts /\ at = 0 /\ opened = FALSE
  /\ ident = <<>> /\ source \in Names /\ lines = <<>> /\ out = <<>>
  /\ first = <<>> /\ pass = 1 /\ exit = -1

ArgsAccepted == IF tool = "bin2c" THEN args.files = 1 ELSE args.files <= 1

\* The options, the count of files, then the input and at last the output are
\* looked at; bin2c goes on with the head of the C file.
Start ==
  /\ exit = -1 /\ ~opened
  /\ exit' = IF args.help THEN 0
             ELSE IF ArgsAccepted /\ (args.files = 0 \/ can.read) /\ can.write THEN -1 ELSE 1
  /\ opened' = (exit' = -1)
  /\ ident' = IF tool = "bin2c" /\ exit' = -1 THEN emit_name(source) ELSE ident
  /\ UNCHANGED <<tool, args, can, text, at, source, lines, out, first, pass>>

\* How the next number is put: on a line of its own once the last one is full.
emit(b) ==
  IF lines = <<>> \/ Len(Last(lines)) >= COLUMNS THEN Append(lines, <<b>>)
  ELSE [lines EXCEPT ![Len(lines)] = Append(@, b)]

\* What u2d writes for a byte.
convert_kept(b) == IF b = LF THEN <<CR, LF>> ELSE <<b>>

convert(b) == CASE b = CR -> <<>> [] b = LF -> <<CR, LF>> [] OTHER -> <<b>>

Byte ==
  /\ opened /\ exit = -1 /\ at < Len(text)
  /\ at' = at + 1
  /\ IF tool = "bin2c" THEN lines' = emit(text[at + 1]) /\ UNCHANGED out
                       ELSE out' = out \o convert(text[at + 1]) /\ UNCHANGED lines
  /\ UNCHANGED <<tool, args, can, text, opened, ident, source, first, pass, exit>>

Eof ==
  /\ opened /\ exit = -1 /\ at = Len(text)
  /\ exit' = 0
  /\ UNCHANGED <<tool, args, can, text, at, opened, ident, source, lines, out, first, pass>>

\* The output of u2d is given to u2d once more.
Again ==
  /\ tool = "u2d" /\ opened /\ exit = 0 /\ pass = 1
  /\ pass' = 2 /\ first' = out /\ text' = out /\ at' = 0 /\ out' = <<>> /\ exit' = -1
  /\ UNCHANGED <<tool, args, can, opened, ident, source, lines>>

Next == Start \/ Byte \/ Eof \/ Again

Spec == Init /\ [][Next]_vars

-----------------------------------------------------------------------------
\* The state is well typed.
TypeOK ==
  /\ at \in 0..Len(text) /\ pass \in 1..2 /\ exit \in -1..1
  /\ exit = 1 => ~opened
  /\ first # <<>> => pass = 2

\* The array of the C file holds the bytes of the input in their order, and each
\* line but the last has as many as fit; the identifier is one C accepts.
ArrayExact ==
  tool = "bin2c" /\ opened =>
    /\ FlattenSeq(lines) = SubSeq(text, 1, at)
    /\ \A i \in DOMAIN lines : IF i < Len(lines) THEN Len(lines[i]) = COLUMNS
                                                 ELSE Len(lines[i]) \in 1..COLUMNS
    /\ ident # <<>> /\ ident[1] \notin Digits
    /\ Range(ident) \subseteq Letters \cup Digits \cup {UNDERSCORE}

\* What sudoku.lua does to a text it reads: "\r\n" becomes "\n".
RECURSIVE Unix(_)
Unix(t) ==
  IF Len(t) < 2 THEN t
  ELSE IF t[1] = CR /\ t[2] = LF THEN <<LF>> \o Unix(SubSeq(t, 3, Len(t)))
  ELSE <<t[1]>> \o Unix(Tail(t))

\* A second pass of u2d changes nothing ("so u2d is idempotent"), and the program
\* reads from a converted file what was in the original.
Idempotent ==
  tool = "u2d" /\ opened /\ exit = 0 =>
    /\ pass = 2 => out = first
    /\ pass = 1 => Unix(out) = SelectSeq(text, LAMBDA b : b # CR)
=============================================================================
