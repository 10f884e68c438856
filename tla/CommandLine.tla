---------------------------- MODULE CommandLine ----------------------------
(***************************************************************************)
(* How interp_eval (src/src/interp.c) turns a command line into the        *)
(* arguments of the Lua function eval.  A line is a sequence of            *)
(* characters, an argument a number or a string.                           *)
(***************************************************************************)
EXTENDS Integers, Sequences, SequencesExt

CONSTANT IntBits  \* Width of the C type int.

ASSUME IntBitsAssumption == IntBits \in Nat \ {0, 1}

Space == " "
Numerals == <<"0", "1", "2", "3", "4", "5", "6", "7", "8", "9">>
IsDigit(ch) == ch \in Range(Numerals)
Value(ch) == (CHOOSE i \in DOMAIN Numerals : Numerals[i] = ch) - 1

Number(n) == [type |-> "number", value |-> n]
String(s) == [type |-> "string", value |-> s]

\* The number that a string of digits denotes.
Decimal(s) == FoldLeft(LAMBDA n, ch : 10 * n + Value(ch), 0, s)

(***************************************************************************)
(* atoi.  A number too large for an int is undefined in C: the libraries   *)
(* the program is built with drop its high bits, or stop at the largest    *)
(* int.                                                                    *)
(***************************************************************************)
IntMax == 2 ^ (IntBits - 1) - 1

Wrapped(n) == ((n + IntMax + 1) % (2 ^ IntBits)) - IntMax - 1

atoi(s) == IF Decimal(s) <= IntMax THEN {Decimal(s)} ELSE {Wrapped(Decimal(s)), IntMax}

\* push_item: the arguments that item s may become.
push_item(s) ==
  IF \A i \in DOMAIN s : IsDigit(s[i])
  THEN {Number(n) : n \in atoi(s)}
  ELSE {String(s)}

-----------------------------------------------------------------------------
\* The first position from i on that is not a space, past the end if none.
Skip(s, i) ==
  CHOOSE j \in i..Len(s) + 1 :
    /\ \A k \in i..j - 1 : s[k] = Space
    /\ j <= Len(s) => s[j] # Space

\* strchr(cmd, ' '): the first space from i on, 0 if there is none.
Strchr(s, i) ==
  IF \E j \in i..Len(s) : s[j] = Space
  THEN CHOOSE j \in i..Len(s) : s[j] = Space /\ \A k \in i..j - 1 : s[k] # Space
  ELSE 0

\* The items pushed by the loop of interp_eval when cmd points to position i.
Items_single(s, i) ==
  LET from[k \in 1..Len(s)] ==
        LET tail == Strchr(s, k)
        IN  IF tail = 0 THEN <<SubSeq(s, k, Len(s))>>
            ELSE <<SubSeq(s, k, tail - 1)>>
                   \o (IF tail + 1 > Len(s) THEN <<>> ELSE from[tail + 1])
  IN  from[i]

Items(s, i) ==
  LET from[k \in 1..Len(s)] ==
        LET tail == Strchr(s, k)
            next == Skip(s, tail + 1)
        IN  IF tail = 0 THEN <<SubSeq(s, k, Len(s))>>
            ELSE <<SubSeq(s, k, tail - 1)>>
                   \o (IF next > Len(s) THEN <<>> ELSE from[next])
  IN  from[i]

\* Nothing but spaces gives no arguments, and eval is not called.
Tokens(s) == IF Skip(s, 1) > Len(s) THEN <<>> ELSE Items(s, Skip(s, 1))

\* The argument lists that interp_eval may push for line s.
Arguments(s) ==
  {a \in [DOMAIN Tokens(s) -> UNION {push_item(Tokens(s)[i]) : i \in DOMAIN Tokens(s)}] :
     \A i \in DOMAIN a : a[i] \in push_item(Tokens(s)[i])}

-----------------------------------------------------------------------------
(***************************************************************************)
(* What a user means by a line: its words are the longest runs of          *)
(* characters other than spaces, from left to right.                       *)
(***************************************************************************)
Runs(s) ==
  {r \in (DOMAIN s) \X (DOMAIN s) :
     /\ r[1] <= r[2]
     /\ \A k \in r[1]..r[2] : s[k] # Space
     /\ r[1] > 1 => s[r[1] - 1] = Space
     /\ r[2] < Len(s) => s[r[2] + 1] = Space}

Word(s, r) == SubSeq(s, r[1], r[2])

\* The number of the word, counted from the left.
NumberOf(s, r) == Cardinality({q \in Runs(s) : q[1] <= r[1]})
=============================================================================
