--------------------------------- MODULE Zio ---------------------------------
(***************************************************************************)
(* The input of the compiler and of the loader (src/src/lzio.c): a reader  *)
(* gives the text in pieces of any size, and the stream gives it on byte   *)
(* by byte or block by block, with a look at the next byte.  The count of  *)
(* bytes that are left in a piece is unsigned and wraps at the end.        *)
(***************************************************************************)
EXTENDS Integers, Sequences

CONSTANTS
  MaxText,    \* The length of the text; its bytes are 1, 2, ...
  Width       \* The bits of a size_t.

ZioAssumption == MaxText \in Nat /\ Width \in Nat /\ MaxText < 2^Width

VARIABLES
  len,    \* The length of the text.
  fed,    \* How many bytes the reader has given.
  z,      \* n bytes are unread in the piece; p is the next one.
  got,    \* The bytes that have been delivered.
  seen    \* What the last operation gave: a byte, or EOZ.

vars == <<len, fed, z, got, seen>>

EOZ == -1
Minus(a, b) == (a - b) % 2^Width

\* The piece the reader may give next.  An empty one ends the text, whatever
\* the reader has left.
Pieces(f) == 0..(len - f)

\* The results of filling: the stream, how much has been fed, and the first
\* byte, which is consumed.
luaZ_fill(zz, f) ==
  {IF size = 0 THEN [z |-> zz, fed |-> f, c |-> EOZ]
   ELSE [z |-> [n |-> Minus(size, 1), p |-> f + 2], fed |-> f + size, c |-> f + 1] :
     size \in Pieces(f)}

luaZ_lookahead_eaten(zz, f) ==
  IF zz.n # 0 THEN {[z |-> zz, fed |-> f, c |-> zz.p]} ELSE luaZ_fill(zz, f)

luaZ_lookahead(zz, f) ==
  IF zz.n # 0 THEN {[z |-> zz, fed |-> f, c |-> zz.p]}
  ELSE {IF r.c = EOZ THEN r ELSE [r EXCEPT !.z.n = @ + 1, !.z.p = @ - 1] : r \in luaZ_fill(zz, f)}

zgetc(zz, f) ==
  IF zz.n > 0 THEN {[z |-> [n |-> zz.n - 1, p |-> zz.p + 1], fed |-> f, c |-> zz.p]}
  ELSE luaZ_fill([zz EXCEPT !.n = Minus(zz.n, 1)], f)

\* The results of reading k bytes: those that came, and how many are missing.
RECURSIVE luaZ_read(_, _, _, _)
luaZ_read(zz, f, k, block) ==
  IF k = 0 THEN {[z |-> zz, fed |-> f, block |-> block, missing |-> 0]}
  ELSE UNION {IF r.c = EOZ THEN {[z |-> r.z, fed |-> r.fed, block |-> block, missing |-> k]}
              ELSE LET n == IF k <= r.z.n THEN k ELSE r.z.n
                   IN  luaZ_read([n |-> r.z.n - n, p |-> r.z.p + n], r.fed, k - n,
                                 block \o [i \in 1..n |-> r.z.p + i - 1])
              : r \in luaZ_lookahead(zz, f)}

-----------------------------------------------------------------------------
Init ==
  /\ len \in 0..MaxText
  /\ fed = 0 /\ z = [n |-> 0, p |-> 0] /\ got = <<>> /\ seen = 0

\* The scanner asks for no byte after the end.
Getc ==
  /\ seen # EOZ
  /\ \E r \in zgetc(z, fed) :
       /\ z' = r.z /\ fed' = r.fed /\ seen' = r.c
       /\ got' = IF r.c = EOZ THEN got ELSE Append(got, r.c)
  /\ UNCHANGED len

Lookahead ==
  /\ seen # EOZ
  /\ \E r \in luaZ_lookahead(z, fed) : z' = r.z /\ fed' = r.fed /\ seen' = r.c
  /\ UNCHANGED <<len, got>>

\* The loader reads a block, and gives up when bytes are missing.
Read(k) ==
  /\ seen # EOZ
  /\ \E r \in luaZ_read(z, fed, k, <<>>) :
       /\ z' = r.z /\ fed' = r.fed
       /\ got' = got \o r.block
       /\ seen' = IF r.missing > 0 THEN EOZ ELSE 0
  /\ UNCHANGED len

Next == Getc \/ Lookahead \/ \E k \in 1..MaxText : Read(k)

\* A program that has seen the end stops.
Ended == seen = EOZ /\ UNCHANGED vars

Spec == Init /\ [][Next \/ Ended]_vars

-----------------------------------------------------------------------------
\* The state is well typed.
TypeOK ==
  /\ fed \in 0..len /\ z.n \in 0..(2^Width - 1) /\ z.p \in 0..(len + 1)
  /\ seen \in {EOZ} \cup 0..len

\* Whatever the pieces and however bytes, blocks and looks ahead are mixed, the
\* text comes in order, without a byte left out or given twice; the bytes that
\* are unread are those the count says, and a look shows the byte that follows.
InOrder ==
  /\ got = [i \in 1..Len(got) |-> i]
  /\ seen # EOZ => Len(got) + z.n = fed
  /\ z.n > 0 /\ seen # EOZ => z.p = Len(got) + 1

\* The end is reported when every byte the reader has given has been delivered,
\* and not before.
EndAtEnd == seen = EOZ => Len(got) = fed
=============================================================================
