------------------------------ MODULE MCTexts ------------------------------
(***************************************************************************)
(* Programs and texts: what is compiled and run (MCPrograms), and what     *)
(* reads and writes texts: the patterns of the string library, the input   *)
(* stream, compiled chunks and the tools of the build.  They share no      *)
(* state; a behavior is that of one part, the others stay as they begin.   *)
(***************************************************************************)
EXTENDS MCPrograms

VARIABLES
  text, pat, anchor, repl, mode, src, found, out, max_s, pc,           \* Pat
  len, fed, z, got, seen,                                              \* Stream
  strip, todo, protos, combined, blocks, disk, status, reader, loaded,  \* Luac
  tool, files, can, input, at, opened, ident, source, lines, output, first, pass, exit  \* Tools

pvars == <<text, pat, anchor, repl, mode, src, found, out, max_s, pc>>
zvars == <<len, fed, z, got, seen>>
cvars == <<strip, todo, protos, combined, blocks, disk, status, reader, loaded>>
bvars == <<tool, files, can, input, at, opened, ident, source, lines, output, first, pass, exit>>

-----------------------------------------------------------------------------
Like(op, class) == [op |-> op, class |-> class, n |-> 0, b |-> "nul", e |-> "nul"]
Char(ch) == Like("one", {ch})
Sign(op) == Like(op, {})
SameAgain == [Sign("back") EXCEPT !.n = 1]
Nested == [Sign("balance") EXCEPT !.b = "a", !.e = "b"]

\* For find: everything, with captures that nest, repeat and fail.
FindItems ==
  {Char("a"), Char("b"), Like("*", {"a"}), Like("+", {"a", "b"}), Like("-", {"a", "b"}),
   Sign("("), Sign("()"), Sign(")"), Sign("$"), SameAgain, Nested}

\* For the loops: what may match nothing.
LoopItems ==
  {Char("a"), Char("b"), Like("?", {"a"}), Like("*", {"a"}), Like("-", {"b"}),
   Sign("("), Sign("()"), Sign(")"), Sign("$"), Like("frontier", {"a"})}

Capturing == {<<Sign("("), x, Sign(")"), y>> : x \in FindItems, y \in FindItems}
               \cup {<<x, Sign("("), y, Sign(")")>> : x \in FindItems, y \in FindItems}

\* Three items: of those that may match several things.
Threes ==
  LET several == {Char("a"), Like("*", {"a"}), Like("-", {"a", "b"}),
                  Sign("("), Sign("()"), Sign(")"), SameAgain}
  IN  {<<x, y, w>> : x, y, w \in several}

\* Texts with closing brackets, which find takes as they stand.
Brackets == {<<Sign(")")>>, <<Char("a"), Sign(")")>>, <<Sign(")"), Sign(")")>>,
             <<Sign(")"), Like("+", {"a", "b"})>>}

Plain == [kind |-> "text", uses |-> {}]

\* What gsub may replace by; only patterns with captures tell more than two apart.
Replacements(q) ==
  {[kind |-> "function", uses |-> {}], [kind |-> "text", uses |-> {0, 1}]} \cup
    (IF \E p \in DOMAIN q : q[p].op \in {"(", "()"}
     THEN {[kind |-> "table", uses |-> {}], Plain, [kind |-> "text", uses |-> {2}]}
     ELSE {})

Short == BoundedSeq({"a", "b"}, 3)

Calls ==
  {<<"find", s, q, Plain>> : s \in Short, q \in BoundedSeq(FindItems, 2) \cup Threes \cup Capturing}
    \cup {<<"find", s, q, Plain>> : s \in BoundedSeq({"a", ")"}, 3), q \in Brackets}
    \cup {<<"gmatch", s, q, Plain>> : s \in Short, q \in BoundedSeq(LoopItems, 2)}
    \cup UNION {{<<"gsub", s, q, r>> : s \in Short, r \in Replacements(q)} :
                  q \in BoundedSeq(LoopItems, 2)}

Pat == INSTANCE Pattern WITH
  Chars <- {"a", "b", ")"}, Nul <- "nul", MaxCaptures <- 2,
  Inputs <- {c \in Calls :
               \A p \in DOMAIN c[3] : /\ c[3][p].op = "$" => p = Len(c[3])
                                      /\ c[3][p].op = "(" => p = Len(c[3]) \/ c[3][p + 1].op # ")"}

-----------------------------------------------------------------------------
\* Texts of up to six bytes in pieces of every size.
Stream == INSTANCE Zio WITH MaxText <- 6, Width <- 3

(***************************************************************************)
(* One or two files out of two main functions: one with constants of every *)
(* type, whose nested functions share and do not share its source, and one *)
(* that is nested as deep as can be loaded.                                *)
(***************************************************************************)
LUA_OP_RETURN == 3

Func(name, line, k, p, up) ==
  [source |-> name, head |-> <<line, line, 0, 0, 2, 3>>, code |-> <<line, LUA_OP_RETURN>>,
   k |-> k, p |-> p, lineinfo |-> <<line, line>>,
   locvars |-> <<[varname |-> <<5, 6>>, startpc |-> 0, endpc |-> 1]>>, upvalues |-> up]

Whole ==
  Func(<<7>>, 1, <<[t |-> 0, v |-> <<>>], [t |-> 1, v |-> <<1>>],
                [t |-> 3, v |-> <<-4>>], [t |-> 4, v |-> <<>>], [t |-> 4, v |-> <<5>>]>>,
       <<Func(<<7>>, 3, <<>>, <<>>, <<<<5>>, <<>>>>), Func(<<7, 7>>, 4, <<>>, <<>>, <<>>)>>, <<>>)

Deep == Func(<<6>>, 5, <<>>, <<Func(<<6>>, 6, <<>>, <<Func(<<6>>, 7, <<>>, <<>>, <<>>)>>, <<>>)>>, <<>>)

Luac == INSTANCE Chunk WITH
  stack <- protos, main <- combined,
  Mains <- {Whole, Deep}, MaxFiles <- 2, MaxCCalls <- 3,
  Machines <- {<<1, 4, 8>>, <<1, 4, 4>>}, Here <- <<1, 4, 8>>

(***************************************************************************)
(* Files of up to four bytes, with line ends of both kinds; two numbers on *)
(* a line, so that lines fill up.  The names: empty, ordinary, one that    *)
(* begins with a digit.                                                    *)
(***************************************************************************)
Tools == INSTANCE BuildTools WITH
  args <- files, text <- input, out <- output, Bytes <- {0, 13, 10}, MaxText <- 4, COLUMNS <- 2,
  Names <- {<<>>, <<97, 46, 98>>, <<49, 97, 49>>}

ASSUME TextsAssumption == Pat!PatternAssumption /\ Stream!ZioAssumption /\ Luac!ChunkAssumption

-----------------------------------------------------------------------------
ProgramsIdle ==
  /\ prog = <<>> /\ args = <<>> /\ main = NewFunc /\ frames = <<>> /\ cells = <<>>
  /\ closures = <<>> /\ tables = <<>> /\ globals = <<>> /\ outcome = Outcome("rejected", <<>>)
  /\ tick = FALSE

PatIdle ==
  /\ text = <<>> /\ pat = <<>> /\ repl = Plain /\ mode = "find" /\ anchor = FALSE /\ src = 1
  /\ found = <<>> /\ out = <<>> /\ max_s = 0 /\ pc = "error"

StreamIdle == len = 0 /\ fed = 0 /\ z = [n |-> 0, p |-> 0] /\ got = <<>> /\ seen = 0

LuacIdle ==
  /\ strip = FALSE /\ todo = 0 /\ protos = <<>> /\ combined = Luac!NoProto /\ blocks = <<>>
  /\ disk = <<>> /\ status = "compiling" /\ reader = <<>> /\ loaded = Luac!NoProto

ToolsIdle ==
  /\ tool = "u2d" /\ files = 0 /\ can = 0 /\ input = <<>> /\ at = 0 /\ opened = FALSE
  /\ ident = <<>> /\ source = <<>> /\ lines = <<>> /\ output = <<>> /\ first = <<>>
  /\ pass = 1 /\ exit = -1

TextsInit ==
  \/ PartsInit /\ PatIdle /\ StreamIdle /\ LuacIdle /\ ToolsIdle
  \/ part = "pattern" /\ ProgramsIdle /\ Pat!Init /\ StreamIdle /\ LuacIdle /\ ToolsIdle
  \/ part = "stream" /\ ProgramsIdle /\ PatIdle /\ Stream!Init /\ LuacIdle /\ ToolsIdle
  \/ part = "chunk" /\ ProgramsIdle /\ PatIdle /\ StreamIdle /\ Luac!Init /\ ToolsIdle
  \/ part = "tools" /\ ProgramsIdle /\ PatIdle /\ StreamIdle /\ LuacIdle /\ Tools!Init

TextsNext ==
  \/ PartsNext /\ UNCHANGED <<pvars, zvars, cvars, bvars>>
  \/ part = "pattern" /\ Pat!Next /\ UNCHANGED <<part, vars, zvars, cvars, bvars>>
  \/ part = "stream" /\ Stream!Next /\ UNCHANGED <<part, vars, pvars, cvars, bvars>>
  \/ part = "chunk" /\ Luac!Next /\ UNCHANGED <<part, vars, pvars, zvars, bvars>>
  \/ part = "tools" /\ Tools!Next /\ UNCHANGED <<part, vars, pvars, zvars, cvars>>

TextsSpec ==
  /\ TextsInit /\ [][TextsNext]_<<part, vars, pvars, zvars, cvars, bvars>>
  /\ Fairness
  /\ WF_pvars(part = "pattern" /\ Pat!Looping /\ Pat!Step)

-----------------------------------------------------------------------------
\* The matcher (match and the functions it calls) finds the first way to match,
\* with its captures, and find the leftmost match.
MatchRight == part = "pattern" => Pat!TypeOK /\ Pat!FirstWay /\ Pat!Leftmost

\* gmatch and gsub find one match after the other, keep the text between them,
\* and come to an end whatever the pattern matches and the replacement asks for.
LoopsRight == [](part = "pattern" => Pat!Tiled /\ Pat!TextKept) /\ Pat!Returns

\* The bytes of a text come in order, none left out or given twice, and its end
\* is reported when all that was given has been delivered (luaZ_fill, luaZ_read).
StreamRight == part = "stream" => Stream!TypeOK /\ Stream!InOrder /\ Stream!EndAtEnd

\* What luac reports as written can be loaded again and runs its files in their
\* order; a chunk that was cut off is refused (luaU_dump, luaU_undump).
ChunkRight ==
  part = "chunk" => Luac!TypeOK /\ Luac!Complete /\ Luac!NothingHalf /\ Luac!RunsInOrder

\* The array that bin2c writes holds the bytes of the file, and a second pass of
\* u2d changes nothing.
ToolsRight == part = "tools" => Tools!TypeOK /\ Tools!ArrayExact /\ Tools!Idempotent
=============================================================================
