-------------------------------- MODULE Chunk --------------------------------
(***************************************************************************)
(* Precompiled chunks: the compiler luac (src/src/luac.c) combines the     *)
(* functions of its files into one, ldump.c writes it block by block to a  *)
(* file whose device may fill up at any point, and lundump.c reads it      *)
(* back.  A file is a sequence of units: a unit is a number that is        *)
(* written as one variable (a char, an int, a size, a Lua number, an       *)
(* instruction) or one character of a string.                              *)
(***************************************************************************)
EXTENDS Integers, Sequences, SequencesExt

CONSTANTS
  Mains,       \* The main functions the compiler can make of a file.
  MaxFiles,    \* Files on the command line.
  Machines,    \* What the header says of a machine: its byte order and sizes.
  Here,        \* The machine luac runs on.
  MaxCCalls    \* LUAI_MAXCCALLS.

VARIABLES
  strip,     \* The option -s.
  todo,      \* How many files are still to be compiled.
  stack,     \* The main functions compiled so far.
  main,      \* What combine made of them.
  blocks,    \* The blocks that are still to be written.
  disk,      \* The output file.
  status,    \* How luac stands: compiling, dumping, closing, or its exit.
  reader,    \* The machine the output file was loaded on.
  loaded     \* What loading the output file gave.

vars == <<strip, todo, stack, main, blocks, disk, status, reader, loaded>>

ChunkAssumption == Here \in Machines /\ \A a, b \in Machines : Len(a) = Len(b)

\* A string is a sequence of characters; NULL is no string.
NULL == <<-1>>

LUA_TNIL == 0
LUA_TBOOLEAN == 1
LUA_TNUMBER == 3
LUA_TSTRING == 4

NoProto == [source |-> NULL, head |-> <<>>, code |-> <<>>, k |-> <<>>, p |-> <<>>,
            lineinfo |-> <<>>, locvars |-> <<>>, upvalues |-> <<>>]

Refused == [NoProto EXCEPT !.head = <<-1>>]

\* The signature, the version and the format, and the machine.
luaU_header(machine) == <<27, 81, 0>> \o machine

-----------------------------------------------------------------------------
(* ldump.c: a function as a sequence of blocks, each written by one call. *)

DumpInt(x) == <<<<x>>>>
DumpVector(s) == <<<<Len(s)>>, s>>

DumpString(s) == IF s = NULL THEN <<<<0>>>> ELSE <<<<Len(s) + 1>>, s \o <<0>>>>

DumpConstant(o) ==
  DumpInt(o.t) \o (CASE o.t = LUA_TNIL -> <<>>
                     [] o.t \in {LUA_TBOOLEAN, LUA_TNUMBER} -> <<o.v>>
                     [] o.t = LUA_TSTRING -> DumpString(o.v))

DumpLocVar(v) == DumpString(v.varname) \o DumpInt(v.startpc) \o DumpInt(v.endpc)

\* A vector whose elements are blocks of their own.
DumpEach(Dump(_), s) == DumpInt(Len(s)) \o FlattenSeq([i \in DOMAIN s |-> Dump(s[i])])

DumpDebug(f, stripping) ==
  LET Kept(s) == IF stripping THEN <<>> ELSE s
  IN  DumpVector(Kept(f.lineinfo)) \o DumpEach(DumpLocVar, Kept(f.locvars))
      \o DumpEach(DumpString, Kept(f.upvalues))

RECURSIVE DumpFunction(_, _, _)
DumpFunction(f, p, stripping) ==
  DumpString(IF f.source = p \/ stripping THEN NULL ELSE f.source)
  \o [i \in 1..Len(f.head) |-> <<f.head[i]>>]
  \o DumpVector(f.code) \o DumpEach(DumpConstant, f.k)
  \o DumpEach(LAMBDA q : DumpFunction(q, f.source, stripping), f.p)
  \o DumpDebug(f, stripping)

luaU_dump(f, stripping) == <<luaU_header(Here)>> \o DumpFunction(f, NULL, stripping)

-----------------------------------------------------------------------------
(* lundump.c: each operator reads from a place in the file and gives what  *)
(* it read and the place after it.  After an error that place is Failed,   *)
(* from which nothing can be read: the error is thrown.                    *)

Failed(file) == Len(file) + 2

LoadBlock(file, at, n) ==
  IF at + n <= Len(file) + 1 THEN [v |-> SubSeq(file, at, at + n - 1), at |-> at + n]
                             ELSE [v |-> [i \in 1..n |-> 0], at |-> Failed(file)]

LoadChar(file, at) ==
  LET r == LoadBlock(file, at, 1) IN [v |-> r.v[1], at |-> r.at]

LoadInt(file, at) ==
  LET r == LoadChar(file, at) IN IF r.v < 0 THEN [v |-> 0, at |-> Failed(file)] ELSE r

LoadString(file, at) ==
  LET size == LoadChar(file, at)
      r == LoadBlock(file, size.at, size.v)
  IN  IF size.v = 0 THEN [v |-> NULL, at |-> size.at]
                    ELSE [v |-> SubSeq(r.v, 1, size.v - 1), at |-> r.at]

LoadVector(file, at) ==
  LET n == LoadInt(file, at) IN LoadBlock(file, n.at, n.v)

LoadConstant(file, at) ==
  LET t == LoadChar(file, at)
      c == LoadChar(file, t.at)
      s == LoadString(file, t.at)
  IN  CASE t.v = LUA_TNIL -> [v |-> [t |-> LUA_TNIL, v |-> <<>>], at |-> t.at]
        [] t.v = LUA_TBOOLEAN -> [v |-> [t |-> t.v, v |-> <<IF c.v # 0 THEN 1 ELSE 0>>], at |-> c.at]
        [] t.v = LUA_TNUMBER -> [v |-> [t |-> t.v, v |-> <<c.v>>], at |-> c.at]
        [] t.v = LUA_TSTRING -> [v |-> [t |-> t.v, v |-> s.v], at |-> s.at]
        [] OTHER -> [v |-> [t |-> LUA_TNIL, v |-> <<>>], at |-> Failed(file)]

LoadLocVar(file, at) ==
  LET name == LoadString(file, at)
      from == LoadInt(file, name.at)
      to == LoadInt(file, from.at)
  IN  [v |-> [varname |-> name.v, startpc |-> from.v, endpc |-> to.v], at |-> to.at]

\* A count and as many elements.
LoadEach(Load(_, _), file, at) ==
  LET n == LoadInt(file, at)
  IN  FoldLeft(LAMBDA so, i : LET r == Load(file, so.at)
                              IN  [v |-> Append(so.v, r.v), at |-> r.at],
               [v |-> <<>>, at |-> n.at], [i \in 1..n.v |-> i])

\* luaG_checkcode accepts every function the compiler makes.
RECURSIVE LoadFunction(_, _, _, _)
LoadFunction(file, at, p, nCcalls) ==
  IF nCcalls > MaxCCalls THEN [v |-> NoProto, at |-> Failed(file)]
  ELSE LET source == LoadString(file, at)
           name == IF source.v = NULL THEN p ELSE source.v
           head == LoadBlock(file, source.at, 6)
           code == LoadVector(file, head.at)
           k == LoadEach(LoadConstant, file, code.at)
           fs == LoadEach(LAMBDA fi, a : LoadFunction(fi, a, name, nCcalls + 1), file, k.at)
           lineinfo == LoadVector(file, fs.at)
           locvars == LoadEach(LoadLocVar, file, lineinfo.at)
           upvalues == LoadEach(LoadString, file, locvars.at)
       IN  [v |-> [source |-> name, head |-> head.v, code |-> code.v, k |-> k.v, p |-> fs.v,
                   lineinfo |-> lineinfo.v, locvars |-> locvars.v, upvalues |-> upvalues.v],
            at |-> upvalues.at]

\* The name "=?" a main function without a source gets.
Unknown == <<9>>

luaU_undump(file, machine) ==
  LET h == LoadBlock(file, 1, Len(luaU_header(machine)))
      r == LoadFunction(file, h.at, Unknown, 1)
  IN  IF h.v # luaU_header(machine) \/ r.at = Failed(file) THEN Refused ELSE r.v

-----------------------------------------------------------------------------
(* luac.c. *)

OP_CLOSURE(i) == 10 + i
OP_CALL == 2
OP_RETURN == 3
LuacName == <<8>>

\* Several main functions become the functions of one that calls them in turn.
combine(fs) ==
  IF Len(fs) = 1 THEN fs[1]
  ELSE [NoProto EXCEPT !.source = LuacName, !.head = <<0, 0, 0, 0, 0, 1>>, !.p = fs,
          !.code = FlattenSeq([i \in DOMAIN fs |-> <<OP_CLOSURE(i), OP_CALL>>]) \o <<OP_RETURN>>]

Init ==
  /\ strip \in BOOLEAN /\ todo \in 1..MaxFiles
  /\ stack = <<>> /\ main = NoProto /\ blocks = <<>> /\ disk = <<>>
  /\ status = "compiling" /\ reader = Here /\ loaded = NoProto

\* luaL_loadfile gives a main function, or the compiler ends without output.
Compile ==
  /\ status = "compiling" /\ todo > 0
  /\ \/ \E f \in Mains : stack' = Append(stack, f) /\ todo' = todo - 1 /\ UNCHANGED status
     \/ status' = "failure" /\ UNCHANGED <<stack, todo>>
  /\ UNCHANGED <<strip, main, blocks, disk, reader, loaded>>

\* The output is opened, which empties it.
Open ==
  /\ status = "compiling" /\ todo = 0
  /\ main' = combine(stack)
  /\ \/ status' = "dumping" /\ blocks' = luaU_dump(main', strip)
     \/ status' = "failure" /\ UNCHANGED blocks
  /\ UNCHANGED <<strip, todo, stack, disk, reader, loaded>>

\* fwrite wrote w units of the block; a block of no bytes is never an error.
writer(b, w) == w = Len(b) \/ b = <<>>

DumpBlock ==
  /\ status \in {"dumping", "broken"} /\ blocks # <<>>
  /\ blocks' = Tail(blocks)
  /\ IF status = "broken" THEN UNCHANGED <<disk, status>>
     ELSE \E w \in {0, Len(Head(blocks)) \div 2, Len(Head(blocks))} :
            /\ disk' = disk \o SubSeq(Head(blocks), 1, w)
            /\ status' = IF writer(Head(blocks), w) THEN "dumping" ELSE "broken"
  /\ UNCHANGED <<strip, todo, stack, main, reader, loaded>>

Finish_unchecked ==
  /\ status \in {"dumping", "broken"} /\ blocks = <<>>
  /\ status' = "success" /\ UNCHANGED disk
  /\ UNCHANGED <<strip, todo, stack, main, blocks, reader, loaded>>

\* ferror, then fclose, which may find that the last bytes cannot be written.
Finish ==
  /\ status \in {"dumping", "broken"} /\ blocks = <<>>
  /\ \/ status = "broken" /\ status' = "failure" /\ UNCHANGED disk
     \/ status = "dumping" /\ status' = "success" /\ UNCHANGED disk
     \/ status = "dumping" /\ status' = "failure" /\ disk' = Front(disk)
  /\ UNCHANGED <<strip, todo, stack, main, blocks, reader, loaded>>

\* A program on some machine loads the output, whatever luac said, or while it still
\* writes.
Load ==
  /\ loaded = NoProto /\ status # "compiling"
  /\ \E m \in Machines : reader' = m /\ loaded' = luaU_undump(disk, m)
  /\ UNCHANGED <<strip, todo, stack, main, blocks, disk, status>>

Next == Compile \/ Open \/ DumpBlock \/ Finish \/ Load

Spec == Init /\ [][Next]_vars

-----------------------------------------------------------------------------
RECURSIVE Depth(_)
Depth(f) == 1 + FoldLeft(LAMBDA d, q : IF Depth(q) > d THEN Depth(q) ELSE d, 0, f.p)

\* What is left of a function without its debug information.
RECURSIVE Bare(_)
Bare(f) == [f EXCEPT !.source = Unknown, !.lineinfo = <<>>, !.locvars = <<>>, !.upvalues = <<>>,
                     !.p = [i \in DOMAIN f.p |-> Bare(f.p[i])]]

Meant == IF strip THEN Bare(main) ELSE main

\* The state is well typed.
TypeOK ==
  /\ strip \in BOOLEAN /\ todo \in 0..MaxFiles /\ Len(stack) + todo <= MaxFiles
  /\ status \in {"compiling", "dumping", "broken", "success", "failure"}
  /\ status = "success" => blocks = <<>>

\* When luac reports success, the file gives back the function it compiled, with
\* every constant, nested function and source name, and all of the debug
\* information unless it was stripped; only nesting beyond the C limit is refused.
Complete ==
  status = "success" /\ Depth(main) <= MaxCCalls => luaU_undump(disk, Here) = Meant

\* A file that was cut off at any point, because the device filled up or because
\* it is read while it is being written, is refused as a whole; so is the file of
\* a machine with other sizes.
NothingHalf == loaded \in {NoProto, Refused} \/ (loaded = Meant /\ reader = Here)

\* The functions a combined chunk calls, by the registers it uses.
Called(f) ==
  LET Closures == SelectSeq(f.code, LAMBDA i : i > OP_CLOSURE(0))
  IN  [j \in DOMAIN Closures |-> f.p[Closures[j] - 10].head]

\* The chunk of several files runs every one of them, once and in their order.
RunsInOrder ==
  loaded \notin {NoProto, Refused} /\ Len(stack) > 1 =>
    Called(loaded) = [i \in DOMAIN stack |-> stack[i].head]
=============================================================================
