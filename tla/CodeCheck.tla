------------------------------ MODULE CodeCheck -----------------------------
(***************************************************************************)
(* The code checker of ldebug.c.  luaG_checkcode is asserted of every      *)
(* function the parser finishes and required of every function that is     *)
(* loaded from a compiled chunk.  It reads the instructions one by one,    *)
(* with symbexec and no register to trace, and knows the operands of each  *)
(* opcode from the table luaP_opmodes of lopcodes.c.                       *)
(***************************************************************************)
EXTENDS CodeGen

(* the modes of the operands B and C of an opcode: N unused, U used, R a   *)
(* register (or a jump), K a register or a constant                        *)
Modes(op) ==
  CASE op \in {"MOVE", "LOADNIL", "UNM", "NOT", "LEN", "JMP", "FORLOOP", "FORPREP"} -> <<"R", "N">>
    [] op \in {"LOADK", "GETGLOBAL", "SETGLOBAL"} -> <<"K", "N">>
    [] op \in {"LOADBOOL", "NEWTABLE", "CALL", "TAILCALL", "SETLIST"} -> <<"U", "U">>
    [] op \in {"GETUPVAL", "SETUPVAL", "RETURN", "CLOSURE", "VARARG"} -> <<"U", "N">>
    [] op \in {"GETTABLE", "SELF"} -> <<"R", "K">>
    [] op \in {"SETTABLE", "ADD", "SUB", "MUL", "DIV", "MOD", "POW", "EQ", "LT", "LE"} -> <<"K", "K">>
    [] op = "CONCAT" -> <<"R", "R">>
    [] op \in {"TEST", "TESTSET"} -> <<"R", "U">>
    [] op = "TFORLOOP" -> <<"N", "U">>
    [] op = "CLOSE" -> <<"N", "N">>

ABx == {"LOADK", "GETGLOBAL", "SETGLOBAL", "CLOSURE"}
AsBx == {"JMP", "FORLOOP", "FORPREP"}

checkreg(pt, r) == r < pt.maxstacksize

precheck(pt) ==
  /\ pt.maxstacksize <= MAXSTACK
  /\ pt.numparams + (IF "HASARG" \in pt.vararg THEN 1 ELSE 0) <= pt.maxstacksize
  /\ "NEEDSARG" \in pt.vararg => "HASARG" \in pt.vararg
  /\ pt.code # <<>> /\ Last(pt.code).op = "RETURN"

(* only these may follow an instruction with an open list of results *)
luaG_checkopenop(i) == i.op \in {"CALL", "TAILCALL", "RETURN", "SETLIST"} /\ i.b = 0

checkArgMode(pt, r, mode) ==
  CASE mode = "N" -> r = 0
    [] mode = "U" -> TRUE
    [] mode = "R" -> checkreg(pt, r)
    [] mode = "K" -> IF ISK(r) THEN r - BITRK < Len(pt.consts) ELSE checkreg(pt, r)

(* SETLIST takes the next word as its count *)
LongSetlist(i) == i.op = "SETLIST" /\ i.c = 0

(* the number of words before dest that look like such a SETLIST is even *)
checkdest(pt, dest) ==
  LET looks == {j \in 0..dest : \A k \in (dest - j + 1)..dest : LongSetlist(pt.code[k])}
      j == CHOOSE j \in looks : \A k \in looks : k <= j
  IN dest \in 0..(Len(pt.code) - 1) /\ j % 2 = 0

checkinstruction(pt, pc) ==
  LET At1(k) == pt.code[k + 1]
      i == At1(pc)
      a == i.a
      b == i.b
      c == i.c
      size == Len(pt.code)
  IN /\ checkreg(pt, a)
     /\ CASE i.op \in ABx -> Modes(i.op)[1] = "K" => b < Len(pt.consts)
          [] i.op \in AsBx -> checkdest(pt, pc + 1 + b)
          [] OTHER -> checkArgMode(pt, b, Modes(i.op)[1]) /\ checkArgMode(pt, c, Modes(i.op)[2])
     /\ i.op \in TestModes => pc + 2 < size /\ At1(pc + 1).op = "JMP"
     /\ CASE i.op = "LOADBOOL" -> c = 1 => pc + 2 < size /\ ~LongSetlist(At1(pc + 1))
          [] i.op \in {"GETUPVAL", "SETUPVAL"} -> b < pt.nups
          [] i.op \in {"GETGLOBAL", "SETGLOBAL"} -> pt.consts[b + 1].ty = "string"
          [] i.op = "SELF" -> checkreg(pt, a + 1)
          [] i.op = "CONCAT" -> b < c
          [] i.op = "TFORLOOP" -> c >= 1 /\ checkreg(pt, a + 2 + c)
          [] i.op \in {"FORLOOP", "FORPREP"} -> checkreg(pt, a + 3)
          [] i.op \in {"CALL", "TAILCALL"} ->
               /\ b # 0 => checkreg(pt, a + b - 1)
               /\ IF c = 0 THEN luaG_checkopenop(At1(pc + 1)) ELSE c # 1 => checkreg(pt, a + c - 2)
          [] i.op = "RETURN" -> b > 1 => checkreg(pt, a + b - 2)
          [] i.op = "SETLIST" -> (b > 0 => checkreg(pt, a + b)) /\ (c = 0 => pc + 1 < size - 1)
          [] i.op = "CLOSURE" ->
               /\ b < Len(pt.protos)
               /\ pc + pt.protos[b + 1].nups < size
               /\ \A j \in 1..pt.protos[b + 1].nups : At1(pc + j).op \in {"GETUPVAL", "MOVE"}
          [] i.op = "VARARG" ->
               /\ "ISVARARG" \in pt.vararg /\ "NEEDSARG" \notin pt.vararg
               /\ b = 0 => luaG_checkopenop(At1(pc + 1))
               /\ checkreg(pt, a + b - 2)
          [] OTHER -> TRUE

RECURSIVE symbexec(_, _)
symbexec(pt, pc) ==
  pc >= Len(pt.code) \/ (/\ checkinstruction(pt, pc)
                         /\ symbexec(pt, pc + (IF LongSetlist(pt.code[pc + 1]) THEN 2 ELSE 1)))

luaG_checkcode(pt) == precheck(pt) /\ symbexec(pt, 0)
=============================================================================
