------------------------------- MODULE CodeGen ------------------------------
(***************************************************************************)
(* lcode.c: the code generator.  It translates an expression while the     *)
(* parser reads it, in one pass and without a syntax tree: what is known   *)
(* of an expression is its descriptor (expdesc), which says where its      *)
(* value is or how to get it, and two lists of jumps to take when it turns *)
(* out true or false.  The lists are threaded through the operands of the  *)
(* jump instructions themselves until their target is known.               *)
(*                                                                         *)
(* A function of the source that changes the function state fs or a        *)
(* descriptor e is an operator that returns the changed ones: a function   *)
(* state, or a record of the fields fs, e, l (a list of jumps) or r (a     *)
(* register or constant operand).  fs.sound says that every lua_assert so  *)
(* far was true (the program is built without them); fs.err is the first   *)
(* error raised.  luaX_syntaxerror leaves the compiler; here compilation   *)
(* goes on with fs.err set, and its result is not used.                    *)
(*                                                                         *)
(* pc counts from 0, as in the source: instruction pc is fs.code[pc + 1].  *)
(* Line information is left out.                                           *)
(***************************************************************************)
EXTENDS LuaValue, SequencesExt

CONSTANTS MAXSTACK,           \* registers a function may use
          MAXINDEXRK,         \* last constant an operand can name
          MAXARG_sBx,         \* longest jump
          MAXARG_C,           \* largest operand C
          LFIELDS_PER_FLUSH   \* list items stored by one SETLIST

ASSUME LimitsAssumption ==
  /\ MAXSTACK \in 1..250
  /\ MAXINDEXRK \in 0..255
  /\ MAXARG_sBx \in Nat
  /\ MAXARG_C \in Nat
  /\ LFIELDS_PER_FLUSH \in Nat \ {0}

NO_JUMP == -1
NO_REG == 255
BITRK == 256
ISK(x) == x >= BITRK
RKASK(x) == x + BITRK
LUA_MULTRET == -1

(* the opcodes, in the order of lopcodes.h *)
OpCodes == <<"MOVE", "LOADK", "LOADBOOL", "LOADNIL", "GETUPVAL", "GETGLOBAL", "GETTABLE",
             "SETGLOBAL", "SETUPVAL", "SETTABLE", "NEWTABLE", "SELF", "ADD", "SUB", "MUL",
             "DIV", "MOD", "POW", "UNM", "NOT", "LEN", "CONCAT", "JMP", "EQ", "LT", "LE",
             "TEST", "TESTSET", "CALL", "TAILCALL", "RETURN", "FORLOOP", "FORPREP",
             "TFORLOOP", "SETLIST", "CLOSE", "CLOSURE", "VARARG">>

Instr(o, a, b, c) == [op |-> o, a |-> a, b |-> b, c |-> c]

(* A number in the place of an instruction, and the number such a place    *)
(* holds: the opcode is in the six lowest bits, A in the eight above.      *)
OpNumber(op) == CHOOSE i \in 0..(Len(OpCodes) - 1) : OpCodes[i + 1] = op
NumberWord(n) == Instr(OpCodes[(n % 64) + 1], n \div 64, 0, 0)
WordNumber(i) == OpNumber(i.op) + 64 * i.a

(* testTMode: the next instruction is a jump *)
TestModes == {"EQ", "LT", "LE", "TEST", "TESTSET", "TFORLOOP"}

(* init_exp, lparser.c *)
Exp(k, info) ==
  [k |-> k, info |-> info, aux |-> 0, nval |-> Nil, t |-> NO_JUMP, f |-> NO_JUMP]
NoExp == Exp("VVOID", 0)

hasjumps(e) == e.t # e.f
isnumeral(e) == e.k = "VKNUM" /\ e.t = NO_JUMP /\ e.f = NO_JUMP

PC(fs) == Len(fs.code)
At(fs, pc) == fs.code[pc + 1]
Asserted(fs, p) == [fs EXCEPT !.sound = @ /\ p]
SyntaxError(fs, what) == [fs EXCEPT !.err = IF @ = "" THEN what ELSE @]

(***************************************************************************)
(* Jumps.                                                                  *)
(***************************************************************************)
fixjump(fs, pc, dest) ==
  LET offset == dest - (pc + 1)
      f == Asserted(fs, dest # NO_JUMP)
  IN IF offset > MAXARG_sBx \/ -offset > MAXARG_sBx
     THEN SyntaxError(f, "control structure too long")
     ELSE [f EXCEPT !.code[pc + 1].b = offset]

luaK_getlabel(fs) == [fs EXCEPT !.lasttarget = PC(fs)]

getjump(fs, pc) ==
  IF At(fs, pc).b = NO_JUMP THEN NO_JUMP ELSE pc + 1 + At(fs, pc).b

RECURSIVE JumpList(_, _)
JumpList(fs, list) ==
  IF list = NO_JUMP THEN <<>> ELSE <<list>> \o JumpList(fs, getjump(fs, list))

getjumpcontrol(fs, pc) ==
  IF pc >= 1 /\ At(fs, pc - 1).op \in TestModes THEN pc - 1 ELSE pc

need_value(fs, list) ==
  \E i \in DOMAIN JumpList(fs, list) :
    At(fs, getjumpcontrol(fs, JumpList(fs, list)[i])).op # "TESTSET"

Testset(fs, node) == At(fs, getjumpcontrol(fs, node)).op = "TESTSET"

patchtestreg(fs, node, reg) ==
  LET i == getjumpcontrol(fs, node)
      in == At(fs, i)
  IN CASE ~Testset(fs, node) -> fs
       [] Testset(fs, node) /\ reg # NO_REG /\ reg # in.b -> [fs EXCEPT !.code[i + 1].a = reg]
       [] OTHER -> [fs EXCEPT !.code[i + 1] = Instr("TEST", in.b, 0, in.c)]

removevalues(fs, list) ==
  FoldLeft(LAMBDA f, node : patchtestreg(f, node, NO_REG), fs, JumpList(fs, list))

patchlistaux(fs, list, vtarget, reg, dtarget) ==
  FoldLeft(LAMBDA f, node : fixjump(patchtestreg(f, node, reg), node,
                                    IF Testset(f, node) THEN vtarget ELSE dtarget),
           fs, JumpList(fs, list))

dischargejpc(fs) ==
  [patchlistaux(fs, fs.jpc, PC(fs), NO_REG, PC(fs)) EXCEPT !.jpc = NO_JUMP]

luaK_code(fs, i) ==
  LET f == dischargejpc(fs) IN [f EXCEPT !.code = Append(@, i)]

luaK_codeABC(fs, o, a, b, c) == luaK_code(fs, Instr(o, a, b, c))

(* luaK_codeABx and luaK_codeAsBx: the long operand is kept in b *)
luaK_codeABx(fs, o, a, bx) == luaK_code(fs, Instr(o, a, bx, 0))

luaK_concat(fs, l1, l2) ==
  CASE l2 = NO_JUMP -> [fs |-> fs, l |-> l1]
    [] l2 # NO_JUMP /\ l1 = NO_JUMP -> [fs |-> fs, l |-> l2]
    [] OTHER -> [fs |-> fixjump(fs, Last(JumpList(fs, l1)), l2), l |-> l1]

luaK_patchtohere(fs, list) ==
  LET s == luaK_concat(fs, fs.jpc, list)
  IN luaK_getlabel([s.fs EXCEPT !.jpc = s.l])

luaK_patchlist(fs, list, target) ==
  IF target = PC(fs) THEN luaK_patchtohere(fs, list)
  ELSE patchlistaux(Asserted(fs, target < PC(fs)), list, target, NO_REG, target)

luaK_jump(fs) ==
  LET f == luaK_codeABx([fs EXCEPT !.jpc = NO_JUMP], "JMP", 0, NO_JUMP)
  IN luaK_concat(f, PC(fs), fs.jpc)  \* the jumps to here are kept on hold

condjump(fs, o, a, b, c) == luaK_jump(luaK_codeABC(fs, o, a, b, c))

luaK_ret(fs, first, nret) == luaK_codeABC(fs, "RETURN", first, nret + 1, 0)

-----------------------------------------------------------------------------
(***************************************************************************)
(* Registers and constants.                                                *)
(***************************************************************************)
luaK_checkstack(fs, n) ==
  LET newstack == fs.freereg + n
      f == IF newstack >= MAXSTACK THEN SyntaxError(fs, "function or expression too complex")
           ELSE fs
  IN IF newstack > fs.maxstacksize THEN [f EXCEPT !.maxstacksize = newstack] ELSE fs

luaK_reserveregs(fs, n) == [luaK_checkstack(fs, n) EXCEPT !.freereg = @ + n]

freereg(fs, reg) ==
  IF ISK(reg) \/ reg < fs.nactvar THEN fs
  ELSE LET f == [fs EXCEPT !.freereg = @ - 1] IN Asserted(f, reg = f.freereg)

freeexp(fs, e) == IF e.k = "VNONRELOC" THEN freereg(fs, e.info) ELSE fs

(* luaK_stringK, luaK_numberK, boolK, nilK: the index of the constant v *)
addk(fs, v) ==
  IF \E i \in DOMAIN fs.consts : fs.consts[i] = v
  THEN [fs |-> fs, r |-> (CHOOSE i \in DOMAIN fs.consts : fs.consts[i] = v) - 1]
  ELSE [fs |-> [fs EXCEPT !.consts = Append(@, v)], r |-> Len(fs.consts)]

luaK_nil(fs, from, n) ==
  LET previous == At(fs, PC(fs) - 1)
      emitted == luaK_codeABC(fs, "LOADNIL", from, from + n - 1, 0)
  IN CASE PC(fs) <= fs.lasttarget -> emitted   \* a jump may arrive here
       [] PC(fs) > fs.lasttarget /\ PC(fs) = 0 /\ from >= fs.nactvar -> fs
       [] PC(fs) > fs.lasttarget /\ PC(fs) > 0 /\ previous.op = "LOADNIL"
            /\ previous.a <= from /\ from <= previous.b + 1 ->
          IF from + n - 1 > previous.b THEN [fs EXCEPT !.code[PC(fs)].b = from + n - 1] ELSE fs
       [] OTHER -> emitted

(***************************************************************************)
(* From a descriptor to a value in a register.                             *)
(***************************************************************************)
luaK_setreturns(fs, e, nresults) ==
  CASE e.k = "VCALL" -> [fs EXCEPT !.code[e.info + 1].c = nresults + 1]
    [] e.k = "VVARARG" ->
         luaK_reserveregs([fs EXCEPT !.code[e.info + 1].b = nresults + 1,
                                     !.code[e.info + 1].a = fs.freereg], 1)
    [] OTHER -> fs

luaK_setmultret(fs, e) == luaK_setreturns(fs, e, LUA_MULTRET)

luaK_setoneret(fs, e) ==
  CASE e.k = "VCALL" -> [fs |-> fs, e |-> [e EXCEPT !.k = "VNONRELOC", !.info = At(fs, e.info).a]]
    [] e.k = "VVARARG" -> [fs |-> [fs EXCEPT !.code[e.info + 1].b = 2],
                           e |-> [e EXCEPT !.k = "VRELOCABLE"]]
    [] OTHER -> [fs |-> fs, e |-> e]

luaK_dischargevars(fs, e) ==
  LET Loads(f, o, b, c) == [fs |-> luaK_codeABC(f, o, 0, b, c),
                            e |-> [e EXCEPT !.k = "VRELOCABLE", !.info = PC(f)]]
  IN CASE e.k = "VLOCAL" -> [fs |-> fs, e |-> [e EXCEPT !.k = "VNONRELOC"]]
       [] e.k = "VUPVAL" -> Loads(fs, "GETUPVAL", e.info, 0)
       [] e.k = "VGLOBAL" -> Loads(fs, "GETGLOBAL", e.info, 0)
       [] e.k = "VINDEXED" ->
            Loads(freereg(freereg(fs, e.aux), e.info), "GETTABLE", e.info, e.aux)
       [] OTHER -> luaK_setoneret(fs, e)

code_label(fs, a, b, skip) == luaK_codeABC(luaK_getlabel(fs), "LOADBOOL", a, b, skip)

discharge2reg(fs, e, reg) ==
  LET d == luaK_dischargevars(fs, e)
      k == d.e.k
      f == CASE k = "VNIL" -> luaK_nil(d.fs, reg, 1)
             [] k \in {"VFALSE", "VTRUE"} ->
                  luaK_codeABC(d.fs, "LOADBOOL", reg, IF k = "VTRUE" THEN 1 ELSE 0, 0)
             [] k = "VK" -> luaK_codeABx(d.fs, "LOADK", reg, d.e.info)
             [] k = "VKNUM" -> LET c == addk(d.fs, d.e.nval)
                               IN luaK_codeABx(c.fs, "LOADK", reg, c.r)
             [] k = "VRELOCABLE" -> [d.fs EXCEPT !.code[d.e.info + 1].a = reg]
             [] k = "VNONRELOC" /\ d.e.info # reg -> luaK_codeABC(d.fs, "MOVE", reg, d.e.info, 0)
             [] OTHER -> Asserted(d.fs, k \in {"VNONRELOC", "VVOID", "VJMP"})
  IN [fs |-> f, e |-> IF k \in {"VVOID", "VJMP"} THEN d.e
                      ELSE [d.e EXCEPT !.k = "VNONRELOC", !.info = reg]]

discharge2anyreg(fs, e) ==
  IF e.k = "VNONRELOC" THEN [fs |-> fs, e |-> e]
  ELSE LET f == luaK_reserveregs(fs, 1) IN discharge2reg(f, e, f.freereg - 1)

(* The jumps of e go after the expression when they leave a value in reg,  *)
(* and to an instruction that loads false or true otherwise.               *)
exp2reg(fs, e, reg) ==
  LET d == discharge2reg(fs, e, reg)
      isjump == d.e.k = "VJMP"
      c == IF isjump THEN luaK_concat(d.fs, d.e.t, d.e.info) ELSE [fs |-> d.fs, l |-> d.e.t]
      loads == need_value(c.fs, c.l) \/ need_value(c.fs, d.e.f)
      j == IF isjump THEN [fs |-> c.fs, l |-> NO_JUMP] ELSE luaK_jump(c.fs)
      lf == code_label(j.fs, reg, 0, 1)
      lt == code_label(lf, reg, 1, 0)
      s == luaK_getlabel(IF loads THEN luaK_patchtohere(lt, j.l) ELSE c.fs)
      pf == patchlistaux(s, d.e.f, PC(s), reg, IF loads THEN PC(lf) - 1 ELSE NO_JUMP)
      pt == patchlistaux(pf, c.l, PC(s), reg, IF loads THEN PC(lt) - 1 ELSE NO_JUMP)
  IN [fs |-> IF c.l # d.e.f THEN pt ELSE c.fs, e |-> Exp("VNONRELOC", reg)]

luaK_exp2nextreg(fs, e) ==
  LET d == luaK_dischargevars(fs, e)
      f == luaK_reserveregs(freeexp(d.fs, d.e), 1)
  IN exp2reg(f, d.e, f.freereg - 1)

luaK_exp2anyreg(fs, e) ==
  LET d == luaK_dischargevars(fs, e)
      held == d.e.k = "VNONRELOC"
  IN CASE held /\ ~hasjumps(d.e) -> d
       [] held /\ hasjumps(d.e) /\ d.e.info >= d.fs.nactvar -> exp2reg(d.fs, d.e, d.e.info)
       [] OTHER -> luaK_exp2nextreg(d.fs, d.e)

luaK_exp2val(fs, e) ==
  IF hasjumps(e) THEN luaK_exp2anyreg(fs, e) ELSE luaK_dischargevars(fs, e)

luaK_exp2RK(fs, e) ==
  LET d == luaK_exp2val(fs, e)
      v == CASE d.e.k = "VNIL" -> Nil
             [] d.e.k \in {"VTRUE", "VFALSE"} -> Bool(d.e.k = "VTRUE")
             [] OTHER -> d.e.nval
      c == addk(d.fs, v)
      a == luaK_exp2anyreg(d.fs, d.e)
  IN CASE d.e.k \in {"VKNUM", "VTRUE", "VFALSE", "VNIL"} /\ Len(d.fs.consts) <= MAXINDEXRK ->
            [fs |-> c.fs, e |-> [d.e EXCEPT !.k = "VK", !.info = c.r], r |-> RKASK(c.r)]
       [] d.e.k = "VK" /\ d.e.info <= MAXINDEXRK ->
            [fs |-> d.fs, e |-> d.e, r |-> RKASK(d.e.info)]
       [] OTHER -> [fs |-> a.fs, e |-> a.e, r |-> a.e.info]

luaK_storevar(fs, var, ex) ==
  LET a == luaK_exp2anyreg(fs, ex)
      rk == luaK_exp2RK(fs, ex)
  IN CASE var.k = "VLOCAL" -> exp2reg(freeexp(fs, ex), ex, var.info).fs
       [] var.k = "VUPVAL" ->
            freeexp(luaK_codeABC(a.fs, "SETUPVAL", a.e.info, var.info, 0), a.e)
       [] var.k = "VGLOBAL" ->
            freeexp(luaK_codeABx(a.fs, "SETGLOBAL", a.e.info, var.info), a.e)
       [] var.k = "VINDEXED" ->
            freeexp(luaK_codeABC(rk.fs, "SETTABLE", var.info, var.aux, rk.r), rk.e)
       [] OTHER -> Asserted(fs, FALSE)

luaK_self(fs, e, key) ==
  LET a == luaK_exp2anyreg(fs, e)
      f == luaK_reserveregs(freeexp(a.fs, a.e), 2)
      func == f.freereg - 2
      rk == luaK_exp2RK(f, key)
  IN [fs |-> freeexp(luaK_codeABC(rk.fs, "SELF", func, a.e.info, rk.r), rk.e),
      e |-> [a.e EXCEPT !.k = "VNONRELOC", !.info = func]]

luaK_indexed(fs, t, k) ==
  LET rk == luaK_exp2RK(fs, k)
  IN [fs |-> rk.fs, e |-> [t EXCEPT !.aux = rk.r, !.k = "VINDEXED"]]

luaK_setlist(fs, base, nelems, tostore) ==
  LET c == ((nelems - 1) \div LFIELDS_PER_FLUSH) + 1
      b == IF tostore = LUA_MULTRET THEN 0 ELSE tostore
      s == Asserted(fs, tostore # 0)
      f == IF c <= MAXARG_C THEN luaK_codeABC(s, "SETLIST", base, b, c)
           ELSE luaK_code(luaK_codeABC(s, "SETLIST", base, b, 0), NumberWord(c))
  IN [f EXCEPT !.freereg = base + 1]

(***************************************************************************)
(* Operators.                                                              *)
(***************************************************************************)
invertjump(fs, e) ==
  LET i == getjumpcontrol(fs, e.info)
      ok == At(fs, i).op \in TestModes \ {"TESTSET", "TEST"}
  IN [Asserted(fs, ok) EXCEPT !.code[i + 1].a = 1 - @]

jumponcond(fs, e, cond) ==
  LET d == discharge2anyreg(fs, e)
  IN IF e.k = "VRELOCABLE" /\ At(fs, e.info).op = "NOT"
     THEN condjump([fs EXCEPT !.code = Front(@)], "TEST", At(fs, e.info).b, 0, 1 - cond)
     ELSE condjump(freeexp(d.fs, d.e), "TESTSET", NO_REG, d.e.info, cond)

luaK_goiftrue(fs, e) ==
  LET d == luaK_dischargevars(fs, e)
      j == CASE d.e.k \in {"VK", "VKNUM", "VTRUE"} -> [fs |-> d.fs, l |-> NO_JUMP]
             [] d.e.k = "VJMP" -> [fs |-> invertjump(d.fs, d.e), l |-> d.e.info]
             [] OTHER -> jumponcond(d.fs, d.e, 0)
      c == luaK_concat(j.fs, d.e.f, j.l)
  IN [fs |-> luaK_patchtohere(c.fs, d.e.t), e |-> [d.e EXCEPT !.f = c.l, !.t = NO_JUMP]]

luaK_goiffalse(fs, e) ==
  LET d == luaK_dischargevars(fs, e)
      j == CASE d.e.k \in {"VNIL", "VFALSE"} -> [fs |-> d.fs, l |-> NO_JUMP]
             [] d.e.k = "VJMP" -> [fs |-> d.fs, l |-> d.e.info]
             [] OTHER -> jumponcond(d.fs, d.e, 1)
      c == luaK_concat(j.fs, d.e.t, j.l)
  IN [fs |-> luaK_patchtohere(c.fs, d.e.f), e |-> [d.e EXCEPT !.t = c.l, !.f = NO_JUMP]]

codenot(fs, e) ==
  LET d == luaK_dischargevars(fs, e)
      k == d.e.k
      r == discharge2anyreg(d.fs, d.e)
      f == freeexp(r.fs, r.e)
      n == CASE k \in {"VNIL", "VFALSE"} -> [fs |-> d.fs, e |-> [d.e EXCEPT !.k = "VTRUE"]]
             [] k \in {"VK", "VKNUM", "VTRUE"} -> [fs |-> d.fs, e |-> [d.e EXCEPT !.k = "VFALSE"]]
             [] k = "VJMP" -> [fs |-> invertjump(d.fs, d.e), e |-> d.e]
             [] k \in {"VRELOCABLE", "VNONRELOC"} ->
                  [fs |-> luaK_codeABC(f, "NOT", 0, r.e.info, 0),
                   e |-> [r.e EXCEPT !.k = "VRELOCABLE", !.info = PC(f)]]
             [] OTHER -> [fs |-> Asserted(d.fs, FALSE), e |-> d.e]
  IN [fs |-> removevalues(removevalues(n.fs, n.e.t), n.e.f),
      e |-> [n.e EXCEPT !.t = n.e.f, !.f = n.e.t]]

folds(op, e1, e2) ==
  /\ isnumeral(e1) /\ isnumeral(e2)
  /\ op \notin {"LEN", "CONCAT"}
  /\ op \in {"DIV", "MOD"} => e2.nval # Num(0)
  /\ luai_num(op, e1.nval, e2.nval) # NaN

codearith(fs, op, e1, e2) ==
  LET r2 == IF op \in {"UNM", "LEN"} THEN [fs |-> fs, e |-> e2, r |-> 0]
            ELSE luaK_exp2RK(fs, e2)
      r1 == luaK_exp2RK(r2.fs, e1)
      f == IF r1.r > r2.r THEN freeexp(freeexp(r1.fs, r1.e), r2.e)
           ELSE freeexp(freeexp(r1.fs, r2.e), r1.e)
  IN IF folds(op, e1, e2)
     THEN [fs |-> fs, e |-> [e1 EXCEPT !.nval = luai_num(op, e1.nval, e2.nval)]]
     ELSE [fs |-> luaK_codeABC(f, op, 0, r1.r, r2.r),
           e |-> [r1.e EXCEPT !.k = "VRELOCABLE", !.info = PC(f)]]

codecomp(fs, op, cond, e1, e2) ==
  LET r1 == luaK_exp2RK(fs, e1)
      r2 == luaK_exp2RK(r1.fs, e2)
      f == freeexp(freeexp(r2.fs, r2.e), r1.e)
      j == IF cond = 0 /\ op # "EQ" THEN condjump(f, op, 1, r2.r, r1.r)
           ELSE condjump(f, op, cond, r1.r, r2.r)
  IN [fs |-> j.fs, e |-> [r1.e EXCEPT !.k = "VJMP", !.info = j.l]]

luaK_prefix(fs, op, e) ==
  LET e2 == [Exp("VKNUM", 0) EXCEPT !.nval = Num(0)]
      a == luaK_exp2anyreg(fs, e)
  IN CASE op = "not" -> codenot(fs, e)
       [] op = "-" /\ isnumeral(e) -> codearith(fs, "UNM", e, e2)
       [] op = "-" /\ ~isnumeral(e) -> codearith(a.fs, "UNM", a.e, e2)
       [] op = "#" -> codearith(a.fs, "LEN", a.e, e2)

ArithOp == [o \in {"+", "-", "*", "%", "^"} |->
              CASE o = "+" -> "ADD" [] o = "-" -> "SUB" [] o = "*" -> "MUL"
                [] o = "%" -> "MOD" [] o = "^" -> "POW"]

luaK_infix(fs, op, v) ==
  CASE op = "and" -> luaK_goiftrue(fs, v)
    [] op = "or" -> luaK_goiffalse(fs, v)
    [] op = ".." -> luaK_exp2nextreg(fs, v)
    [] op \in DOMAIN ArithOp /\ isnumeral(v) -> [fs |-> fs, e |-> v]
    [] OTHER -> LET r == luaK_exp2RK(fs, v) IN [fs |-> r.fs, e |-> r.e]

luaK_posfix(fs, op, e1, e2) ==
  LET d == luaK_dischargevars(fs, e2)
      v == luaK_exp2val(fs, e2)
      n == luaK_exp2nextreg(v.fs, v.e)
      Comp(o, cond) == codecomp(fs, o, cond, e1, e2)
      And == luaK_concat(d.fs, d.e.f, e1.f)
      Or == luaK_concat(d.fs, d.e.t, e1.t)
  IN CASE op = "and" -> [fs |-> Asserted(And.fs, e1.t = NO_JUMP), e |-> [d.e EXCEPT !.f = And.l]]
       [] op = "or" -> [fs |-> Asserted(Or.fs, e1.f = NO_JUMP), e |-> [d.e EXCEPT !.t = Or.l]]
       [] op = ".." /\ v.e.k = "VRELOCABLE" /\ At(v.fs, v.e.info).op = "CONCAT" ->
            LET f == freeexp(Asserted(v.fs, e1.info = At(v.fs, v.e.info).b - 1), e1)
            IN [fs |-> [f EXCEPT !.code[v.e.info + 1].b = e1.info],
                e |-> [e1 EXCEPT !.k = "VRELOCABLE", !.info = v.e.info]]
       [] op = ".." -> codearith(n.fs, "CONCAT", e1, n.e)
       [] op \in DOMAIN ArithOp -> codearith(fs, ArithOp[op], e1, e2)
       [] op = "==" -> Comp("EQ", 1)
       [] op = "~=" -> Comp("EQ", 0)
       [] op = "<" -> Comp("LT", 1)
       [] op = "<=" -> Comp("LE", 1)
       [] op = ">" -> Comp("LT", 0)
       [] op = ">=" -> Comp("LE", 0)
=============================================================================
