------------------------------- MODULE Parser -------------------------------
(***************************************************************************)
(* lparser.c: the parser, which drives the code generator.                 *)
(*                                                                         *)
(* The program is given as the parser meets it, without the punctuation: a *)
(* chunk is a sequence of statements, and an expression the sequence of    *)
(* its operators and operands, so that the grouping by priority is the     *)
(* parser's work.  An operand, statement or token is a record whose field  *)
(* t (st for a statement) tells its kind:                                  *)
(*   num n, str s, nil, true, false, dots, table fields, function fn,      *)
(*   name s, paren x, index p x, field p s, call p xs, method p s xs       *)
(* where s is a text, x an expression, xs a list of expressions, p an      *)
(* operand and b a chunk.  The calls f"s" and f{...} are calls with one    *)
(* argument.  A name is the sequence of its characters.                    *)
(*                                                                         *)
(* P is the state of the parser: P.fss are the functions being compiled,   *)
(* the innermost last, and P.lev counts the nested levels.                 *)
(***************************************************************************)
EXTENDS CodeCheck

CONSTANTS LUAI_MAXVARS,      \* local variables of a function
          LUAI_MAXUPVALUES,  \* upvalues of a function
          LUAI_MAXCCALLS     \* nested levels

ASSUME ParserAssumption ==
  LUAI_MAXVARS \in Nat /\ LUAI_MAXUPVALUES \in Nat /\ LUAI_MAXCCALLS \in Nat

Cur(P) == Last(P.fss)
With(P, fs) == [P EXCEPT !.fss[Len(P.fss)] = fs]

(* hasmultret *)
hasmultret(k) == k \in {"VCALL", "VVARARG"}

enterlevel(P) ==
  LET Q == [P EXCEPT !.lev = @ + 1]
  IN IF Q.lev > LUAI_MAXCCALLS
     THEN With(Q, SyntaxError(Cur(Q), "chunk has too many syntax levels")) ELSE Q

leavelevel(P) == [P EXCEPT !.lev = @ - 1]

(***************************************************************************)
(* Variables and blocks.  fs.vars[i] is the name of the local in register  *)
(* i - 1; the first fs.nactvar of them are active.                         *)
(***************************************************************************)
checklimit(fs, v, limit, what) == IF v > limit THEN SyntaxError(fs, what) ELSE fs

(* new_localvar for each of the names, in order *)
new_localvars(fs, names) ==
  [checklimit(fs, fs.nactvar + Len(names), LUAI_MAXVARS, "local variables")
     EXCEPT !.vars = SubSeq(@, 1, fs.nactvar) \o names]

adjustlocalvars(fs, nvars) == [fs EXCEPT !.nactvar = @ + nvars]
removevars(fs, tolevel) == [fs EXCEPT !.nactvar = tolevel]

searchvar(fs, n) ==
  LET found == {i \in 1..fs.nactvar : fs.vars[i] = n}
  IN IF found = {} THEN -1 ELSE (CHOOSE i \in found : \A j \in found : j <= i) - 1

markupval(fs, level) ==
  LET scopes == {i \in DOMAIN fs.bl : fs.bl[i].nactvar <= level}
  IN IF scopes = {} THEN fs
     ELSE [fs EXCEPT !.bl[CHOOSE i \in scopes : \A j \in scopes : j <= i].upval = TRUE]

indexupvalue(fs, v) ==
  LET u == [k |-> v.k, info |-> v.info]
      f == checklimit(fs, Len(fs.ups) + 1, LUAI_MAXUPVALUES, "upvalues")
  IN IF \E i \in DOMAIN fs.ups : fs.ups[i] = u
     THEN [fs |-> fs, r |-> (CHOOSE i \in DOMAIN fs.ups : fs.ups[i] = u) - 1]
     ELSE [fs |-> [f EXCEPT !.ups = Append(@, u)], r |-> Len(fs.ups)]

RECURSIVE singlevaraux(_, _, _, _)
singlevaraux(P, l, n, base) ==
  IF l = 0 THEN [P |-> P, e |-> Exp("VGLOBAL", NO_REG)]
  ELSE LET v == searchvar(P.fss[l], n)
           o == singlevaraux(P, l - 1, n, FALSE)
           u == indexupvalue(o.P.fss[l], o.e)
       IN CASE v >= 0 -> [P |-> IF base THEN P ELSE [P EXCEPT !.fss[l] = markupval(@, v)],
                          e |-> Exp("VLOCAL", v)]
            [] v < 0 /\ o.e.k = "VGLOBAL" -> o
            [] OTHER -> [P |-> [o.P EXCEPT !.fss[l] = u.fs], e |-> Exp("VUPVAL", u.r)]

(* checkname and codestring: the constant with this text *)
codestring(fs, s) == LET c == addk(fs, Str(s)) IN [fs |-> c.fs, e |-> Exp("VK", c.r)]

singlevar(P, n) ==
  LET s == singlevaraux(P, Len(P.fss), n, TRUE)
      c == codestring(Cur(s.P), n)
  IN IF s.e.k = "VGLOBAL" THEN [P |-> With(s.P, c.fs), e |-> Exp("VGLOBAL", c.e.info)] ELSE s

enterblock(fs, isbreakable) ==
  [Asserted(fs, fs.freereg = fs.nactvar) EXCEPT
     !.bl = Append(@, [breaklist |-> NO_JUMP, isbreakable |-> isbreakable,
                       nactvar |-> fs.nactvar, upval |-> FALSE])]

leaveblock(fs) ==
  LET bl == Last(fs.bl)
      f == removevars([fs EXCEPT !.bl = Front(@)], bl.nactvar)
      g == IF bl.upval THEN luaK_codeABC(f, "CLOSE", bl.nactvar, 0, 0) ELSE f
      h == Asserted(g, ~bl.isbreakable \/ ~bl.upval)
  IN luaK_patchtohere([h EXCEPT !.freereg = h.nactvar], bl.breaklist)

NewFunc ==
  [code |-> <<>>, consts |-> <<>>, protos |-> <<>>, jpc |-> NO_JUMP, lasttarget |-> -1,
   freereg |-> 0, nactvar |-> 0, vars |-> <<>>, bl |-> <<>>, ups |-> <<>>,
   maxstacksize |-> 2, numparams |-> 0, vararg |-> {}, sound |-> TRUE, err |-> ""]

open_func(P) == [P EXCEPT !.fss = Append(@, NewFunc)]

Proto(fs) ==
  [code |-> fs.code, consts |-> fs.consts, protos |-> fs.protos, maxstacksize |-> fs.maxstacksize,
   numparams |-> fs.numparams, vararg |-> fs.vararg, nups |-> Len(fs.ups)]

(* close_func: the finished function, whose state is given up *)
close_func(fs) ==
  LET f == luaK_ret(removevars(fs, 0), 0, 0)
  IN Asserted(Asserted(f, f.bl = <<>>), f.err = "" => luaG_checkcode(Proto(f)))

pushclosure(fs, func) ==
  LET f == [fs EXCEPT !.protos = Append(@, Proto(func)),
                      !.sound = @ /\ func.sound,
                      !.err = IF @ = "" THEN func.err ELSE @]
      Capture(g, u) ==
        luaK_codeABC(g, IF u.k = "VLOCAL" THEN "MOVE" ELSE "GETUPVAL", 0, u.info, 0)
  IN [fs |-> FoldLeft(Capture, luaK_codeABx(f, "CLOSURE", 0, Len(fs.protos)), func.ups),
      e |-> Exp("VRELOCABLE", PC(f))]

adjust_assign(fs, nvars, nexps, e) ==
  LET extra == nvars - nexps
      wanted == IF extra + 1 < 0 THEN 0 ELSE extra + 1  \* includes the call itself
      open == luaK_setreturns(fs, e, wanted)
      closed == IF e.k = "VVOID" THEN fs ELSE luaK_exp2nextreg(fs, e).fs
  IN CASE hasmultret(e.k) -> IF wanted > 1 THEN luaK_reserveregs(open, wanted - 1) ELSE open
       [] ~hasmultret(e.k) /\ extra > 0 ->
            luaK_nil(luaK_reserveregs(closed, extra), closed.freereg, extra)
       [] OTHER -> closed

(***************************************************************************)
(* Expressions.                                                            *)
(***************************************************************************)
UnOpr == {"not", "-", "#"}
UNARY_PRIORITY == 8

priority == [o \in {"+", "-", "*", "%", "^", "..", "==", "~=", "<", "<=", ">", ">=", "and", "or"} |->
  CASE o \in {"+", "-"} -> [left |-> 6, right |-> 6]
    [] o \in {"*", "%"} -> [left |-> 7, right |-> 7]
    [] o = "^" -> [left |-> 10, right |-> 9]
    [] o = ".." -> [left |-> 5, right |-> 4]
    [] o = "and" -> [left |-> 2, right |-> 2]
    [] o = "or" -> [left |-> 1, right |-> 1]
    [] OTHER -> [left |-> 3, right |-> 3]]

RECURSIVE subexpr(_, _, _), binops(_, _), simpleexp(_, _), primaryexp(_, _), chunk(_, _)

expr(P, x) == LET r == subexpr(P, x, 0) IN [P |-> r.P, e |-> r.e]

(* what the source writes expr(ls, v); luaK_exp2nextreg(fs, v) *)
exprnext(P, x) ==
  LET r == expr(P, x)
      n == luaK_exp2nextreg(Cur(r.P), r.e)
  IN [P |-> With(r.P, n.fs), e |-> n.e]

(* the list without its last expression is left in the next registers *)
explist1(P, xs) ==
  expr(FoldLeft(LAMBDA Q, x : exprnext(Q, x).P, P, Front(xs)), Last(xs))

yindex(P, x) ==
  LET r == expr(P, x)
      v == luaK_exp2val(Cur(r.P), r.e)
  IN [P |-> With(r.P, v.fs), e |-> v.e]

funcargs(P, f, xs) ==
  LET args == explist1(P, xs)
      fs == IF xs = <<>> THEN Cur(P) ELSE luaK_setmultret(Cur(args.P), args.e)
      open == xs # <<>> /\ hasmultret(args.e.k)
      closed == IF xs = <<>> \/ open THEN fs ELSE luaK_exp2nextreg(fs, args.e).fs
      nparams == IF open THEN LUA_MULTRET ELSE closed.freereg - (f.info + 1)
      call == luaK_codeABC(Asserted(closed, f.k = "VNONRELOC"), "CALL", f.info, nparams + 1, 2)
  IN [P |-> With(IF xs = <<>> THEN P ELSE args.P, [call EXCEPT !.freereg = f.info + 1]),
      e |-> Exp("VCALL", PC(closed))]

(***************************************************************************)
(* Table constructors.  The last list item read, cc.v, is not closed until *)
(* the next one is met, because an open call gives all its results only in *)
(* the last place.                                                         *)
(***************************************************************************)
closelistfield(fs, cc) ==
  LET n == luaK_exp2nextreg(fs, cc.v).fs
      full == cc.tostore = LFIELDS_PER_FLUSH
  IN IF cc.v.k = "VVOID" THEN [fs |-> fs, cc |-> cc]
     ELSE [fs |-> IF full THEN luaK_setlist(n, cc.t, cc.na, cc.tostore) ELSE n,
           cc |-> [cc EXCEPT !.v = NoExp, !.tostore = IF full THEN 0 ELSE @]]

lastlistfield(fs, cc) ==
  LET closed == IF cc.v.k = "VVOID" THEN fs ELSE luaK_exp2nextreg(fs, cc.v).fs
  IN CASE cc.tostore = 0 -> fs
       [] cc.tostore # 0 /\ hasmultret(cc.v.k) ->
            luaK_setlist(luaK_setmultret(fs, cc.v), cc.t, cc.na, LUA_MULTRET)
       [] OTHER -> luaK_setlist(closed, cc.t, cc.na, cc.tostore)

recfield(P, cc, fld) ==
  LET named == codestring(Cur(P), fld.s)
      key == IF fld.t = "named" THEN [P |-> With(P, named.fs), e |-> named.e]
             ELSE yindex(P, fld.y)
      k == luaK_exp2RK(Cur(key.P), key.e)
      val == expr(With(key.P, k.fs), fld.x)
      v == luaK_exp2RK(Cur(val.P), val.e)
  IN With(val.P, [luaK_codeABC(v.fs, "SETTABLE", cc.t, k.r, v.r) EXCEPT !.freereg = Cur(P).freereg])

listfield(P, cc, fld) ==
  LET v == expr(P, fld.x)
  IN [P |-> v.P, cc |-> [cc EXCEPT !.v = v.e, !.na = @ + 1, !.tostore = @ + 1]]

constructor(P, fields) ==
  LET fs == Cur(P)
      t == luaK_exp2nextreg(luaK_codeABC(fs, "NEWTABLE", 0, 0, 0), Exp("VRELOCABLE", PC(fs)))
      Field(s, fld) ==
        LET c == closelistfield(Asserted(Cur(s.P), s.cc.v.k = "VVOID" \/ s.cc.tostore > 0), s.cc)
            Q == With(s.P, c.fs)
        IN IF Cur(s.P).err # "" THEN s
           ELSE IF fld.t = "item" THEN listfield(Q, c.cc, fld)
           ELSE [P |-> recfield(Q, c.cc, fld), cc |-> c.cc]
      r == FoldLeft(Field, [P |-> With(P, t.fs),
                            cc |-> [v |-> NoExp, t |-> t.e.info, na |-> 0, tostore |-> 0]], fields)
  IN [P |-> With(r.P, lastlistfield(Cur(r.P), r.cc)), e |-> t.e]

(***************************************************************************)
(* Functions.                                                              *)
(***************************************************************************)
self == <<20, 21>>
arg == <<20, 22>>

(* parlist, with the parameter self that body declares for a method; the   *)
(* build sets LUA_COMPAT_VARARG                                            *)
parlist(fs, fn, needself) ==
  LET names == (IF needself THEN <<self>> ELSE <<>>) \o fn.params
                  \o (IF fn.dots THEN <<arg>> ELSE <<>>)
      f == adjustlocalvars(new_localvars(fs, names), Len(names))
  IN luaK_reserveregs([f EXCEPT !.vararg = IF fn.dots THEN {"HASARG", "NEEDSARG", "ISVARARG"} ELSE {},
                                !.numparams = IF fn.dots THEN f.nactvar - 1 ELSE f.nactvar],
                      f.nactvar)

body(P, fn, needself) ==
  LET O == open_func(P)
      B == chunk(With(O, parlist(Cur(O), fn, needself)), fn.b)
      Q == [B EXCEPT !.fss = Front(@)]
      c == pushclosure(Cur(Q), close_func(Cur(B)))
  IN [P |-> With(Q, c.fs), e |-> c.e]

(* prefixexp and the suffixes that follow it *)
primaryexp(P, p) ==
  LET v == primaryexp(P, p.p)
      x == expr(P, p.x)
      d == luaK_dischargevars(Cur(x.P), x.e)
      a == luaK_exp2anyreg(Cur(v.P), v.e)
      key == codestring(a.fs, p.s)
      f == luaK_indexed(key.fs, a.e, key.e)
      y == yindex(With(v.P, a.fs), p.x)
      i == luaK_indexed(Cur(y.P), a.e, y.e)
      n == luaK_exp2nextreg(Cur(v.P), v.e)
      name == codestring(Cur(v.P), p.s)
      s == luaK_self(name.fs, v.e, name.e)
  IN CASE p.t = "name" -> singlevar(P, p.s)
       [] p.t = "paren" -> [P |-> With(x.P, d.fs), e |-> d.e]
       [] p.t = "field" -> [P |-> With(v.P, f.fs), e |-> f.e]
       [] p.t = "index" -> [P |-> With(y.P, i.fs), e |-> i.e]
       [] p.t = "method" -> funcargs(With(v.P, s.fs), s.e, p.xs)
       [] p.t = "call" -> funcargs(With(v.P, n.fs), n.e, p.xs)

simpleexp(P, o) ==
  LET fs == Cur(P)
      str == codestring(fs, o.s)
      Const(e) == [P |-> P, e |-> e]
  IN CASE o.t = "num" -> Const([Exp("VKNUM", 0) EXCEPT !.nval = Num(o.n)])
       [] o.t = "str" -> [P |-> With(P, str.fs), e |-> str.e]
       [] o.t = "nil" -> Const(Exp("VNIL", 0))
       [] o.t = "true" -> Const(Exp("VTRUE", 0))
       [] o.t = "false" -> Const(Exp("VFALSE", 0))
       [] o.t = "dots" ->
            LET f == IF fs.vararg = {} THEN SyntaxError(fs, "outside a vararg function")
                     ELSE [fs EXCEPT !.vararg = @ \ {"NEEDSARG"}]
            IN [P |-> With(P, luaK_codeABC(f, "VARARG", 0, 1, 0)), e |-> Exp("VVARARG", PC(f))]
       [] o.t = "table" -> constructor(P, o.fields)
       [] o.t = "function" -> body(P, o.fn, FALSE)
       [] OTHER -> primaryexp(P, o)

(* q is what is left to read of the expression *)
subexpr(P, q, limit) ==
  LET E == enterlevel(P)
      u == subexpr(E, Tail(q), UNARY_PRIORITY)
      n == luaK_prefix(Cur(u.P), q[1].t, u.e)
      s == simpleexp(E, q[1])
      v == IF q[1].t \in UnOpr THEN [P |-> With(u.P, n.fs), e |-> n.e, q |-> u.q]
           ELSE [P |-> s.P, e |-> s.e, q |-> Tail(q)]
      r == binops(v, limit)
  IN [r EXCEPT !.P = leavelevel(@)]

(* the operators of a priority higher than limit that follow v *)
binops(v, limit) ==
  LET op == v.q[1].t
      i == luaK_infix(Cur(v.P), op, v.e)
      r == subexpr(With(v.P, i.fs), Tail(v.q), priority[op].right)
      p == luaK_posfix(Cur(r.P), op, i.e, r.e)
  IN IF v.q = <<>> \/ priority[op].left <= limit THEN v
     ELSE binops([P |-> With(r.P, p.fs), e |-> p.e, q |-> r.q], limit)

(***************************************************************************)
(* Statements.                                                             *)
(***************************************************************************)
(* cond: the list of the jumps taken when x is false *)
cond(P, x) ==
  LET r == expr(P, x)
      e == IF r.e.k = "VNIL" THEN [r.e EXCEPT !.k = "VFALSE"] ELSE r.e
      g == luaK_goiftrue(Cur(r.P), e)
  IN [P |-> With(r.P, g.fs), l |-> g.e.f]

block(P, b) ==
  LET B == chunk(With(P, enterblock(Cur(P), FALSE)), b)
  IN With(B, leaveblock(Asserted(Cur(B), Last(Cur(B).bl).breaklist = NO_JUMP)))

(* as check_conflict, looking at the tables and not at the keys *)
check_conflict_tables(fs, lh, v) ==
  LET Tab(x) == x.k = "VINDEXED" /\ x.info = v.info
      Safe(x) == [x EXCEPT !.info = IF Tab(x) THEN fs.freereg ELSE @]
  IN [fs |-> IF \E i \in DOMAIN lh : Tab(lh[i])
             THEN luaK_reserveregs(luaK_codeABC(fs, "MOVE", fs.freereg, v.info, 0), 1) ELSE fs,
      lh |-> [i \in DOMAIN lh |-> Safe(lh[i])]]

(* lh are the descriptors of the variables on the left of the assignment;  *)
(* one that is indexed must not see a new value of the local v             *)
check_conflict(fs, lh, v) ==
  LET Tab(x) == x.k = "VINDEXED" /\ x.info = v.info
      Key(x) == x.k = "VINDEXED" /\ x.aux = v.info
      conflict == \E i \in DOMAIN lh : Tab(lh[i]) \/ Key(lh[i])
      Safe(x) == [x EXCEPT !.info = IF Tab(x) THEN fs.freereg ELSE @,
                           !.aux = IF Key(x) THEN fs.freereg ELSE @]
  IN [fs |-> IF conflict
             THEN luaK_reserveregs(luaK_codeABC(fs, "MOVE", fs.freereg, v.info, 0), 1) ELSE fs,
      lh |-> [i \in DOMAIN lh |-> Safe(lh[i])]]

(* one more variable on the left of an assignment *)
variable(s, p) ==
  LET v == primaryexp(s.P, p)
      c == IF s.lh # <<>> /\ v.e.k = "VLOCAL" THEN check_conflict(Cur(v.P), s.lh, v.e)
           ELSE [fs |-> Cur(v.P), lh |-> s.lh]
      f == checklimit(c.fs, Len(s.lh), LUAI_MAXCCALLS - v.P.lev, "variables in assignment")
      g == IF v.e.k \in {"VLOCAL", "VUPVAL", "VGLOBAL", "VINDEXED"} THEN f
           ELSE SyntaxError(f, "syntax error")
  IN [P |-> With(v.P, g), lh |-> Append(c.lh, v.e)]

assignment(P, ps, xs) ==
  LET s == FoldLeft(variable, [P |-> P, lh |-> <<>>], ps)
      r == explist1(s.P, xs)
      fs == Cur(r.P)
      nvars == Len(ps)
      nexps == Len(xs)
      one == luaK_setoneret(fs, r.e)
      adjusted == adjust_assign(fs, nvars, nexps, r.e)
      stored == IF nexps = nvars THEN luaK_storevar(one.fs, Last(s.lh), one.e)
                ELSE IF nexps > nvars THEN [adjusted EXCEPT !.freereg = @ - (nexps - nvars)]
                ELSE adjusted
      Default(f, v) == luaK_storevar(f, v, Exp("VNONRELOC", f.freereg - 1))
  IN With(r.P, FoldLeft(Default, stored, Reverse(IF nexps = nvars THEN Front(s.lh) ELSE s.lh)))

breakstat(fs) ==
  LET loops == {i \in DOMAIN fs.bl : fs.bl[i].isbreakable}
      i == CHOOSE i \in loops : \A j \in loops : j <= i
      upval == \E j \in (i + 1)..Len(fs.bl) : fs.bl[j].upval
      f == IF upval THEN luaK_codeABC(fs, "CLOSE", fs.bl[i].nactvar, 0, 0) ELSE fs
      j == luaK_jump(f)
      c == luaK_concat(j.fs, fs.bl[i].breaklist, j.l)
  IN IF loops = {} THEN SyntaxError(fs, "no loop to break")
     ELSE [c.fs EXCEPT !.bl[i].breaklist = c.l]

(* luaK_patchlist(fs, luaK_jump(fs), target) *)
jumpback(fs, target) == LET j == luaK_jump(fs) IN luaK_patchlist(j.fs, j.l, target)

(* as whilestat, with the way out of the loop going back to its test *)
whilestat_retests(P, x, b) ==
  LET whileinit == PC(Cur(P))
      c == cond(With(P, luaK_getlabel(Cur(P))), x)
      B == block(With(c.P, enterblock(Cur(c.P), TRUE)), b)
  IN With(B, luaK_patchlist(leaveblock(jumpback(Cur(B), whileinit)), c.l, whileinit))

whilestat(P, x, b) ==
  LET whileinit == PC(Cur(P))
      c == cond(With(P, luaK_getlabel(Cur(P))), x)
      B == block(With(c.P, enterblock(Cur(c.P), TRUE)), b)
  IN With(B, luaK_patchtohere(leaveblock(jumpback(Cur(B), whileinit)), c.l))

repeatstat(P, b, x) ==
  LET repeat_init == PC(Cur(P))
      loop == enterblock(luaK_getlabel(Cur(P)), TRUE)
      c == cond(chunk(With(P, enterblock(loop, FALSE)), b), x)
      fs == Cur(c.P)
      plain == luaK_patchlist(leaveblock(fs), c.l, repeat_init)
      closing == jumpback(leaveblock(luaK_patchtohere(breakstat(fs), c.l)), repeat_init)
  IN With(c.P, leaveblock(IF Last(fs.bl).upval THEN closing ELSE plain))

(* as forbody, without registers for the declared variables *)
forbody_noregs(P, base, nvars, isnum, b) ==
  LET f == adjustlocalvars(Cur(P), 3)
      prep == PC(f)
      j == IF isnum THEN [fs |-> luaK_codeABx(f, "FORPREP", base, NO_JUMP), l |-> prep]
           ELSE luaK_jump(f)
      B == block(With(P, adjustlocalvars(enterblock(j.fs, FALSE), nvars)), b)
      g == luaK_patchtohere(leaveblock(Cur(B)), j.l)
      num == luaK_patchlist(luaK_codeABx(g, "FORLOOP", base, NO_JUMP), PC(g), prep + 1)
      gen == jumpback(luaK_codeABC(g, "TFORLOOP", base, 0, nvars), prep + 1)
  IN With(B, IF isnum THEN num ELSE gen)

forbody(P, base, nvars, isnum, b) ==
  LET f == adjustlocalvars(Cur(P), 3)
      prep == PC(f)
      j == IF isnum THEN [fs |-> luaK_codeABx(f, "FORPREP", base, NO_JUMP), l |-> prep]
           ELSE luaK_jump(f)
      s == luaK_reserveregs(adjustlocalvars(enterblock(j.fs, FALSE), nvars), nvars)
      B == block(With(P, s), b)
      g == luaK_patchtohere(leaveblock(Cur(B)), j.l)
      num == luaK_patchlist(luaK_codeABx(g, "FORLOOP", base, NO_JUMP), PC(g), prep + 1)
      gen == jumpback(luaK_codeABC(g, "TFORLOOP", base, 0, nvars), prep + 1)
  IN With(B, IF isnum THEN num ELSE gen)

ForNames == <<<<-1>>, <<-2>>, <<-3>>>>   \* "(for index)" and its like

fornum(P, s, xs, b) ==
  LET base == Cur(P).freereg
      Q == FoldLeft(LAMBDA R, x : exprnext(R, x).P,
                    With(P, new_localvars(Cur(P), Append(ForNames, s))), xs)
      k == addk(Cur(Q), Num(1))
      f == luaK_reserveregs(luaK_codeABx(k.fs, "LOADK", k.fs.freereg, k.r), 1)
  IN forbody(IF Len(xs) = 3 THEN Q ELSE With(Q, f), base, 1, TRUE, b)

forlist(P, ns, xs, b) ==
  LET base == Cur(P).freereg
      r == explist1(With(P, new_localvars(Cur(P), ForNames \o ns)), xs)
      f == luaK_checkstack(adjust_assign(Cur(r.P), 3, Len(xs), r.e), 3)
  IN forbody(With(r.P, f), base, Len(ns), FALSE, b)

forstat(P, st) ==
  LET Q == With(P, enterblock(Cur(P), TRUE))
      R == IF st.st = "fornum" THEN fornum(Q, st.s, st.xs, st.b) ELSE forlist(Q, st.ns, st.xs, st.b)
  IN With(R, leaveblock(Cur(R)))

test_then_block(P, c) ==
  LET t == cond(P, c.x) IN [P |-> block(t.P, c.b), l |-> t.l]

(* the jump over what follows a branch, and the arrival of flist here *)
escape(P, flist, escapelist) ==
  LET j == luaK_jump(Cur(P))
      c == luaK_concat(j.fs, escapelist, j.l)
  IN [P |-> With(P, luaK_patchtohere(c.fs, flist)), l |-> c.l]

(* cs are the conditions with their blocks, els the else blocks, 0 or 1 *)
ifstat(P, cs, els) ==
  LET first == test_then_block(P, cs[1])
      ElseIf(s, c) == LET o == escape(s.P, s.flist, s.escapelist)
                          t == test_then_block(o.P, c)
                      IN [P |-> t.P, flist |-> t.l, escapelist |-> o.l]
      s == FoldLeft(ElseIf, [P |-> first.P, flist |-> first.l, escapelist |-> NO_JUMP], Tail(cs))
      o == escape(s.P, s.flist, s.escapelist)
      Q == block(o.P, els[1])
      c == luaK_concat(Cur(s.P), s.escapelist, s.flist)
  IN IF els # <<>> THEN With(Q, luaK_patchtohere(Cur(Q), o.l))
     ELSE With(s.P, luaK_patchtohere(c.fs, c.l))

localfunc(P, s, fn) ==
  LET fs == new_localvars(Cur(P), <<s>>)
      b == body(With(P, adjustlocalvars(luaK_reserveregs(fs, 1), 1)), fn, FALSE)
  IN With(b.P, luaK_storevar(Cur(b.P), Exp("VLOCAL", fs.freereg), b.e))

localstat(P, ns, xs) ==
  LET Q == With(P, new_localvars(Cur(P), ns))
      r == IF xs = <<>> THEN [P |-> Q, e |-> NoExp] ELSE explist1(Q, xs)
  IN With(r.P, adjustlocalvars(adjust_assign(Cur(r.P), Len(ns), Len(xs), r.e), Len(ns)))

funcstat(P, p, fn, needself) ==
  LET v == primaryexp(P, p)
      b == body(v.P, fn, needself)
  IN With(b.P, luaK_storevar(Cur(b.P), v.e, b.e))

retstat(P, xs) ==
  LET r == explist1(P, xs)
      fs == Cur(r.P)
      open == luaK_setmultret(fs, r.e)
      tail == [open EXCEPT !.code[r.e.info + 1].op = "TAILCALL",
                           !.sound = @ /\ At(open, r.e.info).a = fs.nactvar]
      one == luaK_exp2anyreg(fs, r.e)
      more == luaK_exp2nextreg(fs, r.e).fs
  IN CASE xs = <<>> -> With(P, luaK_ret(Cur(P), 0, 0))
       [] xs # <<>> /\ hasmultret(r.e.k) ->
            With(r.P, luaK_ret(IF r.e.k = "VCALL" /\ Len(xs) = 1 THEN tail ELSE open,
                               fs.nactvar, LUA_MULTRET))
       [] Len(xs) = 1 /\ ~hasmultret(r.e.k) -> With(r.P, luaK_ret(one.fs, one.e.info, 1))
       [] OTHER -> With(r.P, luaK_ret(Asserted(more, Len(xs) = more.freereg - more.nactvar),
                                      more.nactvar, Len(xs)))

exprstat(P, p) ==
  LET v == primaryexp(P, p)
  IN With(v.P, [Cur(v.P) EXCEPT !.code[v.e.info + 1].c = 1])

statement(P, s) ==
  CASE s.st = "if" -> ifstat(P, s.cs, s.els)
    [] s.st = "while" -> whilestat(P, s.x, s.b)
    [] s.st = "do" -> block(P, s.b)
    [] s.st \in {"fornum", "forlist"} -> forstat(P, s)
    [] s.st = "repeat" -> repeatstat(P, s.b, s.x)
    [] s.st = "function" -> funcstat(P, s.p, s.fn, s.self)
    [] s.st = "localfunction" -> localfunc(P, s.s, s.fn)
    [] s.st = "local" -> localstat(P, s.ns, s.xs)
    [] s.st = "return" -> retstat(P, s.xs)
    [] s.st = "break" -> With(P, breakstat(Cur(P)))
    [] s.st = "call" -> exprstat(P, s.p)
    [] s.st = "assign" -> assignment(P, s.ps, s.xs)

chunk(P, b) ==
  LET Stat(Q, s) ==
        LET R == statement(Q, s)
            fs == Cur(R)
        IN IF Cur(Q).err # "" THEN Q   \* luaX_syntaxerror has left the parser
           ELSE With(R, [Asserted(fs, fs.maxstacksize >= fs.freereg /\ fs.freereg >= fs.nactvar)
                           EXCEPT !.freereg = fs.nactvar])
  IN leavelevel(FoldLeft(Stat, enterlevel(P), b))

(* luaY_parser: the state of the main function, closed *)
luaY_parser(b) ==
  LET main == [NewFunc EXCEPT !.vararg = {"ISVARARG"}]
      P == chunk([fss |-> <<main>>, lev |-> 0], b)
      fs == close_func(Cur(P))
  IN Asserted(fs, Len(P.fss) = 1 /\ fs.ups = <<>>)
=============================================================================
