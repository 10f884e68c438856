------------------------------ MODULE Language ------------------------------
(***************************************************************************)
(* What a Lua program means, independently of how it is compiled: the      *)
(* evaluation of a program by the rules of the reference manual.  Every    *)
(* local variable is a cell of its own, new each time its declaration is   *)
(* executed, and a function keeps the cells that were in scope where it    *)
(* was written.  There are no registers, no jumps and no upvalues.         *)
(*                                                                         *)
(* The store S holds the cells, the tables, the global variables and the   *)
(* functions; env gives the cell of each name in scope and the extra       *)
(* arguments of the function.  An evaluation returns the store and a value *)
(* v (Failed when it raised an error) or a list of values vs; a statement  *)
(* returns the store, the environment and how it ended.                    *)
(***************************************************************************)
EXTENDS LuaValue, SequencesExt

Operators == {"+", "-", "*", "%", "^", "..", "==", "~=", "<", "<=", ">", ">=", "and", "or",
              "not", "#"}

(* the levels of section 2.5.6 of the manual, the weakest first *)
Levels == <<{"or"}, {"and"}, {"==", "~=", "<", "<=", ">", ">="}, {".."}, {"+", "-"}, {"*", "%"}>>

Binary(q, i) == i > 1 /\ q[i].t \in Operators /\ q[i - 1].t \notin Operators

(* Where the expression q splits: the weakest operator between operands,   *)
(* the last one of its level unless the level groups to the right; 0 when  *)
(* there are only prefix operators and powers.                             *)
Split(q) ==
  LET At(l) == {i \in DOMAIN q : Binary(q, i) /\ q[i].t \in Levels[l]}
      used == {l \in DOMAIN Levels : At(l) # {}}
      weakest == CHOOSE l \in used : \A m \in used : l <= m
  IN IF used = {} THEN 0
     ELSE IF ".." \in Levels[weakest] THEN CHOOSE i \in At(weakest) : \A j \in At(weakest) : i <= j
     ELSE CHOOSE i \in At(weakest) : \A j \in At(weakest) : j <= i

Apply2(op, x, y) ==
  CASE op = "+" -> Arith("ADD", x, y)
    [] op = "-" -> Arith("SUB", x, y)
    [] op = "*" -> Arith("MUL", x, y)
    [] op = "%" -> Arith("MOD", x, y)
    [] op = "^" -> Arith("POW", x, y)
    [] op = ".." -> IF Failed \in {tostring(x), tostring(y)} THEN Failed
                    ELSE Str(tostring(x).v \o tostring(y).v)
    [] op = "==" -> Bool(equalobj(x, y))
    [] op = "~=" -> Bool(~equalobj(x, y))
    [] op = "<" -> luaV_lessthan(x, y)
    [] op = "<=" -> lessequal(x, y)
    [] op = ">" -> luaV_lessthan(y, x)
    [] op = ">=" -> lessequal(y, x)

(* the length of a list is the one border it has *)
Apply1(op, x, S) ==
  CASE op = "not" -> Bool(l_isfalse(x))
    [] op = "-" -> Arith("UNM", x, x)
    [] op = "#" -> IF x.ty = "table" THEN Num(CHOOSE n \in Borders(S.tables[x.v[1]]) : TRUE)
                   ELSE Length(x)

Lookup(f, k) == IF k \in DOMAIN f THEN f[k] ELSE Nil
Update(f, k, v) == [x \in (DOMAIN f \cup {k}) \ (IF v = Nil THEN {k} ELSE {}) |->
                      IF x = k THEN v ELSE f[x]]

First(vs) == IF vs = <<>> THEN Nil ELSE vs[1]
Pad(vs, n) == [i \in 1..n |-> IF i <= Len(vs) THEN vs[i] ELSE Nil]
IsFailed(vs) == vs = <<Failed>>

Read(S, env, n) == IF n \in DOMAIN env.vars THEN S.cells[env.vars[n]] ELSE Lookup(S.globals, n)
Write(S, env, n, v) == IF n \in DOMAIN env.vars THEN [S EXCEPT !.cells[env.vars[n]] = v]
                       ELSE [S EXCEPT !.globals = Update(@, n, v)]

Get(S, t, k) == IF t.ty # "table" THEN Failed ELSE Lookup(S.tables[t.v[1]], k)
Put(S, t, k, v) ==
  IF t.ty # "table" \/ k \in {Nil, NaN} THEN [S |-> S, v |-> Failed]
  ELSE [S |-> [S EXCEPT !.tables[t.v[1]] = Update(@, k, v)], v |-> Nil]

(* new cells for the names ns with the values vs *)
Declare(S, env, ns, vs) ==
  LET n == Len(S.cells)
      Cell(x) == n + (CHOOSE i \in DOMAIN ns : ns[i] = x /\ \A j \in DOMAIN ns : ns[j] = x => j <= i)
      names == {ns[i] : i \in DOMAIN ns}
  IN [S |-> [S EXCEPT !.cells = @ \o vs],
      env |-> [env EXCEPT !.vars = [x \in DOMAIN @ \cup names |-> IF x \in names THEN Cell(x) ELSE @[x]]]]

NewClosure(S, env, fn) == [S EXCEPT !.funs = Append(@, [fn |-> fn, env |-> env])]

RECURSIVE Eval(_, _, _), Operand(_, _, _), EvalList(_, _, _), Call(_, _, _), Fields(_, _, _, _, _),
          Exec(_, _, _), Block(_, _, _), Loop(_, _, _, _), Until(_, _, _, _), Count(_, _, _, _, _, _),
          Iterate(_, _, _, _), Branch(_, _, _, _)

(* the one value of the expression q *)
Eval(q, env, S) ==
  LET i == Split(q)
      Left == Eval(SubSeq(q, 1, i - 1), env, S)
      Right(T) == Eval(SubSeq(q, i + 1, Len(q)), env, T)
      stops == \/ Left.v = Failed
               \/ q[i].t = "and" /\ l_isfalse(Left.v)
               \/ q[i].t = "or" /\ ~l_isfalse(Left.v)
      both == LET r == Right(Left.S)
              IN IF r.v = Failed \/ q[i].t \in {"and", "or"} THEN r
                 ELSE [S |-> r.S, v |-> Apply2(q[i].t, Left.v, r.v)]
      o == Operand(q[1], env, S)
  IN CASE i > 0 -> IF stops THEN Left ELSE both
       [] i = 0 /\ q[1].t \in Operators ->
            LET r == Eval(Tail(q), env, S)
            IN IF r.v = Failed THEN r ELSE [S |-> r.S, v |-> Apply1(q[1].t, r.v, r.S)]
       [] i = 0 /\ q[1].t \notin Operators /\ Len(q) = 1 -> [S |-> o.S, v |-> First(o.vs)]
       [] OTHER -> IF IsFailed(o.vs) THEN [S |-> o.S, v |-> Failed]
                   ELSE LET r == Eval(SubSeq(q, 3, Len(q)), env, o.S)
                        IN IF r.v = Failed THEN r
                           ELSE [S |-> r.S, v |-> Apply2("^", First(o.vs), r.v)]

(* the values of a list: all the values of the last operand, if it is one *)
EvalList(xs, env, S) ==
  LET x == xs[1]
      one == Eval(x, env, S)
      rest == EvalList(Tail(xs), env, one.S)
  IN CASE xs = <<>> -> [S |-> S, vs |-> <<>>]
       [] Len(xs) = 1 /\ Len(x) = 1 -> Operand(x[1], env, S)
       [] OTHER -> IF one.v = Failed THEN [S |-> one.S, vs |-> <<Failed>>]
                   ELSE [S |-> rest.S,
                         vs |-> IF IsFailed(rest.vs) THEN rest.vs ELSE <<one.v>> \o rest.vs]

Operand(o, env, S) ==
  LET Just(v) == [S |-> S, vs |-> <<v>>]
      p == Operand(o.p, env, S)
      t == First(p.vs)
      x == Eval(o.x, env, S)
      y == Eval(o.x, env, p.S)
      args == EvalList(o.xs, env, p.S)
      f == Get(p.S, t, Str(o.s))
  IN CASE o.t = "num" -> Just(Num(o.n))
       [] o.t = "str" -> Just(Str(o.s))
       [] o.t = "nil" -> Just(Nil)
       [] o.t \in {"true", "false"} -> Just(Bool(o.t = "true"))
       [] o.t = "dots" -> [S |-> S, vs |-> env.dots]
       [] o.t = "name" -> Just(Read(S, env, o.s))
       [] o.t = "function" -> [S |-> NewClosure(S, env, o.fn), vs |-> <<Closure(Len(S.funs) + 1)>>]
       [] o.t = "table" -> Fields(o.fields, 1, Table(Len(S.tables) + 1), env,
                                  [S EXCEPT !.tables = Append(@, <<>>)])
       [] o.t = "paren" -> [S |-> x.S, vs |-> <<x.v>>]
       [] o.t \notin {"num", "str", "nil", "true", "false", "dots", "name", "function", "table", "paren"}
            /\ IsFailed(p.vs) -> p
       [] o.t = "field" -> [S |-> p.S, vs |-> <<f>>]
       [] o.t = "index" -> [S |-> y.S, vs |-> <<IF y.v = Failed THEN Failed ELSE Get(y.S, t, y.v)>>]
       [] o.t = "call" -> IF IsFailed(args.vs) THEN args ELSE Call(args.S, t, args.vs)
       [] o.t = "method" -> IF f = Failed THEN [S |-> p.S, vs |-> <<Failed>>]
                            ELSE IF IsFailed(args.vs) THEN args
                            ELSE Call(args.S, f, <<t>> \o args.vs)

(* the fields fs of the table t, the next list item being number n *)
Fields(fs, n, t, env, S) ==
  LET fld == fs[1]
      key == Eval(fld.y, env, S)
      named == IF fld.t = "named" THEN [S |-> S, v |-> Str(fld.s)] ELSE key
      val == Eval(fld.x, env, IF fld.t = "item" THEN S ELSE named.S)
      put == Put(val.S, t, IF fld.t = "item" THEN Num(n) ELSE named.v, val.v)
      last == Operand(fld.x[1], env, S)
      all == [last.S EXCEPT !.tables[t.v[1]] =
                FoldLeft(LAMBDA T, i : Update(T, Num(n + i - 1), last.vs[i]), @,
                         [i \in 1..Len(last.vs) |-> i])]
  IN CASE fs = <<>> -> [S |-> S, vs |-> <<t>>]
       [] fs # <<>> /\ fld.t = "item" /\ Len(fs) = 1 /\ Len(fld.x) = 1 ->
            IF IsFailed(last.vs) THEN last ELSE [S |-> all, vs |-> <<t>>]
       [] OTHER -> IF (fld.t # "item" /\ named.v = Failed) \/ val.v = Failed \/ put.v = Failed
                   THEN [S |-> S, vs |-> <<Failed>>]
                   ELSE Fields(Tail(fs), IF fld.t = "item" THEN n + 1 ELSE n, t, env, put.S)

Call(S, f, args) ==
  LET c == S.funs[f.v[1]]
      n == Len(c.fn.params)
      d == Declare(S, [c.env EXCEPT !.dots = IF c.fn.dots THEN SubSeq(args, n + 1, Len(args)) ELSE <<>>],
                   c.fn.params, Pad(args, n))
      r == Exec(c.fn.b, d.env, d.S)
  IN IF f.ty # "function" THEN [S |-> S, vs |-> <<Failed>>]
     ELSE [S |-> r.S, vs |-> CASE r.end = "error" -> <<Failed>>
                               [] r.end = "return" -> r.vs
                               [] OTHER -> <<>>]

(***************************************************************************)
(* Statements.                                                             *)
(***************************************************************************)
End(S, env, end, vs) == [S |-> S, env |-> env, end |-> end, vs |-> vs]

(* a block: what it declares is not seen outside *)
Block(b, env, S) == [Exec(b, env, S) EXCEPT !.env = env]

Loop(x, b, env, S) ==
  LET c == Eval(x, env, S)
      r == Block(b, env, c.S)
  IN CASE c.v = Failed -> End(c.S, env, "error", <<>>)
       [] c.v # Failed /\ l_isfalse(c.v) -> End(c.S, env, "next", <<>>)
       [] r.end \in {"next", "break"} -> IF r.end = "next" THEN Loop(x, b, env, r.S)
                                         ELSE End(r.S, env, "next", <<>>)
       [] OTHER -> r

Until(b, x, env, S) ==
  LET r == Exec(b, env, S)
      c == Eval(x, r.env, r.S)
  IN CASE r.end = "break" -> End(r.S, env, "next", <<>>)
       [] r.end \in {"return", "error"} -> r
       [] r.end = "next" /\ c.v = Failed -> End(c.S, env, "error", <<>>)
       [] OTHER -> IF l_isfalse(c.v) THEN Until(b, x, env, c.S) ELSE End(c.S, env, "next", <<>>)

(* numeric for: the index i goes to the limit by the step, all numbers *)
Count(s, i, rng, b, env, S) ==
  LET within == IF rng[2] > 0 THEN i <= rng[1] ELSE rng[1] <= i
      d == Declare(S, env, <<s>>, <<Num(i)>>)
      r == Block(b, d.env, d.S)
  IN IF ~within \/ r.end = "break" THEN End(IF within THEN r.S ELSE S, env, "next", <<>>)
     ELSE IF r.end = "next" THEN Count(s, i + rng[2], rng, b, env, r.S)
     ELSE [r EXCEPT !.env = env]

(* generic for: g is the function, the state and the control value *)
Iterate(st, g, env, S) ==
  LET c == Call(S, g[1], <<g[2], g[3]>>)
      vs == Pad(c.vs, Len(st.ns))
      d == Declare(c.S, env, st.ns, vs)
      r == Block(st.b, d.env, d.S)
  IN CASE IsFailed(c.vs) -> End(c.S, env, "error", <<>>)
       [] ~IsFailed(c.vs) /\ vs[1] = Nil -> End(c.S, env, "next", <<>>)
       [] r.end = "next" -> Iterate(st, <<g[1], g[2], vs[1]>>, env, r.S)
       [] r.end = "break" -> End(r.S, env, "next", <<>>)
       [] OTHER -> [r EXCEPT !.env = env]

Branch(cs, els, env, S) ==
  LET c == Eval(cs[1].x, env, S)
  IN CASE cs = <<>> /\ els = <<>> -> End(S, env, "next", <<>>)
       [] cs = <<>> /\ els # <<>> -> Block(els[1], env, S)
       [] cs # <<>> /\ c.v = Failed -> End(c.S, env, "error", <<>>)
       [] OTHER -> IF l_isfalse(c.v) THEN Branch(Tail(cs), els, env, c.S) ELSE Block(cs[1].b, env, c.S)

(* where a variable stands: all the tables and keys are evaluated before   *)
(* any of the values, and the assignments come last                        *)
Place(s, p) ==
  LET t == Eval(<<p.p>>, s.env, s.S)
      k == IF p.t = "field" THEN [S |-> t.S, v |-> Str(p.s)] ELSE Eval(p.x, s.env, t.S)
  IN IF s.fail \/ p.t = "name" THEN [s EXCEPT !.places = Append(@, <<Nil, Nil>>)]
     ELSE [s EXCEPT !.S = k.S, !.places = Append(@, <<t.v, k.v>>),
                    !.fail = Failed \in {t.v, k.v}]

Assign(ps, xs, env, S) ==
  LET at == FoldLeft(Place, [S |-> S, env |-> env, places |-> <<>>, fail |-> FALSE], ps)
      r == EvalList(xs, env, at.S)
      vs == Pad(r.vs, Len(ps))
      Store(s, i) ==
        LET w == Put(s.S, at.places[i][1], at.places[i][2], vs[i])
        IN IF s.v = Failed THEN s
           ELSE IF ps[i].t = "name" THEN [S |-> Write(s.S, env, ps[i].s, vs[i]), v |-> Nil] ELSE w
      done == FoldLeft(Store, [S |-> r.S, v |-> Nil], Reverse([i \in 1..Len(ps) |-> i]))
  IN IF at.fail \/ IsFailed(r.vs) \/ done.v = Failed THEN End(S, env, "error", <<>>)
     ELSE End(done.S, env, "next", <<>>)

Numbers(vs) == \A i \in DOMAIN vs : luaV_tonumber(vs[i]) \notin {Failed, NaN}

Stat(s, env, S) ==
  LET r == EvalList(s.xs, env, S)
      rng == [i \in 1..Len(s.xs) |-> luaV_tonumber(r.vs[i]).v[1]]
      d == Declare(r.S, env, s.ns, Pad(r.vs, Len(s.ns)))
      f == Declare(S, env, <<s.s>>, <<Closure(Len(S.funs) + 1)>>)
      m == IF s.self THEN [s.fn EXCEPT !.params = <<<<20, 21>>>> \o @] ELSE s.fn
      g == Assign(<<s.p>>, <<<<[t |-> "function", fn |-> m]>>>>, env, S)
      c == Operand(s.p, env, S)
  IN CASE s.st = "do" -> Block(s.b, env, S)
       [] s.st = "if" -> Branch(s.cs, s.els, env, S)
       [] s.st = "while" -> Loop(s.x, s.b, env, S)
       [] s.st = "repeat" -> [Until(s.b, s.x, env, S) EXCEPT !.env = env]
       [] s.st = "break" -> End(S, env, "break", <<>>)
       [] s.st = "assign" -> Assign(s.ps, s.xs, env, S)
       [] s.st = "function" -> g
       [] s.st = "localfunction" -> End(NewClosure(f.S, f.env, s.fn), f.env, "next", <<>>)
       [] s.st = "call" -> End(c.S, env, IF IsFailed(c.vs) THEN "error" ELSE "next", <<>>)
       [] s.st \in {"local", "return", "fornum", "forlist"} /\ IsFailed(r.vs) ->
            End(r.S, env, "error", <<>>)
       [] s.st = "local" -> End(d.S, d.env, "next", <<>>)
       [] s.st = "return" -> End(r.S, env, "return", r.vs)
       [] s.st = "fornum" ->
            IF ~Numbers(r.vs) THEN End(r.S, env, "error", <<>>)
            ELSE Count(s.s, rng[1], <<rng[2], IF Len(rng) = 3 THEN rng[3] ELSE 1>>, s.b, env, r.S)
       [] s.st = "forlist" -> Iterate(s, Pad(r.vs, 3), env, r.S)

Exec(b, env, S) ==
  LET r == Stat(b[1], env, S)
  IN CASE b = <<>> -> End(S, env, "next", <<>>)
       [] b # <<>> /\ r.end = "next" -> Exec(Tail(b), r.env, r.S)
       [] OTHER -> r

(* the program b, called with the arguments args *)
Meaning(b, args) ==
  Exec(b, [vars |-> <<>>, dots |-> args],
       [cells |-> <<>>, tables |-> <<>>, globals |-> <<>>, funs |-> <<[fn |-> [b |-> b], env |-> [dots |-> args]]>>])
=============================================================================
