------------------------------ MODULE Execution -----------------------------
(***************************************************************************)
(* A program is compiled (module Parser) and the code is executed by the   *)
(* loop of lvm.c, luaV_execute, one instruction a step.  There is one      *)
(* action for an opcode, or for a few that differ in one operation.        *)
(*                                                                         *)
(* A frame holds the registers of one call.  Calls.tla is about how frames *)
(* share one stack; here every frame has registers of its own, nil at the  *)
(* start as luaD_precall leaves them.  A cell is an upvalue: while it is   *)
(* open its value lives in a register of a frame.  The garbage collector,  *)
(* hooks, C functions and metamethods have modules of their own.  The      *)
(* table that LUA_COMPAT_VARARG stores in the parameter arg is left nil:   *)
(* the programs never name it.                                             *)
(***************************************************************************)
EXTENDS Parser

CONSTANTS
  Inputs,         \* the programs considered, each with the arguments of its main function
  Compiled(_),    \* the state of the main function that the compiler makes of a program:
                  \* luaY_parser, with the limits of the module Parser or others
  Intended(_, _)  \* what a program does with its arguments: module Language

VARIABLES
  prog,      \* the program
  args,      \* its arguments
  main,      \* the compiled main function (a function state)
  frames,    \* the active calls
  cells,     \* upvalues
  closures,  \* functions: a prototype and its upvalues
  tables,    \* tables: the keys with a value other than nil
  globals,   \* the table of global variables
  outcome,   \* what became of the program
  tick       \* alternates with every instruction: one that jumps to itself is a step too

vars == <<prog, args, main, frames, cells, closures, tables, globals, outcome, tick>>
heap == <<cells, closures, tables, globals>>
static == <<prog, args, main>>

Outcome(kind, vals) == [kind |-> kind, vals |-> vals]

Init ==
  /\ \E input \in Inputs : prog = input[1] /\ args = input[2]
  /\ main = NewFunc
  /\ frames = <<>> /\ cells = <<>> /\ closures = <<>> /\ tables = <<>> /\ globals = <<>>
  /\ outcome = Outcome("source", <<>>)
  /\ tick = FALSE

(***************************************************************************)
(* The frame in execution: its registers, its function and its instruction *)
(***************************************************************************)
Top == Len(frames)
F == frames[Top]
Cl(f) == closures[f.cl]
I == Cl(F).p.code[F.pc + 1]
After == Cl(F).p.code[F.pc + 2]           \* *pc, once pc has moved on
Const(i) == Cl(F).p.consts[i + 1]

RegOf(f, r) == IF r \in DOMAIN f.regs THEN f.regs[r] ELSE Nil
R(r) == RegOf(F, r)
RK(x) == IF ISK(x) THEN Const(x - BITRK) ELSE R(x)
Regs(from, n) == [i \in 1..n |-> R(from + i - 1)]

With1(regs, r, v) == [x \in DOMAIN regs \cup {r} |-> IF x = r THEN v ELSE regs[x]]
WithAll(regs, from, vs) ==
  [x \in DOMAIN regs \cup from..(from + Len(vs) - 1) |->
     IF x \in from..(from + Len(vs) - 1) THEN vs[x - from + 1] ELSE regs[x]]

(* luaD_precall and adjust_varargs; ra and nres say what the caller wants, *)
(* tfor that the call is one of TFORLOOP                                   *)
Frame(cl, p, vs, ra, nres, tfor) ==
  [cl |-> cl, pc |-> 0, top |-> 0, ra |-> ra, nres |-> nres, tfor |-> tfor,
   regs |-> [r \in 0..(p.maxstacksize - 1) |->
               IF r < p.numparams /\ r < Len(vs) THEN vs[r + 1] ELSE Nil],
   extra |-> IF p.vararg # {} THEN SubSeq(vs, p.numparams + 1, Len(vs)) ELSE <<>>]

(* luaY_parser, and the call of the main function *)
Compile ==
  /\ outcome.kind = "source"
  /\ main' = Compiled(prog)
  /\ IF main'.err # ""
     THEN outcome' = Outcome("rejected", <<>>) /\ UNCHANGED <<frames, closures>>
     ELSE /\ closures' = <<[p |-> Proto(main'), ups |-> <<>>]>>
          /\ frames' = <<Frame(1, Proto(main'), args, 0, LUA_MULTRET, FALSE)>>
          /\ outcome' = Outcome("running", <<>>)
  /\ UNCHANGED <<prog, args, cells, tables, globals, tick>>

Op(ops) == outcome.kind = "running" /\ I.op \in ops

Goto(regs, d) == frames' = [frames EXCEPT ![Top].regs = regs, ![Top].pc = @ + 1 + d]

(* an instruction that changes only registers *)
Only(regs, d) == Goto(regs, d) /\ UNCHANGED <<static, heap, outcome>>

(* luaG_runerror: no call here is protected *)
Raise == outcome' = Outcome("error", <<>>) /\ UNCHANGED <<static, heap, frames>>

SetA(v) == IF v = Failed THEN Raise ELSE Only(With1(F.regs, I.a, v), 0)

Move == Op({"MOVE"}) /\ SetA(R(I.b))
LoadK == Op({"LOADK"}) /\ SetA(Const(I.b))
LoadBool == Op({"LOADBOOL"}) /\ Only(With1(F.regs, I.a, Bool(I.b = 1)), I.c)
LoadNil == Op({"LOADNIL"}) /\ Only(WithAll(F.regs, I.a, [i \in 1..(I.b - I.a + 1) |-> Nil]), 0)

Lookup(f, k) == IF k \in DOMAIN f THEN f[k] ELSE Nil
Update(f, k, v) == [x \in (DOMAIN f \cup {k}) \ (IF v = Nil THEN {k} ELSE {}) |->
                      IF x = k THEN v ELSE f[x]]

(* luaV_gettable and luaV_settable on values without metatables *)
gettable(t, k) == IF t.ty = "table" THEN Lookup(tables[t.v[1]], k) ELSE Failed
storable(t, k) == t.ty = "table" /\ k \notin {Nil, NaN}

GetGlobal == Op({"GETGLOBAL"}) /\ SetA(Lookup(globals, Const(I.b).v))
SetGlobal ==
  /\ Op({"SETGLOBAL"})
  /\ globals' = Update(globals, Const(I.b).v, R(I.a))
  /\ Goto(F.regs, 0)
  /\ UNCHANGED <<static, cells, closures, tables, outcome>>

CellValue(c) == IF cells[c].open THEN RegOf(frames[cells[c].fr], cells[c].reg) ELSE cells[c].val

GetUpval == Op({"GETUPVAL"}) /\ SetA(CellValue(Cl(F).ups[I.b + 1]))
SetUpval ==
  LET c == Cl(F).ups[I.b + 1]
  IN /\ Op({"SETUPVAL"})
     /\ IF cells[c].open
        THEN /\ frames' = [frames EXCEPT ![cells[c].fr].regs = With1(@, cells[c].reg, R(I.a)),
                                         ![Top].pc = @ + 1]
             /\ UNCHANGED cells
        ELSE cells' = [cells EXCEPT ![c].val = R(I.a)] /\ Goto(F.regs, 0)
     /\ UNCHANGED <<static, closures, tables, globals, outcome>>

GetTable == Op({"GETTABLE"}) /\ SetA(gettable(R(I.b), RK(I.c)))
SetTable ==
  /\ Op({"SETTABLE"})
  /\ IF storable(R(I.a), RK(I.b))
     THEN /\ tables' = [tables EXCEPT ![R(I.a).v[1]] = Update(@, RK(I.b), RK(I.c))]
          /\ Goto(F.regs, 0)
          /\ UNCHANGED <<static, cells, closures, globals, outcome>>
     ELSE Raise

NewTable ==
  /\ Op({"NEWTABLE"})
  /\ tables' = Append(tables, <<>>)
  /\ Goto(With1(F.regs, I.a, Table(Len(tables'))), 0)
  /\ UNCHANGED <<static, cells, closures, globals, outcome>>

Self ==
  /\ Op({"SELF"})
  /\ LET m == gettable(R(I.b), RK(I.c))
     IN IF m = Failed THEN Raise ELSE Only(WithAll(F.regs, I.a, <<m, R(I.b)>>), 0)

(* n list items, from the registers after A; those beyond top are open *)
SetList ==
  LET n == IF I.b = 0 THEN F.top - I.a - 1 ELSE I.b
      c == IF I.c = 0 THEN WordNumber(After) ELSE I.c
      t == R(I.a).v[1]
      first == (c - 1) * LFIELDS_PER_FLUSH
  IN /\ Op({"SETLIST"})
     /\ tables' = [tables EXCEPT ![t] =
                     FoldLeft(LAMBDA T, i : Update(T, Num(first + i), R(I.a + i)), @,
                              [i \in 1..n |-> i])]
     /\ Goto(F.regs, IF I.c = 0 THEN 1 ELSE 0)
     /\ UNCHANGED <<static, cells, closures, globals, outcome>>

Arithmetic ==
  Op({"ADD", "SUB", "MUL", "MOD", "POW"}) /\ SetA(Arith(I.op, RK(I.b), RK(I.c)))
Unm == Op({"UNM"}) /\ SetA(Arith("UNM", R(I.b), R(I.b)))
Not == Op({"NOT"}) /\ SetA(Bool(l_isfalse(R(I.b))))

(* luaH_getn gives some border of a table (module HashTable) *)
LenOp ==
  LET v == R(I.b)
  IN /\ Op({"LEN"})
     /\ IF v.ty = "table" THEN \E n \in Borders(tables[v.v[1]]) : SetA(Num(n)) ELSE SetA(Length(v))

(* One pass of luaV_concat over the values vs on top of the stack: as many *)
(* strings as stand together at the end become one.                        *)
ConcatPass(vs) ==
  LET n == Len(vs)
      texts == {i \in 1..n : \A j \in i..n : tostring(vs[j]) # Failed}
      from == IF Len(tostring(vs[n]).v) = 0 THEN n - 1
              ELSE CHOOSE i \in texts : \A j \in texts : i <= j
      joined == FoldLeft(LAMBDA s, v : s \o tostring(v).v, <<>>, SubSeq(vs, from, n))
  IN IF {n - 1, n} \subseteq texts THEN Append(SubSeq(vs, 1, from - 1), Str(joined)) ELSE <<Failed>>

RECURSIVE luaV_concat(_)
luaV_concat(vs) == IF Len(vs) = 1 THEN vs[1] ELSE luaV_concat(ConcatPass(vs))

(* the operands are in registers that are temporary, and stay behind there *)
Concat == Op({"CONCAT"}) /\ SetA(luaV_concat(Regs(I.b, I.c - I.b + 1)))

Jmp == Op({"JMP"}) /\ Only(F.regs, I.b)

(* a test with its jump: the jump is taken when p holds, skipped otherwise *)
Branch(regs, p) == Only(regs, IF p THEN After.b + 1 ELSE 1)

Compare ==
  /\ Op({"EQ", "LT", "LE"})
  /\ LET x == RK(I.b)
         y == RK(I.c)
         v == CASE I.op = "EQ" -> Bool(equalobj(x, y))
                [] I.op = "LT" -> luaV_lessthan(x, y)
                [] I.op = "LE" -> lessequal(x, y)
     IN IF v = Failed THEN Raise ELSE Branch(F.regs, v.v = <<I.a>>)

Isfalse(v) == IF l_isfalse(v) THEN 1 ELSE 0
Test == Op({"TEST"}) /\ Branch(F.regs, Isfalse(R(I.a)) # I.c)
TestSet ==
  /\ Op({"TESTSET"})
  /\ IF Isfalse(R(I.b)) # I.c THEN Branch(With1(F.regs, I.a, R(I.b)), TRUE) ELSE Branch(F.regs, FALSE)

(***************************************************************************)
(* Calls and closures.                                                     *)
(***************************************************************************)
(* luaF_close: the cells of this frame from register level on are closed *)
luaF_close(level) ==
  [c \in DOMAIN cells |->
     IF cells[c].open /\ cells[c].fr = Top /\ cells[c].reg >= level
     THEN [cells[c] EXCEPT !.open = FALSE, !.val = R(cells[c].reg)] ELSE cells[c]]

Close ==
  /\ Op({"CLOSE"})
  /\ cells' = luaF_close(I.a)
  /\ Goto(F.regs, 0)
  /\ UNCHANGED <<static, closures, tables, globals, outcome>>

(* luaF_findupval: the open cell of this register, a new one if need be *)
findupval(cs, reg) ==
  LET open == {c \in DOMAIN cs : cs[c].open /\ cs[c].fr = Top /\ cs[c].reg = reg}
  IN IF open # {} THEN [cs |-> cs, c |-> CHOOSE c \in open : TRUE]
     ELSE [cs |-> Append(cs, [open |-> TRUE, fr |-> Top, reg |-> reg, val |-> Nil]),
           c |-> Len(cs) + 1]

MakeClosure ==
  LET p == Cl(F).p.protos[I.b + 1]
      Capture(s, j) ==
        LET u == Cl(F).p.code[F.pc + 1 + j]
            f == findupval(s.cs, u.b)
        IN IF u.op = "GETUPVAL" THEN [s EXCEPT !.ups = Append(@, Cl(F).ups[u.b + 1])]
           ELSE [cs |-> f.cs, ups |-> Append(s.ups, f.c)]
      s == FoldLeft(Capture, [cs |-> cells, ups |-> <<>>], [j \in 1..p.nups |-> j])
  IN /\ Op({"CLOSURE"})
     /\ cells' = s.cs
     /\ closures' = Append(closures, [p |-> p, ups |-> s.ups])
     /\ Goto(With1(F.regs, I.a, Closure(Len(closures'))), p.nups)
     /\ UNCHANGED <<static, tables, globals, outcome>>

CallArgs == IF I.b = 0 THEN Regs(I.a + 1, F.top - I.a - 1) ELSE Regs(I.a + 1, I.b - 1)

Enter(fn, vs, ra, nres, tfor) ==
  Frame(fn.v[1], closures[fn.v[1]].p, vs, ra, nres, tfor)

Call ==
  /\ Op({"CALL"})
  /\ IF R(I.a).ty # "function" THEN Raise
     ELSE /\ frames' = Append([frames EXCEPT ![Top].pc = @ + 1],
                              Enter(R(I.a), CallArgs, I.a, I.c - 1, FALSE))
          /\ UNCHANGED <<static, heap, outcome>>

(* the frame of the caller is given to the function called *)
TailCall ==
  /\ Op({"TAILCALL"})
  /\ IF R(I.a).ty # "function" THEN Raise
     ELSE /\ frames' = [frames EXCEPT ![Top] = Enter(R(I.a), CallArgs, F.ra, F.nres, F.tfor)]
          /\ cells' = luaF_close(0)
          /\ UNCHANGED <<static, closures, tables, globals, outcome>>

(* luaD_poscall: the results vs of f go where its caller g wants them *)
Deliver(g, f, vs) ==
  LET n == IF f.nres = LUA_MULTRET THEN Len(vs) ELSE f.nres
      regs == WithAll(g.regs, f.ra, [i \in 1..n |-> IF i <= Len(vs) THEN vs[i] ELSE Nil])
  IN [g EXCEPT !.regs = regs, !.top = IF f.nres = LUA_MULTRET THEN f.ra + n ELSE @]

(* the end of TFORLOOP, once its call has returned to g *)
EndTFor(g, ra) ==
  LET jump == Cl(g).p.code[g.pc + 1]
      v == RegOf(g, ra)
  IN IF v = Nil THEN [g EXCEPT !.pc = @ + 1]
     ELSE [g EXCEPT !.regs = With1(@, ra - 1, v), !.pc = @ + 1 + jump.b]

Return ==
  LET vs == Regs(I.a, IF I.b = 0 THEN F.top - I.a ELSE I.b - 1)
      g == Deliver(frames[Top - 1], F, vs)
  IN /\ Op({"RETURN"})
     /\ cells' = luaF_close(0)
     /\ IF Top = 1 THEN frames' = <<>> /\ outcome' = Outcome("done", vs)
        ELSE /\ frames' = Append(SubSeq(frames, 1, Top - 2), IF F.tfor THEN EndTFor(g, F.ra) ELSE g)
             /\ UNCHANGED outcome
     /\ UNCHANGED <<static, closures, tables, globals>>

Vararg ==
  LET n == Len(F.extra)
      b == IF I.b = 0 THEN n ELSE I.b - 1
      vs == [j \in 1..b |-> IF j <= n THEN F.extra[j] ELSE Nil]
  IN /\ Op({"VARARG"})
     /\ frames' = [frames EXCEPT ![Top].regs = WithAll(@, I.a, vs), ![Top].pc = @ + 1,
                                 ![Top].top = IF I.b = 0 THEN I.a + n ELSE @]
     /\ UNCHANGED <<static, heap, outcome>>

(***************************************************************************)
(* Loops.                                                                  *)
(***************************************************************************)
ForPrep ==
  LET init == luaV_tonumber(R(I.a))
      limit == luaV_tonumber(R(I.a + 1))
      step == luaV_tonumber(R(I.a + 2))
  IN /\ Op({"FORPREP"})
     /\ IF Failed \in {init, limit, step} THEN Raise
        ELSE Only(WithAll(F.regs, I.a, <<luai_num("SUB", init, step), limit, step>>), I.b)

ForLoop ==
  LET step == R(I.a + 2)
      idx == luai_num("ADD", R(I.a), step)
      more == IF luaV_lessthan(Num(0), step) = Bool(TRUE) THEN lessequal(idx, R(I.a + 1))
              ELSE lessequal(R(I.a + 1), idx)
  IN /\ Op({"FORLOOP"})
     /\ IF more = Bool(TRUE) THEN Only(With1(With1(F.regs, I.a, idx), I.a + 3, idx), I.b)
        ELSE Only(F.regs, 0)

TForLoop ==
  LET cb == I.a + 3
      g == [F EXCEPT !.regs = WithAll(@, cb, Regs(I.a, 3)), !.pc = @ + 1]
  IN /\ Op({"TFORLOOP"})
     /\ IF R(I.a).ty # "function" THEN Raise
        ELSE /\ frames' = Append([frames EXCEPT ![Top] = g],
                                 Enter(R(I.a), Regs(I.a + 1, 2), cb, I.c, TRUE))
             /\ UNCHANGED <<static, heap, outcome>>

Execute ==
  \/ Move \/ LoadK \/ LoadBool \/ LoadNil \/ GetUpval \/ GetGlobal \/ GetTable
  \/ SetGlobal \/ SetUpval \/ SetTable \/ NewTable \/ Self
  \/ Arithmetic \/ Unm \/ Not \/ LenOp \/ Concat \/ Jmp \/ Compare \/ Test \/ TestSet
  \/ Call \/ TailCall \/ Return \/ ForLoop \/ ForPrep \/ TForLoop
  \/ SetList \/ Close \/ MakeClosure \/ Vararg

(* the program is over *)
Over == {"done", "error", "rejected"}
Ended == outcome.kind \in Over /\ UNCHANGED vars

Next == Compile \/ (Execute /\ tick' = ~tick) \/ Ended

Spec == Init /\ [][Next]_vars

(* A loaded program is run until it is over: luaV_execute is a loop that   *)
(* only a return, an error or a yield leaves.  This is WF_vars(Next)       *)
(* written out: the program is over, or there is always another step.      *)
Fairness == []<>(outcome.kind \in Over) \/ []<><<TRUE>>_vars

FairSpec == Spec /\ Fairness

(***************************************************************************)
(* Properties.                                                             *)
(***************************************************************************)
\* The state is well typed.
TypeOK ==
  /\ outcome.kind \in {"source", "running"} \cup Over
  /\ outcome.kind = "running" <=> frames # <<>> /\ outcome.kind # "error"
  /\ \A i \in DOMAIN frames : frames[i].cl \in DOMAIN closures
  /\ \A i \in DOMAIN closures : \A j \in DOMAIN closures[i].ups : closures[i].ups[j] \in DOMAIN cells

(* The compiled program does what the program says: it returns the values, *)
(* leaves the tables and the global variables, or raises the error that    *)
(* the rules of the language give for it.  This is about all of lcode.c:   *)
(* which register holds a value, where each jump goes, when a value is     *)
(* loaded, which variable a name means and when an upvalue is closed.      *)
AsWritten ==
  LET m == Intended(prog, args)
  IN /\ outcome.kind = "done" => /\ m.end \in {"next", "return"}
                                 /\ outcome.vals = m.vs
                                 /\ tables = m.S.tables
                                 /\ globals = m.S.globals
     /\ outcome.kind = "error" => m.end = "error"

(* Every lua_assert of lcode.c and lparser.c is true, although the program *)
(* is built without them: registers are freed in the order of a stack, no  *)
(* jump is left without a target, lists are closed where they must be, and *)
(* every finished function passes luaG_checkcode.                          *)
AssertionsTrue == main.err = "" => main.sound

(* An open upvalue points to a register of a call that is still active,    *)
(* and no register has two of them (luaF_findupval, luaF_close).           *)
UpvaluesLive ==
  \A c \in DOMAIN cells : cells[c].open /\ outcome.kind = "running" =>
    /\ cells[c].fr <= Len(frames)
    /\ cells[c].reg < Cl(frames[cells[c].fr]).p.maxstacksize
    /\ \A d \in DOMAIN cells \ {c} : cells[d].open =>
         <<cells[d].fr, cells[d].reg>> # <<cells[c].fr, cells[c].reg>>

(* A program whose loops end by the rules of the language comes to an end: *)
(* no loop is closed by a jump to the wrong place.                         *)
Finishes == <>(outcome.kind \in Over)

(* Compiled code and the machine that runs it are sound: every assertion   *)
(* of the compiler is true, and every open upvalue has a register.         *)
CodeSound == TypeOK /\ AssertionsTrue /\ UpvaluesLive
=============================================================================
