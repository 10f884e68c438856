----------------------------- MODULE MCPrograms -----------------------------
(***************************************************************************)
(* Expressions in every place an expression can stand, programs of         *)
(* statements, functions and tables, and the latter again when the limits  *)
(* of the compiler are so low that they are in reach.  A list is stored    *)
(* two items at a time, so that lists of several blocks are short; the   *)
(* specification is in MCTexts.                                            *)
(***************************************************************************)
EXTENDS Execution

CONSTANT LowCompiled(_)  \* the compiler with the low limits

VARIABLE part    \* "programs", or "limits" for the low limits

(* names *)
na == <<31>>
nb == <<32>>
nc == <<33>>
nf == <<34>>
ng == <<35>>
ni == <<36>>
nt == <<37>>
nx == <<38>>
ny == <<39>>

(* tokens and operands *)
Tok(o) == [t |-> o]
N(n) == [t |-> "num", n |-> n]
S(s) == [t |-> "str", s |-> s]
V(n) == [t |-> "name", s |-> n]
Paren(e) == [t |-> "paren", x |-> e]
E(o) == <<o>>

(* statements *)
SLocal(ns, xs) == [st |-> "local", ns |-> ns, xs |-> xs]
SReturn(xs) == [st |-> "return", xs |-> xs]
SAssign(ps, xs) == [st |-> "assign", ps |-> ps, xs |-> xs]
SIf(e, b1, b2) == [st |-> "if", cs |-> <<[x |-> e, b |-> b1]>>, els |-> <<b2>>]

(***************************************************************************)
(* Expressions: local a, b = ... and then the expression in some place.    *)
(***************************************************************************)
Head2 == SLocal(<<na, nb>>, <<E(Tok("dots"))>>)

Place(k, e) ==
  <<Head2>> \o
    CASE k = "return" -> <<SReturn(<<e>>)>>
      [] k = "local" -> <<SLocal(<<nx>>, <<e>>), SReturn(<<E(V(nx)), E(V(na)), E(V(nb))>>)>>
      [] k = "assign" -> <<SAssign(<<V(na)>>, <<e>>), SReturn(<<E(V(na)), E(V(nb))>>)>>
      [] k = "if" -> <<SIf(e, <<SReturn(<<E(N(1))>>)>>, <<SReturn(<<E(N(2))>>)>>)>>

Unary(us, o) == {<<o>>} \cup {<<Tok(u), o>> : u \in us}

Flat(us, ops, atoms) ==
  LET operands == UNION {Unary(us, o) : o \in atoms}
  IN {p \o <<Tok(o1)>> \o q \o <<Tok(o2), r>> :
        p \in operands, q \in operands, r \in atoms, o1 \in ops, o2 \in ops}

Flats ==
  Flat({"not"}, {"and", "or", "=="}, {V(na), Tok("nil"), N(1)})
    \cup Flat({"-"}, {"+", "*", "%", "<", "and"}, {V(na), N(3)})
    \cup Flat({"#"}, {"^", "..", "-", "or"}, {V(na), S(<<2>>)})

(* parentheses, which group and cut a list of values to one *)
Grouped ==
  {u \o <<Tok(o), y>> :
     u \in UNION {Unary({"not"}, Paren(<<p, Tok(o1), V(nb)>>)) :
                    p \in {V(na), Tok("dots"), N(1)}, o1 \in {"and", "or", "==", ">", "-"}},
     o \in {"and", "or", "~=", "<=", ".."}, y \in {V(nb), Tok("nil")}}

Exprs ==
  {Place(k, e) : k \in {"return", "assign", "if"}, e \in Flats}
    \cup {Place(k, e) : k \in {"return", "local", "assign", "if"}, e \in Grouped}

MCArguments == {<<>>, <<Num(1), Num(2)>>}

SDo(b) == [st |-> "do", b |-> b]
SWhile(e, b) == [st |-> "while", x |-> e, b |-> b]
SRepeat(b, e) == [st |-> "repeat", b |-> b, x |-> e]
SFor(n, xs, b) == [st |-> "fornum", s |-> n, xs |-> xs, b |-> b]
SForIn(ns, xs, b) == [st |-> "forlist", ns |-> ns, xs |-> xs, b |-> b]
SBreak == [st |-> "break"]
SCall(p) == [st |-> "call", p |-> p]
SWhen(e, b) == [st |-> "if", cs |-> <<[x |-> e, b |-> b]>>, els |-> <<>>]
SCases(cs, els) == [st |-> "if", cs |-> cs, els |-> els]
Case1(e, b) == [x |-> e, b |-> b]
FnDots(ps, dots, b) == [params |-> ps, dots |-> dots, b |-> b]
Fn(ps, b) == FnDots(ps, FALSE, b)
SLocalFn(n, fn) == [st |-> "localfunction", s |-> n, fn |-> fn]
SFunction(p, fn, withself) == [st |-> "function", p |-> p, fn |-> fn, self |-> withself]
Fun(fn) == E([t |-> "function", fn |-> fn])

Ap(p, xs) == [t |-> "call", p |-> p, xs |-> xs]
Meth(p, s, xs) == [t |-> "method", p |-> p, s |-> s, xs |-> xs]
Ix(p, e) == [t |-> "index", p |-> p, x |-> e]
Fld(p, s) == [t |-> "field", p |-> p, s |-> s]
Tab(fields) == E([t |-> "table", fields |-> fields])
Item(e) == [t |-> "item", x |-> e]
Named(s, e) == [t |-> "named", s |-> s, x |-> e]
Keyed(k, e) == [t |-> "keyed", y |-> k, x |-> e]

Bin(p, o, q) == <<p, Tok(o), q>>
EV(n) == E(V(n))
EN(n) == E(N(n))
Dots == E(Tok("dots"))
True == E(Tok("true"))
Inc(n) == SAssign(<<V(n)>>, <<Bin(V(n), "+", N(1))>>)

(***************************************************************************)
(* Loops that build functions.  Each round declares x and stores in t[i] a *)
(* function that counts it up; a round may break out, directly or from a   *)
(* block whose own local is captured.  Each function must have a variable  *)
(* of its own.                                                             *)
(***************************************************************************)
Counter(n) == Fun(Fn(<<>>, <<Inc(n), SReturn(<<EV(n)>>)>>))
Stores(n) == SAssign(<<Ix(V(nt), EV(ni))>>, <<Counter(n)>>)

Breaks ==
  {<<>>,
   <<SWhen(Bin(V(ni), "==", N(2)), <<SBreak>>)>>,
   <<SDo(<<SLocal(<<ny>>, <<EV(ni)>>), SAssign(<<Fld(V(nt), nc)>>, <<Counter(ny)>>),
           SWhen(Bin(V(ny), "==", N(2)), <<SBreak>>)>>)>>}

Captures == {<<>>, <<Stores(nx)>>, <<Stores(ni)>>, <<Stores(nx), SAssign(<<V(nx)>>, <<EN(7)>>)>>}

RoundOf(cap, br) == <<SLocal(<<nx>>, <<Bin(V(ni), "*", N(3))>>)>> \o cap \o br

Counting == Fun(Fn(<<nb, nc>>, <<SWhen(<<V(nc), Tok("<"), N(3)>>, <<SReturn(<<Bin(V(nc), "+", N(1)), EV(nb)>>)>>)>>))

Loops(rnd) ==
  {<<SLocal(<<ni>>, <<EN(0)>>), SWhile(Bin(V(ni), "<", N(3)), <<Inc(ni)>> \o rnd)>>,
   <<SLocal(<<ni>>, <<EN(0)>>), SRepeat(<<Inc(ni)>> \o rnd, Bin(V(ni), "==", N(3)))>>,
   <<SLocal(<<ni>>, <<EN(0)>>), SRepeat(<<Inc(ni)>> \o rnd, Bin(V(nx), ">=", N(7)))>>,
   <<SFor(ni, <<EN(1), EN(3)>>, rnd)>>,
   <<SFor(ni, <<EN(3), EN(1), <<Tok("-"), N(1)>>>>, rnd)>>,
   <<SForIn(<<ni, na>>, <<Counting, EN(5), EN(0)>>, rnd)>>}

Called(k) == Bin(Ix(V(nt), EN(k)), "and", Ap(Ix(V(nt), EN(k)), <<>>))

LoopPrograms ==
  {<<SLocal(<<nt>>, <<Tab(<<>>)>>)>> \o l
     \o <<SReturn(<<Called(1), Called(1), Called(2), Called(3), Called(1)>>)>> :
     l \in UNION {Loops(RoundOf(cp, br)) : cp \in Captures, br \in Breaks}}

(***************************************************************************)
(* Functions: results adjusted to what is wanted, open calls in the last   *)
(* place, recursion, tail calls, varargs, upvalues of upvalues.            *)
(***************************************************************************)
Two == SLocalFn(nf, Fn(<<na, nb>>, <<SReturn(<<EV(nb), EV(na)>>)>>))
Call2(x1, x2) == Ap(V(nf), <<x1, x2>>)

FunctionPrograms ==
  {<<Two, SLocal(<<na, nb, nc>>, <<E(Call2(EN(1), EN(2)))>>), SReturn(<<EV(na), EV(nb), EV(nc)>>)>>,
   <<Two, SLocal(<<na, nb>>, <<E(Call2(EN(1), EN(2))), EN(5)>>), SReturn(<<EV(na), EV(nb)>>)>>,
   <<Two, SLocal(<<na>>, <<EN(4), E(Call2(EN(1), EN(2)))>>), SReturn(<<EV(na)>>)>>,
   <<Two, SReturn(<<E(Ap(V(nf), <<E(Call2(EN(1), EN(2)))>>))>>)>>,
   <<Two, SReturn(<<E(Paren(E(Call2(EN(1), EN(2)))))>>)>>,
   <<Two, SReturn(<<E(Call2(EN(1), EN(2))), E(Call2(EN(3), EN(4)))>>)>>,
   <<Two, SReturn(<<Bin(Call2(EN(1), EN(2)), "+", Call2(EN(3), EN(4)))>>)>>,
   <<Two, SReturn(<<Bin(Call2(EN(1), EN(2)), "..", Call2(E(S(<<41>>)), EN(4)))>>)>>,
   <<Two, SCall(Call2(EN(1), EN(2))), SReturn(<<>>)>>,
   <<SReturn(<<Dots>>)>>,
   <<SReturn(<<EN(1), Dots>>)>>,
   <<SLocal(<<na, nb, nc>>, <<Dots>>), SReturn(<<EV(nc), EV(nb), EV(na)>>)>>,
   <<SLocalFn(nf, FnDots(<<na>>, TRUE, <<SReturn(<<Dots, EV(na), Dots>>)>>)),
     SReturn(<<E(Ap(V(nf), <<EN(1), EN(2), EN(3)>>))>>)>>,
   <<SLocalFn(nf, FnDots(<<>>, TRUE, <<SLocal(<<nx>>, <<EN(1)>>), SReturn(<<EV(nx)>>)>>)),
     SReturn(<<E(Ap(V(nf), <<Dots>>)), E(Paren(Dots))>>)>>,
   <<SLocalFn(nf, Fn(<<>>, <<SReturn(<<Dots>>)>>))>>,
   \* recursion, and a tail call that leaves an open upvalue behind
   <<SLocalFn(nf, Fn(<<na>>, <<SWhen(Bin(V(na), "==", N(0)), <<SReturn(<<EN(0)>>)>>),
                               SReturn(<<Bin(V(na), "+", Ap(V(nf), <<Bin(V(na), "-", N(1))>>))>>)>>)),
     SReturn(<<E(Ap(V(nf), <<EN(3)>>))>>)>>,
   <<SLocalFn(nf, Fn(<<na, nb>>,
        <<SWhen(Bin(V(na), "==", N(0)), <<SReturn(<<EV(nb)>>)>>),
          SLocal(<<nx>>, <<EV(na)>>),
          SReturn(<<E(Ap(V(nf), <<Bin(V(na), "-", N(1)), Counter(nx)>>))>>)>>)),
     SLocal(<<ng>>, <<E(Ap(V(nf), <<EN(3), E(Tok("nil"))>>))>>),
     SReturn(<<E(Ap(V(ng), <<>>)), E(Ap(V(ng), <<>>))>>)>>,
   \* one variable shared by two functions, and an upvalue of an upvalue
   <<SLocal(<<nx>>, <<EN(1)>>), SLocal(<<nf, ng>>, <<Counter(nx), Fun(Fn(<<>>, <<SReturn(<<EV(nx)>>)>>))>>),
     SCall(Ap(V(nf), <<>>)), SReturn(<<E(Ap(V(ng), <<>>)), EV(nx)>>)>>,
   <<SLocal(<<nx>>, <<EN(1)>>),
     SLocalFn(nf, Fn(<<>>, <<SReturn(<<Fun(Fn(<<>>, <<Inc(nx), SReturn(<<EV(nx)>>)>>))>>)>>)),
     SLocal(<<ng>>, <<E(Ap(V(nf), <<>>))>>), SCall(Ap(V(ng), <<>>)), SReturn(<<EV(nx), E(Ap(V(ng), <<>>))>>)>>,
   <<SLocalFn(nf, Fn(<<na>>, <<SReturn(<<Fun(Fn(<<nb>>, <<SReturn(<<Bin(V(na), "-", V(nb))>>)>>))>>)>>)),
     SReturn(<<E(Ap(Ap(V(nf), <<EN(5)>>), <<EN(2)>>))>>)>>,
   <<SFunction(V(ng), Fn(<<na>>, <<SReturn(<<Bin(V(na), "*", N(2))>>)>>), FALSE),
     SReturn(<<E(Ap(V(ng), <<EN(4)>>)), EV(ni)>>)>>,
   <<SReturn(<<E(Ap(V(ng), <<>>))>>)>>,
   <<SBreak>>}

(***************************************************************************)
(* Tables and assignments.                                                 *)
(***************************************************************************)
T3 == SLocal(<<nt>>, <<Tab(<<Named(nx, EN(1)), Item(EN(5)), Item(EN(6)), Keyed(Bin(N(1), "+", N(2)), EN(7))>>)>>)
TX == Fld(V(nt), nx)

TablePrograms ==
  {<<T3, SReturn(<<E(TX), E(Ix(V(nt), EN(1))), E(Ix(V(nt), EN(3))), E(Fld(V(nt), ny))>>)>>,
   <<SLocal(<<na, nb>>, <<EN(1), EN(2)>>), SAssign(<<V(na), V(nb)>>, <<EV(nb), EV(na)>>), SReturn(<<EV(na), EV(nb)>>)>>,
   \* the index and the table of an indexed variable are assigned as well
   <<T3, SLocal(<<ni>>, <<EN(1)>>), SAssign(<<Ix(V(nt), EV(ni)), V(ni)>>, <<EN(20), EN(2)>>), SReturn(<<EV(ni), EV(nt)>>)>>,
   <<T3, SLocal(<<na>>, <<EV(nt)>>), SAssign(<<TX, V(nt)>>, <<EN(8), EN(9)>>), SReturn(<<EV(nt), EV(na)>>)>>,
   <<T3, SLocal(<<na, ni>>, <<EV(nt), EN(2)>>),
     SAssign(<<Ix(V(nt), EV(ni)), V(ni), TX, V(nt)>>, <<EN(8), EN(9), EN(3)>>), SReturn(<<EV(ni), EV(na)>>)>>,
   <<T3, SAssign(<<V(ng), TX>>, <<E(TX), EN(4), EN(5)>>), SReturn(<<EV(ng), E(TX)>>)>>,
   <<T3, SAssign(<<TX>>, <<Tab(<<Item(EN(1)), Item(Dots)>>)>>), SReturn(<<E(Ix(TX, EN(2)))>>)>>,
   <<Two, SReturn(<<Tab(<<Item(E(Call2(EN(1), EN(2)))), Item(E(Call2(EN(3), EN(4))))>>)>>)>>,
   <<Two, SReturn(<<Tab(<<Item(EN(8)), Item(EN(9)), Item(EN(7)), Item(E(Call2(EN(3), EN(4))))>>)>>)>>,
   <<SReturn(<<Tab(<<Item(EN(8)), Item(EN(9)), Item(EN(7)), Item(EN(6)), Item(EN(5))>>)>>)>>,
   <<SReturn(<<Tab(<<Item(EN(8)), Named(nx, EN(2)), Item(Tab(<<Item(EN(3))>>)), Named(ny, Dots), Item(Dots)>>)>>)>>,
   <<T3, SFunction(Fld(V(nt), nf), Fn(<<na>>, <<SReturn(<<Bin(Fld(V(self), nx), "+", V(na))>>)>>), TRUE),
     SReturn(<<E(Meth(V(nt), nf, <<EN(3)>>)), E(Meth(Paren(EV(nt)), nf, <<E(TX)>>))>>)>>,
   <<T3, SReturn(<<E(Meth(V(nt), ny, <<EN(3)>>))>>)>>,
   <<SLocal(<<nt>>, <<Tab(<<Named(nx, Tab(<<Named(ny, EN(3))>>))>>)>>),
     SAssign(<<Fld(TX, ny)>>, <<Bin(Fld(TX, ny), "*", N(2))>>), SReturn(<<E(Fld(TX, ny)), Bin(TX, "==", TX)>>)>>,
   <<T3, SReturn(<<<<Tok("#"), V(nt)>>, <<Tok("#")>> \o Tab(<<Item(EN(3)), Item(Dots)>>)>>)>>,
   <<SAssign(<<Fld(V(ng), nx)>>, <<EN(1)>>)>>,
   <<T3, SAssign(<<Ix(V(nt), E(Tok("nil")))>>, <<EN(1)>>)>>,
   <<T3, SAssign(<<TX, V(ng)>>, <<E(Tok("nil")), True>>), SReturn(<<EV(nt)>>)>>}

(***************************************************************************)
(* Scopes, and the locals that must be nil again.                          *)
(***************************************************************************)
ScopePrograms ==
  {<<SLocal(<<na>>, <<EN(1)>>), SDo(<<SLocal(<<na>>, <<Bin(V(na), "+", N(1))>>), SAssign(<<V(ng)>>, <<EV(na)>>)>>),
     SReturn(<<EV(na), EV(ng)>>)>>,
   <<SLocal(<<na>>, <<>>), SLocal(<<nb, nc>>, <<>>), SReturn(<<EV(na), EV(nb), EV(nc)>>)>>,
   <<SDo(<<SLocal(<<na, nb>>, <<EN(1), EN(2)>>)>>), SLocal(<<nc, nx>>, <<>>), SReturn(<<EV(nc), EV(nx)>>)>>,
   <<SLocal(<<ni>>, <<EN(0)>>),
     SWhile(Bin(V(ni), "<", N(2)), <<Inc(ni), SLocal(<<nx>>, <<>>),
       SWhen(Bin(V(nx), "~=", Tok("nil")), <<SAssign(<<V(ng)>>, <<EV(nx)>>)>>), SAssign(<<V(nx)>>, <<EV(ni)>>)>>),
     SReturn(<<EV(ng)>>)>>,
   <<SWhen(Dots, <<SLocal(<<na>>, <<>>), SAssign(<<V(na)>>, <<EN(3)>>)>>), SLocal(<<nb>>, <<>>), SReturn(<<EV(nb)>>)>>,
   <<SLocal(<<na>>, <<Dots>>),
     SCases(<<Case1(Bin(V(na), "==", N(1)), <<SAssign(<<V(ng)>>, <<EN(10)>>)>>),
              Case1(Bin(V(na), "==", N(2)), <<SAssign(<<V(ng)>>, <<EN(20)>>)>>),
              Case1(EV(na), <<SLocal(<<na>>, <<EN(5)>>), SAssign(<<V(ng)>>, <<EV(na)>>)>>)>>,
            <<<<SAssign(<<V(ng)>>, <<EN(40)>>)>>>>), SReturn(<<EV(ng), EV(na)>>)>>,
   <<SLocal(<<na>>, <<Dots>>),
     SCases(<<Case1(EV(na), <<SReturn(<<EN(10)>>)>>), Case1(True, <<SAssign(<<V(ng)>>, <<EN(20)>>)>>)>>, <<>>),
     SReturn(<<EV(ng), EV(na)>>)>>,
   <<SFor(ni, <<E(S(<<1>>)), EN(2)>>, <<SAssign(<<V(ng)>>, <<EV(ni)>>)>>), SReturn(<<EV(ng), EV(ni)>>)>>,
   <<SFor(ni, <<E(Tok("nil")), EN(2)>>, <<>>)>>,
   <<SFor(ni, <<EN(2), EN(1)>>, <<SAssign(<<V(ng)>>, <<EV(ni)>>)>>), SReturn(<<EV(ng)>>)>>,
   <<SForIn(<<ni>>, <<EN(1)>>, <<>>)>>,
   <<SRepeat(<<SLocal(<<nx>>, <<True>>), SRepeat(<<SBreak>>, E(Tok("false")))>>, EV(nx)), SReturn(<<EV(nx)>>)>>,
   <<SWhile(True, <<SFor(ni, <<EN(1), EN(2)>>, <<SBreak>>), SBreak>>), SReturn(<<EN(1)>>)>>}

Statements == LoopPrograms \cup FunctionPrograms \cup TablePrograms \cup ScopePrograms

(***************************************************************************)
(* The same programs, and expressions whose operands find no room, when    *)
(* the limits of the compiler are within reach: some are rejected and the  *)
(* others are compiled to other code.                                      *)
(***************************************************************************)
Limited ==
  Statements \cup
    {Place("assign", <<Fld(V(ng), nx), Tok(o1), p, Tok(o2), Ap(V(na), <<EV(nb)>>)>>) :
       p \in {N(4), Paren(<<V(na), Tok("or"), N(5)>>), Ix(V(nb), EN(3))}, o1 \in {"+", "<", "and"},
       o2 \in {"-", "..", "or"}}

MCStatementArguments == {<<>>, <<Num(1), Num(2), Num(3)>>, <<Num(2)>>, <<Bool(TRUE)>>}

MCInputs == (Exprs \X MCArguments) \cup (Statements \X MCStatementArguments)

Manual == INSTANCE Language
MCMeaning(b, vs) == LET m == Manual!Meaning(b, vs) IN m

LowParser == INSTANCE Parser WITH
  MAXSTACK <- 8, MAXINDEXRK <- 1, MAXARG_sBx <- 20, MAXARG_C <- 1, LFIELDS_PER_FLUSH <- 1,
  LUAI_MAXVARS <- 6, LUAI_MAXUPVALUES <- 1, LUAI_MAXCCALLS <- 6
MCLowCompiled(b) == LET fs == LowParser!luaY_parser(b) IN fs

Low == INSTANCE Execution WITH
  MAXSTACK <- 8, MAXINDEXRK <- 1, MAXARG_sBx <- 20, MAXARG_C <- 1, LFIELDS_PER_FLUSH <- 1,
  LUAI_MAXVARS <- 6, LUAI_MAXUPVALUES <- 1, LUAI_MAXCCALLS <- 6,
  Inputs <- Limited \X MCStatementArguments, Compiled <- LowCompiled

-----------------------------------------------------------------------------
PartsInit ==
  \/ part = "programs" /\ Init
  \/ part = "limits" /\ Low!Init

PartsNext ==
  \/ part = "programs" /\ Next /\ UNCHANGED part
  \/ part = "limits" /\ Low!Next /\ UNCHANGED part
=============================================================================
