-------------------------------- MODULE Calls --------------------------------
(***************************************************************************)
(* Calls, errors and coroutines of the Lua runtime (src/src/ldo.c, with    *)
(* the functions of src/src/lbaselib.c that use them).  Every command of   *)
(* the program is a protected call; an error jumps over any number of Lua  *)
(* and C functions to the innermost protected call of its thread, which    *)
(* puts the thread back in order.  The threads share one C stack.          *)
(***************************************************************************)
EXTENDS Integers, Sequences, SequencesExt, FiniteSets

CONSTANTS
  Main,        \* The main thread.
  Coroutines,
  CFunctions,  \* What Lua code calls: pcall, xpcall, resume, and functions that
               \* may call back, such as table.sort ("plain").
  MaxCalls,    \* LUAI_MAXCALLS
  BasicCI,     \* BASIC_CI_SIZE
  MaxCCalls,   \* LUAI_MAXCCALLS
  ExtraCCalls  \* LUAI_MAXCCALLS >> 3, the room for the error handler

Threads == {Main} \cup Coroutines

ASSUME CallsAssumption ==
  /\ Main \notin Coroutines
  /\ CFunctions \subseteq {"plain", "pcall", "xpcall", "resume"}
  /\ MaxCalls \in Nat \ {0} /\ BasicCI \in 1..MaxCalls
  /\ MaxCCalls \in Nat \ {0} /\ ExtraCCalls \in Nat \ {0}

VARIABLES
  cstack,   \* The C functions of the runtime that have been called.
  th,       \* The threads.
  raised    \* The running thread raises an error: luaG_errormsg is to be called.

vars == <<cstack, th, raised>>

(***************************************************************************)
(* A thread has ci frames in an array of size_ci, of which the first is    *)
(* nobody's; it counts the C calls around it, and those when it was        *)
(* resumed; jmp is the place in cstack an error jumps to (0: none).        *)
(***************************************************************************)
NewThread ==
  [ci |-> 0, size_ci |-> BasicCI, nCcalls |-> 0, baseCcalls |-> 0, errfunc |-> FALSE,
   jmp |-> 0, status |-> "ok", fresh |-> TRUE]

\* On the C stack: a C function called from Lua ("cfun"), luaD_call with the
\* interpreter it starts ("call", and "handler" for an error handler),
\* luaD_pcall ("pcall") and lua_resume ("resume").  ci, nCcalls, errfunc and
\* jmp are what it will restore.
Activation(kind, t, x) ==
  [kind |-> kind, t |-> t, what |-> kind, done |-> FALSE, ci |-> x.th[t].ci,
   nCcalls |-> x.th[t].nCcalls, errfunc |-> x.th[t].errfunc, jmp |-> x.th[t].jmp]

m == [cstack |-> cstack, th |-> th, raised |-> FALSE]
Become(x) == cstack' = x.cstack /\ th' = x.th /\ raised' = x.raised

Top == Last(cstack)
t == Top.t
InLua == cstack # <<>> /\ ~raised /\ Top.kind \in {"call", "handler", "resume"}
InC(what) == cstack # <<>> /\ ~raised /\ Top.kind = "cfun" /\ Top.what = what /\ ~Top.done

-----------------------------------------------------------------------------
(***************************************************************************)
(* Errors.                                                                 *)
(***************************************************************************)
\* To the C function that made the call at place k.
BackTo(x, k) ==
  [x EXCEPT !.cstack = [i \in 1..(k - 1) |->
     IF i = k - 1 /\ x.cstack[i].kind = "cfun" THEN [x.cstack[i] EXCEPT !.done = TRUE]
     ELSE x.cstack[i]]]

restore_stack_limit(size, inuse) ==
  IF size > MaxCalls /\ inuse + 1 < MaxCalls THEN MaxCalls ELSE size

\* What luaD_pcall and lua_resume do with the error they catch.
caught_uncounted(r, l) ==
  IF r.kind = "pcall"
  THEN [l EXCEPT !.ci = r.ci, !.errfunc = r.errfunc,
                 !.jmp = r.jmp, !.size_ci = restore_stack_limit(@, r.ci)]
  ELSE [l EXCEPT !.status = "error", !.nCcalls = @ - 1, !.jmp = r.jmp]

caught(r, l) ==
  IF r.kind = "pcall"
  THEN [l EXCEPT !.ci = r.ci, !.nCcalls = r.nCcalls, !.errfunc = r.errfunc,
                 !.jmp = r.jmp, !.size_ci = restore_stack_limit(@, r.ci)]
  ELSE [l EXCEPT !.status = "error", !.nCcalls = @ - 1, !.jmp = r.jmp]

luaD_throw(x, L) ==
  LET k == x.th[L].jmp
  IN  IF k = 0 THEN [x EXCEPT !.cstack = <<[Activation("panic", L, x) EXCEPT !.done = TRUE]>>]
      ELSE BackTo([x EXCEPT !.th[L] = caught(x.cstack[k], @)], k)

\* luaG_runerror; nothing else happens before RaiseError.
runerror(x) == [x EXCEPT !.raised = TRUE]

-----------------------------------------------------------------------------
(***************************************************************************)
(* Calls.                                                                  *)
(***************************************************************************)
Enter(x, L, act) == [x EXCEPT !.th[L].ci = @ + 1, !.cstack = @ \o act]

\* A frame for the function that is called; act is what the call adds to the C
\* stack.  When the frames overflow there are more, for the error handler.
luaD_precall(x, L, act) ==
  LET l     == x.th[L]
      grown == [x EXCEPT !.th[L].size_ci = 2 * @]
  IN  IF l.ci + 1 < l.size_ci THEN Enter(x, L, act)
      ELSE IF l.size_ci > MaxCalls THEN luaD_throw(x, L)
      ELSE IF 2 * l.size_ci > MaxCalls THEN runerror(grown)
      ELSE Enter(grown, L, act)

luaD_call_forgiving(x, L, kind) ==
  LET n == x.th[L].nCcalls + 1
      y == [x EXCEPT !.th[L].nCcalls = n, !.cstack = Append(@, Activation(kind, L, x))]
  IN  IF n = MaxCCalls THEN runerror(y) ELSE luaD_precall(y, L, <<>>)

luaD_call(x, L, kind) ==
  LET n == x.th[L].nCcalls + 1
      y == [x EXCEPT !.th[L].nCcalls = n, !.cstack = Append(@, Activation(kind, L, x))]
  IN  IF n = MaxCCalls THEN runerror(y)
      ELSE IF n >= MaxCCalls + ExtraCCalls THEN luaD_throw(y, L)
      ELSE luaD_precall(y, L, <<>>)

Leave_unchained(x) ==
  LET k == Len(x.cstack)
      r == x.cstack[k]
      y == [x EXCEPT !.th[r.t].nCcalls = @ - 1]
      p == x.cstack[k - 1]
  IN  CASE r.kind = "resume" -> BackTo(y, k)
        [] r.kind = "handler" -> luaD_throw([y EXCEPT !.cstack = Front(@)], r.t)
        [] r.kind = "call" /\ k > 1 /\ p.kind = "pcall" ->
             BackTo([y EXCEPT !.th[r.t].errfunc = p.errfunc, !.th[r.t].jmp = p.jmp], k - 1)
        [] OTHER -> BackTo(y, k)

\* The interpreter on top of the C stack returns, and with it luaD_call and
\* luaD_pcall, or lua_resume; after an error handler the error goes on.
Leave(x) ==
  LET k == Len(x.cstack)
      r == x.cstack[k]
      y == [x EXCEPT !.th[r.t].nCcalls = @ - 1]
      p == x.cstack[k - 1]
  IN  CASE r.kind = "resume" -> BackTo([y EXCEPT !.th[r.t].jmp = r.jmp], k)
        [] r.kind = "handler" -> luaD_throw([y EXCEPT !.cstack = Front(@)], r.t)
        [] r.kind = "call" /\ k > 1 /\ p.kind = "pcall" ->
             BackTo([y EXCEPT !.th[r.t].errfunc = p.errfunc, !.th[r.t].jmp = p.jmp], k - 1)
        [] OTHER -> BackTo(y, k)

\* lua_pcall, in a C function or (interp_eval) in the program.
lua_pcall(L, handler) ==
  LET k == Len(cstack) + 1
  IN  luaD_call([m EXCEPT !.cstack = Append(@, Activation("pcall", L, m)),
                          !.th[L].jmp = k, !.th[L].errfunc = handler], L, "call")

Eval == cstack = <<>> /\ Become(lua_pcall(Main, FALSE))

CallLua == InLua /\ Become(luaD_precall(m, t, <<>>))

\* Lua code calls a C function.
CallC(what) ==
  InLua /\ Become(luaD_precall(m, t, <<[Activation("cfun", t, m) EXCEPT !.what = what]>>))

\* A metamethod, called by the interpreter, or a function called back.
Metamethod == InLua /\ Become(luaD_call(m, t, "call"))
CallBack == InC("plain") /\ Become(luaD_call(m, t, "call"))

Pcall == InC("pcall") /\ Become(lua_pcall(t, FALSE))
Xpcall == InC("xpcall") /\ Become(lua_pcall(t, TRUE))

\* A Lua function returns; the last one of its interpreter ends it.
Return ==
  LET x == [m EXCEPT !.th[t].ci = @ - 1]
  IN  /\ InLua
      /\ Become(IF th[t].ci - 1 > Top.ci THEN x ELSE Leave(x))

CReturn ==
  /\ cstack # <<>> /\ ~raised /\ Top.kind = "cfun" /\ (Top.what = "plain" \/ Top.done)
  /\ Become([m EXCEPT !.th[t].ci = @ - 1, !.cstack = Front(@)])

RunError ==
  /\ InLua \/ (cstack # <<>> /\ ~raised /\ Top.kind = "cfun")
  /\ Become(runerror(m))

\* luaG_errormsg: the error handler runs where the error is, before the jump.
RaiseError ==
  /\ raised
  /\ Become(IF th[t].errfunc THEN luaD_call(m, t, "handler") ELSE luaD_throw(m, t))

-----------------------------------------------------------------------------
(***************************************************************************)
(* Coroutines.                                                             *)
(***************************************************************************)
costatus(co) ==
  CASE t = co -> "running"
    [] t # co /\ th[co].status = "yield" -> "suspended"
    [] t # co /\ th[co].status = "ok" /\ th[co].ci > 0 -> "normal"
    [] t # co /\ th[co].status = "ok" /\ th[co].ci = 0 /\ th[co].fresh -> "suspended"
    [] OTHER -> "dead"

\* The test of lua_resume itself.
Resumable(co) == th[co].status = "yield" \/ (th[co].status = "ok" /\ th[co].ci = 0)

\* A coroutine that is refused for an overflow of the C stack loses what it
\* has on its stack, a new one its function.
Refused(co) == [BackTo(m, Len(cstack) + 1) EXCEPT !.th[co].fresh = FALSE,
                                                  !.th[co].nCcalls = th[t].nCcalls]

\* lua_setlevel and lua_resume: a new coroutine calls its function, one that
\* has yielded ends the call of yield.
Resume(co) ==
  LET k == Len(cstack) + 1
      n == th[t].nCcalls + 1
      x == [m EXCEPT !.th[co].nCcalls = n, !.th[co].baseCcalls = n, !.th[co].jmp = k,
                     !.th[co].status = "ok", !.th[co].fresh = FALSE,
                     !.cstack = Append(@, [Activation("resume", co, m) EXCEPT !.ci = 0])]
  IN  /\ InC("resume")
      /\ Become(CASE costatus(co) # "suspended" -> BackTo(m, k)
                  [] costatus(co) = "suspended" /\ (~Resumable(co) \/ th[t].nCcalls >= MaxCCalls) ->
                       Refused(co)
                  [] OTHER -> IF th[co].status = "yield" THEN [x EXCEPT !.th[co].ci = @ - 1]
                              ELSE luaD_precall(x, co, <<>>))

\* A call of yield, which has a frame already: the interpreter is left, unless
\* there is a C call between it and the resume.
lua_yield(x, L) ==
  IF x.th[L].nCcalls > x.th[L].baseCcalls
  THEN runerror([x EXCEPT !.cstack = Append(@, [Activation("cfun", L, m) EXCEPT !.what = "yield"])])
  ELSE Leave([x EXCEPT !.th[L].status = "yield"])

Yield ==
  LET x == [m EXCEPT !.th[t].ci = @ + 1]
  IN  /\ InLua
      /\ th[t].ci + 1 < th[t].size_ci
      /\ Become(lua_yield(x, t))

\* A coroutine that is dead is forgotten, and another is created.
Create(co) ==
  /\ ~raised /\ \A i \in DOMAIN cstack : cstack[i].t # co
  /\ th[co].status = "error" \/ (th[co].status = "ok" /\ ~th[co].fresh)
  /\ th' = [th EXCEPT ![co] = NewThread]
  /\ UNCHANGED <<cstack, raised>>

\* The collector makes the array of frames smaller.
reallocCI(L) ==
  /\ ~raised /\ th[L].size_ci <= MaxCalls
  /\ 4 * th[L].ci < th[L].size_ci /\ 2 * BasicCI < th[L].size_ci
  /\ th' = [th EXCEPT ![L].size_ci = @ \div 2]
  /\ UNCHANGED <<cstack, raised>>

-----------------------------------------------------------------------------
Init == cstack = <<>> /\ raised = FALSE /\ th = [L \in Threads |-> NewThread]

Next ==
  \/ Eval \/ CallLua \/ Metamethod \/ CallBack \/ Pcall \/ Xpcall
  \/ \E what \in CFunctions : CallC(what)
  \/ Return \/ CReturn \/ RunError \/ RaiseError \/ Yield
  \/ \E co \in Coroutines : Resume(co) \/ Create(co)
  \/ \E L \in Threads : reallocCI(L)

Spec == Init /\ [][Next]_vars

-----------------------------------------------------------------------------
(***************************************************************************)
(* Properties.                                                             *)
(***************************************************************************)
Protected == {"pcall", "resume"}
Counted == {"call", "handler", "resume"}
Of(L, kinds) == {i \in DOMAIN cstack : cstack[i].t = L /\ cstack[i].kind \in kinds}

\* The state is well typed.
TypeOK ==
  \A L \in Threads :
    /\ th[L].ci \in Nat /\ th[L].nCcalls \in Nat
    /\ th[L].size_ci \in BasicCI..(2 * MaxCalls)
    /\ th[L].status \in {"ok", "yield", "error"}

\* Where an error jumps to is a C function that has not returned, and it is the
\* innermost one of the thread that protects calls: a jump never goes to a C
\* frame that is gone, nor over another thread's, nor is an error lost.
JumpsLand ==
  /\ \A L \in Threads :
       LET places == Of(L, Protected)
       IN  IF places = {} THEN th[L].jmp = 0
           ELSE th[L].jmp \in places /\ \A i \in places : i <= th[L].jmp
  /\ cstack # <<>> => th[t].jmp # 0

\* The C stack is bounded, however deeply functions of Lua and C call each other
\* across coroutines, and whatever error handlers do: the count of C calls of the
\* running thread, which is what limits it, is the number of calls there are.
\* At the end of lua_resume it is what it was at its start (a lua_assert).
CStackBounded ==
  LET calls == {i \in DOMAIN cstack : cstack[i].kind \in Counted}
  IN  /\ Cardinality(calls) < MaxCCalls + ExtraCCalls
      /\ cstack # <<>> => th[t].nCcalls = Cardinality(calls)
      /\ InLua /\ Top.kind = "resume" => th[t].nCcalls = th[t].baseCcalls

\* The protected calls that this step ends put back the frame, the count of C
\* calls, the handler and the guard that they saved.
PutsBack ==
  \A i \in DOMAIN cstack :
    cstack[i].kind = "pcall" /\ Len(cstack') < i =>
      LET r == cstack[i]
          l == th'[r.t]
      IN  /\ l.ci = r.ci /\ l.nCcalls = r.nCcalls
          /\ l.errfunc = r.errfunc /\ l.jmp = r.jmp

\* When a protected call (luaD_pcall) is over, by a return or by an error, its
\* thread is as it was when the call began.
PcallRestores == [][PutsBack]_vars

\* A coroutine that is suspended, or dead, has nothing on the C stack: none of
\* its C functions is left in the middle, to be gone when it goes on, and it is
\* not resumed while it runs or has resumed another.
NothingLeftBehind ==
  \A co \in Coroutines :
    /\ th[co].status # "ok" => Of(co, {"cfun", "call", "handler", "pcall", "resume"}) = {}
    /\ Cardinality(Of(co, {"resume"})) <= 1
    /\ th[co].status = "ok" /\ th[co].ci > 0 => Of(co, {"resume"}) # {}

\* The frames fit in their array; an overflow gives room for the handler once.
FramesFit == \A L \in Threads : th[L].ci + 1 <= th[L].size_ci

\* The C stack is in order (luaD_rawrunprotected, lua_yield, lua_resume): errors
\* jump to the innermost protected call of their thread, and a coroutine that is
\* suspended or dead has nothing on the C stack.
CStackSound == TypeOK /\ JumpsLand /\ NothingLeftBehind

\* The limits hold (luaD_call, growCI): the C stack is bounded, whatever calls,
\* error handlers and coroutines do, and the frames fit in their array.
LimitsHold == CStackBounded /\ FramesFit
=============================================================================
