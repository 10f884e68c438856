--------------------------------- MODULE Api ---------------------------------
(***************************************************************************)
(* The C interface of Lua (src/src/lapi.c): the interpreter's C code and   *)
(* the libraries work on a window of the slots of the Lua stack, from the  *)
(* base of their frame to its top, and name values by indices.  What the   *)
(* macro api_check asks of the caller is a guard.  The tables here have no *)
(* metamethods (see Metatables).                                           *)
(***************************************************************************)
EXTENDS Integers, Sequences, SequencesExt

CONSTANTS
  Tables, Keys, Fun, New,    \* As in ApiSpec.
  Frames       \* The frames considered: see below.

VARIABLES
  frame,   \* The frame the running function has.
  mem,     \* The slots.  Those from top on keep what was in them.
  top,     \* How many slots are in use: L->top - L->base.
  ups, env, pseudo, tab, meta, heap, call,
  lenv     \* L->env, where the environment is put to be read.

Slots == frame.slots          \* The slots of the frame, up to L->ci->top.
Initial == frame.initial      \* What the slots hold before the function runs.
Upvalues == frame.upvalues    \* The upvalues of the running function.
Literals == frame.literals    \* The values the C code pushes.
Pseudo == frame.pseudo        \* The pseudo-indices it uses.
MaxUp == frame.maxup          \* The most upvalues a new function gets; -1 if none is made.
Made == frame.tables          \* The tables there are or may be made.

state == <<mem, top>>
objects == <<ups, env, pseudo, tab, meta, heap>>
vars == <<frame, mem, top, ups, env, pseudo, tab, meta, heap, call, lenv>>

\* What the frames may be: the values in them are not the objects that this
\* function makes, and no value is one the interface answers for "none".
FramesAssumption ==
  /\ Fun # New /\ {Fun, New} \cap (Tables \cup {"nil", "num", "str", "none"}) = {}
  /\ Tables \cap {"nil", "num", "str", "none"} = {} /\ Keys \subseteq {"num", "str"}
  /\ \A f \in Frames :
       /\ f.slots \in Nat /\ f.maxup \in Int /\ f.tables \subseteq Tables
       /\ f.initial \cap (Tables \cup {Fun, New, "none"}) = {}
       /\ f.literals \subseteq {"nil", "num", "str"}
       /\ f.upvalues \in Seq({"nil", "num", "str"})
       /\ f.pseudo \subseteq Int /\ \A p \in f.pseudo : p <= -10

ASSUME FramesAssumed == FramesAssumption

LUA_REGISTRYINDEX == -10
LUA_ENVIRONINDEX == -11
LUA_GLOBALSINDEX == -12
Indices == (-Slots)..(-1) \cup 1..Slots \cup Pseudo

\* The address of a value.
Slot(j) == [k |-> "slot", j |-> j]
NilObject == [k |-> "nil", j |-> 0]

index2adr(idx) ==
  CASE idx > 0 -> IF idx > top THEN NilObject ELSE Slot(idx)
    [] idx < 0 /\ idx > LUA_REGISTRYINDEX -> Slot(top + 1 + idx)
    [] idx = LUA_REGISTRYINDEX -> [k |-> "reg", j |-> 0]
    [] idx = LUA_ENVIRONINDEX -> [k |-> "env", j |-> 0]
    [] idx = LUA_GLOBALSINDEX -> [k |-> "gt", j |-> 0]
    [] OTHER -> LET n == LUA_GLOBALSINDEX - idx
                IN  IF n <= Len(ups[Fun]) THEN [k |-> "up", j |-> n] ELSE NilObject

\* What api_check asks of an index: it is in the frame; that it names a value.
Acceptable(idx) == idx < 0 /\ idx > LUA_REGISTRYINDEX => -idx <= top
Valid(idx) == Acceptable(idx) /\ index2adr(idx) # NilObject
InStack(idx) == Valid(idx) /\ idx > LUA_REGISTRYINDEX

\* The value at an address; the environment is copied to L->env first.
At(a) ==
  CASE a.k = "slot" -> mem[a.j]
    [] a.k = "up" -> ups[Fun][a.j]
    [] a.k = "env" -> env[Fun]
    [] a.k = "nil" -> "nil"
    [] OTHER -> pseudo[a.k]

\* A value is put at an address.
setobj(a, v) ==
  /\ mem' = IF a.k = "slot" THEN [mem EXCEPT ![a.j] = v] ELSE mem
  /\ ups' = IF a.k = "up" THEN [ups EXCEPT ![Fun][a.j] = v] ELSE ups
  /\ pseudo' = IF a.k \in {"reg", "gt"} THEN [pseudo EXCEPT ![a.k] = v] ELSE pseudo
  /\ lenv' = IF a.k = "env" THEN v ELSE lenv

Calls(f, i, n, r) == call' = [f |-> f, i |-> i, n |-> n, r |-> r]
Room(n) == top + n <= Slots
TopValue == mem[top]

\* A value is pushed: into the slot at the top, which must be in the frame.
Pushes(v) == Room(1) /\ mem' = [mem EXCEPT ![top + 1] = v] /\ top' = top + 1

-----------------------------------------------------------------------------
lua_settop == \E idx \in (-Slots - 1)..Slots :
  /\ IF idx >= 0
     THEN /\ mem' = [j \in 1..Slots |-> IF j > top /\ j <= idx THEN "nil" ELSE mem[j]]
          /\ top' = idx
     ELSE -(idx + 1) <= top /\ top' = top + idx + 1 /\ UNCHANGED mem
  /\ Calls("settop", idx, "", "") /\ UNCHANGED <<objects, lenv>>

lua_remove == \E idx \in Indices : InStack(idx) /\
  LET p == index2adr(idx).j
  IN  /\ mem' = [j \in 1..Slots |-> IF j >= p /\ j < top THEN mem[j + 1] ELSE mem[j]]
      /\ top' = top - 1
      /\ Calls("remove", idx, "", "") /\ UNCHANGED <<objects, lenv>>

lua_insert_early == \E idx \in Indices : InStack(idx) /\ Room(1) /\
  LET p == index2adr(idx).j
  IN  /\ mem' = [j \in 1..Slots |-> IF j = p THEN mem[top] ELSE IF j > p /\ j < top THEN mem[p] ELSE mem[j]]
      /\ Calls("insert", idx, "", "") /\ UNCHANGED <<top, objects, lenv>>

\* The values move up, the last one into the slot above the top, then down to p.
lua_insert == \E idx \in Indices : InStack(idx) /\ Room(1) /\
  LET p == index2adr(idx).j
      moved == [j \in 1..Slots |-> IF j > p /\ j <= top + 1 THEN mem[j - 1] ELSE mem[j]]
  IN  /\ mem' = [moved EXCEPT ![p] = moved[top + 1]]
      /\ Calls("insert", idx, "", "") /\ UNCHANGED <<top, objects, lenv>>

\* The environment is replaced in the function, not in L->env.
lua_replace == \E idx \in Indices : Valid(idx) /\ top >= 1 /\
  /\ IF idx = LUA_ENVIRONINDEX
     THEN TopValue \in Tables /\ env' = [env EXCEPT ![Fun] = TopValue] /\ UNCHANGED <<mem, ups, pseudo, lenv>>
     ELSE setobj(index2adr(idx), TopValue) /\ UNCHANGED env
  /\ top' = top - 1
  /\ Calls("replace", idx, "", "") /\ UNCHANGED <<tab, meta, heap>>

lua_pushvalue == \E idx \in Indices : Acceptable(idx) /\
  Pushes(At(index2adr(idx))) /\ Calls("pushvalue", idx, "", "") /\ UNCHANGED <<objects, lenv>>

\* lua_pushnil, lua_pushnumber, lua_pushlstring and the others.
lua_push == \E v \in Literals :
  Pushes(v) /\ Calls("push", 0, v, "") /\ UNCHANGED <<objects, lenv>>

lua_type == \E idx \in Indices : Acceptable(idx) /\
  LET a == index2adr(idx)
  IN  /\ Calls("type", idx, "", IF a = NilObject THEN "none" ELSE At(a))
      /\ lenv' = IF a.k = "env" THEN env[Fun] ELSE lenv
      /\ UNCHANGED <<state, objects>>

lua_rawequal == \E idx1, idx2 \in Indices : Acceptable(idx1) /\ Acceptable(idx2) /\
  LET a == index2adr(idx1)
      b == index2adr(idx2)
  IN  /\ Calls("rawequal", idx1, idx2,
               IF a # NilObject /\ b # NilObject /\ At(a) = At(b) THEN "true" ELSE "false")
      /\ UNCHANGED <<state, objects, lenv>>

\* luaV_tostring replaces a number by the string.
lua_tolstring == \E idx \in Indices : Acceptable(idx) /\
  LET a == index2adr(idx)
  IN  /\ IF At(a) = "num" THEN setobj(a, "str") ELSE UNCHANGED <<mem, ups, pseudo, lenv>>
      /\ Calls("tolstring", idx, "", IF At(a) \in {"num", "str"} THEN "str" ELSE "NULL")
      /\ UNCHANGED <<top, env, tab, meta, heap>>

-----------------------------------------------------------------------------
luaH_get(t, k) == IF k \in Keys THEN tab[t][k] ELSE "nil"

IsTable(idx) == Valid(idx) /\ At(index2adr(idx)) \in Tables

\* lua_gettable and lua_rawget: the key at the top is replaced by the value.
lua_gettable == \E idx \in Indices : IsTable(idx) /\ top >= 1 /\
  /\ mem' = [mem EXCEPT ![top] = luaH_get(At(index2adr(idx)), TopValue)]
  /\ Calls("gettable", idx, "", "") /\ UNCHANGED <<top, objects, lenv>>

\* lua_getfield and lua_rawgeti: the value of a key of the C code is pushed.
lua_getfield == \E idx \in Indices, k \in Keys : IsTable(idx) /\
  /\ Pushes(luaH_get(At(index2adr(idx)), k))
  /\ Calls("getfield", idx, k, "") /\ UNCHANGED <<objects, lenv>>

\* lua_settable and lua_rawset: the key below the top gets the value at the top.
lua_settable == \E idx \in Indices : IsTable(idx) /\ top >= 2 /\ mem[top - 1] \in Keys /\
  /\ tab' = [tab EXCEPT ![At(index2adr(idx))][mem[top - 1]] = mem[top]]
  /\ top' = top - 2
  /\ Calls("settable", idx, "", "") /\ UNCHANGED <<mem, ups, env, pseudo, meta, heap, lenv>>

\* lua_setfield and lua_rawseti.
lua_setfield == \E idx \in Indices, k \in Keys : IsTable(idx) /\ top >= 1 /\
  /\ tab' = [tab EXCEPT ![At(index2adr(idx))][k] = TopValue]
  /\ top' = top - 1
  /\ Calls("setfield", idx, k, "") /\ UNCHANGED <<mem, ups, env, pseudo, meta, heap, lenv>>

lua_createtable == \E t \in Made \ heap :
  /\ Pushes(t)
  /\ heap' = heap \cup {t}
  /\ tab' = [tab EXCEPT ![t] = [k \in Keys |-> "nil"]]
  /\ meta' = [meta EXCEPT ![t] = "nil"]
  /\ Calls("createtable", 0, "", "") /\ UNCHANGED <<ups, env, pseudo, lenv>>

\* The metatables of the other types are not set here.
lua_getmetatable == \E idx \in Indices : Acceptable(idx) /\
  LET o == At(index2adr(idx))
      found == o \in Tables /\ meta[o] # "nil"
  IN  /\ IF found THEN Pushes(meta[o]) ELSE UNCHANGED state
      /\ Calls("getmetatable", idx, "", IF found THEN "true" ELSE "false")
      /\ UNCHANGED <<objects, lenv>>

lua_setmetatable == \E idx \in Indices : IsTable(idx) /\ top >= 1 /\
  /\ TopValue \in Tables \cup {"nil"}
  /\ meta' = [meta EXCEPT ![At(index2adr(idx))] = TopValue]
  /\ top' = top - 1
  /\ Calls("setmetatable", idx, "", "") /\ UNCHANGED <<mem, ups, env, pseudo, tab, heap, lenv>>

\* The order of a traversal is that of the parts of a table (see HashTable): the
\* number is in the array.
luaH_next(t, k) ==
  LET later == (IF k = "nil" THEN {"num", "str"} ELSE IF k = "num" THEN {"str"} ELSE {}) \cap Keys
      full == {j \in later : tab[t][j] # "nil"}
  IN  IF "num" \in full THEN "num" ELSE IF full # {} THEN "str" ELSE "nil"

lua_next == \E idx \in Indices : IsTable(idx) /\ top >= 1 /\ TopValue \in Keys \cup {"nil"} /\
  LET t == At(index2adr(idx))
      k == luaH_next(t, TopValue)
  IN  /\ IF k = "nil" THEN top' = top - 1 /\ UNCHANGED mem
         ELSE Room(1) /\ top' = top + 1 /\ mem' = [mem EXCEPT ![top] = k, ![top + 1] = tab[t][k]]
      /\ Calls("next", idx, "", IF k = "nil" THEN "false" ELSE "true") /\ UNCHANGED <<objects, lenv>>

\* luaV_concat leaves the string in the first of the n slots.
lua_concat == \E n \in 0..top :
  /\ \A j \in (top - n + 1)..top : mem[j] \in {"num", "str"}
  /\ \/ n = 0 /\ Pushes("str")
     \/ n = 1 /\ UNCHANGED state
     \/ n > 1 /\ mem' = [mem EXCEPT ![top - n + 1] = "str"] /\ top' = top - (n - 1)
  /\ Calls("concat", 0, n, "") /\ UNCHANGED <<objects, lenv>>

-----------------------------------------------------------------------------
\* The new function inherits the environment (getcurrenv).
lua_pushcclosure == \E n \in 0..MaxUp : n <= top /\ New \notin heap /\
  /\ Room(1 - n) /\ mem' = [mem EXCEPT ![top - n + 1] = New]
  /\ top' = top - n + 1
  /\ ups' = [ups EXCEPT ![New] = [i \in 1..n |-> mem[top - n + i]]]
  /\ env' = [env EXCEPT ![New] = env[Fun]]
  /\ heap' = heap \cup {New}
  /\ Calls("pushcclosure", 0, n, "") /\ UNCHANGED <<pseudo, tab, meta, lenv>>

IsFunction(v) == v \in heap \ Tables

lua_getfenv == \E idx \in Indices : Valid(idx) /\
  LET o == At(index2adr(idx))
  IN  /\ Pushes(IF IsFunction(o) THEN env[o] ELSE "nil")
      /\ Calls("getfenv", idx, "", "") /\ UNCHANGED <<objects, lenv>>

lua_setfenv == \E idx \in Indices : Valid(idx) /\ top >= 1 /\ TopValue \in Tables /\
  LET o == At(index2adr(idx))
  IN  /\ env' = IF IsFunction(o) THEN [env EXCEPT ![o] = TopValue] ELSE env
      /\ top' = top - 1
      /\ Calls("setfenv", idx, "", IF IsFunction(o) THEN "true" ELSE "false")
      /\ UNCHANGED <<mem, ups, pseudo, tab, meta, heap, lenv>>

aux_upvalue(f, n) == IsFunction(f) /\ 1 <= n /\ n <= Len(ups[f])

lua_getupvalue == \E idx \in Indices, n \in 1..2 : Acceptable(idx) /\
  LET f == At(index2adr(idx))
  IN  /\ IF aux_upvalue(f, n) THEN Pushes(ups[f][n]) ELSE UNCHANGED state
      /\ Calls("getupvalue", idx, n, "") /\ UNCHANGED <<objects, lenv>>

lua_setupvalue == \E idx \in Indices, n \in 1..2 : Acceptable(idx) /\ top >= 1 /\
  LET f == At(index2adr(idx))
  IN  /\ IF aux_upvalue(f, n)
         THEN top' = top - 1 /\ ups' = [ups EXCEPT ![f][n] = TopValue]
         ELSE UNCHANGED <<top, ups>>
      /\ Calls("setupvalue", idx, n, "") /\ UNCHANGED <<mem, env, pseudo, tab, meta, heap, lenv>>

-----------------------------------------------------------------------------
Init ==
  /\ frame \in Frames
  /\ mem \in [1..Slots -> Initial] /\ top = 0
  /\ heap = {Fun} \cup {t \in Made : t = "T1"}
  /\ ups = [f \in {Fun, New} |-> IF f = Fun THEN Upvalues ELSE <<>>]
  /\ env = [f \in {Fun, New} |-> IF "T1" \in Made THEN "T1" ELSE "nil"]
  /\ pseudo = [p \in {"reg", "gt"} |-> IF "T1" \in Made THEN "T1" ELSE "nil"]
  /\ tab = [t \in Tables |-> [k \in Keys |-> "nil"]] /\ meta = [t \in Tables |-> "nil"]
  /\ call = [f |-> "", i |-> 0, n |-> "", r |-> ""] /\ lenv = "nil"

Calling ==
  \/ lua_settop \/ lua_remove \/ lua_insert \/ lua_replace \/ lua_pushvalue \/ lua_push
  \/ lua_type \/ lua_rawequal \/ lua_tolstring
  \/ lua_gettable \/ lua_getfield \/ lua_settable \/ lua_setfield \/ lua_createtable
  \/ lua_getmetatable \/ lua_setmetatable \/ lua_next \/ lua_concat
  \/ lua_pushcclosure \/ lua_getfenv \/ lua_setfenv \/ lua_getupvalue \/ lua_setupvalue

Next == Calling /\ UNCHANGED frame

Spec == Init /\ [][Next]_vars

-----------------------------------------------------------------------------
Values == {"nil", "num", "str"} \cup heap \cup Initial

\* The state is well typed.
TypeOK ==
  /\ top \in 0..Slots /\ mem \in [1..Slots -> Values]
  /\ \A f \in {Fun, New} : \A i \in DOMAIN ups[f] : ups[f][i] \in Values
  /\ \A t \in Tables : meta[t] \in Tables \cup {"nil"} /\ tab[t] \in [Keys -> Values]

Promised == INSTANCE ApiSpec WITH stack <- SubSeq(mem, 1, top)

\* The window of slots behaves as the stack of values the interface promises,
\* whatever is left in the slots above it, and all of them hold values.
KeepsPromise == Promised!Spec /\ []TypeOK
=============================================================================
