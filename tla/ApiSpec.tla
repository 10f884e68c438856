------------------------------- MODULE ApiSpec -------------------------------
(***************************************************************************)
(* What the C interface of Lua promises to the code that calls it: a stack *)
(* of values, places outside of the stack (the registry, the globals, the  *)
(* environment and the upvalues of the running function), and operations   *)
(* that move values between them.  Nothing is said of slots or addresses.  *)
(***************************************************************************)
EXTENDS Integers, Sequences, SequencesExt

CONSTANTS
  Tables,    \* The tables that may be made.
  Keys,      \* The keys of a table: the number "num", the string "str", or both.
  Fun,       \* The running function.
  New        \* The function that may be made.

VARIABLES
  stack,     \* The values on the stack of the running function.
  ups,       \* The upvalues of each function.
  env,       \* The environment of each function.
  pseudo,    \* The values of the registry and of the globals.
  tab,       \* The contents of each table.
  meta,      \* The metatable of each table, or "nil".
  heap,      \* The tables and functions that exist.
  call       \* The last call: the function, an index, a number, and the answer.

vars == <<stack, ups, env, pseudo, tab, meta, heap, call>>
objects == <<ups, env, pseudo, tab, meta, heap>>

Top == Len(stack)
REG == -10
ENV == -11
GLOB == -12

\* The value an index names, counted from the bottom or from the top.
Named(i) ==
  CASE i > 0 /\ i <= Top -> stack[i]
    [] i > Top -> "none"
    [] i < 0 /\ i > REG -> stack[Top + 1 + i]
    [] i = REG -> pseudo["reg"]
    [] i = ENV -> env[Fun]
    [] i = GLOB -> pseudo["gt"]
    [] OTHER -> IF GLOB - i <= Len(ups[Fun]) THEN ups[Fun][GLOB - i] ELSE "none"

\* Of the places an index names, the value becomes v; n values are popped.
Assigned(i, v, n) ==
  LET at == IF i > 0 THEN i ELSE Top + 1 + i
  IN  IF i > REG THEN /\ stack' = SubSeq([stack EXCEPT ![at] = v], 1, Top - n)
                      /\ UNCHANGED objects
      ELSE /\ stack' = SubSeq(stack, 1, Top - n) /\ UNCHANGED <<tab, meta, heap>>
           /\ pseudo' = CASE i = REG -> [pseudo EXCEPT !["reg"] = v]
                          [] i = GLOB -> [pseudo EXCEPT !["gt"] = v] [] OTHER -> pseudo
           /\ env' = IF i = ENV THEN [env EXCEPT ![Fun] = v] ELSE env
           /\ ups' = IF i < GLOB THEN [ups EXCEPT ![Fun][GLOB - i] = v] ELSE ups

\* n values are popped, those of s are pushed, and no object changes.
Becomes(n, s) == stack' = SubSeq(stack, 1, Top - n) \o s /\ UNCHANGED objects

\* The objects change as given; n values are popped.
Stores(n, tab1, meta1, env1, ups1) ==
  /\ stack' = SubSeq(stack, 1, Top - n)
  /\ tab' = tab1 /\ meta' = meta1 /\ env' = env1 /\ ups' = ups1
  /\ UNCHANGED <<pseudo, heap>>

Get(t, k) == IF k \in Keys THEN tab[t][k] ELSE "nil"
Put(t, k, v) == IF k \in Keys THEN [tab EXCEPT ![t][k] = v] ELSE tab

\* What each call does to the stack and to the objects.
Promise(c) ==
  LET i == c.i
      v == Named(i)
      Was == Last(stack)
  IN  CASE c.f = "settop" ->
             LET n == IF i >= 0 THEN i ELSE Top + 1 + i
             IN  /\ stack' = [j \in 1..n |-> IF j <= Top THEN stack[j] ELSE "nil"]
                 /\ UNCHANGED objects
        [] c.f = "remove" ->
             stack' = RemoveAt(stack, IF i > 0 THEN i ELSE Top + 1 + i) /\ UNCHANGED objects
        [] c.f = "insert" ->
             /\ stack' = InsertAt(Front(stack), IF i > 0 THEN i ELSE Top + 1 + i, Was)
             /\ UNCHANGED objects
        [] c.f = "replace" -> Assigned(i, Was, 1)
        [] c.f = "pushvalue" -> Becomes(0, <<IF v = "none" THEN "nil" ELSE v>>)
        [] c.f = "push" -> Becomes(0, <<c.n>>)
        [] c.f = "type" -> Becomes(0, <<>>) /\ c.r = v
        [] c.f = "rawequal" ->
             /\ Becomes(0, <<>>)
             /\ c.r = IF v # "none" /\ Named(c.n) # "none" /\ v = Named(c.n) THEN "true" ELSE "false"
        [] c.f = "tolstring" ->
             IF v = "num" THEN Assigned(i, "str", 0) /\ c.r = "str"
             ELSE Becomes(0, <<>>) /\ c.r = IF v = "str" THEN "str" ELSE "NULL"
        [] c.f = "gettable" -> Becomes(1, <<Get(v, Was)>>)
        [] c.f = "getfield" -> Becomes(0, <<Get(v, c.n)>>)
        [] c.f = "settable" -> Stores(2, Put(v, stack[Top - 1], Was), meta, env, ups)
        [] c.f = "setfield" -> Stores(1, Put(v, c.n, Was), meta, env, ups)
        [] c.f = "getmetatable" ->
             IF v \in Tables /\ meta[v] # "nil" THEN Becomes(0, <<meta[v]>>) /\ c.r = "true"
             ELSE Becomes(0, <<>>) /\ c.r = "false"
        [] c.f = "setmetatable" -> Stores(1, tab, [meta EXCEPT ![v] = Was], env, ups)
        [] c.f = "getfenv" -> Becomes(0, <<IF v \in DOMAIN env THEN env[v] ELSE "nil">>)
        [] c.f = "setfenv" ->
             IF v \in DOMAIN env THEN Stores(1, tab, meta, [env EXCEPT ![v] = Was], ups) /\ c.r = "true"
             ELSE Becomes(1, <<>>) /\ c.r = "false"
        [] c.f = "getupvalue" ->
             IF v \in DOMAIN ups /\ c.n \in DOMAIN ups[v] THEN Becomes(0, <<ups[v][c.n]>>)
             ELSE Becomes(0, <<>>)
        [] c.f = "setupvalue" ->
             IF v \in DOMAIN ups /\ c.n \in DOMAIN ups[v]
             THEN Stores(1, tab, meta, env, [ups EXCEPT ![v][c.n] = Was])
             ELSE Becomes(0, <<>>)
        [] c.f = "next" ->
             \/ c.r = "false" /\ Becomes(1, <<>>)
             \/ \E k \in Keys \ {Was} :
                  c.r = "true" /\ tab[v][k] # "nil" /\ Becomes(1, <<k, tab[v][k]>>)
        [] c.f = "concat" -> IF c.n = 1 THEN Becomes(0, <<>>) ELSE Becomes(c.n, <<"str">>)
        [] c.f = "createtable" -> \E t \in Tables \ heap :
             /\ stack' = Append(stack, t) /\ heap' = heap \cup {t}
             /\ tab' = [tab EXCEPT ![t] = [k \in Keys |-> "nil"]] /\ meta' = [meta EXCEPT ![t] = "nil"]
             /\ UNCHANGED <<ups, env, pseudo>>
        [] c.f = "pushcclosure" ->
             /\ stack' = SubSeq(stack, 1, Top - c.n) \o <<New>> /\ heap' = heap \cup {New}
             /\ ups' = [ups EXCEPT ![New] = SubSeq(stack, Top - c.n + 1, Top)]
             /\ env' = [env EXCEPT ![New] = env[Fun]]
             /\ UNCHANGED <<pseudo, tab, meta>>

Init == stack = <<>>

Next == Promise(call')

Spec == Init /\ [][Next]_vars
=============================================================================
