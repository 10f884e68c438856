------------------------------ MODULE Metatables ------------------------------
(***************************************************************************)
(* Reading and writing tables through metatables (src/src/lvm.c, ltm.c):   *)
(* a value that is absent is looked for along __index, a new one is put    *)
(* along __newindex.  Each table caches which metamethods it lacks, and    *)
(* every way to write into a table must keep that cache true.              *)
(***************************************************************************)
EXTENDS Integers, Sequences

CONSTANTS
  Tables,      \* The tables, which may be each other's metatables.
  AllowedSets, \* The values that the fields k, index, newindex and eq may hold in a program.
  MAXTAGLOOP   \* The longest chain that is followed.

NULL == "NULL"

VARIABLES
  allowed,  \* The values each field may hold in this program.
  fld,      \* The fields of each table; "nil" is an absent one.
  meta,     \* The metatable of each table, or NULL.
  flags     \* The metamethods each table is known to lack.

vars == <<allowed, fld, meta, flags>>

Fields == DOMAIN allowed
Events == Fields \cap {"index", "newindex", "eq"}

Functions == {"F", "G"}

luaT_gettm(fl, mt, e) ==
  IF fld[mt][e] = "nil" THEN [flags |-> [fl EXCEPT ![mt] = @ \cup {e}], tm |-> NULL]
                        ELSE [flags |-> fl, tm |-> fld[mt][e]]

\* The metamethod of a metatable; the cache answers first.
fasttm(fl, mt, e) ==
  IF mt = NULL \/ e \notin Fields THEN [flags |-> fl, tm |-> NULL]
  ELSE IF e \in fl[mt] THEN [flags |-> fl, tm |-> NULL]
  ELSE luaT_gettm(fl, mt, e)

\* The metamethod of any value, without the cache; only tables have one here.
luaT_gettmbyobj(o, e) ==
  IF o \in Tables /\ meta[o] # NULL THEN fld[meta[o]][e] ELSE "nil"

RECURSIVE luaV_gettable(_, _, _, _)
luaV_gettable(fl, t, key, loop) ==
  IF loop = MAXTAGLOOP THEN [flags |-> fl, val |-> "loop"]
  ELSE IF t \notin Tables THEN [flags |-> fl, val |-> "type error"]
  ELSE IF fld[t][key] # "nil" THEN [flags |-> fl, val |-> fld[t][key]]
  ELSE LET r == fasttm(fl, meta[t], "index")
       IN  IF r.tm = NULL THEN [flags |-> r.flags, val |-> "nil"]
           ELSE IF r.tm \in Functions THEN [flags |-> r.flags, val |-> "call"]
           ELSE luaV_gettable(r.flags, r.tm, key, loop + 1)

\* luaH_set makes room for the key and forgets the cache of the table.
luaH_set(fl, t) == [fl EXCEPT ![t] = {}]

RECURSIVE luaV_settable_kept(_, _, _, _, _)
luaV_settable_kept(fl, t, key, v, loop) ==
  IF loop = MAXTAGLOOP THEN [flags |-> fl, fld |-> fld, out |-> "loop"]
  ELSE IF t \notin Tables THEN [flags |-> fl, fld |-> fld, out |-> "type error"]
  ELSE LET r == IF fld[t][key] # "nil" THEN [flags |-> luaH_set(fl, t), tm |-> NULL]
                ELSE fasttm(luaH_set(fl, t), meta[t], "newindex")
       IN  IF r.tm = NULL
           THEN [flags |-> r.flags, fld |-> [fld EXCEPT ![t][key] = v], out |-> "done"]
           ELSE IF r.tm \in Functions THEN [flags |-> r.flags, fld |-> fld, out |-> "call"]
           ELSE luaV_settable_kept(r.flags, r.tm, key, v, loop + 1)

\* The cache is forgotten once more after the value is in place: the look for
\* __newindex may have filled it, when the table is its own metatable.
RECURSIVE luaV_settable(_, _, _, _, _)
luaV_settable(fl, t, key, v, loop) ==
  IF loop = MAXTAGLOOP THEN [flags |-> fl, fld |-> fld, out |-> "loop"]
  ELSE IF t \notin Tables THEN [flags |-> fl, fld |-> fld, out |-> "type error"]
  ELSE LET r == IF fld[t][key] # "nil" THEN [flags |-> luaH_set(fl, t), tm |-> NULL]
                ELSE fasttm(luaH_set(fl, t), meta[t], "newindex")
       IN  IF r.tm = NULL
           THEN [flags |-> [r.flags EXCEPT ![t] = {}], fld |-> [fld EXCEPT ![t][key] = v],
                 out |-> "done"]
           ELSE IF r.tm \in Functions THEN [flags |-> r.flags, fld |-> fld, out |-> "call"]
           ELSE luaV_settable(r.flags, r.tm, key, v, loop + 1)

\* The metamethod that compares two tables, when they agree on it.
get_compTM(fl, mt1, mt2) ==
  LET r1 == fasttm(fl, mt1, "eq")
      r2 == fasttm(r1.flags, mt2, "eq")
  IN  IF r1.tm = NULL \/ mt1 = mt2 THEN r1
      ELSE IF r2.tm = NULL \/ r2.tm = r1.tm THEN r2
      ELSE [flags |-> r2.flags, tm |-> NULL]

\* The order of two values, the same way but without the cache; the metamethods of
\* order are fields as any other.
call_orderTM(p1, p2, e) ==
  LET tm1 == luaT_gettmbyobj(p1, e)
  IN  IF tm1 # "nil" /\ tm1 = luaT_gettmbyobj(p2, e) THEN tm1 ELSE "none"

-----------------------------------------------------------------------------
\* luaH_new: an empty table lacks every metamethod.
Init ==
  /\ allowed \in AllowedSets
  /\ fld = [t \in Tables |-> [f \in Fields |-> "nil"]]
  /\ meta = [t \in Tables |-> NULL]
  /\ flags = [t \in Tables |-> Events]

Get(t, k) ==
  /\ flags' = luaV_gettable(flags, t, k, 0).flags
  /\ UNCHANGED <<fld, meta>>

Set(t, k, v) ==
  LET r == luaV_settable(flags, t, k, v, 0)
  IN  flags' = r.flags /\ fld' = r.fld /\ UNCHANGED meta

lua_rawset(t, k, v) ==
  /\ flags' = luaH_set(flags, t) /\ fld' = [fld EXCEPT ![t][k] = v]
  /\ UNCHANGED meta

Equal(t1, t2) ==
  /\ t1 # t2
  /\ flags' = get_compTM(flags, meta[t1], meta[t2]).flags
  /\ UNCHANGED <<fld, meta>>

SetMetatable(t, mt) == meta' = [meta EXCEPT ![t] = mt] /\ UNCHANGED <<fld, flags>>

Next ==
  /\ \E t \in Tables :
       \/ \E k \in Fields : Get(t, k)
       \/ \E k \in Fields : \E v \in allowed[k] : Set(t, k, v) \/ lua_rawset(t, k, v)
       \/ \E u \in Tables : Equal(t, u)
       \/ \E mt \in Tables \cup {NULL} : SetMetatable(t, mt)
  /\ UNCHANGED allowed

Spec == Init /\ [][Next]_vars

-----------------------------------------------------------------------------
\* The state is well typed.
TypeOK ==
  /\ allowed \in AllowedSets
  /\ \A t \in Tables : \A k \in Fields : fld[t][k] \in allowed[k]
  /\ meta \in [Tables -> Tables \cup {NULL}] /\ flags \in [Tables -> SUBSET Events]

\* A table never remembers that it lacks a metamethod which it has.
CacheRight == \A t \in Tables : \A e \in flags[t] : fld[t][e] = "nil"

\* The metamethod of a table, as a program sees it.
Method(t, e) == IF meta[t] = NULL \/ e \notin Fields THEN "nil" ELSE fld[meta[t]][e]

\* The tables that are visited for a key, along a metamethod.
Chain(t, key, e) ==
  LET Follow[n \in 1..MAXTAGLOOP, u \in Tables] ==
        LET m == Method(u, e)
        IN  IF fld[u][key] # "nil" \/ m \notin Tables \/ n = MAXTAGLOOP THEN <<u>>
            ELSE <<u>> \o Follow[n + 1, m]
  IN  Follow[1, t]

EndOf(t, key, e) == LET c == Chain(t, key, e) IN c[Len(c)]

\* A key is read from the first table of the chain that has it; it is absent when
\* the chain ends without it, and a chain that does not end is an error.
ReadsChain == \A t \in Tables, k \in Fields :
  LET u == EndOf(t, k, "index")
      got == luaV_gettable(flags, t, k, 0).val
  IN  IF fld[u][k] # "nil" THEN got = fld[u][k]
      ELSE CASE Method(u, "index") = "nil" -> got = "nil"
             [] Method(u, "index") \in Functions -> got = "call"
             [] Method(u, "index") \in Tables -> got = "loop" /\ Len(Chain(t, k, "index")) = MAXTAGLOOP
             [] OTHER -> got \in {"type error", "loop"}

\* A value is written into the table where the chain of __newindex ends and into
\* no other one, and not at all when a function is called or the chain has no end.
WritesChain == \A t \in Tables, k \in Fields : \A v \in allowed[k] :
  LET u == EndOf(t, k, "newindex")
      r == luaV_settable(flags, t, k, v, 0)
  IN  IF fld[u][k] # "nil" \/ Method(u, "newindex") = "nil"
      THEN r.fld = [fld EXCEPT ![u][k] = v]
      ELSE r.fld = fld /\ r.out # "done"

\* Two tables are compared by the same metamethod whichever comes first.
EqSymmetric == \A t, u \in Tables :
  /\ get_compTM(flags, meta[t], meta[u]).tm = get_compTM(flags, meta[u], meta[t]).tm
  /\ "eq" \in Fields => call_orderTM(t, u, "eq") = call_orderTM(u, t, "eq")
=============================================================================
