----------------------------- MODULE HashTable -----------------------------
(***************************************************************************)
(* The tables of the Lua runtime (src/src/ltable.c), in which the program  *)
(* keeps boards, cells, commands and the history.  A table has an array    *)
(* part and a hash part of chained nodes; a new key that finds no free     *)
(* node makes both parts anew.  Clearing a field leaves its key in its     *)
(* node, where the collector may kill it, so that next can go on from it.  *)
(***************************************************************************)
EXTENDS Integers, Sequences, FiniteSets, FiniteSetsExt, SequencesExt

CONSTANTS
  Ints,      \* The integer keys in use, from 1 on.
  Strings,   \* The string keys in use.
  Hash,      \* The hash of every key: of a string its contents', of a number
             \* the sum of the words of its floating-point representation.
  Values,
  Nil,       \* No value, no key, no node.
  MaxBits    \* The array part has at most 2^MaxBits elements; MAXBITS.

Keys == Ints \cup Strings

\* What the constants have to be.
KeysAssumption ==
  /\ Ints \subseteq Nat \ {0}
  /\ Hash \in [Keys -> Nat]
  /\ Nil \notin Values
  /\ MaxBits \in Nat

VARIABLES
  t,      \* The table: array, node (a sequence), lastfree.
  call,   \* The last operation, if it was an assignment: its key and value.
  iter    \* A traversal with next: the last key, the keys it has given, and the
          \* keys that had a value all the time since it began.

vars == <<t, call, iter>>

NoKey == [type |-> "nil", key |-> 0]
Live(k) == [type |-> "live", key |-> k]
Dead(k) == [type |-> "dead", key |-> k]
FreeNode == [k |-> NoKey, val |-> Nil, next |-> 0]

\* An empty hash part is one node, which is not the table's own.
dummynode == <<FreeNode>>
isdummy(x) == x.lastfree = 0 /\ x.node = dummynode

ceillog2(n) == CHOOSE i \in 0..n : 2^i >= n /\ \A j \in 0..(i - 1) : 2^j < n

-----------------------------------------------------------------------------
(***************************************************************************)
(* Searching.  Nodes are numbered from 1.                                  *)
(***************************************************************************)
Odd(n) == IF n % 2 = 0 THEN n + 1 ELSE n

mainposition(x, k) ==
  1 + (Hash[k] % (IF k \in Strings THEN Len(x.node) ELSE Odd(Len(x.node) - 1)))

RECURSIVE Search(_, _, _)
Search(x, k, n) ==
  CASE n = 0 -> 0
    [] n # 0 /\ x.node[n].k = Live(k) -> n
    [] OTHER -> Search(x, k, x.node[n].next)

InArray(x, k) == k \in Ints /\ k \in 1..Len(x.array)

luaH_get(x, k) ==
  IF InArray(x, k) THEN x.array[k]
  ELSE LET n == Search(x, k, mainposition(x, k))
       IN  IF n = 0 THEN Nil ELSE x.node[n].val

-----------------------------------------------------------------------------
(***************************************************************************)
(* The sizes of the two parts.  A key counts in the slice 2^(i-1)+1 .. 2^i *)
(* of the integers it lies in.                                             *)
(***************************************************************************)
ArrayUse(x) == {i \in 1..Len(x.array) : x.array[i] # Nil}
HashUse(x) == {x.node[n].k.key : n \in {m \in 1..Len(x.node) : x.node[m].val # Nil}}

nums(ints) == [i \in 0..MaxBits |-> Cardinality({k \in ints : ceillog2(k) = i})]

RECURSIVE sizes(_, _, _, _, _)
sizes(slices, all, i, a, best) ==
  IF i > MaxBits \/ 2^i \div 2 >= all \/ (i > 0 /\ a = all) THEN best
  ELSE sizes(slices, all, i + 1, a + slices[i],
         IF slices[i] > 0 /\ a + slices[i] > 2^i \div 2 THEN [n |-> 2^i, na |-> a + slices[i]]
         ELSE best)

computesizes(ints) ==
  sizes(nums(ints), Cardinality(ints), 0, 0, [n |-> 0, na |-> 0])

setnodevector(x, size) ==
  IF size = 0 THEN [x EXCEPT !.node = dummynode, !.lastfree = 0]
  ELSE [x EXCEPT !.node = [i \in 1..(2^ceillog2(size)) |-> FreeNode],
                 !.lastfree = 2^ceillog2(size)]

setarrayvector(x, size) ==
  [x EXCEPT !.array = [i \in 1..size |-> IF i <= Len(@) THEN @[i] ELSE Nil]]

-----------------------------------------------------------------------------
(***************************************************************************)
(* Inserting.  lastfree goes down from the end of the nodes and never back *)
(* up: a node whose key is cleared is not found again.                     *)
(***************************************************************************)
freepos(x) == {n \in 1..x.lastfree : x.node[n].k = NoKey}

getfreepos(x) == IF freepos(x) = {} THEN 0 ELSE Max(freepos(x))

\* The node before n in its chain.
RECURSIVE previous(_, _, _)
previous(x, from, n) ==
  IF x.node[from].next = n THEN from ELSE previous(x, x.node[from].next, n)

Put(x, n, k, v) == [x EXCEPT !.node[n].k = Live(k), !.node[n].val = v]

\* Key k comes into collision with the node mp and n is a free node.
Collide_unlinked(x, k, mp, n, v) ==
  LET other == mainposition(x, x.node[mp].k.key)
  IN  IF other # mp
      THEN Put([x EXCEPT !.node[n] = x.node[mp], !.node[mp] = FreeNode], mp, k, v)
      ELSE Put([x EXCEPT !.node[n].next = x.node[mp].next,
                         !.node[mp].next = n], n, k, v)

Collide(x, k, mp, n, v) ==
  LET other == mainposition(x, x.node[mp].k.key)
  IN  IF other # mp
      THEN Put([x EXCEPT !.node[previous(x, other, mp)].next = n,
                         !.node[n] = x.node[mp],
                         !.node[mp] = FreeNode], mp, k, v)
      ELSE Put([x EXCEPT !.node[n].next = x.node[mp].next,
                         !.node[mp].next = n], n, k, v)

RECURSIVE luaH_set(_, _, _)

\* The elements of the array that do not fit any more, and then those of the
\* hash part, the last node first, are inserted anew.
resize(x, nasize, nhsize) ==
  LET grown == setnodevector(setarrayvector(x, nasize), nhsize)
      slice == SelectSeq([i \in 1..Len(x.array) |-> i],
                         LAMBDA i : i > nasize /\ x.array[i] # Nil)
      nodes == SelectSeq(Reverse(x.node), LAMBDA nd : nd.val # Nil)
      moved == FoldLeft(LAMBDA y, i : luaH_set(y, i, x.array[i]), grown, slice)
  IN  FoldLeft(LAMBDA y, nd : luaH_set(y, nd.k.key, nd.val), moved, nodes)

rehash(x, k) ==
  LET all == ArrayUse(x) \cup HashUse(x) \cup {k}
      s   == computesizes(all \cap Ints)
  IN  resize(x, s.n, Cardinality(all) - s.na)

newkey(x, k, v) ==
  LET mp == mainposition(x, k)
      n  == getfreepos(x)
      y  == [x EXCEPT !.lastfree = IF n = 0 THEN 0 ELSE n - 1]
  IN  CASE x.node[mp].val = Nil /\ ~isdummy(x) -> Put(x, mp, k, v)
        [] ~(x.node[mp].val = Nil /\ ~isdummy(x)) /\ n = 0 ->
             luaH_set(rehash(x, k), k, v)
        [] OTHER -> Collide(y, k, mp, n, v)

\* t[k] = v.
luaH_set(x, k, v) ==
  LET n == Search(x, k, mainposition(x, k))
  IN  CASE InArray(x, k) -> [x EXCEPT !.array[k] = v]
        [] ~InArray(x, k) /\ n # 0 -> [x EXCEPT !.node[n].val = v]
        [] OTHER -> newkey(x, k, v)

-----------------------------------------------------------------------------
(***************************************************************************)
(* The length operator: a binary search in the array part, or one in the   *)
(* hash part between bounds that double.                                   *)
(***************************************************************************)
Present(x, i) == IF i \in Ints THEN luaH_get(x, i) # Nil ELSE FALSE

RECURSIVE Between(_, _, _)
Between(x, i, j) ==
  LET m == (i + j) \div 2
  IN  CASE j - i <= 1 -> i
        [] j - i > 1 /\ Present(x, m) -> Between(x, m, j)
        [] OTHER -> Between(x, i, m)

RECURSIVE unbound_search(_, _, _)
unbound_search(x, i, j) ==
  IF Present(x, j) THEN unbound_search(x, j, 2 * j) ELSE Between(x, i, j)

luaH_getn(x) ==
  LET j == Len(x.array)
  IN  CASE j > 0 /\ x.array[j] = Nil -> Between(x, 0, j)
        [] ~(j > 0 /\ x.array[j] = Nil) /\ isdummy(x) -> j
        [] OTHER -> unbound_search(x, j, j + 1)

-----------------------------------------------------------------------------
(***************************************************************************)
(* Traversal.  An index counts the elements of the array, then the nodes.  *)
(***************************************************************************)
RECURSIVE SearchDead(_, _, _)
SearchDead(x, k, n) ==
  CASE n = 0 -> 0
    [] n # 0 /\ x.node[n].k \in {Live(k), Dead(k)} -> n
    [] OTHER -> SearchDead(x, k, x.node[n].next)

\* 0 for the start of a traversal, -1 for "invalid key to next".
findindex(x, k) ==
  CASE k = NoKey -> 0
    [] k # NoKey /\ InArray(x, k.key) -> k.key
    [] OTHER -> LET n == SearchDead(x, k.key, mainposition(x, k.key))
                IN  IF n = 0 THEN -1 ELSE Len(x.array) + n

\* The elements in the order of a traversal.
Elements(x) ==
  [i \in 1..Len(x.array) |-> [k |-> Live(i), val |-> x.array[i]]]
    \o [n \in 1..Len(x.node) |-> [k |-> x.node[n].k, val |-> x.node[n].val]]

luaH_next_short(x, i) ==
  LET after == {j \in (i + 1)..(Len(Elements(x)) - 1) : Elements(x)[j].val # Nil}
  IN  IF after = {} THEN 0 ELSE Min(after)

\* The index of the element after index i, 0 if there is none.
luaH_next(x, i) ==
  LET after == {j \in (i + 1)..Len(Elements(x)) : Elements(x)[j].val # Nil}
  IN  IF after = {} THEN 0 ELSE Min(after)

-----------------------------------------------------------------------------
NoIter == [last |-> NoKey, given |-> {}, kept |-> {}, on |-> FALSE]

Init ==
  /\ t = [array |-> <<>>, node |-> dummynode, lastfree |-> 0]
  /\ call = <<>>
  /\ iter = NoIter

\* An assignment.  During a traversal only fields that exist are assigned to,
\* as the manual of next demands.
Set(k, v) ==
  /\ iter.on => luaH_get(t, k) # Nil
  /\ t' = luaH_set(t, k, v)
  /\ call' = <<k, v>>
  /\ iter' = IF ~iter.on THEN NoIter
             ELSE [iter EXCEPT !.kept = IF v = Nil THEN @ \ {k} ELSE @]

\* The collector kills the string keys of cleared fields.
Collect ==
  /\ t' = [t EXCEPT !.node = [n \in DOMAIN @ |->
             IF @[n].val = Nil /\ @[n].k.type = "live" /\ @[n].k.key \in Strings
             THEN [@[n] EXCEPT !.k = Dead(@.key)] ELSE @[n]]]
  /\ call' = <<>>
  /\ iter' = IF iter.on THEN iter ELSE NoIter

Start ==
  /\ ~iter.on
  /\ iter' = [NoIter EXCEPT !.on = TRUE, !.kept = {k \in Keys : luaH_get(t, k) # Nil}]
  /\ call' = <<>>
  /\ UNCHANGED t

Step ==
  /\ iter.on
  /\ LET i == findindex(t, iter.last)
         j == luaH_next(t, i)
     IN  /\ i # -1
         /\ iter' = IF j = 0 THEN [iter EXCEPT !.on = FALSE]
                    ELSE [iter EXCEPT !.last = Elements(t)[j].k,
                                      !.given = @ \cup {Elements(t)[j].k.key}]
  /\ call' = <<>>
  /\ UNCHANGED t

Next ==
  \/ \E k \in Keys, v \in Values \cup {Nil} : Set(k, v)
  \/ Collect
  \/ Start
  \/ Step

Spec == Init /\ [][Next]_vars

-----------------------------------------------------------------------------
(***************************************************************************)
(* Properties.                                                             *)
(***************************************************************************)
\* The state is well typed.
TypeOK ==
  /\ t.array \in Seq(Values \cup {Nil})
  /\ t.lastfree \in 0..Len(t.node)
  /\ \A n \in 1..Len(t.node) :
       /\ t.node[n].k.key \in Keys \cup {0}
       /\ t.node[n].val \in Values \cup {Nil}
       /\ t.node[n].next \in 0..Len(t.node)

\* #t is a border: t[#t] is there (or #t is 0) and t[#t + 1] is not, however
\* the elements are spread over the two parts.
LengthIsBorder ==
  LET n == luaH_getn(t)
  IN  (n = 0 \/ Present(t, n)) /\ ~Present(t, n + 1)

Used(x) == {k \in Keys : luaH_get(x, k) # Nil}

\* Whenever a new field changes the size of the array, it becomes the largest
\* power of two of whose slots more than half are in use (the test "more than
\* half elements present?" of computesizes), although the counts come from two
\* parts and the new key is in neither.
ArrayWellUsed ==
  [][LET fit == {i \in 0..MaxBits : 2 * Cardinality(Used(t') \cap 1..(2^i)) > 2^i}
     IN  Len(t'.array) # Len(t.array) /\ Used(t') # Used(t) =>
           Len(t'.array) = IF fit = {} THEN 0 ELSE 2^Max(fit)]_vars

\* A traversal gives every field that is there all the time, although fields
\* are changed and cleared on the way and the collector kills their keys.
TraversalComplete == iter.given # {} /\ ~iter.on => iter.kept \subseteq iter.given

\* It never gives one twice, and its key is always found again.
TraversalGoesOn ==
  iter.on =>
    LET i == findindex(t, iter.last)
        j == luaH_next(t, i)
    IN  i # -1 /\ (j # 0 => Elements(t)[j].k.key \notin iter.given)
=============================================================================
