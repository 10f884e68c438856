------------------------------ MODULE TableLib ------------------------------
(***************************************************************************)
(* The library of list functions (src/src/ltablib.c): insert and remove,   *)
(* on which the history of the session is built, concat, and sort, which   *)
(* calls a comparison that may be any function, may fail, and is called    *)
(* between any two changes of the table.                                   *)
(***************************************************************************)
EXTENDS Integers, Sequences, SequencesExt, FiniteSets, FiniteSetsExt

CONSTANTS
  Values,
  Nil,
  MaxLen,        \* The integer keys in use are -1 .. MaxLen + 2.
  Comparisons    \* What a sort may compare by: <, or a function.

Keys == -1..(MaxLen + 2)

\* What the constants have to be.
ListAssumption ==
  /\ MaxLen \in Nat \ {0}
  /\ Values \subseteq Int /\ Nil \notin Values
  /\ Comparisons \subseteq {"<", "function"}

VARIABLES
  arr,    \* The fields of the table with integer keys.
  s       \* The sort: pc, what it compares by (< or a function), its recursive
          \* calls (the bounds l and u of each), the indices i and j, the
          \* pivot, and the length when it began.

vars == <<arr, s>>

Idle == [pc |-> "idle", by |-> "<", calls |-> <<>>, i |-> 0, j |-> 0, p |-> Nil, n |-> 0]

\* The lengths luaL_getn may give.
Borders ==
  {n \in 0..(MaxLen + 1) : (n = 0 \/ arr[n] # Nil) /\ arr[n + 1] = Nil}

Running == s.pc \in {"ends", "low", "high", "up", "down"}

-----------------------------------------------------------------------------
(***************************************************************************)
(* insert and remove, from the border e.                                   *)
(***************************************************************************)
tinsert_down(a, e, pos, v) ==
  [k \in Keys |-> CASE k = pos -> v
                    [] k \in (pos + 1)..e -> a[k - 1]
                    [] OTHER -> a[k]]

\* The loop copies from the end: element i gets what i - 1 had before.
tinsert(a, e, pos, v) ==
  [k \in Keys |-> CASE k = pos -> v
                    [] k \in (pos + 1)..(e + 1) -> a[k - 1]
                    [] OTHER -> a[k]]

tremove(a, e, pos) ==
  [k \in Keys |-> CASE k \in pos..(e - 1) -> a[k + 1]
                    [] k = e -> Nil
                    [] OTHER -> a[k]]

\* table.insert(t, v) is table.insert(t, #t + 1, v).
Insert(pos, v) ==
  /\ ~Running
  /\ \E e \in Borders : e < MaxLen /\ arr' = tinsert(arr, e, pos, v)
  /\ s' = Idle

\* table.remove(t) is table.remove(t, #t); outside of 1..#t nothing happens.
Delete(pos) ==
  /\ ~Running
  /\ \E e \in Borders :
       arr' = IF pos \in 1..e THEN tremove(arr, e, pos) ELSE arr
  /\ s' = Idle

\* The elements from i to last with the separator between them, or an error.
addfield(b, i) ==
  IF b.failed \/ arr[i] = Nil THEN [b EXCEPT !.failed = TRUE]
  ELSE [b EXCEPT !.text = Append(@, arr[i])]

tconcat(sep, i, last) ==
  LET body == FoldLeft(LAMBDA b, k : LET c == addfield(b, i + k - 1)
                                     IN  [c EXCEPT !.text = Append(@, sep)],
                       [text |-> <<>>, failed |-> FALSE], [k \in 1..(last - i) |-> k])
  IN  IF i <= last THEN addfield(body, last) ELSE body

-----------------------------------------------------------------------------
(***************************************************************************)
(* sort: quicksort with the median of three, one step per comparison.      *)
(***************************************************************************)
Call == Last(s.calls)
l == Call.l
u == Call.u
mid == (l + u) \div 2

set2(a, i, j) == [a EXCEPT ![i] = a[j], ![j] = a[i]]

\* The answers to "a < b?": a function gives any, < fails on a missing element.
Answers(a, b) ==
  IF s.by = "function" THEN {"yes", "no", "error"}
  ELSE IF Nil \in {a, b} THEN {"error"}
  ELSE {IF a < b THEN "yes" ELSE "no"}

\* The comparison of a and b is answered; an error leaves the sort.
sort_comp(a, b, Yes, No) ==
  \/ "yes" \in Answers(a, b) /\ Yes
  \/ "no" \in Answers(a, b) /\ No
  \/ "error" \in Answers(a, b) /\ s' = [s EXCEPT !.pc = "error"] /\ UNCHANGED arr

\* To the loop of the innermost call that has something left to sort.
auxsort(calls) ==
  LET open == {k \in DOMAIN calls : calls[k].l < calls[k].u}
  IN  s' = IF open = {} THEN [s EXCEPT !.pc = "sorted", !.calls = <<>>]
           ELSE [s EXCEPT !.pc = "ends", !.calls = SubSeq(calls, 1, Max(open)),
                          !.i = 0, !.j = 0, !.p = Nil]

return == auxsort(Front(s.calls))

Sort(by) ==
  /\ ~Running
  /\ \E n \in Borders \cap 0..MaxLen :
       s' = IF n < 2 THEN [Idle EXCEPT !.pc = "sorted", !.n = n]
            ELSE [Idle EXCEPT !.pc = "ends", !.by = by, !.n = n,
                              !.calls = <<[l |-> 1, u |-> n]>>]
  /\ UNCHANGED arr

\* Is a[u] < a[l]?
Ends ==
  LET then == IF u - l = 1 THEN return ELSE s' = [s EXCEPT !.pc = "low"]
  IN  /\ s.pc = "ends"
      /\ sort_comp(arr[u], arr[l], arr' = set2(arr, l, u) /\ then,
                                   UNCHANGED arr /\ then)

\* The pivot goes to u - 1, and the partition begins.
Pivot(a) ==
  IF u - l = 2 THEN arr' = a /\ return
  ELSE /\ arr' = set2(a, mid, u - 1)
       /\ s' = [s EXCEPT !.pc = "up", !.p = a[mid], !.i = l, !.j = u - 1]

\* Is a[mid] < a[l], and if not, is a[u] < a[mid]?
Low ==
  /\ s.pc = "low"
  /\ sort_comp(arr[mid], arr[l], Pivot(set2(arr, mid, l)),
               s' = [s EXCEPT !.pc = "high"] /\ UNCHANGED arr)

High ==
  /\ s.pc = "high"
  /\ sort_comp(arr[u], arr[mid], Pivot(set2(arr, mid, u)), Pivot(arr))

InvalidOrder == s' = [s EXCEPT !.pc = "error"] /\ UNCHANGED arr

\* ++i while a[i] < P.
Up ==
  /\ s.pc = "up"
  /\ sort_comp(arr[s.i + 1], s.p,
       IF s.i + 1 > u THEN InvalidOrder
       ELSE s' = [s EXCEPT !.i = @ + 1] /\ UNCHANGED arr,
       s' = [s EXCEPT !.i = @ + 1, !.pc = "down"] /\ UNCHANGED arr)

\* The parts on both sides of the pivot: the call keeps the larger one and
\* calls itself for the smaller one.
Halves_short(i) ==
  IF i - l < u - i
  THEN <<[l |-> i + 2, u |-> u], [l |-> l, u |-> i - 1]>>
  ELSE <<[l |-> l, u |-> i - 1], [l |-> i + 1, u |-> u]>>

Halves(i) ==
  IF i - l < u - i
  THEN <<[l |-> i + 1, u |-> u], [l |-> l, u |-> i - 1]>>
  ELSE <<[l |-> l, u |-> i - 1], [l |-> i + 1, u |-> u]>>

\* --j while P < a[j]; then a[i] and a[j] change places, or i and j have met.
Down ==
  LET j == s.j - 1
  IN  /\ s.pc = "down"
      /\ sort_comp(s.p, arr[j],
           IF j < l THEN InvalidOrder
           ELSE s' = [s EXCEPT !.j = j] /\ UNCHANGED arr,
           IF j < s.i
           THEN arr' = set2(arr, u - 1, s.i) /\ auxsort(Front(s.calls) \o Halves(s.i))
           ELSE arr' = set2(arr, s.i, j) /\ s' = [s EXCEPT !.j = j, !.pc = "up"])

SortStep == Ends \/ Low \/ High \/ Up \/ Down

-----------------------------------------------------------------------------
Init == arr = [k \in Keys |-> Nil] /\ s = Idle

Next ==
  \/ \E pos \in 0..MaxLen, v \in Values : Insert(pos, v)
  \/ \E pos \in 0..MaxLen : Delete(pos)
  \/ \E by \in Comparisons : Sort(by)
  \/ SortStep

\* A comparison returns, so a sort that has begun goes on.
Spec == Init /\ [][Next]_vars /\ WF_vars(SortStep)

-----------------------------------------------------------------------------
(***************************************************************************)
(* Properties.                                                             *)
(***************************************************************************)
\* The state is well typed.
TypeOK ==
  /\ arr \in [Keys -> Values \cup {Nil}]
  /\ s.by \in Comparisons \cup {"<"}
  /\ s.pc \in {"idle", "ends", "low", "high", "up", "down", "sorted", "error"}
  /\ \A k \in DOMAIN s.calls : s.calls[k].l \in 1..MaxLen /\ s.calls[k].u \in 0..MaxLen
  /\ s.i \in 0..(MaxLen + 1) /\ s.j \in 0..MaxLen

Count(a, v) == Cardinality({k \in Keys : a[k] = v})
Proper(a, n) == \A k \in Keys : a[k] # Nil <=> k \in 1..n
List(a, n) == [k \in 1..n |-> a[k]]

\* insert and remove, on a list without holes, insert and remove one element
\* where they are told to and keep all others in their order.
KeepsLists ==
  \A n \in 0..(MaxLen - 1) : ~Running /\ s' = Idle /\ Proper(arr, n) =>
       /\ \A pos \in 1..(n + 1), v \in Values : Insert(pos, v) =>
            Proper(arr', n + 1) /\ List(arr', n + 1) = InsertAt(List(arr, n), pos, v)
       /\ \A pos \in 1..n : Delete(pos) =>
            Proper(arr', n - 1) /\ List(arr', n - 1) = RemoveAt(List(arr, n), pos)

\* On a list with holes too, whatever border they take for its length, no
\* other element is lost or doubled, unless the new one is put past the border;
\* remove takes away the element at the place it is told, and one only.
LosesNothing ==
  ~Running /\ s' = Idle =>
       /\ \A pos \in 0..MaxLen, v \in Values :
            (\A e \in Borders : pos <= e + 1) /\ Insert(pos, v) =>
              \A w \in Values : Count(arr', w) = Count(arr, w) + (IF w = v THEN 1 ELSE 0)
       /\ \A pos \in 0..MaxLen : Delete(pos) =>
            \E e \in Borders : \A w \in Values :
              Count(arr', w) =
                Count(arr, w) - (IF pos \in 1..e /\ w = arr[pos] THEN 1 ELSE 0)

\* concat puts a separator between any two elements and nowhere else, and it
\* fails exactly if an element is missing.
ConcatJoins ==
  \A i \in 1..MaxLen, last \in 0..MaxLen :
    LET c == tconcat("sep", i, last)
        n == last - i + 1
    IN  /\ c.failed <=> \E k \in i..last : arr[k] = Nil
        /\ ~c.failed =>
             c.text = [k \in 1..(IF n > 0 THEN 2 * n - 1 ELSE 0) |->
                         IF k % 2 = 1 THEN arr[i + (k \div 2)] ELSE "sep"]

\* A sort by < that ends has sorted the list.
Sorted ==
  s.pc = "sorted" /\ s.by = "<" =>
    \A a, b \in 1..s.n : a < b => arr[a] <= arr[b]

\* The comparison, which may raise an error or be asked anything about the
\* table, never sees an element missing or doubled: a sort only swaps, and an
\* inconsistent order does not make it drop one.
OnlySwaps ==
  [][Running => \A v \in Values \cup {Nil} : Count(arr', v) = Count(arr, v)]_vars

\* It reads and swaps nothing farther than one element past its bounds.
InBounds ==
  Running =>
    /\ s.i <= s.n + 1 /\ s.j >= 0
    /\ \A k \in DOMAIN s.calls : 1 <= s.calls[k].l /\ s.calls[k].u <= s.n

\* The C stack holds at most log2(n) calls of auxsort, however bad the pivots.
ShallowRecursion == Running => 2^(Len(s.calls) - 1) <= s.n

\* A sort by < ends.  (By a function without order it may sort the same part
\* over and over.)
SortEnds == (Running /\ s.by = "<") ~> ~Running
=============================================================================
