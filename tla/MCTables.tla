------------------------------ MODULE MCTables ------------------------------
(***************************************************************************)
(* A session, and the Lua tables that its boards and its history are:      *)
(* their two parts (HashTable), the list functions (TableLib) and          *)
(* metatables (Metatables).  These share no state; a behavior is that of   *)
(* one part, the others stay as they begin.                                *)
(***************************************************************************)
EXTENDS Session

VARIABLES
  part,                         \* The part that runs.
  t, call, iter,                \* Tab
  arr, s,                       \* Lists
  warr, ws,                     \* Whims
  allowed, fld, meta, flags     \* Meta

(***************************************************************************)
(* Tables with integer keys from 1 to 3, which may lie in both parts, and  *)
(* string keys that collide with them and with each other.  The high word  *)
(* of the double is all of a number's sum; 101 and 102 are strings.        *)
(***************************************************************************)
MCHash ==
  [k \in {1, 2, 3, 101, 102} |->
    CASE k = 1 -> 1072693248   \* 16#3FF00000
      [] k = 2 -> 1073741824   \* 16#40000000
      [] k = 3 -> 1074266112   \* 16#40080000
      [] k = 101 -> 97
      [] k = 102 -> 99]

Tab == INSTANCE HashTable WITH
  Ints <- 1..3, Strings <- {101, 102}, Hash <- MCHash, Values <- {1}, MaxBits <- 4

\* The fields of the table.
Fields ==
  IF part = "table" THEN [k \in Tab!Keys |-> Tab!luaH_get(t, k)]
  ELSE [k \in Tab!Keys |-> Nil]

TabDict == INSTANCE Dictionary WITH
  Keys <- Tab!Keys, Values <- {1}, map <- Fields

\* Lists of up to five of three numbers, sorted with <.
Lists == INSTANCE TableLib WITH
  Values <- {1, 2, 3}, MaxLen <- 5, Comparisons <- {"<"}

\* Lists of up to six elements, sorted by a function that answers as it likes;
\* what the elements are is all one to it.
Whims == INSTANCE TableLib WITH
  Values <- {1}, MaxLen <- 6, Comparisons <- {"function"}, arr <- warr, s <- ws

\* Two tables whose __index and __newindex may name each other or themselves,
\* or two tables with functions for them and for __eq.
Chains ==
  [k |-> {"nil", "v"}, index |-> {"nil", "T1", "T2"}, newindex |-> {"nil", "T1", "T2"}]
Methods ==
  [index |-> {"nil", "v", "F"}, newindex |-> {"nil", "F"}, eq |-> {"nil", "F", "G"}]

Meta == INSTANCE Metatables WITH
  Tables <- {"T1", "T2"}, AllowedSets <- {Chains, Methods}, MAXTAGLOOP <- 3

ASSUME TablesAssumption == Tab!KeysAssumption /\ Lists!ListAssumption /\ Whims!ListAssumption

-----------------------------------------------------------------------------
tvars == <<t, call, iter>>
lvars == <<arr, s>>
wvars == <<warr, ws>>
mvars == <<allowed, fld, meta, flags>>

PartsInit ==
  /\ part \in {"session", "table", "list", "whim", "metatables"}
  /\ Init /\ Tab!Init /\ Lists!Init /\ Whims!Init
  /\ Meta!Init /\ (part # "metatables" => allowed = Chains)

PartsNext ==
  /\ UNCHANGED part
  /\ \/ part = "session" /\ Next /\ UNCHANGED <<tvars, lvars, wvars, mvars>>
     \/ part = "table" /\ Tab!Next /\ UNCHANGED <<vars, lvars, wvars, mvars>>
     \/ part = "list" /\ Lists!Next /\ UNCHANGED <<vars, tvars, wvars, mvars>>
     \/ part = "whim" /\ Whims!Next /\ UNCHANGED <<vars, tvars, lvars, mvars>>
     \/ part = "metatables" /\ Meta!Next /\ UNCHANGED <<vars, tvars, lvars, wvars>>

PartsSpec ==
  /\ PartsInit
  /\ [][PartsNext]_<<part, vars, tvars, lvars, wvars, mvars>>
  /\ WF_lvars(part = "list" /\ Lists!SortStep)

-----------------------------------------------------------------------------
(***************************************************************************)
(* Properties of the tables.                                               *)
(***************************************************************************)
\* The table of ltable.c implements a dictionary: every assignment gives its key
\* its value, and no collision, no move of a colliding node, no reuse of a cleared
\* node and no change of size loses or changes another field; the array part has
\* the size computesizes is to choose.
TableIsDictionary == TabDict!Spec /\ Tab!ArrayWellUsed

\* The length (luaH_getn) is a border, however the elements are spread over the
\* two parts, and a traversal (luaH_next) gives every field that stays, once, and
\* goes on from keys that were cleared and collected meanwhile.
ReadsRight ==
  part = "table" =>
    Tab!TypeOK /\ Tab!LengthIsBorder /\ Tab!TraversalComplete /\ Tab!TraversalGoesOn

\* insert and remove (tinsert, tremove) change one element of a list, keep the
\* others in their order, and lose none on lists with holes; tconcat separates
\* the elements and fails if one is missing.
ListsKept ==
  /\ [][part = "list" => Lists!KeepsLists /\ Lists!LosesNothing]_lvars
  /\ [](part = "list" => Lists!TypeOK /\ Lists!ConcatJoins)

\* A sort by < (auxsort) ends and has then sorted the list.  By any function it
\* only swaps elements, stays within one element of its bounds, and has at most
\* log2(n) calls on the C stack.
SortRight ==
  /\ [](part = "list" => Lists!Sorted)
  /\ [](part = "whim" => Whims!TypeOK /\ Whims!InBounds /\ Whims!ShallowRecursion)
  /\ Lists!OnlySwaps /\ Whims!OnlySwaps
  /\ Lists!SortEnds

\* luaV_gettable and luaV_settable follow __index and __newindex to the end of
\* their chains, equalobj does not depend on the order of its operands, and the
\* flags in which luaT_gettm notes absent metamethods are never out of date.
MetaRight ==
  part = "metatables" =>
    /\ Meta!TypeOK
    /\ Meta!CacheRight
    /\ Meta!ReadsChain
    /\ Meta!WritesChain
    /\ Meta!EqSymmetric
=============================================================================
