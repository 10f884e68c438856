------------------------------ MODULE Collector ------------------------------
(***************************************************************************)
(* The garbage collector of the Lua runtime that the program is linked     *)
(* with (src/src/lgc.c), and the operations of the running code that it    *)
(* has to keep up with: it marks and sweeps in small steps, between which  *)
(* the code goes on allocating, moving and overwriting references.  Boards *)
(* and the history live as long as it finds them.                          *)
(*                                                                         *)
(* An object is gray, black, or one of two whites, so that objects made    *)
(* during a sweep survive it: "white" is the current one, "old" the other. *)
(* A table has one entry; in an ordinary one its key is a number, in a     *)
(* weak one an object.  The value of a userdata is its environment, of a   *)
(* closure its upvalue; the value of an open upvalue is in its stack slot. *)
(*                                                                         *)
(* The collector's lists are sets: the order of their members is left open.*)
(***************************************************************************)
EXTENDS Integers, FiniteSets

CONSTANTS
  Objects,    \* Names of objects that may be allocated.
  KindSets,   \* Sets of kinds of object that a program may allocate.
  Slots,      \* The slots of the stack of the main thread.
  SweepMax,   \* How many objects one step of the sweep visits; 40 in the code.
  Nil, MainThread, Globals

All == Objects \cup {MainThread, Globals}

ASSUME ConstantsAssumption ==
  /\ \A ks \in KindSets :
       ks \subseteq {"table", "weakvalue", "weakkey", "string", "udata", "closure"}
  /\ Slots \subseteq Nat \ {0}
  /\ SweepMax \in Nat \ {0}
  /\ Nil \notin All /\ MainThread # Globals /\ MainThread \notin Objects /\ Globals \notin Objects

VARIABLES
  kinds,  \* The kinds of object that this program allocates.
  h,      \* The heap: kind, key, val and open (the slot of an open upvalue, or
          \* 0) of each object, and the stack.
  g,      \* The collector: state, marks, the lists gray, again
          \* (grayagain), weak, root (rootgc), tmu (tmudata), the part of root
          \* and the strings that are yet to be swept, and which userdata are
          \* marked as finalized.
  full,   \* What luaC_fullgc is doing, if it runs.
  calls   \* How often the finalizer of each userdata has been called.

vars == <<kinds, h, g, full, calls>>

iswhite(c, o) == c.mark[o] \in {"white", "old"}
isdead(c, o) == c.mark[o] = "old"
Paint(c, o, color) == [c EXCEPT !.mark[o] = color]
makewhite(c, o) == Paint(c, o, "white")

\* The value of a reference: an open upvalue's is in the stack.
Value(x, o) == IF x.open[o] # 0 THEN x.stack[x.open[o]] ELSE x.val[o]

-----------------------------------------------------------------------------
(***************************************************************************)
(* Marking.                                                                *)
(***************************************************************************)
Traversed == {"table", "weakvalue", "weakkey", "closure", "thread"}

\* What marking os goes on to: the value of an upvalue, the environment of a
\* userdata.
Through(x, c, os) ==
  {Value(x, o) : o \in {p \in os \ {Nil} : iswhite(c, p) /\ x.kind[p] \in {"upval", "udata"}}}

\* reallymarkobject, for each of os.  No value is an upvalue, and an
\* environment is a table, so no more than three objects are marked in turn.
markobjects(x, c, os) ==
  LET one == Through(x, c, os)
      new == {o \in (os \cup one \cup Through(x, c, one)) \ {Nil} : iswhite(c, o)}
      black == {o \in new : x.kind[o] = "udata" \/ (x.kind[o] = "upval" /\ x.open[o] = 0)}
  IN  [c EXCEPT !.mark = [o \in All |-> IF o \in black THEN "black"
                                       ELSE IF o \in new THEN "gray" ELSE @[o]],
                !.gray = @ \cup {o \in new : x.kind[o] \in Traversed}]

\* The references of a table that are followed; none if the value is nil.
traversetable(x, o) ==
  IF x.val[o] = Nil THEN {} ELSE IF x.kind[o] = "weakvalue" THEN {x.key[o]} ELSE {x.val[o]}

\* The gray object o is traversed.
propagatemark(x, c, o) ==
  LET d == [c EXCEPT !.gray = @ \ {o}]
  IN  CASE x.kind[o] = "table"   -> markobjects(x, Paint(d, o, "black"), traversetable(x, o))
        [] x.kind[o] \in {"weakvalue", "weakkey"} ->
             markobjects(x, [d EXCEPT !.weak = @ \cup {o}], traversetable(x, o))
        [] x.kind[o] = "closure" -> markobjects(x, Paint(d, o, "black"), {x.val[o]})
        [] x.kind[o] = "thread"  ->
             markobjects(x, [d EXCEPT !.again = @ \cup {o}],
                         {Globals} \cup {x.stack[s] : s \in Slots})

\* removeentry: the key of an empty entry of a table that is traversed is dead.
Removed(x, o) == IF x.val[o] = Nil THEN [x EXCEPT !.key[o] = Nil] ELSE x

Tables(x) == {o \in All : x.kind[o] \in {"table", "weakvalue", "weakkey"}}

markroot(x, c) ==
  markobjects(x, [c EXCEPT !.gray = {}, !.again = {}, !.weak = {}, !.state = "propagate"],
              {MainThread, Globals})

-----------------------------------------------------------------------------
(***************************************************************************)
(* The atomic step that ends the mark phase goes through the states        *)
(* upvalues, weak, again and udata, in each of which it marks until no     *)
(* object is gray.  The code does not run until it is done.                *)
(***************************************************************************)
OpenUpvalues(x) == {o \in Objects : x.kind[o] = "upval" /\ x.open[o] # 0}

remarkupvals(x, c) ==
  markobjects(x, c, {Value(x, o) : o \in {p \in OpenUpvalues(x) : c.mark[p] = "gray"}})

separateudata_again(x, c) ==
  LET dead == {o \in c.root : x.kind[o] = "udata" /\ iswhite(c, o)}
  IN  [c EXCEPT !.root = @ \ dead, !.tmu = @ \cup dead, !.finalized = @ \cup dead]

\* White userdata that have not been finalized move to the list tmu.
separateudata(x, c) ==
  LET dead == {o \in c.root : x.kind[o] = "udata" /\ iswhite(c, o) /\ o \notin c.finalized}
  IN  [c EXCEPT !.root = @ \ dead, !.tmu = @ \cup dead, !.finalized = @ \cup dead]

marktmu(x, c) ==
  markobjects(x, [c EXCEPT !.mark = [o \in All |-> IF o \in c.tmu THEN "white" ELSE @[o]]],
              c.tmu)

iscleared(x, c, o, iskey) ==
  /\ o # Nil
  /\ x.kind[o] # "string"
  /\ iswhite(c, o) \/ (x.kind[o] = "udata" /\ ~iskey /\ o \in c.finalized)

\* The tables of the list weak whose entry goes.
cleared(x, c) ==
  {o \in c.weak :
     x.val[o] # Nil /\ (iscleared(x, c, x.key[o], TRUE) \/ iscleared(x, c, x.val[o], FALSE))}

\* The strings that iscleared is called for are marked: a key, and a value whose
\* key is not dead.
stringmark(x, c) ==
  LET os == {o \in c.weak : x.val[o] # Nil}
  IN  markobjects(x, c, {s \in {x.key[o] : o \in os} \cup
                              {x.val[o] : o \in {p \in os : ~iscleared(x, c, x.key[p], TRUE)}} :
                           s # Nil /\ x.kind[s] = "string"})

Clear(x, os) == [x EXCEPT !.key = [o \in All |-> IF o \in os THEN Nil ELSE @[o]],
                          !.val = [o \in All |-> IF o \in os THEN Nil ELSE @[o]]]

\* The two whites change places.
flip(c) ==
  [c EXCEPT !.mark = [o \in All |-> CASE @[o] = "white" -> "old"
                                      [] @[o] = "old"   -> "white"
                                      [] OTHER          -> @[o]]]

atomic_unflipped(x, c) ==
  [heap |-> x,
   gc   |-> [c EXCEPT !.again = {}, !.weak = {}, !.strings = {}, !.tosweep = c.root,
                      !.state = "sweepstring"]]

\* cleartable and the end of atomic.
atomic_end(x, c) ==
  LET os == cleared(x, c)
      d  == stringmark(x, c)
  IN  [heap |-> Clear(x, os),
       gc   |-> [flip(d) EXCEPT !.again = {}, !.weak = {},
                          !.strings = {o \in Objects : x.kind[o] = "string"},
                          !.tosweep = c.root,
                          !.state = "sweepstring"]]

-----------------------------------------------------------------------------
(***************************************************************************)
(* Sweeping.  A dead object is freed, any other becomes white again.       *)
(***************************************************************************)
Freed(x, os) ==
  [x EXCEPT !.kind = [o \in All |-> IF o \in os THEN "free" ELSE @[o]],
            !.open = [o \in All |-> IF o \in os THEN 0 ELSE @[o]],
            !.key  = [o \in All |-> IF o \in os THEN Nil ELSE @[o]],
            !.val  = [o \in All |-> IF o \in os THEN Nil ELSE @[o]]]

\* The collector's data of objects that are not in use are immaterial.
Forgotten(c, os) ==
  [c EXCEPT !.mark = [o \in All |-> IF o \in os THEN "white" ELSE @[o]],
            !.finalized = @ \ os]

Whitened(c, os) ==
  [c EXCEPT !.mark = [o \in All |-> IF o \in os THEN "white" ELSE @[o]]]

Sweep(x, c, os) ==
  LET dead == {o \in os : isdead(c, o)}
  IN  [heap |-> Freed(x, dead),
       gc   |-> Forgotten(Whitened(c, os \ dead), dead)]

sweepstring(x, c, s) ==
  LET r == Sweep(x, c, {s})
  IN  [heap |-> r.heap, gc |-> [r.gc EXCEPT !.strings = @ \ {s}]]

\* The objects part of root are visited; with a thread go its open upvalues.
sweeplist(x, c, part) ==
  LET os == part \cup (IF MainThread \in part THEN OpenUpvalues(x) ELSE {})
      r  == Sweep(x, c, os)
  IN  [heap |-> r.heap,
       gc   |-> [r.gc EXCEPT !.root    = @ \ {o \in part : isdead(c, o)},
                             !.tosweep = @ \ part,
                             !.state   = IF c.tosweep = part THEN "finalize" ELSE "sweep"]]

-----------------------------------------------------------------------------
(***************************************************************************)
(* Barriers, and linking a new object into root.                           *)
(***************************************************************************)
barrierf(x, c, o, v) ==
  IF v # Nil /\ iswhite(c, v) /\ c.mark[o] = "black"
  THEN IF c.state = "propagate" THEN markobjects(x, c, {v}) ELSE makewhite(c, o)
  ELSE c

\* Outside the mark phase nothing reads the list again.
barrierback(c, o, v) ==
  IF v # Nil /\ iswhite(c, v) /\ c.mark[o] = "black"
  THEN [Paint(c, o, "gray") EXCEPT !.again = IF c.state = "propagate" THEN @ \cup {o} ELSE @]
  ELSE c

\* The sweep visits what is linked into the part of the list ahead of it: at
\* the front, as long as nothing before it stays, or after the main thread.
LinkAt(c, os, ahead) ==
  [c EXCEPT !.root = @ \cup os, !.tosweep = IF ahead THEN @ \cup os ELSE @]

AtFront(c) == c.tosweep = c.root
AfterMain(c) == MainThread \in c.tosweep

link(c, o) == LinkAt(makewhite(c, o), {o}, AtFront(c))

\* The upvalues os are closed; a gray one must not stay gray.
linkupvals(x, c, os) ==
  LET d    == LinkAt(c, os, AtFront(c))
      gray == {o \in os : c.mark[o] = "gray"}
      To(color) == [d EXCEPT !.mark = [o \in All |-> IF o \in gray THEN color ELSE @[o]]]
  IN  IF c.state = "propagate" THEN markobjects(x, To("black"), {x.val[o] : o \in gray})
      ELSE To("white")

-----------------------------------------------------------------------------
Init ==
  /\ h = [kind  |-> [o \in All |-> CASE o = MainThread -> "thread"
                                     [] o = Globals -> "table"
                                     [] OTHER -> "free"],
          key   |-> [o \in All |-> Nil],
          val   |-> [o \in All |-> Nil],
          open  |-> [o \in All |-> 0],
          stack |-> [s \in Slots |-> Nil]]
  /\ g = [state |-> "pause", mark |-> [o \in All |-> "white"],
          gray |-> {}, again |-> {}, weak |-> {}, root |-> {Globals, MainThread},
          tmu |-> {}, tosweep |-> {}, strings |-> {}, finalized |-> {}]
  /\ full = "no"
  /\ calls = [o \in Objects |-> 0]
  /\ kinds \in KindSets

(***************************************************************************)
(* The collector's steps, singlestep in the code.                          *)
(***************************************************************************)
Becomes(r) == h' = r.heap /\ g' = r.gc

AtomicStates == {"upvalues", "weak", "again", "udata"}
Marking == {"propagate"} \cup AtomicStates

\* The code runs when neither luaC_fullgc nor atomic is at work.
Running == full = "no" /\ g.state \notin AtomicStates

Mark ==
  /\ g.state = "pause"
  /\ Becomes([heap |-> h, gc |-> markroot(h, g)])
  /\ UNCHANGED <<full, calls>>

Propagate ==
  /\ g.state \in Marking
  /\ \E o \in g.gray :
       Becomes([heap |-> IF o \in Tables(h) THEN Removed(h, o) ELSE h,
                gc   |-> propagatemark(h, g, o)])
  /\ UNCHANGED <<full, calls>>

\* A step of atomic from state a to state b, when no object is gray.
AtomicStep(a, b, c) ==
  /\ g.state = a
  /\ g.gray = {}
  /\ g' = [c EXCEPT !.state = b]
  /\ UNCHANGED <<h, full, calls>>

RemarkUpvalues == AtomicStep("propagate", "upvalues", remarkupvals(h, g))

MarkWeak ==
  AtomicStep("upvalues", "weak",
             markobjects(h, [g EXCEPT !.gray = g.weak, !.weak = {}], {MainThread}))

MarkAgain == AtomicStep("weak", "again", [g EXCEPT !.gray = g.again, !.again = {}])

MarkUdata == AtomicStep("again", "udata", marktmu(h, separateudata(h, g)))

AtomicEnd ==
  /\ g.state = "udata"
  /\ g.gray = {}
  /\ Becomes(atomic_end(h, g))
  /\ UNCHANGED <<full, calls>>

SweepStrings ==
  /\ g.state = "sweepstring"
  /\ \/ \E s \in g.strings : Becomes(sweepstring(h, g, s))
     \/ /\ g.strings = {}
        /\ Becomes([heap |-> h, gc |-> [g EXCEPT !.state = "sweep"]])
  /\ UNCHANGED <<full, calls>>

SweepList ==
  /\ g.state = "sweep"
  /\ \E part \in SUBSET g.tosweep :
       /\ Cardinality(part) = SweepMax \/ (Cardinality(part) < SweepMax /\ part = g.tosweep)
       /\ Becomes(sweeplist(h, g, part))
  /\ UNCHANGED <<full, calls>>

\* GCTM: a userdata of tmu goes back to root and its finalizer is called, which
\* may put it in a global variable.
Finalize(keep) ==
  /\ g.state = "finalize"
  /\ full # "finish"
  /\ \E o \in g.tmu :
       LET d == makewhite(LinkAt([g EXCEPT !.tmu = @ \ {o}], {o}, AfterMain(g)), o)
       IN  /\ g' = IF keep THEN barrierback(d, Globals, o) ELSE d
           /\ h' = IF keep THEN [h EXCEPT !.val[Globals] = o] ELSE h
           /\ calls' = [calls EXCEPT ![o] = @ + 1]
  /\ UNCHANGED full

Pause ==
  /\ g.state = "finalize"
  /\ full # "finish"
  /\ g.tmu = {}
  /\ g' = [g EXCEPT !.state = "pause"]
  /\ full' = "no"
  /\ UNCHANGED <<h, calls>>

\* luaC_fullgc drops a mark phase that has begun, finishes the sweep, and does
\* a whole cycle; it starts the cycle before the finalizers that are pending.
FullGC ==
  /\ Running
  /\ full' = "finish"
  /\ g' = IF g.state \in {"pause", "propagate"}
          THEN [g EXCEPT !.strings = {o \in Objects : h.kind[o] = "string"},
                         !.tosweep = g.root, !.gray = {}, !.again = {}, !.weak = {},
                         !.state = "sweepstring"]
          ELSE g
  /\ UNCHANGED <<h, calls>>

FullMark ==
  /\ full = "finish"
  /\ g.state = "finalize"
  /\ g' = markroot(h, g)
  /\ full' = "mark"
  /\ UNCHANGED <<h, calls>>

GCStep ==
  \/ Mark
  \/ Propagate
  \/ RemarkUpvalues
  \/ MarkWeak
  \/ MarkAgain
  \/ MarkUdata
  \/ AtomicEnd
  \/ SweepStrings
  \/ SweepList
  \/ \E keep \in BOOLEAN : Finalize(keep)
  \/ Pause
  \/ FullMark

-----------------------------------------------------------------------------
(***************************************************************************)
(* The running code.  It works on objects in the stack and in global       *)
(* variables.                                                              *)
(***************************************************************************)
Free == {o \in Objects : h.kind[o] = "free"}
Stacked == {h.stack[s] : s \in Slots}
Reached == (Stacked \cup {Globals, h.val[Globals]}) \ {Nil}

\* A new object of kind k in slot s.
Allocated(k, o, v, s) ==
  [h EXCEPT !.kind[o] = k, !.key[o] = Nil, !.val[o] = v, !.stack[s] = o]

New(k, s) ==
  /\ Running
  /\ k \in kinds \ {"string", "udata", "closure"}
  /\ Free # {}
  /\ LET o == CHOOSE p \in Free : TRUE
     IN  h' = Allocated(k, o, Nil, s) /\ g' = link(g, o)
  /\ UNCHANGED <<full, calls>>

newudata(s) ==
  /\ Running
  /\ "udata" \in kinds
  /\ Free # {}
  /\ LET o == CHOOSE p \in Free : TRUE
     IN  /\ h' = Allocated("udata", o, Globals, s)
         /\ g' = LinkAt(makewhite(g, o), {o}, AfterMain(g))
         /\ calls' = [calls EXCEPT ![o] = 0]
  /\ UNCHANGED full

\* Strings are interned: one with the same contents may be found dead, and
\* is then brought back.  A name stands for its contents.
newlstr_dead(s) ==
  /\ Running
  /\ "string" \in kinds
  /\ \E o \in {p \in Objects : h.kind[p] \in {"free", "string"}} :
       /\ h' = [h EXCEPT !.kind[o] = "string", !.stack[s] = o]
       /\ g' = IF h.kind[o] = "free" THEN makewhite(g, o) ELSE g
  /\ UNCHANGED <<full, calls>>

newlstr(s) ==
  /\ Running
  /\ "string" \in kinds
  /\ \E o \in {p \in Objects : h.kind[p] \in {"free", "string"}} :
       /\ h' = [h EXCEPT !.kind[o] = "string", !.stack[s] = o]
       /\ g' = IF h.kind[o] = "free" \/ isdead(g, o) THEN makewhite(g, o) ELSE g
  /\ UNCHANGED <<full, calls>>

\* A closure with an upvalue for the local variable in slot level.
newclosure(level, s) ==
  /\ Running
  /\ "closure" \in kinds
  /\ Free # {}
  /\ LET o    == CHOOSE p \in Free : TRUE
         has  == {p \in Objects : h.open[p] = level}
         rest == Free \ {o}
         uv   == IF has # {} THEN CHOOSE p \in has : TRUE ELSE CHOOSE p \in rest : TRUE
         d    == link(g, o)
     IN  /\ has # {} \/ rest # {}
         /\ h' = [Allocated("closure", o, uv, s) EXCEPT !.kind[uv] = "upval",
                                                        !.open[uv] = level]
         /\ g' = IF has = {} \/ isdead(d, uv) THEN makewhite(d, uv) ELSE d
  /\ UNCHANGED <<full, calls>>

\* luaF_close: the upvalues of the slots from level up leave the stack.
close(level) ==
  /\ Running
  /\ LET uvs  == {o \in Objects : h.open[o] >= level}
         dead == {o \in uvs : isdead(g, o)}
         kept == uvs \ dead
         x    == [Freed(h, dead) EXCEPT
                   !.val  = [o \in All |-> IF o \in kept THEN h.stack[h.open[o]] ELSE @[o]],
                   !.open = [o \in All |-> IF o \in kept THEN 0 ELSE @[o]]]
     IN  /\ uvs # {}
         /\ h' = x
         /\ g' = linkupvals(x, Forgotten(g, dead), kept)
  /\ UNCHANGED <<full, calls>>

\* A slot of the stack is overwritten; the stack has no barrier.
Move(v, s) ==
  /\ Running
  /\ h.stack[s] # v
  /\ h' = [h EXCEPT !.stack[s] = v]
  /\ UNCHANGED <<g, full, calls>>

Load(s) ==
  \E o \in Reached :
    \/ o \in Tables(h) /\ Move(h.val[o], s)
    \/ h.kind[o] = "closure" /\ Move(Value(h, h.val[o]), s)
    \/ Move(h.key[o], s)

\* An entry of a table is set, or its value is cleared.
SetTable(o, k, v) ==
  /\ Running
  /\ o \in Tables(h)
  /\ h.kind[o] = "table" => k = Nil
  /\ h' = [h EXCEPT !.key[o] = IF v = Nil THEN @ ELSE k, !.val[o] = v]
  /\ g' = barrierback(IF v = Nil THEN g ELSE barrierback(g, o, k), o, v)
  /\ UNCHANGED <<full, calls>>

\* A closure assigns to its upvalue.
SetUpvalue(o, v) ==
  /\ Running
  /\ h.kind[o] = "closure"
  /\ LET uv == h.val[o]
     IN  /\ h' = IF h.open[uv] # 0 THEN [h EXCEPT !.stack[h.open[uv]] = v]
                 ELSE [h EXCEPT !.val[uv] = v]
         /\ g' = barrierf(h, g, uv, v)
  /\ UNCHANGED <<full, calls>>

Code ==
  \E s \in Slots :
    \/ \E k \in kinds : New(k, s)
    \/ newudata(s)
    \/ newlstr(s)
    \/ \E level \in Slots : newclosure(level, s)
    \/ close(s)
    \/ Move(Nil, s)
    \/ Load(s)
    \/ \E o \in Reached, k \in Stacked \cup {Nil} : SetTable(o, k, h.stack[s])
    \/ \E o \in Reached : SetUpvalue(o, h.stack[s])

Next ==
  /\ GCStep \/ FullGC \/ Code
  /\ UNCHANGED kinds

\* Allocation drives the collector, so it takes step after step as long as the
\* code runs.  One of its steps is always possible, so this is weak fairness.
Spec == Init /\ [][Next]_vars /\ []<><<GCStep>>_vars

-----------------------------------------------------------------------------
(***************************************************************************)
(* Properties.                                                             *)
(***************************************************************************)
Kinds == {"free", "table", "weakvalue", "weakkey", "string", "udata", "closure", "upval", "thread"}

HeapType ==
  [kind : [All -> Kinds], key : [All -> All \cup {Nil}], val : [All -> All \cup {Nil}],
   open : [All -> Slots \cup {0}], stack : [Slots -> All \cup {Nil}]]

CollectorType ==
  [state : {"pause", "sweepstring", "sweep", "finalize"} \cup Marking,
   mark : [All -> {"white", "old", "gray", "black"}],
   gray : SUBSET All, again : SUBSET All, weak : SUBSET All, root : SUBSET All,
   tmu : SUBSET All, tosweep : SUBSET All, strings : SUBSET Objects,
   finalized : SUBSET Objects]

\* The state is well typed.
TypeOK ==
  /\ kinds \in KindSets
  /\ h \in HeapType
  /\ g \in CollectorType
  /\ full \in {"no", "finish", "mark"}
  /\ calls \in [Objects -> 0..1]

\* The references that keep an object alive.
Strong(o) ==
  CASE h.kind[o] = "thread"    -> Stacked \cup {Globals}
    [] h.kind[o] = "table"     -> {h.val[o]}
    [] h.kind[o] = "weakvalue" -> IF h.val[o] = Nil THEN {} ELSE {h.key[o]}
    [] h.kind[o] = "weakkey"   -> {h.val[o]}
    [] h.kind[o] \in {"upval", "closure", "udata"} -> {Value(h, o)}
    [] OTHER -> {}

\* The objects in use: the main thread, the globals, and those that no set of
\* objects leaves out that holds what the main thread, the globals and its
\* members refer to.
Closed(os) == \A o \in os \cup {MainThread, Globals} :
                Strong(o) \ {Nil} \subseteq os \cup {MainThread, Globals}
Live == {MainThread, Globals} \cup
          {o \in Objects : \A os \in SUBSET (Objects \ {o}) : ~Closed(os)}

\* No object that the code can get at has been freed, also not through a weak
\* table: whatever the code did between two steps of the collector, the keys
\* and the values of live objects are there.
NoDangling ==
  \A o \in Live :
    /\ h.kind[o] # "free"
    /\ h.val[o] # Nil => h.kind[h.val[o]] # "free" /\ (h.key[o] # Nil => h.kind[h.key[o]] # "free")

\* While marking goes on no black object refers to a white one.
NoBlackToWhite ==
  g.state = "propagate" =>
    \A o \in All : h.kind[o] # "free" /\ g.mark[o] = "black" =>
      \A p \in Strong(o) \ {Nil} : ~iswhite(g, p)

\* A userdata is freed only after its finalizer was called, and it is called
\* once, although it may put the userdata back into use and a full collection
\* may come before it is called.
FinalizedOnce ==
  [][\A o \in Objects :
       /\ calls'[o] <= 1
       /\ h.kind[o] = "udata" /\ h'.kind[o] = "free" => calls[o] = 1]_vars

\* A string in an entry counts as a value, so weak tables keep strings too.
Kept ==
  Live \cup {p \in Objects : h.kind[p] = "string" /\
               \E o \in Live : h.val[o] # Nil /\ p \in {h.key[o], h.val[o]}}

\* Garbage goes: an object that nothing keeps is freed or found again.
GarbageGoes ==
  \A o \in Objects : (h.kind[o] # "free" /\ o \notin Kept) ~> (h.kind[o] = "free" \/ o \in Kept)

\* The heap is sound between any two steps of lgc.c: nothing in use is freed, and
\* while marking goes on nothing white hides behind a black object.
HeapSound == TypeOK /\ NoDangling /\ NoBlackToWhite
=============================================================================
