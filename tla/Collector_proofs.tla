-------------------------- MODULE Collector_proofs --------------------------
(***************************************************************************)
(* Nothing in use is freed, and finalizers are called once, for every set  *)
(* of objects, kinds and slots and every pace of the sweep.                *)
(*                                                                         *)
(* The predicates below are about a heap x, a collector c and the counts k *)
(* of finalizer calls, so that a step can be taken apart: a barrier, then  *)
(* the write; an allocation, then the move to the stack.                   *)
(***************************************************************************)
EXTENDS Collector, TLAPS

Types(x, c, k) == x \in HeapType /\ c \in CollectorType /\ k \in [Objects -> 0..1]

Used(x, o) == x.kind[o] # "free"
Sound(x, c, o) == o \in All /\ Used(x, o) /\ ~isdead(c, o)

Weaks == {"weakvalue", "weakkey"}

\* The main thread and the globals are always there.
Fixed(x, c) ==
  /\ x.kind[MainThread] = "thread" /\ x.kind[Globals] = "table"
  /\ ~isdead(c, MainThread) /\ ~isdead(c, Globals)
  /\ MainThread \in c.root /\ Globals \in c.root
  /\ \A o \in Objects : x.kind[o] # "thread"

\* What the fields of an object of each kind hold.
Shape(x) ==
  \A o \in All :
    /\ x.kind[o] \notin Weaks => x.key[o] = Nil
    /\ x.kind[o] \in {"free", "string", "thread"} => x.val[o] = Nil
    /\ x.open[o] # 0 => x.kind[o] = "upval" /\ x.val[o] = Nil
    /\ x.kind[o] = "udata" => x.val[o] = Globals

\* A reference from the stack or from what is not dead is to such an object.
Entry(x, c, v) == v = Nil \/ (Sound(x, c, v) /\ x.kind[v] \notin {"upval", "thread"})

Refs(x, c) ==
  /\ \A s \in Slots : Entry(x, c, x.stack[s])
  /\ \A o \in All : Sound(x, c, o) =>
       /\ Entry(x, c, x.key[o])
       /\ x.kind[o] = "closure" => Sound(x, c, x.val[o]) /\ x.kind[x.val[o]] = "upval"
       /\ x.kind[o] # "closure" => Entry(x, c, x.val[o])

\* The members of the lists.
Lists(x, c) ==
  /\ \A o \in c.root : Used(x, o) /\ x.kind[o] # "string" /\ x.open[o] = 0
  /\ \A o \in c.tmu : o \in c.finalized /\ o \notin c.root
  /\ \A o \in c.finalized : x.kind[o] = "udata"
  /\ \A o \in All : Used(x, o) =>
       o \in c.root \/ o \in c.tmu \/ x.kind[o] = "string" \/ x.open[o] # 0
  /\ \A o \in c.strings : x.kind[o] = "string"
  /\ c.tosweep \subseteq c.root
  /\ \A o \in c.gray : c.mark[o] = "gray" /\ x.kind[o] \in Traversed
  /\ \A o \in c.again : c.mark[o] = "gray" /\ x.kind[o] \in {"table", "thread"} /\ o \notin c.gray
  /\ \A o \in c.weak : c.mark[o] = "gray" /\ x.kind[o] \in Weaks

\* Which lists are in use in which state.
Phase(c) ==
  /\ c.state \in Marking => c.tosweep = {}
  /\ c.state \notin Marking => c.gray = {} /\ c.again = {} /\ c.weak = {}
  /\ c.state = "sweepstring" => c.tosweep = c.root
  /\ c.state # "sweepstring" => c.strings = {}
  /\ c.state \in {"finalize", "pause"} => c.tosweep = {}

\* Nothing is dead while marking goes on, and otherwise what is not of the
\* current white is yet to be swept.
Colors(x, c) ==
  /\ \A o \in c.tmu : ~isdead(c, o)
  /\ \A o \in All : Used(x, o) =>
       /\ x.open[o] # 0 => c.mark[o] # "black"
       /\ x.kind[o] = "udata" => c.mark[o] # "gray"
       /\ c.state \in Marking => ~isdead(c, o)
       /\ c.state \notin Marking =>
            \/ c.mark[o] = "white"
            \/ o \in c.tosweep \/ o \in c.strings \/ o \in c.tmu
            \/ x.open[o] # 0 /\ MainThread \in c.tosweep

Dark(c, v) == v = Nil \/ ~iswhite(c, v)

\* What o refers to is marked.
Traced(x, c, o) ==
  /\ x.kind[o] = "thread" => \A s \in Slots : Dark(c, x.stack[s])
  /\ x.kind[o] \in {"table", "weakkey", "upval", "closure", "udata"} => Dark(c, x.val[o])
  /\ x.kind[o] = "weakvalue" /\ x.val[o] # Nil => Dark(c, x.key[o])
  /\ x.val[o] = Nil => x.key[o] = Nil

\* What is yet to be traversed, once more if the code may have written to it.
Pending(c, o) ==
  \/ o \in c.gray
  \/ c.state \in {"propagate", "upvalues", "weak"} /\ o \in c.again
  \/ c.state \in {"propagate", "upvalues"} /\ o \in c.weak

\* A marked object o is in order.
Settled(x, c, o) ==
  /\ c.mark[o] = "gray" => o \in c.gray \/ o \in c.again \/ o \in c.weak
  /\ x.kind[o] \in Weaks => o \in c.gray \/ o \in c.weak
  /\ ~Pending(c, o) => Traced(x, c, o)

\* While marking goes on, all marked objects but those of E are in order.
Tri(x, c, E) ==
  c.state \in Marking =>
    /\ ~iswhite(c, MainThread) /\ ~iswhite(c, Globals)
    /\ c.state \in {"propagate", "upvalues", "weak"} => MainThread \in c.gray \/ MainThread \in c.again
    /\ \A o \in All \ E :
         Used(x, o) /\ ~iswhite(c, o) /\ x.kind[o] # "string" /\ x.open[o] = 0 => Settled(x, c, o)

\* What is to be finalized, and what is not finalized yet, is marked at the end
\* of the mark phase.
MarkedUdata(x, c) ==
  c.state = "udata" =>
    \A o \in Objects :
      x.kind[o] = "udata" /\ (o \in c.tmu \/ o \notin c.finalized) => ~iswhite(c, o)

\* A userdata is dead only if its finalizer was called.
Finals(x, c, k) ==
  /\ MarkedUdata(x, c)
  /\ \A o \in c.finalized : k[o] = IF o \in c.tmu THEN 0 ELSE 1
  /\ \A o \in Objects : x.kind[o] = "udata" /\ o \notin c.finalized => k[o] = 0 /\ ~isdead(c, o)

Inv(x, c, k, E) ==
  /\ Types(x, c, k) /\ Fixed(x, c) /\ Shape(x) /\ Refs(x, c) /\ Lists(x, c)
  /\ Phase(c) /\ Colors(x, c) /\ Tri(x, c, E) /\ Finals(x, c, k)

IInv == kinds \in KindSets /\ full \in {"no", "finish", "mark"} /\ Inv(h, g, calls, {})

-----------------------------------------------------------------------------
(***************************************************************************)
(* Marking.                                                                *)
(***************************************************************************)
SameLists(c, d) ==
  /\ d.state = c.state /\ d.again = c.again /\ d.weak = c.weak /\ d.root = c.root
  /\ d.tmu = c.tmu /\ d.tosweep = c.tosweep /\ d.strings = c.strings
  /\ d.finalized = c.finalized

\* What a white object becomes, and what is marked with it.
Becoming(x, d, o) ==
  /\ x.kind[o] = "udata" \/ (x.kind[o] = "upval" /\ x.open[o] = 0) => d.mark[o] = "black" /\ Dark(d, x.val[o])
  /\ ~(x.kind[o] = "udata" \/ (x.kind[o] = "upval" /\ x.open[o] = 0)) => d.mark[o] = "gray"

\* d is c after os have been marked.
MarkedBy(x, c, d, os) ==
  /\ d \in CollectorType
  /\ SameLists(c, d)
  /\ \A o \in os : Dark(d, o)
  /\ \A o \in All : ~iswhite(c, o) => d.mark[o] = c.mark[o]
  /\ \A o \in All : iswhite(c, o) => d.mark[o] = c.mark[o] \/ Becoming(x, d, o)
  /\ \A o \in All : o \in d.gray <=>
       o \in c.gray \/ (x.kind[o] \in Traversed /\ iswhite(c, o) /\ ~iswhite(d, o))

\* The references along which marking goes on are of the right kinds.
Chains(x) ==
  /\ Globals \in All /\ x.kind[Globals] = "table"
  /\ \A o \in All : x.kind[o] = "udata" => x.val[o] = Globals /\ x.open[o] = 0
  /\ \A o \in All : x.kind[o] = "upval" => 
       Value(x, o) = Nil \/ (Value(x, o) \in All /\ x.kind[Value(x, o)] # "upval")

\* markobjects marks what it is given.
LEMMA Marks ==
  ASSUME NEW x \in HeapType, NEW c \in CollectorType, Chains(x), NEW os \in SUBSET (All \cup {Nil})
  PROVE  MarkedBy(x, c, markobjects(x, c, os), os)
<1> DEFINE one == Through(x, c, os)
           two == Through(x, c, one)
           new == {o \in (os \cup one \cup two) \ {Nil} : iswhite(c, o)}
           black == {o \in new : x.kind[o] = "udata" \/ (x.kind[o] = "upval" /\ x.open[o] = 0)}
           m == [o \in All |-> IF o \in black THEN "black" ELSE IF o \in new THEN "gray" ELSE c.mark[o]]
           gr == c.gray \cup {o \in new : x.kind[o] \in Traversed}
           d == markobjects(x, c, os)
<1>n. Nil \notin All
  BY ConstantsAssumption
<1>1. \A o \in All : x.kind[o] \in {"upval", "udata"} => Value(x, o) \in All \cup {Nil}
  BY DEF HeapType, Value
<1>2. one \in SUBSET (All \cup {Nil}) /\ two \in SUBSET (All \cup {Nil})
  BY <1>1, <1>n DEF Through
<1>3. new \in SUBSET All
  BY <1>2
<1>4. d = [c EXCEPT !.mark = m, !.gray = gr]
  BY DEF markobjects, CollectorType
<1>5. /\ d \in CollectorType /\ SameLists(c, d) /\ d.mark = m /\ d.gray = gr
  <2> HIDE DEF d, m, gr
  <2>1. m \in [All -> {"white", "old", "gray", "black"}]
    BY DEF m, CollectorType
  <2>2. gr \in SUBSET All
    BY <1>3 DEF gr, CollectorType
  <2> QED
    BY <1>4, <2>1, <2>2 DEF CollectorType, SameLists
<1>6. \A o \in two : o = Nil \/ x.kind[o] \notin {"udata", "upval"}
  BY DEF Through, Chains, Value
<1>7. \A o \in new : x.kind[o] \in {"udata", "upval"} => Value(x, o) \in one \cup two
  BY <1>6 DEF Through
<1>8. \A o \in All : iswhite(d, o) <=> iswhite(c, o) /\ o \notin new
  BY <1>5, <1>3 DEF iswhite
<1> HIDE DEF d, m, gr, new, one, two
<1>9. \A o \in os : Dark(d, o)
  BY <1>8, <1>n DEF Dark, new
<1>10. \A o \in All : ~iswhite(c, o) => d.mark[o] = c.mark[o]
  BY <1>5 DEF m, new
<1>11. \A o \in one \cup two : Dark(d, o)
  BY <1>2, <1>8, <1>n DEF Dark, new
<1>12. ASSUME NEW o \in All, iswhite(c, o)
       PROVE  d.mark[o] = c.mark[o] \/ Becoming(x, d, o)
  <2>1. CASE o \notin new
    BY <2>1, <1>5 DEF m
  <2>2. CASE o \in new
    <3>1. d.mark[o] = IF o \in black THEN "black" ELSE "gray"
      BY <2>2, <1>5 DEF m
    <3>2. o \in black => Dark(d, x.val[o])
      <4> SUFFICES ASSUME o \in black PROVE Dark(d, x.val[o])
        OBVIOUS
      <4>1. x.open[o] = 0
        BY <1>3 DEF Chains
      <4> QED
        BY <2>2, <4>1, <1>7, <1>11 DEF Value
    <3> QED
      BY <2>2, <3>1, <3>2 DEF Becoming
  <2> QED
    BY <2>1, <2>2
<1>13. \A o \in All : o \in d.gray <=>
         o \in c.gray \/ (x.kind[o] \in Traversed /\ iswhite(c, o) /\ ~iswhite(d, o))
  BY <1>5, <1>8, <1>3 DEF gr, new
<1> QED
  BY <1>5, <1>9, <1>10, <1>12, <1>13 DEF MarkedBy, d

\* While marking goes on nothing in use is dead, so all references are sound.
LEMMA InvChains ==
  ASSUME NEW x, NEW c, NEW k, NEW E, Inv(x, c, k, E),
         c.state \in Marking \/ \A o \in All : Used(x, o) => ~isdead(c, o)
  PROVE  Chains(x)
<1>1. \A o \in All : Used(x, o) => Sound(x, c, o)
  BY DEF Inv, Colors, Sound
<1>2. ASSUME NEW o \in All, x.kind[o] = "udata"
      PROVE  x.val[o] = Globals /\ x.open[o] = 0
  BY <1>2 DEF Inv, Shape
<1>3. ASSUME NEW o \in All, x.kind[o] = "upval"
      PROVE  Entry(x, c, Value(x, o))
  <2>1. Sound(x, c, o)
    BY <1>1, <1>3 DEF Used
  <2>2. x.open[o] # 0 => x.open[o] \in Slots
    BY DEF Inv, Types, HeapType
  <2> QED
    BY <2>1, <2>2, <1>3 DEF Inv, Refs, Value
<1> QED
  BY <1>2, <1>3 DEF Chains, Inv, Fixed, Entry, Sound, All

\* Marking keeps the invariant.
LEMMA MarkKeeps ==
  ASSUME NEW x, NEW c, NEW k, NEW E, Inv(x, c, k, E), c.state \in Marking,
         NEW d, NEW os, MarkedBy(x, c, d, os)
  PROVE  Inv(x, d, k, E)
<1>t. x \in HeapType /\ c \in CollectorType /\ d \in CollectorType /\ k \in [Objects -> 0..1]
  BY DEF Inv, Types, MarkedBy
<1>s. SameLists(c, d)
  BY DEF MarkedBy
<1>1. \A o \in All : iswhite(d, o) => iswhite(c, o) /\ d.mark[o] = c.mark[o]
  BY DEF MarkedBy, Becoming, iswhite
<1>2. \A o \in All : isdead(d, o) => isdead(c, o)
  BY <1>1 DEF isdead, iswhite
<1>3. \A o : Sound(x, c, o) => Sound(x, d, o)
  BY <1>2 DEF Sound
<1>4. \A o \in All : Used(x, o) => Sound(x, c, o)
  BY DEF Inv, Colors, Sound
<1>5. \A v : Dark(c, v) /\ v \in All \cup {Nil} => Dark(d, v)
  BY <1>1 DEF Dark
<1>6. Types(x, d, k)
  BY <1>t DEF Types
<1>7. Fixed(x, d)
  BY <1>2, <1>s DEF Inv, Fixed, SameLists, All
<1>8. Refs(x, d)
  <2>1. \A v : Entry(x, c, v) => Entry(x, d, v)
    BY <1>3 DEF Entry
  <2>2. \A o \in All : Sound(x, d, o) => Sound(x, c, o)
    BY <1>4 DEF Sound
  <2>3. Refs(x, c)
    BY DEF Inv
  <2> QED
    BY <2>1, <2>2, <2>3, <1>3 DEF Refs
<1>9. Lists(x, d)
  <2>1. Lists(x, c)
    BY DEF Inv
  <2>2. \A o \in All : c.mark[o] = "gray" => d.mark[o] = "gray"
    BY DEF MarkedBy, iswhite
  <2>3. ASSUME NEW o \in d.gray
        PROVE  d.mark[o] = "gray" /\ x.kind[o] \in Traversed
    <3>1. o \in All
      BY <1>t DEF CollectorType
    <3>2. CASE o \in c.gray
      BY <3>1, <3>2, <2>1, <2>2 DEF Lists
    <3>3. CASE o \notin c.gray
      <4>1. x.kind[o] \in Traversed /\ iswhite(c, o) /\ ~iswhite(d, o)
        BY <3>1, <3>3 DEF MarkedBy
      <4>2. Becoming(x, d, o)
        BY <4>1, <3>1 DEF MarkedBy, iswhite
      <4> QED
        BY <4>1, <4>2 DEF Becoming, Traversed
    <3> QED
      BY <3>2, <3>3
  <2>4. c.again \subseteq All /\ c.weak \subseteq All
    BY <1>t DEF CollectorType
  <2>5. \A o \in c.again : o \notin d.gray
    BY <2>1, <2>4 DEF Lists, MarkedBy, iswhite
  <2> QED
    BY <2>1, <2>2, <2>3, <2>4, <2>5, <1>s DEF Lists, SameLists
<1>10. Phase(d)
  BY <1>s DEF Inv, Phase, SameLists
<1>11. Colors(x, d)
  <2>1. c.tmu \subseteq All
    BY <1>t DEF CollectorType
  <2>2. ASSUME NEW o \in All, Used(x, o)
        PROVE  /\ x.open[o] # 0 => d.mark[o] # "black"
               /\ x.kind[o] = "udata" => d.mark[o] # "gray"
    <3>1. CASE d.mark[o] = c.mark[o]
      BY <3>1, <2>2 DEF Inv, Colors
    <3>2. CASE d.mark[o] # c.mark[o]
      <4>1. Becoming(x, d, o)
        BY <3>2 DEF MarkedBy
      <4>2. x.open[o] # 0 => x.kind[o] = "upval"
        BY DEF Inv, Shape
      <4> QED
        BY <4>1, <4>2 DEF Becoming
    <3> QED
      BY <3>1, <3>2
  <2> QED
    BY <2>1, <2>2, <1>2, <1>s DEF Inv, Colors, SameLists
<1>12. Tri(x, d, E)
  <2>1. Tri(x, c, E)
    BY DEF Inv
  <2>2. \A o \in All : o \in c.gray => o \in d.gray
    BY DEF MarkedBy
  <2>3. \A o \in All : Pending(c, o) => Pending(d, o)
    BY <2>2, <1>s DEF Pending, SameLists
  <2>4. ASSUME NEW o \in All \ E, Used(x, o), ~iswhite(d, o), x.kind[o] # "string", x.open[o] = 0
        PROVE  Settled(x, d, o)
    <3>1. CASE ~iswhite(c, o)
      <4>1. Settled(x, c, o) /\ d.mark[o] = c.mark[o]
        BY <3>1, <2>1, <2>4 DEF Tri, MarkedBy
      <4>2. Traced(x, c, o) => Traced(x, d, o)
        <5>1. x.val[o] \in All \cup {Nil} /\ x.key[o] \in All \cup {Nil}
              /\ \A s \in Slots : x.stack[s] \in All \cup {Nil}
          BY <1>t DEF HeapType
        <5> QED
          BY <5>1, <1>5 DEF Traced
      <4> QED
        BY <4>1, <4>2, <2>2, <2>3, <1>s DEF Settled, SameLists
    <3>2. CASE iswhite(c, o)
      <4>1. Becoming(x, d, o)
        BY <3>2, <2>4 DEF MarkedBy, iswhite
      <4>2. x.kind[o] \in Traversed => o \in d.gray
        BY <3>2, <2>4 DEF MarkedBy
      <4>3. CASE x.kind[o] \in Traversed
        BY <4>2, <4>3 DEF Settled, Pending
      <4>4. CASE x.kind[o] \in {"udata", "upval"}
        <5>1. d.mark[o] = "black" /\ Dark(d, x.val[o]) /\ x.key[o] = Nil
          BY <4>1, <4>4, <2>4 DEF Becoming, Inv, Shape, Weaks
        <5> QED
          BY <5>1, <4>4 DEF Settled, Traced, Weaks
      <4>5. x.kind[o] \in Kinds
        BY <1>t DEF HeapType
      <4> QED
        BY <4>3, <4>4, <4>5, <2>4 DEF Kinds, Traversed, Used
    <3> QED
      BY <3>1, <3>2
  <2>5. ~iswhite(d, MainThread) /\ ~iswhite(d, Globals)
    BY <1>1, <2>1 DEF Tri, All
  <2> QED
    BY <2>1, <2>2, <2>4, <2>5, <1>s DEF Tri, SameLists, All
<1>13. Finals(x, d, k)
  BY <1>s, <1>1, <1>2 DEF Inv, Finals, MarkedUdata, SameLists, All
<1> QED
  BY <1>6, <1>7, <1>8, <1>9, <1>10, <1>11, <1>12, <1>13 DEF Inv

\* The key of an empty entry goes when the table o is traversed.
LEMMA KeyGoes ==
  ASSUME NEW x, NEW c, NEW k, NEW o \in All, Inv(x, c, k, {o}),
         NEW y \in HeapType, y.kind = x.kind, y.val = x.val, y.open = x.open, y.stack = x.stack,
         \A p \in All : y.key[p] = IF p = o /\ x.val[o] = Nil THEN Nil ELSE x.key[p],
         Settled(y, c, o)
  PROVE  Inv(y, c, k, {})
<1>1. Types(y, c, k)
  BY DEF Inv, Types
<1>2. Fixed(y, c)
  BY DEF Inv, Fixed
<1>3. Shape(y)
  BY DEF Inv, Shape
<1>4. Refs(y, c)
  <2>1. \A p : Sound(y, c, p) <=> Sound(x, c, p)
    BY DEF Sound, Used
  <2>2. \A v : Entry(y, c, v) <=> Entry(x, c, v)
    BY <2>1 DEF Entry
  <2>3. \A p \in All : Sound(y, c, p) => Entry(y, c, y.key[p])
    BY <2>1, <2>2 DEF Inv, Refs, Entry
  <2> QED
    BY <2>1, <2>2, <2>3 DEF Inv, Refs
<1>5. Lists(y, c)
  BY DEF Inv, Lists, Used
<1>6. Colors(y, c)
  BY DEF Inv, Colors, Used
<1>7. Tri(y, c, {})
  <2>1. ASSUME NEW p \in All, p # o, Settled(x, c, p)
        PROVE  Settled(y, c, p)
    BY <2>1 DEF Settled, Traced
  <2> QED
    BY <2>1 DEF Inv, Tri, Used
<1>8. Finals(y, c, k)
  BY DEF Inv, Finals, MarkedUdata
<1> QED
  BY <1>1, <1>2, <1>3, <1>4, <1>5, <1>6, <1>7, <1>8 DEF Inv

\* A gray object leaves the list gray to be traversed.
LEMMA Popped ==
  ASSUME NEW x, NEW c, NEW k, Inv(x, c, k, {}), c.state \in Marking, NEW o \in c.gray,
         NEW d \in CollectorType, d.state = c.state, d.root = c.root, d.tmu = c.tmu,
         d.tosweep = c.tosweep, d.strings = c.strings, d.finalized = c.finalized,
         d.gray = c.gray \ {o},
         x.kind[o] \in {"table", "closure"} =>
           d.mark = [c.mark EXCEPT ![o] = "black"] /\ d.weak = c.weak /\ d.again = c.again,
         x.kind[o] \in Weaks =>
           d.mark = c.mark /\ d.weak = c.weak \cup {o} /\ d.again = c.again,
         x.kind[o] = "thread" =>
           d.mark = c.mark /\ d.weak = c.weak /\ d.again = c.again \cup {o}
  PROVE  Inv(x, d, k, {o})
<1>t. o \in All /\ c \in CollectorType /\ x \in HeapType
  BY DEF CollectorType, Inv, Types
<1>k. x.kind[o] \in Traversed /\ c.mark[o] = "gray" /\ o \notin c.again
  BY DEF Inv, Lists
<1>1. \/ x.kind[o] \in {"table", "closure"}
      \/ x.kind[o] \in Weaks
      \/ x.kind[o] = "thread"
  BY <1>k DEF Traversed, Weaks
<1>2. \A p \in All : \/ d.mark[p] = c.mark[p]
                     \/ p = o /\ d.mark[o] = "black" /\ x.kind[o] \in {"table", "closure"}
  BY <1>1, <1>t DEF CollectorType
<1>3. \A p \in All : iswhite(d, p) <=> iswhite(c, p)
  BY <1>2, <1>k DEF iswhite
<1>4. \A p \in All : isdead(d, p) <=> isdead(c, p)
  BY <1>2, <1>k DEF isdead
<1>5. Types(x, d, k)
  BY DEF Inv, Types
<1>6. Fixed(x, d)
  BY <1>4 DEF Inv, Fixed, All
<1>7. Refs(x, d)
  <2>1. \A p : Sound(x, d, p) <=> Sound(x, c, p)
    BY <1>4 DEF Sound
  <2>2. \A v : Entry(x, d, v) <=> Entry(x, c, v)
    BY <2>1 DEF Entry
  <2> QED
    BY <2>1, <2>2 DEF Inv, Refs
<1>8. Lists(x, d)
  <2>1. Lists(x, c)
    BY DEF Inv
  <2>2. \A p \in d.gray : p \in All /\ p # o /\ p \in c.gray /\ d.mark[p] = c.mark[p]
    BY <1>t, <1>2 DEF CollectorType
  <2>3. \A p \in d.again :
          d.mark[p] = "gray" /\ x.kind[p] \in {"table", "thread"} /\ p \notin d.gray
    BY <1>1, <1>2, <1>k, <1>t, <2>1 DEF Lists, CollectorType
  <2>4. \A p \in d.weak : d.mark[p] = "gray" /\ x.kind[p] \in Weaks
    BY <1>1, <1>2, <1>k, <1>t, <2>1 DEF Lists, CollectorType, Weaks
  <2> QED
    BY <2>1, <2>2, <2>3, <2>4 DEF Lists
<1>9. Phase(d)
  BY DEF Inv, Phase
<1>10. Colors(x, d)
  <2>1. \A p \in d.tmu : ~isdead(d, p)
    BY <1>4, <1>t DEF Inv, Colors, CollectorType
  <2>2. \A p \in All : x.open[p] # 0 => x.kind[p] = "upval"
    BY DEF Inv, Shape
  <2> QED
    BY <2>1, <2>2, <1>2, <1>4 DEF Inv, Colors
<1>11. Tri(x, d, {o})
  <2>1. \A p \in All \ {o} : Settled(x, c, p) => Settled(x, d, p)
    <3> SUFFICES ASSUME NEW p \in All \ {o}, Settled(x, c, p)
                 PROVE  Settled(x, d, p)
      OBVIOUS
    <3>1. \A v : Dark(c, v) /\ v \in All \cup {Nil} => Dark(d, v)
      BY <1>3 DEF Dark
    <3>2. x.val[p] \in All \cup {Nil} /\ x.key[p] \in All \cup {Nil}
          /\ \A s \in Slots : x.stack[s] \in All \cup {Nil}
      BY <1>t DEF HeapType
    <3>3. Traced(x, c, p) => Traced(x, d, p)
      BY <3>1, <3>2 DEF Traced
    <3>4. /\ p \in d.gray <=> p \in c.gray
          /\ p \in d.again <=> p \in c.again
          /\ p \in d.weak <=> p \in c.weak
      BY <1>1
    <3> QED
      BY <3>3, <3>4, <1>2 DEF Settled, Pending
  <2>2. MainThread \in c.gray \/ MainThread \in c.again => MainThread \in d.gray \/ MainThread \in d.again
    BY <1>1 DEF Inv, Fixed, Weaks
  <2> QED
    BY <2>1, <2>2, <1>3 DEF Inv, Tri, All
<1>12. Finals(x, d, k)
  BY <1>3, <1>4 DEF Inv, Finals, MarkedUdata, All
<1> QED
  BY <1>5, <1>6, <1>7, <1>8, <1>9, <1>10, <1>11, <1>12 DEF Inv

\* Traversing a gray object keeps the invariant.
LEMMA PropagateKeeps ==
  ASSUME NEW x, NEW c, NEW k, Inv(x, c, k, {}), c.state \in Marking, NEW o \in c.gray
  PROVE  Inv(IF o \in Tables(x) THEN Removed(x, o) ELSE x, propagatemark(x, c, o), k, {})
<1> DEFINE y == IF o \in Tables(x) THEN Removed(x, o) ELSE x
           e == [c EXCEPT !.gray = @ \ {o}]
<1>t. o \in All /\ c \in CollectorType /\ x \in HeapType /\ e \in CollectorType
  BY DEF CollectorType, Inv, Types
<1>k. x.kind[o] \in Traversed /\ c.mark[o] = "gray"
  BY DEF Inv, Lists
<1>1. \/ x.kind[o] = "table"
      \/ x.kind[o] = "closure"
      \/ x.kind[o] \in Weaks
      \/ x.kind[o] = "thread"
  BY <1>k DEF Traversed, Weaks
<1>y. /\ y \in HeapType /\ y.kind = x.kind /\ y.val = x.val /\ y.open = x.open /\ y.stack = x.stack
      /\ \A p \in All : y.key[p] = IF p = o /\ x.val[o] = Nil THEN Nil ELSE x.key[p]
  <2>1. CASE o \in Tables(x) /\ x.val[o] = Nil
    BY <2>1, <1>t DEF Removed, HeapType
  <2>2. CASE ~(o \in Tables(x) /\ x.val[o] = Nil)
    <3>1. y = x
      BY <2>2 DEF Removed
    <3>2. x.val[o] = Nil => x.key[o] = Nil
      BY <2>2, <1>t DEF Tables, Inv, Shape, Weaks
    <3> QED
      BY <3>1, <3>2, <1>t
  <2> QED
    BY <2>1, <2>2
<1>m. ASSUME NEW f, NEW r \in SUBSET (All \cup {Nil}), Inv(x, f, k, {o}), f.state \in Marking,
             ~iswhite(f, o),
             \A d : MarkedBy(x, f, d, r) => Settled(y, d, o),
             propagatemark(x, c, o) = markobjects(x, f, r)
      PROVE  Inv(y, propagatemark(x, c, o), k, {})
  <2> DEFINE d == propagatemark(x, c, o)
  <2>1. Chains(x)
    BY <1>m, InvChains
  <2>2. MarkedBy(x, f, d, r)
    BY <1>m, <2>1, <1>t, Marks DEF Inv, Types
  <2>3. Inv(x, d, k, {o})
    BY <1>m, <2>2, MarkKeeps
  <2>4. Settled(y, d, o)
    BY <1>m, <2>2
  <2> HIDE DEF d, y
  <2>5. Inv(y, d, k, {})
    BY <2>3, <2>4, <1>y, <1>t, KeyGoes
  <2> QED
    BY <2>5 DEF d
<1>r. /\ {x.val[o]} \in SUBSET (All \cup {Nil})
      /\ traversetable(x, o) \in SUBSET (All \cup {Nil})
      /\ {Globals} \cup {x.stack[s] : s \in Slots} \in SUBSET (All \cup {Nil})
  BY <1>t DEF HeapType, traversetable, All
<1>2. CASE x.kind[o] = "table"
  <2> DEFINE f == Paint(e, o, "black")
  <2>1. f \in CollectorType /\ f.mark = [c.mark EXCEPT ![o] = "black"] /\ f.gray = c.gray \ {o}
        /\ SameLists(c, f)
    BY <1>t DEF Paint, CollectorType, SameLists
  <2>2. propagatemark(x, c, o) = markobjects(x, f, traversetable(x, o))
    BY <1>2 DEF propagatemark
  <2> HIDE DEF f
  <2>3. Inv(x, f, k, {o})
    BY <1>2, <2>1, Popped DEF SameLists, Weaks
  <2>4. ~iswhite(f, o) /\ f.state \in Marking /\ f.mark[o] = "black"
    BY <2>1, <1>t DEF iswhite, CollectorType, SameLists
  <2>5. ASSUME NEW d, MarkedBy(x, f, d, traversetable(x, o))
        PROVE  Settled(y, d, o)
    <3>1. d.mark[o] = "black"
      BY <2>4, <2>5, <1>t DEF MarkedBy
    <3>2. Dark(d, x.val[o])
      BY <2>5, <1>2 DEF MarkedBy, traversetable, Dark
    <3>3. y.key[o] = Nil
      BY <1>y, <1>2, <1>t DEF Inv, Shape, Weaks
    <3> HIDE DEF y
    <3> QED
      BY <3>1, <3>2, <3>3, <1>y, <1>2 DEF Settled, Traced, Weaks
  <2> QED
    BY <2>2, <2>3, <2>4, <2>5, <1>r, <1>m
<1>3. CASE x.kind[o] = "closure"
  <2> DEFINE f == Paint(e, o, "black")
  <2>1. f \in CollectorType /\ f.mark = [c.mark EXCEPT ![o] = "black"] /\ f.gray = c.gray \ {o}
        /\ SameLists(c, f)
    BY <1>t DEF Paint, CollectorType, SameLists
  <2>2. propagatemark(x, c, o) = markobjects(x, f, {x.val[o]})
    BY <1>3 DEF propagatemark
  <2> HIDE DEF f
  <2>3. Inv(x, f, k, {o})
    BY <1>3, <2>1, Popped DEF SameLists, Weaks
  <2>4. ~iswhite(f, o) /\ f.state \in Marking /\ f.mark[o] = "black"
    BY <2>1, <1>t DEF iswhite, CollectorType, SameLists
  <2>5. ASSUME NEW d, MarkedBy(x, f, d, {x.val[o]})
        PROVE  Settled(y, d, o)
    <3>1. d.mark[o] = "black"
      BY <2>4, <2>5, <1>t DEF MarkedBy
    <3>2. Dark(d, x.val[o])
      BY <2>5 DEF MarkedBy
    <3>3. y.key[o] = Nil
      BY <1>y, <1>3, <1>t DEF Inv, Shape, Weaks
    <3> HIDE DEF y
    <3> QED
      BY <3>1, <3>2, <3>3, <1>y, <1>3 DEF Settled, Traced, Weaks
  <2> QED
    BY <2>2, <2>3, <2>4, <2>5, <1>r, <1>m
<1>4. CASE x.kind[o] \in Weaks
  <2> DEFINE f == [e EXCEPT !.weak = @ \cup {o}]
  <2>1. f \in CollectorType /\ f.mark = c.mark /\ f.gray = c.gray \ {o} /\ f.weak = c.weak \cup {o}
        /\ f.again = c.again /\ f.state = c.state /\ f.root = c.root /\ f.tmu = c.tmu
        /\ f.tosweep = c.tosweep /\ f.strings = c.strings /\ f.finalized = c.finalized
    BY <1>t DEF CollectorType
  <2>2. propagatemark(x, c, o) = markobjects(x, f, traversetable(x, o))
    BY <1>4 DEF propagatemark, Weaks
  <2> HIDE DEF f
  <2>3. Inv(x, f, k, {o})
    BY <1>4, <2>1, Popped DEF Weaks
  <2>4. ~iswhite(f, o) /\ f.state \in Marking
    BY <2>1, <1>k DEF iswhite
  <2>5. ASSUME NEW d, MarkedBy(x, f, d, traversetable(x, o))
        PROVE  Settled(y, d, o)
    <3>1. o \in d.weak
      BY <2>1, <2>5 DEF MarkedBy, SameLists
    <3>2. /\ x.kind[o] = "weakkey" => Dark(d, x.val[o])
          /\ x.kind[o] = "weakvalue" /\ x.val[o] # Nil => Dark(d, x.key[o])
      BY <2>5 DEF MarkedBy, traversetable, Dark
    <3>3. y.key[o] = IF x.val[o] = Nil THEN Nil ELSE x.key[o]
      BY <1>y, <1>t
    <3> HIDE DEF y
    <3> QED
      BY <3>1, <3>2, <3>3, <1>y, <1>4 DEF Settled, Traced, Weaks
  <2> QED
    BY <2>2, <2>3, <2>4, <2>5, <1>r, <1>m
<1>5. CASE x.kind[o] = "thread"
  <2> DEFINE f == [e EXCEPT !.again = @ \cup {o}]
             r == {Globals} \cup {x.stack[s] : s \in Slots}
  <2>1. f \in CollectorType /\ f.mark = c.mark /\ f.gray = c.gray \ {o} /\ f.weak = c.weak
        /\ f.again = c.again \cup {o} /\ f.state = c.state /\ f.root = c.root /\ f.tmu = c.tmu
        /\ f.tosweep = c.tosweep /\ f.strings = c.strings /\ f.finalized = c.finalized
    BY <1>t DEF CollectorType
  <2>2. propagatemark(x, c, o) = markobjects(x, f, r)
    BY <1>5 DEF propagatemark
  <2> HIDE DEF f
  <2>3. Inv(x, f, k, {o})
    BY <1>5, <2>1, Popped DEF Weaks
  <2>4. ~iswhite(f, o) /\ f.state \in Marking
    BY <2>1, <1>k DEF iswhite
  <2>5. ASSUME NEW d, MarkedBy(x, f, d, r)
        PROVE  Settled(y, d, o)
    <3>1. o \in d.again
      BY <2>1, <2>5 DEF MarkedBy, SameLists
    <3>2. \A s \in Slots : Dark(d, x.stack[s])
      BY <2>5 DEF MarkedBy
    <3>3. y.key[o] = Nil
      BY <1>y, <1>5, <1>t DEF Inv, Shape, Weaks
    <3> HIDE DEF y
    <3> QED
      BY <3>1, <3>2, <3>3, <1>y, <1>5 DEF Settled, Traced, Weaks
  <2> QED
    BY <2>2, <2>3, <2>4, <2>5, <1>r, <1>m
<1> QED
  BY <1>1, <1>2, <1>3, <1>4, <1>5

-----------------------------------------------------------------------------
(***************************************************************************)
(* The steps of the atomic phase.                                          *)
(***************************************************************************)
\* atomic goes on to its next state when the list it is done with is empty.
LEMMA StateMoves ==
  ASSUME NEW x, NEW c, NEW k, Inv(x, c, k, {}), NEW d \in CollectorType,
         d.mark = c.mark, d.gray = c.gray, d.again = c.again, d.weak = c.weak, d.root = c.root,
         d.tmu = c.tmu, d.tosweep = c.tosweep, d.strings = c.strings, d.finalized = c.finalized,
         \/ c.state = "propagate" /\ d.state = "upvalues"
         \/ c.state = "upvalues" /\ d.state = "weak" /\ c.weak = {}
         \/ c.state = "weak" /\ d.state = "again" /\ c.again = {}
         \/ c.state = "again" /\ d.state = "udata" /\ MarkedUdata(x, d)
  PROVE  Inv(x, d, k, {})
<1>1. c.state \in Marking /\ d.state \in Marking
  BY DEF Marking, AtomicStates
<1>2. \A p : Sound(x, d, p) <=> Sound(x, c, p)
  BY DEF Sound, isdead
<1>3. \A v : Entry(x, d, v) <=> Entry(x, c, v)
  BY <1>2 DEF Entry
<1>4. Types(x, d, k) /\ Fixed(x, d) /\ Shape(x) /\ Lists(x, d) /\ Finals(x, d, k)
  BY DEF Inv, Types, Fixed, Lists, Finals, MarkedUdata, isdead
<1>5. Refs(x, d)
  BY <1>2, <1>3 DEF Inv, Refs
<1>6. Phase(d)
  BY <1>1 DEF Inv, Phase, Marking, AtomicStates
<1>7. Colors(x, d)
  BY <1>1 DEF Inv, Colors, isdead
<1>8. Tri(x, d, {})
  <2>1. \A p : Pending(c, p) => Pending(d, p)
    BY DEF Pending
  <2>2. \A p : Traced(x, c, p) => Traced(x, d, p)
    BY DEF Traced, Dark, iswhite
  <2>3. \A p : Settled(x, c, p) => Settled(x, d, p)
    BY <2>1, <2>2 DEF Settled
  <2> QED
    BY <1>1, <2>3 DEF Inv, Tri, iswhite
<1> QED
  BY <1>4, <1>5, <1>6, <1>7, <1>8 DEF Inv

\* A list of what is yet to be traversed once more becomes the list gray.
LEMMA Requeued ==
  ASSUME NEW x, NEW c, NEW k, Inv(x, c, k, {}), NEW d \in CollectorType, c.gray = {},
         d.mark = c.mark, d.state = c.state, d.root = c.root, d.tmu = c.tmu,
         d.tosweep = c.tosweep, d.strings = c.strings, d.finalized = c.finalized,
         \/ c.state = "upvalues" /\ d.gray = c.weak /\ d.weak = {} /\ d.again = c.again
         \/ c.state = "weak" /\ d.gray = c.again /\ d.again = {} /\ d.weak = c.weak
  PROVE  Inv(x, d, k, {})
<1>1. c.state \in Marking
  BY DEF Marking, AtomicStates
<1>2. \A p : Sound(x, d, p) <=> Sound(x, c, p)
  BY DEF Sound, isdead
<1>3. \A v : Entry(x, d, v) <=> Entry(x, c, v)
  BY <1>2 DEF Entry
<1>4. Types(x, d, k) /\ Fixed(x, d) /\ Shape(x) /\ Finals(x, d, k)
  BY DEF Inv, Types, Fixed, Finals, MarkedUdata, isdead
<1>5. Refs(x, d)
  BY <1>2, <1>3 DEF Inv, Refs
<1>6. Phase(d)
  BY <1>1 DEF Inv, Phase
<1>7. Colors(x, d)
  BY DEF Inv, Colors, isdead
<1>8. Tri(x, d, {})
  <2>1. \A p : Pending(c, p) => Pending(d, p)
    BY DEF Pending
  <2>2. \A p : Traced(x, c, p) => Traced(x, d, p)
    BY DEF Traced, Dark, iswhite
  <2>3. \A p : Settled(x, c, p) => Settled(x, d, p)
    BY <2>1, <2>2 DEF Settled
  <2> QED
    BY <1>1, <2>3 DEF Inv, Tri, iswhite
<1>9. Lists(x, d)
  BY DEF Inv, Lists, Traversed, Weaks
<1> QED
  BY <1>4, <1>5, <1>6, <1>7, <1>8, <1>9 DEF Inv

\* Userdata with finalizers yet to be called move to tmu.
LEMMA SeparateKeeps ==
  ASSUME NEW x, NEW c, NEW k, Inv(x, c, k, {}), c.state = "again"
  PROVE  /\ Inv(x, separateudata(x, c), k, {})
         /\ separateudata(x, c).state = "again"
         /\ \A o \in Objects :
              x.kind[o] = "udata" /\ o \notin separateudata(x, c).finalized
                => ~iswhite(separateudata(x, c), o)
<1> DEFINE d == separateudata(x, c)
           ud == {o \in c.root : x.kind[o] = "udata" /\ iswhite(c, o) /\ o \notin c.finalized}
<1>t. c \in CollectorType /\ x \in HeapType /\ c.state \in Marking
  BY DEF Inv, Types, Marking, AtomicStates
<1>0. ud \subseteq Objects
  BY <1>t DEF CollectorType, Inv, Fixed, All
<1>1. /\ d \in CollectorType /\ d.mark = c.mark /\ d.state = c.state /\ d.gray = c.gray
      /\ d.again = c.again /\ d.weak = c.weak /\ d.tosweep = c.tosweep /\ d.strings = c.strings
      /\ d.root = c.root \ ud /\ d.tmu = c.tmu \cup ud /\ d.finalized = c.finalized \cup ud
  BY <1>t, <1>0 DEF separateudata, CollectorType, All
<1> HIDE DEF d
<1>2. \A p : Sound(x, d, p) <=> Sound(x, c, p)
  BY <1>1 DEF Sound, isdead
<1>3. \A v : Entry(x, d, v) <=> Entry(x, c, v)
  BY <1>2 DEF Entry
<1>4. Types(x, d, k)
  BY <1>1 DEF Inv, Types
<1>5. Refs(x, d)
  BY <1>2, <1>3 DEF Inv, Refs
<1>6. Fixed(x, d)
  BY <1>1 DEF Inv, Fixed, isdead
<1>7. Phase(d)
  BY <1>1 DEF Inv, Phase, Marking, AtomicStates
<1>8. Colors(x, d)
  <2>1. \A o \in ud : ~isdead(c, o)
    BY <1>0, <1>t DEF Inv, Colors, Lists, All
  <2> QED
    BY <2>1, <1>1 DEF Inv, Colors, isdead
<1>9. Tri(x, d, {})
  <2>1. \A p : Pending(c, p) => Pending(d, p)
    BY <1>1 DEF Pending
  <2>2. \A p : Traced(x, c, p) => Traced(x, d, p)
    BY <1>1 DEF Traced, Dark, iswhite
  <2>3. \A p : Settled(x, c, p) => Settled(x, d, p)
    BY <2>1, <2>2, <1>1 DEF Settled
  <2> QED
    BY <1>1, <2>3 DEF Inv, Tri, iswhite
<1>10. Lists(x, d)
  <2>1. c.tosweep = {}
    BY <1>t DEF Inv, Phase
  <2> QED
    BY <1>1, <2>1 DEF Inv, Lists
<1>11. Finals(x, d, k)
  BY <1>0, <1>1 DEF Inv, Finals, MarkedUdata, Lists, isdead
<1>12. ASSUME NEW o \in Objects, x.kind[o] = "udata", o \notin d.finalized
       PROVE  ~iswhite(d, o)
  <2>1. o \in c.root
    <3>1. x.open[o] = 0
      BY <1>12 DEF Inv, Shape, All
    <3> QED
      BY <1>12, <1>1, <3>1 DEF Inv, Lists, All, Used
  <2> QED
    BY <1>12, <1>1, <2>1 DEF iswhite
<1> QED
  BY <1>1, <1>4, <1>5, <1>6, <1>7, <1>8, <1>9, <1>10, <1>11, <1>12 DEF Inv, d

\* marktmu marks the members of tmu, which were white or black.
LEMMA TmuMarked ==
  ASSUME NEW x, NEW c, NEW k, Inv(x, c, k, {}), c.state \in Marking
  PROVE  MarkedBy(x, c, marktmu(x, c), c.tmu)
<1> DEFINE m == [o \in All |-> IF o \in c.tmu THEN "white" ELSE c.mark[o]]
           e == [c EXCEPT !.mark = m]
           d == marktmu(x, c)
<1>t. c \in CollectorType /\ x \in HeapType /\ c.tmu \in SUBSET (All \cup {Nil})
  BY DEF Inv, Types, CollectorType
<1>1. m \in [All -> {"white", "old", "gray", "black"}]
  BY <1>t DEF CollectorType
<1>2. e \in CollectorType /\ SameLists(c, e) /\ e.gray = c.gray /\ e.mark = m
  <2> HIDE DEF m
  <2> QED
    BY <1>1, <1>t DEF CollectorType, SameLists
<1>3. d = markobjects(x, e, c.tmu)
  BY <1>t DEF marktmu, CollectorType
<1>4. MarkedBy(x, e, d, c.tmu)
  <2>1. Chains(x)
    BY InvChains
  <2> HIDE DEF e, d
  <2> QED
    BY <2>1, <1>2, <1>3, <1>t, Marks
<1>5. \A o \in c.tmu : o \in All /\ x.kind[o] = "udata" /\ c.mark[o] \in {"white", "black"}
  <2> SUFFICES ASSUME NEW o \in c.tmu
               PROVE  o \in All /\ x.kind[o] = "udata" /\ c.mark[o] \in {"white", "black"}
    OBVIOUS
  <2>1. o \in All /\ x.kind[o] = "udata"
    BY <1>t DEF CollectorType, Inv, Lists
  <2>2. c.mark[o] # "gray" /\ c.mark[o] # "old"
    BY <2>1 DEF Inv, Colors, Used, isdead
  <2>3. c.mark[o] \in {"white", "old", "gray", "black"}
    BY <2>1, <1>t DEF CollectorType
  <2> QED
    BY <2>1, <2>2, <2>3
<1> HIDE DEF d, e
<1>6. ASSUME NEW o \in All, o \in c.tmu
      PROVE  Becoming(x, d, o) /\ d.mark[o] = "black"
  <2>1. iswhite(e, o)
    BY <1>2, <1>6 DEF iswhite
  <2>2. ~iswhite(d, o)
    BY <1>4, <1>6, ConstantsAssumption DEF MarkedBy, Dark
  <2>3. Becoming(x, d, o)
    BY <2>1, <2>2, <1>4 DEF MarkedBy, iswhite
  <2> QED
    BY <2>3, <1>5, <1>6 DEF Becoming
<1>7. \A o \in All : o \notin c.tmu => e.mark[o] = c.mark[o]
  BY <1>2
<1>8. \A o \in All : ~iswhite(c, o) => d.mark[o] = c.mark[o]
  BY <1>4, <1>5, <1>6, <1>7 DEF MarkedBy, iswhite
<1>9. \A o \in All : iswhite(c, o) => d.mark[o] = c.mark[o] \/ Becoming(x, d, o)
  BY <1>4, <1>6, <1>7 DEF MarkedBy, iswhite
<1>10. \A o \in All : o \in d.gray <=>
         o \in c.gray \/ (x.kind[o] \in Traversed /\ iswhite(c, o) /\ ~iswhite(d, o))
  BY <1>2, <1>4, <1>5, <1>7 DEF MarkedBy, iswhite, Traversed
<1> QED
  BY <1>2, <1>4, <1>8, <1>9, <1>10 DEF MarkedBy, SameLists, d

\* The steps of atomic but the last keep the invariant.
LEMMA AtomicKeeps ==
  ASSUME IInv, RemarkUpvalues \/ MarkWeak \/ MarkAgain \/ MarkUdata
  PROVE  Inv(h', g', calls', {})
<1>t. h \in HeapType /\ g \in CollectorType /\ h' = h /\ calls' = calls /\ g.gray = {}
      /\ Inv(h, g, calls, {})
  BY DEF IInv, Inv, Types, RemarkUpvalues, MarkWeak, MarkAgain, MarkUdata, AtomicStep
<1>s. ASSUME NEW d, NEW b, Inv(h, d, calls, {}), g' = [d EXCEPT !.state = b],
             \/ d.state = "propagate" /\ b = "upvalues"
             \/ d.state = "upvalues" /\ b = "weak" /\ d.weak = {}
             \/ d.state = "weak" /\ b = "again" /\ d.again = {}
             \/ d.state = "again" /\ b = "udata" /\ MarkedUdata(h, [d EXCEPT !.state = b])
      PROVE  Inv(h', g', calls', {})
  <2>1. d \in CollectorType /\ b \in Marking
    BY <1>s DEF Inv, Types, Marking, AtomicStates
  <2>2. /\ g' \in CollectorType /\ g'.state = b /\ g'.mark = d.mark /\ g'.gray = d.gray
        /\ g'.again = d.again /\ g'.weak = d.weak /\ g'.root = d.root /\ g'.tmu = d.tmu
        /\ g'.tosweep = d.tosweep /\ g'.strings = d.strings /\ g'.finalized = d.finalized
    BY <1>s, <2>1 DEF CollectorType
  <2>3. Inv(h, g', calls, {})
    BY <1>s, <2>2, StateMoves
  <2> QED
    BY <2>3, <1>t
<1>c. Chains(h)
  <2>1. g.state \in Marking
    BY DEF RemarkUpvalues, MarkWeak, MarkAgain, MarkUdata, AtomicStep, Marking, AtomicStates
  <2> QED
    BY <1>t, <2>1, InvChains
<1>m. ASSUME NEW e, Inv(h, e, calls, {}), e.state \in Marking, NEW os \in SUBSET (All \cup {Nil})
      PROVE  Inv(h, markobjects(h, e, os), calls, {}) /\ SameLists(e, markobjects(h, e, os))
  <2>1. e \in CollectorType
    BY <1>m DEF Inv, Types
  <2>2. MarkedBy(h, e, markobjects(h, e, os), os)
    BY <1>c, <1>m, <1>t, <2>1, Marks
  <2>3. Inv(h, markobjects(h, e, os), calls, {})
    BY <1>m, <2>2, MarkKeeps
  <2> QED
    BY <2>2, <2>3 DEF MarkedBy
<1>1. CASE RemarkUpvalues
  <2> DEFINE os == {Value(h, o) : o \in {p \in OpenUpvalues(h) : g.mark[p] = "gray"}}
  <2>1. os \in SUBSET (All \cup {Nil})
    BY <1>t DEF OpenUpvalues, Value, HeapType, All
  <2>2. g.state = "propagate" /\ g' = [markobjects(h, g, os) EXCEPT !.state = "upvalues"]
    BY <1>1 DEF RemarkUpvalues, AtomicStep, remarkupvals
  <2> HIDE DEF os
  <2>3. Inv(h, markobjects(h, g, os), calls, {}) /\ markobjects(h, g, os).state = "propagate"
    BY <1>m, <1>t, <2>1, <2>2 DEF Marking, SameLists
  <2> QED
    BY <1>s, <2>2, <2>3
<1>2. CASE MarkWeak
  <2> DEFINE e == [g EXCEPT !.gray = g.weak, !.weak = {}]
  <2>1. /\ e \in CollectorType /\ e.mark = g.mark /\ e.gray = g.weak /\ e.weak = {}
        /\ e.state = g.state /\ e.again = g.again /\ e.root = g.root /\ e.tmu = g.tmu
        /\ e.tosweep = g.tosweep /\ e.strings = g.strings /\ e.finalized = g.finalized
    BY <1>t DEF CollectorType
  <2>2. g.state = "upvalues" /\ g' = [markobjects(h, e, {MainThread}) EXCEPT !.state = "weak"]
    BY <1>2 DEF MarkWeak, AtomicStep
  <2> HIDE DEF e
  <2>3. Inv(h, e, calls, {})
    BY <1>t, <2>1, <2>2, Requeued
  <2>4. Inv(h, markobjects(h, e, {MainThread}), calls, {}) /\ SameLists(e, markobjects(h, e, {MainThread}))
    BY <1>m, <2>1, <2>2, <2>3 DEF Marking, AtomicStates, All
  <2> QED
    BY <1>s, <2>1, <2>2, <2>4 DEF SameLists
<1>3. CASE MarkAgain
  <2> DEFINE e == [g EXCEPT !.gray = g.again, !.again = {}]
  <2>1. /\ e \in CollectorType /\ e.mark = g.mark /\ e.gray = g.again /\ e.again = {}
        /\ e.state = g.state /\ e.weak = g.weak /\ e.root = g.root /\ e.tmu = g.tmu
        /\ e.tosweep = g.tosweep /\ e.strings = g.strings /\ e.finalized = g.finalized
    BY <1>t DEF CollectorType
  <2>2. g.state = "weak" /\ g' = [e EXCEPT !.state = "again"]
    BY <1>3 DEF MarkAgain, AtomicStep
  <2> HIDE DEF e
  <2>3. Inv(h, e, calls, {})
    BY <1>t, <2>1, <2>2, Requeued
  <2> QED
    BY <1>s, <2>1, <2>2, <2>3
<1>4. CASE MarkUdata
  <2> DEFINE e == separateudata(h, g)
             d == marktmu(h, e)
  <2>1. g.state = "again" /\ g' = [d EXCEPT !.state = "udata"]
    BY <1>4 DEF MarkUdata, AtomicStep
  <2>2. /\ Inv(h, e, calls, {}) /\ e.state = g.state
        /\ \A o \in Objects : h.kind[o] = "udata" /\ o \notin e.finalized => ~iswhite(e, o)
    BY <1>t, <2>1, SeparateKeeps
  <2> HIDE DEF e
  <2>3. MarkedBy(h, e, d, e.tmu)
    BY <2>1, <2>2, TmuMarked DEF Marking, AtomicStates
  <2> HIDE DEF d
  <2>4. Inv(h, d, calls, {})
    BY <2>1, <2>2, <2>3, MarkKeeps DEF Marking, AtomicStates
  <2>5. d.state = "again" /\ d.tmu = e.tmu /\ d.finalized = e.finalized /\ d \in CollectorType
    BY <2>1, <2>2, <2>3 DEF MarkedBy, SameLists
  <2>6. \A o \in Objects :
          h.kind[o] = "udata" /\ (o \in d.tmu \/ o \notin d.finalized) => ~iswhite(d, o)
    BY <2>2, <2>3, <2>5, ConstantsAssumption DEF MarkedBy, Dark, All, iswhite
  <2>7. MarkedUdata(h, [d EXCEPT !.state = "udata"])
    BY <2>5, <2>6 DEF MarkedUdata, iswhite, CollectorType
  <2> QED
    BY <1>s, <2>1, <2>4, <2>5, <2>7
<1> QED
  BY <1>1, <1>2, <1>3, <1>4

\* Marking strings marks nothing else.
LEMMA StringMarks ==
  ASSUME NEW x \in HeapType, NEW c \in CollectorType, NEW os \in SUBSET All,
         \A o \in os : x.kind[o] = "string"
  PROVE  LET d == markobjects(x, c, os)
         IN  /\ d \in CollectorType /\ SameLists(c, d) /\ d.gray = c.gray
             /\ \A o \in All : d.mark[o] = IF o \in os /\ iswhite(c, o) THEN "gray" ELSE c.mark[o]
<1> DEFINE d == markobjects(x, c, os)
           m == [o \in All |-> IF o \in os /\ iswhite(c, o) THEN "gray" ELSE c.mark[o]]
<1>n. Nil \notin All
  BY ConstantsAssumption
<1>1. Through(x, c, os) = {} /\ Through(x, c, {}) = {}
  BY DEF Through
<1>2. d = [c EXCEPT !.mark = m, !.gray = c.gray]
  <2>1. {o \in (os \cup {} \cup {}) \ {Nil} : iswhite(c, o)} = {o \in os : iswhite(c, o)}
    BY <1>n
  <2>2. {o \in {p \in os : iswhite(c, p)} :
           x.kind[o] = "udata" \/ (x.kind[o] = "upval" /\ x.open[o] = 0)} = {}
    OBVIOUS
  <2>3. {o \in {p \in os : iswhite(c, p)} : x.kind[o] \in Traversed} = {}
    BY DEF Traversed
  <2>4. c.gray \cup {} = c.gray
    OBVIOUS
  <2>5. m = [o \in All |-> IF o \in {} THEN "black"
                           ELSE IF o \in {p \in os : iswhite(c, p)} THEN "gray" ELSE c.mark[o]]
    OBVIOUS
  <2> HIDE DEF m
  <2> QED
    BY <1>1, <2>1, <2>2, <2>3, <2>4, <2>5 DEF markobjects, CollectorType
<1>3. m \in [All -> {"white", "old", "gray", "black"}]
  BY DEF CollectorType
<1>4. d \in CollectorType /\ SameLists(c, d) /\ d.gray = c.gray /\ d.mark = m
  <2> HIDE DEF m
  <2> QED
    BY <1>2, <1>3 DEF CollectorType, SameLists
<1> QED
  BY <1>4

\* The end of atomic: when no object is gray, what is marked refers to what is
\* marked only, so that the rest may be swept.
LEMMA AtomicEndKeeps ==
  ASSUME NEW x, NEW c, NEW k, Inv(x, c, k, {}), c.state = "udata", c.gray = {}
  PROVE  Inv(atomic_end(x, c).heap, atomic_end(x, c).gc, k, {})
<1> DEFINE os == cleared(x, c)
           ents == {o \in c.weak : x.val[o] # Nil}
           strs == {s \in {x.key[o] : o \in ents} \cup
                         {x.val[o] : o \in {p \in ents : ~iscleared(x, c, x.key[p], TRUE)}} :
                      s # Nil /\ x.kind[s] = "string"}
           d == stringmark(x, c)
           y == atomic_end(x, c).heap
           e == atomic_end(x, c).gc
<1>t. c \in CollectorType /\ x \in HeapType /\ c.state \in Marking
  BY DEF Inv, Types, Marking, AtomicStates
<1>0. strs \in SUBSET All /\ c.weak \in SUBSET All
  <2>1. c.weak \in SUBSET All
    BY <1>t DEF CollectorType
  <2>2. \A o \in All : x.key[o] \in All \cup {Nil} /\ x.val[o] \in All \cup {Nil}
    BY <1>t DEF HeapType
  <2> QED
    BY <2>1, <2>2
<1>1. /\ d \in CollectorType /\ SameLists(c, d) /\ d.gray = {}
      /\ \A o \in All : d.mark[o] = IF o \in strs /\ iswhite(c, o) THEN "gray" ELSE c.mark[o]
  <2>1. \A o \in strs : x.kind[o] = "string"
    OBVIOUS
  <2>2. d = markobjects(x, c, strs)
    BY DEF stringmark
  <2> HIDE DEF strs, d
  <2> QED
    BY <1>t, <1>0, <2>1, <2>2, StringMarks
<1>2. /\ y \in HeapType /\ y.kind = x.kind /\ y.open = x.open /\ y.stack = x.stack
      /\ \A o \in All : /\ y.key[o] = IF o \in os THEN Nil ELSE x.key[o]
                        /\ y.val[o] = IF o \in os THEN Nil ELSE x.val[o]
  <2>1. y = Clear(x, os)
    BY DEF atomic_end
  <2> HIDE DEF y, os
  <2> QED
    BY <2>1, <1>t DEF Clear, HeapType
<1>3. /\ e \in CollectorType /\ e.state = "sweepstring" /\ e.gray = {} /\ e.again = {} /\ e.weak = {}
      /\ e.root = c.root /\ e.tmu = c.tmu /\ e.finalized = c.finalized /\ e.tosweep = c.root
      /\ e.strings = {o \in Objects : x.kind[o] = "string"}
      /\ \A o \in All : e.mark[o] = CASE d.mark[o] = "white" -> "old"
                                      [] d.mark[o] = "old" -> "white"
                                      [] OTHER -> d.mark[o]
  <2> DEFINE m == [o \in All |-> CASE d.mark[o] = "white" -> "old"
                                      [] d.mark[o] = "old" -> "white"
                                      [] OTHER -> d.mark[o]]
             st == {o \in Objects : x.kind[o] = "string"}
  <2>1. e = [flip(d) EXCEPT !.again = {}, !.weak = {}, !.strings = st, !.tosweep = c.root,
                            !.state = "sweepstring"]
    BY DEF atomic_end
  <2> HIDE DEF e, d
  <2>2. flip(d) = [d EXCEPT !.mark = m]
    BY <1>1 DEF flip, CollectorType
  <2>3. m \in [All -> {"white", "old", "gray", "black"}]
    BY <1>1 DEF CollectorType
  <2>4. st \in SUBSET Objects
    OBVIOUS
  <2>5. /\ e \in CollectorType /\ e.state = "sweepstring" /\ e.gray = {} /\ e.again = {} /\ e.weak = {}
        /\ e.root = c.root /\ e.tmu = c.tmu /\ e.finalized = c.finalized /\ e.tosweep = c.root
        /\ e.strings = st /\ e.mark = m
    <3> HIDE DEF m, st
    <3> QED
      BY <2>1, <2>2, <2>3, <2>4, <1>1, <1>t DEF CollectorType, SameLists
  <2> QED
    BY <2>5
<1> HIDE DEF y, e, d
\* What survives is what is marked.
<1>4. \A o \in All : Used(x, o) => ~isdead(c, o)
  BY <1>t DEF Inv, Colors
<1>5. \A o \in All : Used(x, o) => (isdead(e, o) <=> iswhite(d, o))
  BY <1>1, <1>3, <1>4 DEF isdead, iswhite
<1>6. \A o \in All : ~iswhite(c, o) => ~isdead(e, o) /\ e.mark[o] = c.mark[o]
  BY <1>1, <1>3 DEF isdead, iswhite
<1>7. \A v : Entry(x, c, v) /\ Dark(c, v) => Entry(y, e, v)
  BY <1>2, <1>6 DEF Entry, Dark, Sound, Used
<1>8. \A o \in All : Sound(y, e, o) => Sound(x, c, o)
  BY <1>2, <1>4 DEF Sound, Used
<1>9. ASSUME NEW o \in All, Sound(y, e, o), x.kind[o] # "string", x.open[o] = 0
      PROVE  ~iswhite(c, o) /\ Traced(x, c, o) /\ (x.kind[o] \in Weaks => o \in c.weak)
  <2>1. o \notin strs
    BY <1>9
  <2>2. ~iswhite(c, o)
    BY <2>1, <1>9, <1>2, <1>5, <1>1 DEF Sound, Used, iswhite
  <2>3. Settled(x, c, o)
    BY <2>2, <1>9, <1>2, <1>t DEF Inv, Tri, Sound, Used
  <2>4. ~Pending(c, o)
    BY DEF Pending
  <2> QED
    BY <2>2, <2>3, <2>4 DEF Settled
<1>10. Refs(y, e)
  <2>1. ASSUME NEW s \in Slots
        PROVE  Entry(y, e, y.stack[s])
    <3>1. Sound(y, e, MainThread) /\ MainThread \in All /\ x.kind[MainThread] = "thread"
      BY <1>2, <1>6, <1>t DEF Inv, Fixed, Tri, Sound, Used, All
    <3>2. x.open[MainThread] = 0
      BY <3>1 DEF Inv, Shape
    <3>3. Dark(c, x.stack[s])
      BY <3>1, <3>2, <1>9 DEF Traced
    <3>4. Entry(x, c, x.stack[s])
      BY DEF Inv, Refs
    <3> QED
      BY <3>3, <3>4, <1>7, <1>2
  <2>2. ASSUME NEW o \in All, Sound(y, e, o)
        PROVE  /\ Entry(y, e, y.key[o])
               /\ y.kind[o] = "closure" => Sound(y, e, y.val[o]) /\ y.kind[y.val[o]] = "upval"
               /\ y.kind[o] # "closure" => Entry(y, e, y.val[o])
    <3>1. /\ Entry(x, c, x.key[o])
          /\ x.kind[o] = "closure" => Sound(x, c, x.val[o]) /\ x.kind[x.val[o]] = "upval"
          /\ x.kind[o] # "closure" => Entry(x, c, x.val[o])
      BY <2>2, <1>8 DEF Inv, Refs
    <3>n. Entry(y, e, Nil)
      BY DEF Entry
    <3>2. CASE x.kind[o] = "string" \/ x.open[o] # 0
      <4>1. x.key[o] = Nil /\ x.val[o] = Nil /\ x.kind[o] # "closure"
        BY <3>2 DEF Inv, Shape, Weaks
      <4>2. y.key[o] = Nil /\ y.val[o] = Nil
        BY <4>1, <1>2
      <4> QED
        BY <4>1, <4>2, <3>n, <1>2
    <3>3. CASE x.kind[o] # "string" /\ x.open[o] = 0 /\ x.kind[o] \in Weaks
      <4>1. Traced(x, c, o) /\ o \in c.weak
        BY <2>2, <3>3, <1>9
      <4>2. CASE o \in os
        BY <4>2, <3>3, <3>n, <1>2 DEF Weaks
      <4>3. CASE o \notin os /\ x.val[o] = Nil
        <5>1. x.key[o] = Nil
          BY <4>1, <4>3 DEF Traced
        <5> QED
          BY <5>1, <4>3, <3>3, <3>n, <1>2 DEF Weaks
      <4>4. CASE o \notin os /\ x.val[o] # Nil
        <5>1. ~iscleared(x, c, x.key[o], TRUE) /\ ~iscleared(x, c, x.val[o], FALSE)
          BY <4>1, <4>4 DEF cleared
        <5>2. ASSUME NEW v, v = x.key[o] \/ v = x.val[o], Entry(x, c, v)
              PROVE  Entry(y, e, v)
          <6>1. CASE v = Nil \/ ~iswhite(c, v)
            BY <6>1, <5>2, <1>7 DEF Dark
          <6>2. CASE v # Nil /\ iswhite(c, v)
            <7>1. x.kind[v] = "string"
              BY <5>1, <5>2, <6>2 DEF iscleared
            <7>2. v \in All /\ v \in strs
              BY <7>1, <6>2, <5>2, <5>1, <4>1, <4>4 DEF Entry, Sound
            <7>3. ~isdead(e, v)
              BY <7>2, <6>2, <1>1, <1>3 DEF isdead
            <7> QED
              BY <7>1, <7>2, <7>3, <1>2 DEF Entry, Sound, Used
          <6> QED
            BY <6>1, <6>2
        <5> QED
          BY <5>2, <3>1, <3>3, <4>4, <1>2 DEF Weaks
      <4> QED
        BY <4>2, <4>3, <4>4
    <3>4. CASE x.kind[o] # "string" /\ x.open[o] = 0 /\ x.kind[o] \notin Weaks
      <4>1. Traced(x, c, o)
        BY <2>2, <3>4, <1>9
      <4>2. x.key[o] = Nil /\ o \notin os
        BY <3>4, <1>0 DEF Inv, Shape, Lists, cleared
      <4>3. Dark(c, x.val[o])
        <5>1. x.kind[o] = "thread" => x.val[o] = Nil
          BY DEF Inv, Shape
        <5>2. x.kind[o] \in Kinds /\ x.kind[o] # "free"
          BY <2>2, <1>t, <1>2 DEF HeapType, Sound, Used
        <5> QED
          BY <4>1, <5>1, <5>2, <3>4 DEF Traced, Dark, Kinds, Weaks
      <4>4. x.kind[o] = "closure" => Sound(y, e, x.val[o])
        BY <3>1, <4>3, <1>2, <1>6, ConstantsAssumption DEF Dark, Sound, Used
      <4>5. y.key[o] = Nil /\ y.val[o] = x.val[o]
        BY <4>2, <1>2
      <4> QED
        BY <3>1, <3>n, <4>3, <4>4, <4>5, <1>2, <1>7
    <3> QED
      BY <3>2, <3>3, <3>4
  <2> QED
    BY <2>1, <2>2 DEF Refs
<1>11. Types(y, e, k)
  BY <1>2, <1>3 DEF Inv, Types
<1>12. Fixed(y, e)
  BY <1>2, <1>3, <1>6, <1>t DEF Inv, Fixed, Tri, All
<1>13. Shape(y)
  <2>1. \A o \in os : x.kind[o] \in Weaks
    BY DEF Inv, Lists, cleared
  <2>2. \A o \in All : x.open[o] # 0 => x.kind[o] = "upval"
    BY DEF Inv, Shape
  <2> HIDE DEF os
  <2> QED
    BY <2>1, <2>2, <1>2 DEF Inv, Shape, Weaks
<1>14. Lists(y, e)
  BY <1>2, <1>3 DEF Inv, Lists, Used
<1>15. Phase(e)
  BY <1>3 DEF Phase, Marking, AtomicStates
<1>16. Colors(y, e)
  <2>1. ASSUME NEW o \in c.tmu
        PROVE  ~isdead(e, o)
    <3>1. o \in Objects /\ x.kind[o] = "udata"
      BY <1>t DEF CollectorType, Inv, Lists, All, Fixed
    <3> QED
      BY <3>1, <1>6 DEF Inv, Finals, MarkedUdata, All
  <2>2. ASSUME NEW o \in All, Used(y, o)
        PROVE  /\ y.open[o] # 0 => e.mark[o] # "black"
               /\ y.kind[o] = "udata" => e.mark[o] # "gray"
    <3>1. e.mark[o] \in {"black", "gray"} => e.mark[o] = c.mark[o] \/ o \in strs
      BY <1>1, <1>3
    <3>2. x.open[o] # 0 => x.kind[o] = "upval"
      BY DEF Inv, Shape
    <3>3. Used(x, o)
      BY <2>2, <1>2 DEF Used
    <3> QED
      BY <3>1, <3>2, <3>3, <1>2 DEF Inv, Colors
  <2>3. ASSUME NEW o \in All, Used(y, o)
        PROVE  \/ e.mark[o] = "white"
               \/ o \in e.tosweep \/ o \in e.strings \/ o \in e.tmu
               \/ y.open[o] # 0 /\ MainThread \in e.tosweep
    <3>1. Used(x, o)
      BY <2>3, <1>2 DEF Used
    <3>2. o \in c.root \/ o \in c.tmu \/ x.kind[o] = "string" \/ x.open[o] # 0
      BY <3>1 DEF Inv, Lists
    <3>3. x.kind[o] = "string" => o \in Objects
      BY DEF Inv, Fixed, All
    <3> QED
      BY <3>2, <3>3, <1>2, <1>3 DEF Inv, Fixed
  <2> QED
    BY <2>1, <2>2, <2>3, <1>3 DEF Colors, Marking, AtomicStates
<1>17. Tri(y, e, {})
  BY <1>3 DEF Tri, Marking, AtomicStates
<1>18. Finals(y, e, k)
  <2>1. ASSUME NEW o \in Objects, x.kind[o] = "udata", o \notin c.finalized
        PROVE  k[o] = 0 /\ ~isdead(e, o)
    BY <2>1, <1>6 DEF Inv, Finals, MarkedUdata, All
  <2> QED
    BY <2>1, <1>2, <1>3 DEF Inv, Finals, MarkedUdata
<1> QED
  BY <1>10, <1>11, <1>12, <1>13, <1>14, <1>15, <1>16, <1>17, <1>18 DEF Inv, y, e

-----------------------------------------------------------------------------
(***************************************************************************)
(* The beginning of a cycle.                                               *)
(***************************************************************************)
\* When the sweep is over all objects are white but those of tmu.
LEMMA SweptWhite ==
  ASSUME NEW x, NEW c, NEW k, NEW E, Inv(x, c, k, E), c.state \in {"pause", "finalize"}
  PROVE  \A o \in All : Used(x, o) =>
           /\ ~isdead(c, o)
           /\ c.mark[o] = "white" \/ (o \in c.tmu /\ c.mark[o] = "black" /\ x.kind[o] = "udata")
<1>1. c.tosweep = {} /\ c.strings = {} /\ c.state \notin Marking
  BY DEF Inv, Phase, Marking, AtomicStates
<1>2. ASSUME NEW o \in All, Used(x, o)
      PROVE  /\ ~isdead(c, o)
             /\ c.mark[o] = "white" \/ (o \in c.tmu /\ c.mark[o] = "black" /\ x.kind[o] = "udata")
  <2>1. c.mark[o] = "white" \/ o \in c.tmu
    BY <1>1, <1>2 DEF Inv, Colors
  <2>2. CASE o \in c.tmu
    <3>1. x.kind[o] = "udata"
      BY <2>2 DEF Inv, Lists
    <3>2. c.mark[o] # "gray" /\ c.mark[o] # "old"
      BY <1>2, <2>2, <3>1 DEF Inv, Colors, isdead
    <3>3. c.mark[o] \in {"white", "old", "gray", "black"}
      BY <1>2 DEF Inv, Types, CollectorType
    <3> QED
      BY <2>2, <3>1, <3>2, <3>3 DEF isdead
  <2> QED
    BY <2>1, <2>2 DEF isdead
<1> QED
  BY <1>2

\* markroot begins a mark phase.
LEMMA RootKeeps ==
  ASSUME NEW x, NEW c, NEW k, Inv(x, c, k, {}), c.state \in {"pause", "finalize"}
  PROVE  Inv(x, markroot(x, c), k, {})
<1> DEFINE e == [c EXCEPT !.gray = {}, !.again = {}, !.weak = {}, !.state = "propagate"]
           os == {MainThread, Globals}
           d == markroot(x, c)
<1>t. c \in CollectorType /\ x \in HeapType
  BY DEF Inv, Types
<1>1. /\ e \in CollectorType /\ e.state = "propagate" /\ e.gray = {} /\ e.again = {} /\ e.weak = {}
      /\ e.mark = c.mark /\ e.root = c.root /\ e.tmu = c.tmu /\ e.tosweep = c.tosweep
      /\ e.strings = c.strings /\ e.finalized = c.finalized
  BY <1>t DEF CollectorType, Marking
<1>2. Chains(x)
  BY SweptWhite, InvChains
<1>3. MarkedBy(x, e, d, os)
  <2>1. d = markobjects(x, e, os)
    BY DEF markroot
  <2>2. os \in SUBSET (All \cup {Nil})
    BY DEF All
  <2> HIDE DEF e, d, os
  <2> QED
    BY <2>1, <2>2, <1>t, <1>1, <1>2, Marks
<1> HIDE DEF e, d
<1>4. /\ d \in CollectorType /\ d.state = "propagate" /\ d.again = {} /\ d.weak = {}
      /\ d.root = c.root /\ d.tmu = c.tmu /\ d.tosweep = c.tosweep
      /\ d.strings = c.strings /\ d.finalized = c.finalized
  BY <1>1, <1>3 DEF MarkedBy, SameLists
<1>5. ~iswhite(d, MainThread) /\ ~iswhite(d, Globals)
  BY <1>3, ConstantsAssumption DEF MarkedBy, Dark, All
<1>6. \A o \in All : Used(x, o) => ~isdead(c, o)
  BY SweptWhite
<1>7. \A o \in All : Used(x, o) =>
        \/ d.mark[o] = "white" /\ c.mark[o] = "white"
        \/ iswhite(c, o) /\ Becoming(x, d, o)
        \/ d.mark[o] = "black" /\ o \in c.tmu /\ x.kind[o] = "udata"
  <2> SUFFICES ASSUME NEW o \in All, Used(x, o)
               PROVE  \/ d.mark[o] = "white" /\ c.mark[o] = "white"
                      \/ iswhite(c, o) /\ Becoming(x, d, o)
                      \/ d.mark[o] = "black" /\ o \in c.tmu /\ x.kind[o] = "udata"
    OBVIOUS
  <2>1. c.mark[o] = "white" \/ (o \in c.tmu /\ c.mark[o] = "black" /\ x.kind[o] = "udata")
    BY SweptWhite
  <2> QED
    BY <2>1, <1>1, <1>3 DEF MarkedBy, iswhite
<1>8. \A o \in All : Used(x, o) => ~isdead(d, o)
  BY <1>7 DEF Becoming, isdead
<1>9. \A o : Sound(x, d, o) <=> Sound(x, c, o)
  BY <1>6, <1>8 DEF Sound
<1>10. Refs(x, d)
  <2>1. \A v : Entry(x, d, v) <=> Entry(x, c, v)
    BY <1>9 DEF Entry
  <2> QED
    BY <2>1, <1>9 DEF Inv, Refs
<1>11. Types(x, d, k) /\ Shape(x)
  BY <1>4 DEF Inv, Types
<1>12. Fixed(x, d)
  BY <1>4, <1>5 DEF Inv, Fixed, isdead, iswhite
<1>13. \A o \in d.gray : o \in All /\ d.mark[o] = "gray" /\ x.kind[o] \in Traversed
  <2> SUFFICES ASSUME NEW o \in d.gray
               PROVE  o \in All /\ d.mark[o] = "gray" /\ x.kind[o] \in Traversed
    OBVIOUS
  <2>1. o \in All /\ x.kind[o] \in Traversed /\ iswhite(e, o) /\ ~iswhite(d, o)
    BY <1>1, <1>3, <1>4 DEF MarkedBy, CollectorType
  <2>2. Becoming(x, d, o)
    BY <2>1, <1>3 DEF MarkedBy, iswhite
  <2> QED
    BY <2>1, <2>2 DEF Becoming, Traversed
<1>14. Lists(x, d)
  BY <1>4, <1>13 DEF Inv, Lists
<1>15. Phase(d)
  BY <1>4 DEF Inv, Phase, Marking, AtomicStates
<1>16. Colors(x, d)
  <2>1. \A o \in c.tmu : o \in All /\ Used(x, o)
    BY <1>t DEF Inv, Lists, Used, CollectorType
  <2>2. ASSUME NEW o \in All, Used(x, o)
        PROVE  /\ x.open[o] # 0 => d.mark[o] # "black"
               /\ x.kind[o] = "udata" => d.mark[o] # "gray"
    <3>1. x.open[o] # 0 => x.kind[o] = "upval"
      BY DEF Inv, Shape
    <3> QED
      BY <2>2, <3>1, <1>7 DEF Becoming
  <2> QED
    BY <2>1, <2>2, <1>4, <1>8 DEF Colors, Marking
<1>17. Tri(x, d, {})
  <2>1. MainThread \in d.gray
    <3>1. x.kind[MainThread] = "thread" /\ MainThread \in All
      BY DEF Inv, Fixed, All
    <3>2. iswhite(e, MainThread)
      <4>1. c.mark[MainThread] = "white"
        BY <3>1, SweptWhite DEF Used
      <4> QED
        BY <4>1, <1>1 DEF iswhite
    <3> QED
      BY <3>1, <3>2, <1>3, <1>5 DEF MarkedBy, Traversed
  <2>2. ASSUME NEW o \in All, Used(x, o), ~iswhite(d, o), x.kind[o] # "string", x.open[o] = 0
        PROVE  Settled(x, d, o)
    <3>1. CASE d.mark[o] = "black" /\ o \in c.tmu /\ x.kind[o] = "udata"
      <4>1. x.val[o] = Globals /\ x.key[o] = Nil
        BY <3>1 DEF Inv, Shape, Weaks
      <4> QED
        BY <3>1, <4>1, <1>5 DEF Settled, Traced, Weaks, Dark
    <3>2. CASE iswhite(c, o) /\ Becoming(x, d, o)
      <4>1. x.kind[o] \in Traversed => o \in d.gray
        BY <3>2, <2>2, <1>1, <1>3 DEF MarkedBy, iswhite
      <4>2. CASE x.kind[o] \in Traversed
        BY <4>1, <4>2 DEF Settled, Pending
      <4>3. CASE x.kind[o] \in {"udata", "upval"}
        <5>1. d.mark[o] = "black" /\ Dark(d, x.val[o]) /\ x.key[o] = Nil
          BY <3>2, <4>3, <2>2 DEF Becoming, Inv, Shape, Weaks
        <5> QED
          BY <5>1, <4>3 DEF Settled, Traced, Weaks
      <4>4. x.kind[o] \in Kinds
        BY <1>t DEF HeapType
      <4> QED
        BY <4>2, <4>3, <4>4, <2>2 DEF Kinds, Traversed, Used
    <3> QED
      BY <3>1, <3>2, <2>2, <1>7 DEF iswhite
  <2> QED
    BY <2>1, <2>2, <1>4, <1>5 DEF Tri
<1>18. Finals(x, d, k)
  BY <1>4, <1>8 DEF Inv, Finals, MarkedUdata, All, Used
<1> QED
  BY <1>10, <1>11, <1>12, <1>14, <1>15, <1>16, <1>17, <1>18 DEF Inv, d

-----------------------------------------------------------------------------
(***************************************************************************)
(* What the running code does, while no atomic phase is in progress: moves *)
(* on the stack, barriers, and writes to objects.                          *)
(***************************************************************************)
\* A reference is moved to the stack, which has no barrier: while marking goes
\* on the main thread is yet to be traversed.
LEMMA MoveKeeps ==
  ASSUME NEW x, NEW c, NEW k, Inv(x, c, k, {}), c.state \notin AtomicStates,
         NEW s \in Slots, NEW v, Entry(x, c, v)
  PROVE  Inv([x EXCEPT !.stack[s] = v], c, k, {})
<1> DEFINE y == [x EXCEPT !.stack[s] = v]
<1>t. c \in CollectorType /\ x \in HeapType /\ v \in All \cup {Nil}
  BY DEF Inv, Types, Entry, Sound
<1>1. /\ y \in HeapType /\ y.kind = x.kind /\ y.key = x.key /\ y.val = x.val /\ y.open = x.open
      /\ \A t \in Slots : y.stack[t] = IF t = s THEN v ELSE x.stack[t]
  BY <1>t DEF HeapType
<1> HIDE DEF y
<1>2. \A o : Sound(y, c, o) <=> Sound(x, c, o)
  BY <1>1 DEF Sound, Used
<1>3. \A w : Entry(y, c, w) <=> Entry(x, c, w)
  BY <1>1, <1>2 DEF Entry
<1>4. Refs(y, c)
  BY <1>1, <1>2, <1>3 DEF Inv, Refs
<1>5. Types(y, c, k) /\ Shape(y) /\ Fixed(y, c) /\ Lists(y, c) /\ Colors(y, c) /\ Finals(y, c, k)
  BY <1>1 DEF Inv, Types, Shape, Fixed, Lists, Colors, Finals, MarkedUdata, Used
<1>6. Tri(y, c, {})
  <2> SUFFICES ASSUME c.state \in Marking
               PROVE  Tri(y, c, {})
    BY DEF Tri
  <2>1. c.state = "propagate"
    BY DEF Marking
  <2>2. Pending(c, MainThread)
    BY <2>1 DEF Inv, Tri, Pending
  <2>3. ASSUME NEW o \in All, Settled(x, c, o)
        PROVE  Settled(y, c, o)
    <3>1. x.kind[o] = "thread" => o = MainThread
      BY DEF Inv, Fixed, All
    <3>2. ~Pending(c, o) => Traced(y, c, o)
      BY <2>2, <2>3, <3>1, <1>1 DEF Settled, Traced
    <3> QED
      BY <2>3, <3>2, <1>1 DEF Settled
  <2> QED
    BY <2>3, <1>1 DEF Inv, Tri, Used
<1> QED
  BY <1>4, <1>5, <1>6 DEF Inv, y

\* luaC_barrierback: a black table that is written to is gray again.
LEMMA BackKeeps ==
  ASSUME NEW x, NEW c, NEW k, Inv(x, c, k, {}), c.state \notin AtomicStates,
         NEW o \in Tables(x), NEW v \in All \cup {Nil}
  PROVE  LET d == barrierback(c, o, v)
         IN  /\ Inv(x, d, k, {}) /\ d.state = c.state
             /\ \A p \in All : (isdead(d, p) <=> isdead(c, p)) /\ (iswhite(d, p) <=> iswhite(c, p))
             /\ d.mark[o] = "black" => Dark(d, v) /\ c.mark[o] = "black"
<1> DEFINE d == barrierback(c, o, v)
<1>t. c \in CollectorType /\ x \in HeapType /\ o \in All /\ x.kind[o] \in {"table", "weakvalue", "weakkey"}
  BY DEF Inv, Types, Tables
<1>1. CASE ~(v # Nil /\ iswhite(c, v) /\ c.mark[o] = "black")
  BY <1>1 DEF barrierback, Dark
<1>2. CASE v # Nil /\ iswhite(c, v) /\ c.mark[o] = "black"
  <2>1. /\ d \in CollectorType /\ d.state = c.state /\ d.gray = c.gray /\ d.weak = c.weak
        /\ d.root = c.root /\ d.tmu = c.tmu /\ d.tosweep = c.tosweep /\ d.strings = c.strings
        /\ d.finalized = c.finalized
        /\ \A p \in All : d.mark[p] = IF p = o THEN "gray" ELSE c.mark[p]
        /\ d.again = IF c.state = "propagate" THEN c.again \cup {o} ELSE c.again
    BY <1>2, <1>t DEF barrierback, Paint, CollectorType
  <2> HIDE DEF d
  <2>2. \A p \in All : (isdead(d, p) <=> isdead(c, p)) /\ (iswhite(d, p) <=> iswhite(c, p))
    BY <2>1, <1>2 DEF isdead, iswhite
  <2>3. \A p : Sound(x, d, p) <=> Sound(x, c, p)
    BY <2>2 DEF Sound
  <2>4. Refs(x, d)
    <3>1. \A w : Entry(x, d, w) <=> Entry(x, c, w)
      BY <2>3 DEF Entry
    <3> QED
      BY <3>1, <2>3 DEF Inv, Refs
  <2>5. Types(x, d, k) /\ Shape(x) /\ Fixed(x, d) /\ Finals(x, d, k)
    BY <2>1, <2>2 DEF Inv, Types, Fixed, Finals, MarkedUdata, All, AtomicStates
  <2>6. Phase(d)
    BY <2>1 DEF Inv, Phase, Marking
  <2>7. Colors(x, d)
    <3>1. c.tmu \in SUBSET All
      BY <1>t DEF CollectorType
    <3>2. x.open[o] # 0 => x.kind[o] = "upval"
      BY <1>t DEF Inv, Shape
    <3>3. ASSUME NEW p \in All, Used(x, p), c.state \notin Marking
          PROVE  \/ d.mark[p] = "white"
                 \/ p \in d.tosweep \/ p \in d.strings \/ p \in d.tmu
                 \/ x.open[p] # 0 /\ MainThread \in d.tosweep
      <4>1. \/ c.mark[p] = "white"
            \/ p \in c.tosweep \/ p \in c.strings \/ p \in c.tmu
            \/ x.open[p] # 0 /\ MainThread \in c.tosweep
        BY <3>3 DEF Inv, Colors
      <4>2. c.mark[p] = "white" => d.mark[p] = "white"
        BY <2>1, <1>2
      <4> QED
        BY <4>1, <4>2, <2>1
    <3>4. ASSUME NEW p \in All, Used(x, p)
          PROVE  /\ x.open[p] # 0 => d.mark[p] # "black"
                 /\ x.kind[p] = "udata" => d.mark[p] # "gray"
                 /\ d.state \in Marking => ~isdead(d, p)
      BY <3>4, <1>t, <2>1, <2>2 DEF Inv, Colors
    <3>5. \A p \in d.tmu : ~isdead(d, p)
      BY <3>1, <2>1, <2>2 DEF Inv, Colors
    <3> QED
      BY <3>3, <3>4, <3>5, <2>1 DEF Colors
  <2>8. CASE c.state \notin Marking
    <3>1. Lists(x, d)
      <4>1. c.gray = {} /\ c.again = {} /\ c.weak = {}
        BY <2>8 DEF Inv, Phase
      <4>2. d.again = {}
        BY <4>1, <2>1, <2>8 DEF Marking
      <4> QED
        BY <4>1, <4>2, <2>1 DEF Inv, Lists
    <3>2. Tri(x, d, {})
      BY <2>1, <2>8 DEF Tri
    <3> QED
      BY <3>1, <3>2, <2>1, <2>2, <2>4, <2>5, <2>6, <2>7, <1>2, <1>t DEF Inv, d
  <2>9. CASE c.state \in Marking
    <3>1. c.state = "propagate"
      BY <2>9 DEF Marking
    <3>2. Used(x, o) /\ x.open[o] = 0 /\ ~iswhite(c, o) /\ x.kind[o] # "string"
      BY <1>t, <1>2 DEF Inv, Shape, Used, iswhite
    <3>3. x.kind[o] = "table" /\ o \notin c.gray
      <4>1. Settled(x, c, o)
        BY <3>2, <2>9, <1>t DEF Inv, Tri
      <4> QED
        BY <4>1, <1>2, <1>t DEF Settled, Inv, Lists, Weaks
    <3>4. Lists(x, d)
      <4>1. c.gray \in SUBSET All /\ c.again \in SUBSET All /\ c.weak \in SUBSET All
        BY <1>t DEF CollectorType
      <4>2. \A p \in d.gray : d.mark[p] = "gray" /\ x.kind[p] \in Traversed
        BY <4>1, <2>1 DEF Inv, Lists
      <4>3. \A p \in d.again : d.mark[p] = "gray" /\ x.kind[p] \in {"table", "thread"} /\ p \notin d.gray
        BY <4>1, <2>1, <3>1, <3>3, <1>t DEF Inv, Lists
      <4>4. \A p \in d.weak : d.mark[p] = "gray" /\ x.kind[p] \in Weaks
        BY <4>1, <2>1 DEF Inv, Lists
      <4> QED
        BY <4>2, <4>3, <4>4, <2>1 DEF Inv, Lists
    <3>5. Tri(x, d, {})
      <4>1. ASSUME NEW p \in All, p # o, Settled(x, c, p)
            PROVE  Settled(x, d, p)
        <5>1. Pending(c, p) => Pending(d, p)
          BY <2>1, <3>1 DEF Pending
        <5>2. \A w : Dark(c, w) /\ w \in All \cup {Nil} => Dark(d, w)
          BY <2>2 DEF Dark
        <5>3. x.val[p] \in All \cup {Nil} /\ x.key[p] \in All \cup {Nil}
              /\ \A s \in Slots : x.stack[s] \in All \cup {Nil}
          BY <1>t DEF HeapType
        <5>4. Traced(x, c, p) => Traced(x, d, p)
          BY <5>2, <5>3 DEF Traced
        <5> QED
          BY <4>1, <5>1, <5>4, <2>1, <3>1 DEF Settled
      <4>2. Settled(x, d, o)
        BY <2>1, <3>1, <3>3 DEF Settled, Pending, Weaks
      <4> QED
        BY <4>1, <4>2, <2>1, <2>2, <3>1 DEF Inv, Tri, All
    <3> QED
      BY <3>4, <3>5, <2>1, <2>2, <2>4, <2>5, <2>6, <2>7, <1>2, <1>t DEF Inv, d
  <2> QED
    BY <2>8, <2>9
<1> QED
  BY <1>1, <1>2

\* A table or a closed upvalue is written to, after its barrier.
LEMMA WriteKeeps ==
  ASSUME NEW x, NEW c, NEW k, Inv(x, c, k, {}), c.state \notin AtomicStates,
         NEW o \in All, x.kind[o] \in {"table", "weakvalue", "weakkey", "upval"}, x.open[o] = 0,
         NEW kk, NEW v, Entry(x, c, kk), Entry(x, c, v), x.kind[o] \notin Weaks => kk = Nil,
         c.mark[o] = "black" => Dark(c, v),
         NEW y \in HeapType, y.kind = x.kind, y.open = x.open, y.stack = x.stack,
         \A p \in All : /\ y.key[p] = IF p = o THEN kk ELSE x.key[p]
                        /\ y.val[p] = IF p = o THEN v ELSE x.val[p]
  PROVE  Inv(y, c, k, {})
<1>t. c \in CollectorType /\ x \in HeapType
  BY DEF Inv, Types
<1>1. \A p : Sound(y, c, p) <=> Sound(x, c, p)
  BY DEF Sound, Used
<1>2. \A w : Entry(y, c, w) <=> Entry(x, c, w)
  BY <1>1 DEF Entry
<1>3. Refs(y, c)
  BY <1>1, <1>2 DEF Inv, Refs
<1>4. Types(y, c, k) /\ Fixed(y, c) /\ Lists(y, c) /\ Colors(y, c) /\ Finals(y, c, k)
  BY DEF Inv, Types, Fixed, Lists, Colors, Finals, MarkedUdata, Used
<1>5. Shape(y)
  BY DEF Inv, Shape, Weaks
<1>6. Tri(y, c, {})
  <2> SUFFICES ASSUME c.state \in Marking
               PROVE  Tri(y, c, {})
    BY DEF Tri
  <2>1. c.state = "propagate"
    BY DEF Marking
  <2>2. ASSUME NEW p \in All, p # o, Settled(x, c, p)
        PROVE  Settled(y, c, p)
    BY <2>2 DEF Settled, Traced
  <2>3. ASSUME ~iswhite(c, o), Settled(x, c, o)
        PROVE  Settled(y, c, o)
    <3>1. CASE c.mark[o] = "gray"
      BY <2>1, <2>3, <3>1 DEF Settled, Pending
    <3>2. CASE c.mark[o] # "gray"
      <4>1. c.mark[o] = "black"
        BY <2>3, <3>2, <1>t DEF iswhite, CollectorType
      <4>2. x.kind[o] \notin Weaks
        BY <2>3, <3>2 DEF Settled, Inv, Lists
      <4> QED
        BY <4>1, <4>2 DEF Settled, Traced, Weaks
    <3> QED
      BY <3>1, <3>2
  <2> QED
    BY <2>2, <2>3 DEF Inv, Tri, Used
<1> QED
  BY <1>3, <1>4, <1>5, <1>6 DEF Inv

\* Outside the mark phase an object may become white at any time; one that was
\* dead may if it refers to nothing.
LEMMA WhitenKeeps ==
  ASSUME NEW x, NEW c, NEW k, Inv(x, c, k, {}), c.state \notin Marking,
         NEW os \in SUBSET All,
         \A o \in os : ~isdead(c, o) \/ x.kind[o] = "string" \/ x.open[o] # 0,
         NEW d \in CollectorType, SameLists(c, d), d.gray = c.gray,
         \A p \in All : d.mark[p] = IF p \in os THEN "white" ELSE c.mark[p]
  PROVE  Inv(x, d, k, {}) /\ \A p \in All : isdead(d, p) <=> isdead(c, p) /\ p \notin os
<1>t. c \in CollectorType /\ x \in HeapType
  BY DEF Inv, Types
<1>1. \A p \in All : isdead(d, p) <=> isdead(c, p) /\ p \notin os
  BY DEF isdead
<1>2. \A p : Sound(x, c, p) => Sound(x, d, p)
  BY <1>1 DEF Sound
<1>3. \A v : Entry(x, c, v) => Entry(x, d, v)
  BY <1>2 DEF Entry
<1>4. Refs(x, d)
  <2>1. ASSUME NEW o \in All, Sound(x, d, o)
        PROVE  /\ Entry(x, d, x.key[o])
               /\ x.kind[o] = "closure" => Sound(x, d, x.val[o]) /\ x.kind[x.val[o]] = "upval"
               /\ x.kind[o] # "closure" => Entry(x, d, x.val[o])
    <3>1. CASE isdead(c, o)
      <4>1. x.key[o] = Nil /\ x.val[o] = Nil /\ x.kind[o] # "closure"
        BY <2>1, <3>1, <1>1 DEF Sound, Inv, Shape, Weaks
      <4> QED
        BY <4>1 DEF Entry
    <3>2. CASE ~isdead(c, o)
      BY <2>1, <3>2, <1>2, <1>3 DEF Sound, Inv, Refs
    <3> QED
      BY <3>1, <3>2
  <2> QED
    BY <2>1, <1>3 DEF Inv, Refs
<1>5. Types(x, d, k) /\ Fixed(x, d) /\ Phase(d)
  BY <1>1 DEF Inv, Types, Fixed, Phase, SameLists, All
<1>6. Lists(x, d)
  BY DEF Inv, Lists, Phase, SameLists
<1>7. Colors(x, d)
  <2>1. c.tmu \in SUBSET All
    BY <1>t DEF CollectorType
  <2> QED
    BY <2>1, <1>1 DEF Inv, Colors, SameLists
<1>8. Tri(x, d, {})
  BY DEF Tri, SameLists
<1>9. Finals(x, d, k)
  BY <1>1 DEF Inv, Finals, MarkedUdata, SameLists, Marking, AtomicStates, All
<1> QED
  BY <1>1, <1>4, <1>5, <1>6, <1>7, <1>8, <1>9 DEF Inv

\* luaC_barrierf: an upvalue is written to.
LEMMA ForwardKeeps ==
  ASSUME NEW x, NEW c, NEW k, Inv(x, c, k, {}), c.state \notin AtomicStates,
         NEW uv, Sound(x, c, uv), x.kind[uv] = "upval", NEW v, Entry(x, c, v)
  PROVE  LET d == barrierf(x, c, uv, v)
         IN  /\ Inv(x, d, k, {}) /\ d.state = c.state
             /\ \A p \in All : isdead(d, p) => isdead(c, p)
             /\ d.mark[uv] = "black" => Dark(d, v)
<1> DEFINE d == barrierf(x, c, uv, v)
<1>t. c \in CollectorType /\ x \in HeapType /\ uv \in All /\ v \in All \cup {Nil}
  BY DEF Inv, Types, Sound, Entry
<1>1. CASE ~(v # Nil /\ iswhite(c, v) /\ c.mark[uv] = "black")
  BY <1>1 DEF barrierf, Dark
<1>2. CASE v # Nil /\ iswhite(c, v) /\ c.mark[uv] = "black" /\ c.state = "propagate"
  <2>1. d = markobjects(x, c, {v})
    BY <1>2 DEF barrierf
  <2>2. c.state \in Marking
    BY <1>2 DEF Marking
  <2> HIDE DEF d
  <2>3. MarkedBy(x, c, d, {v})
    <3>1. Chains(x)
      BY <2>2, InvChains
    <3> QED
      BY <2>1, <3>1, <1>t, Marks
  <2>4. Inv(x, d, k, {})
    BY <2>2, <2>3, MarkKeeps
  <2>5. \A p \in All : isdead(d, p) => isdead(c, p)
    BY <2>3 DEF MarkedBy, Becoming, isdead, iswhite
  <2>6. d.state = c.state /\ Dark(d, v)
    BY <2>3 DEF MarkedBy, SameLists
  <2> QED
    BY <2>4, <2>5, <2>6 DEF d
<1>3. CASE v # Nil /\ iswhite(c, v) /\ c.mark[uv] = "black" /\ c.state # "propagate"
  <2> DEFINE os == {uv}
  <2>0. os \in SUBSET All /\ \A o \in os : ~isdead(c, o)
    BY <1>t DEF Sound
  <2>1. /\ d \in CollectorType /\ SameLists(c, d) /\ d.gray = c.gray
        /\ \A p \in All : d.mark[p] = IF p \in os THEN "white" ELSE c.mark[p]
    BY <1>3, <1>t DEF barrierf, makewhite, Paint, CollectorType, SameLists
  <2> HIDE DEF d, os
  <2>2. c.state \notin Marking
    BY <1>3 DEF Marking
  <2>3. Inv(x, d, k, {}) /\ \A p \in All : isdead(d, p) <=> isdead(c, p) /\ p \notin os
    BY <2>0, <2>1, <2>2, WhitenKeeps
  <2> QED
    BY <2>1, <2>3, <1>t DEF SameLists, d, os
<1> QED
  BY <1>1, <1>2, <1>3

-----------------------------------------------------------------------------
(***************************************************************************)
(* Allocation, and the upvalues that leave the stack.                      *)
(***************************************************************************)
\* A new object o is white, and nothing refers to it yet.  All but strings and
\* open upvalues are linked into root.
Born(x, c, y, d, o) ==
  /\ o \in Objects /\ x.kind[o] = "free"
  /\ y \in HeapType /\ y.stack = x.stack
  /\ \A p \in All : p # o => /\ y.kind[p] = x.kind[p] /\ y.key[p] = x.key[p]
                             /\ y.val[p] = x.val[p] /\ y.open[p] = x.open[p]
  /\ y.kind[o] \in Weaks \cup {"table", "string", "udata", "closure", "upval"}
  /\ y.key[o] = Nil
  /\ y.open[o] # 0 <=> y.kind[o] = "upval"
  /\ y.kind[o] \notin {"udata", "closure"} => y.val[o] = Nil
  /\ y.kind[o] = "udata" => y.val[o] = Globals
  /\ y.kind[o] = "closure" => Sound(x, c, y.val[o]) /\ x.kind[y.val[o]] = "upval"
  /\ d \in CollectorType /\ d.state = c.state /\ d.gray = c.gray /\ d.again = c.again
  /\ d.weak = c.weak /\ d.tmu = c.tmu /\ d.strings = c.strings /\ d.finalized = c.finalized
  /\ \A p \in All : d.mark[p] = IF p = o THEN "white" ELSE c.mark[p]
  /\ d.root = IF y.kind[o] \in {"string", "upval"} THEN c.root ELSE c.root \cup {o}
  /\ d.tosweep = c.tosweep \/ (d.tosweep = c.tosweep \cup {o} /\ c.tosweep # {})
  /\ d.tosweep \subseteq d.root
  /\ c.state = "sweepstring" => d.tosweep = d.root

LEMMA BornKeeps ==
  ASSUME NEW x, NEW c, NEW k, Inv(x, c, k, {}), c.state \notin AtomicStates,
         NEW o, NEW y, NEW d, Born(x, c, y, d, o),
         NEW j \in [Objects -> 0..1],
         \A p \in Objects : p # o => j[p] = k[p],
         y.kind[o] = "udata" => j[o] = 0
  PROVE  Inv(y, d, j, {})
<1>b. /\ o \in Objects /\ x.kind[o] = "free"
      /\ y \in HeapType /\ y.stack = x.stack
      /\ \A p \in All : p # o => /\ y.kind[p] = x.kind[p] /\ y.key[p] = x.key[p]
                               /\ y.val[p] = x.val[p] /\ y.open[p] = x.open[p]
      /\ y.kind[o] \in Weaks \cup {"table", "string", "udata", "closure", "upval"}
      /\ y.key[o] = Nil
      /\ y.open[o] # 0 <=> y.kind[o] = "upval"
      /\ y.kind[o] \notin {"udata", "closure"} => y.val[o] = Nil
      /\ y.kind[o] = "udata" => y.val[o] = Globals
      /\ y.kind[o] = "closure" => Sound(x, c, y.val[o]) /\ x.kind[y.val[o]] = "upval"
      /\ d \in CollectorType /\ d.state = c.state /\ d.gray = c.gray /\ d.again = c.again
      /\ d.weak = c.weak /\ d.tmu = c.tmu /\ d.strings = c.strings /\ d.finalized = c.finalized
      /\ \A p \in All : d.mark[p] = IF p = o THEN "white" ELSE c.mark[p]
      /\ d.root = IF y.kind[o] \in {"string", "upval"} THEN c.root ELSE c.root \cup {o}
      /\ d.tosweep = c.tosweep \/ (d.tosweep = c.tosweep \cup {o} /\ c.tosweep # {})
      /\ d.tosweep \subseteq d.root
      /\ c.state = "sweepstring" => d.tosweep = d.root
  BY DEF Born
<1> USE <1>b
<1>t. c \in CollectorType /\ x \in HeapType /\ o \in All
  BY DEF Inv, Types, All
<1>0. ~Used(x, o) /\ o # MainThread /\ o # Globals
  BY ConstantsAssumption DEF Used
<1>1. \A p \in All : p # o => (iswhite(d, p) <=> iswhite(c, p)) /\ (isdead(d, p) <=> isdead(c, p))
  BY DEF iswhite, isdead
<1>2. \A p : Sound(x, c, p) => p # o /\ Sound(y, d, p)
  BY <1>0, <1>1 DEF Sound, Used
<1>3. \A p : Sound(y, d, p) /\ p # o => Sound(x, c, p)
  BY <1>1 DEF Sound, Used
<1>4. \A v : Entry(x, c, v) => v # o /\ Entry(y, d, v)
  BY <1>2, <1>t, ConstantsAssumption DEF Entry, Sound
<1>5. Refs(y, d)
  <2>1. \A s \in Slots : Entry(y, d, y.stack[s])
    BY <1>4 DEF Inv, Refs
  <2>2. ASSUME NEW p \in All, Sound(y, d, p)
        PROVE  /\ Entry(y, d, y.key[p])
               /\ y.kind[p] = "closure" => Sound(y, d, y.val[p]) /\ y.kind[y.val[p]] = "upval"
               /\ y.kind[p] # "closure" => Entry(y, d, y.val[p])
    <3>1. CASE p = o
      <4>1. y.kind[o] = "closure" => Sound(y, d, y.val[o]) /\ y.kind[y.val[o]] = "upval"
        BY <1>2 DEF Sound
      <4>2. Entry(x, c, Globals) /\ Entry(x, c, Nil)
        BY DEF Inv, Fixed, Entry, Sound, Used, All
      <4> QED
        BY <3>1, <4>1, <4>2, <1>4
    <3>2. CASE p # o
      <4>1. /\ Entry(x, c, x.key[p])
            /\ x.kind[p] = "closure" => Sound(x, c, x.val[p]) /\ x.kind[x.val[p]] = "upval"
            /\ x.kind[p] # "closure" => Entry(x, c, x.val[p])
        BY <2>2, <3>2, <1>3 DEF Inv, Refs
      <4>2. x.kind[p] = "closure" => y.kind[x.val[p]] = "upval"
        BY <4>1, <1>2 DEF Sound
      <4> QED
        BY <3>2, <4>1, <4>2, <1>2, <1>4
    <3> QED
      BY <3>1, <3>2
  <2> QED
    BY <2>1, <2>2 DEF Refs
<1>6. Types(y, d, j)
  BY DEF Types
<1>7. Fixed(y, d)
  BY <1>0, <1>1, <1>t DEF Inv, Fixed, All, Weaks
<1>8. Shape(y)
  BY <1>t DEF Inv, Shape, Weaks
<1>9. o \notin c.root /\ o \notin c.tmu /\ o \notin c.finalized /\ o \notin c.strings
      /\ o \notin c.gray /\ o \notin c.again /\ o \notin c.weak /\ o \notin c.tosweep
  BY DEF Inv, Lists, Used, Traversed, Weaks
<1>10. c.root \subseteq All /\ c.tmu \subseteq All /\ c.finalized \subseteq All /\ c.strings \subseteq All
       /\ c.gray \subseteq All /\ c.again \subseteq All /\ c.weak \subseteq All
  BY <1>t DEF CollectorType, All
<1>11. Lists(y, d)
  <2>1. \A p \in d.root : Used(y, p) /\ y.kind[p] # "string" /\ y.open[p] = 0
    <3>1. \A p \in c.root : Used(y, p) /\ y.kind[p] # "string" /\ y.open[p] = 0
      BY <1>9, <1>10 DEF Inv, Lists, Used
    <3>2. y.kind[o] \notin {"string", "upval"} => Used(y, o) /\ y.kind[o] # "string" /\ y.open[o] = 0
      BY DEF Used, Weaks
    <3> QED
      BY <3>1, <3>2
  <2>2. \A p \in d.tmu : p \in d.finalized /\ p \notin d.root
    BY <1>9 DEF Inv, Lists
  <2>3. \A p \in d.finalized : y.kind[p] = "udata"
    BY <1>9, <1>10 DEF Inv, Lists
  <2>4. \A p \in All : Used(y, p) =>
          p \in d.root \/ p \in d.tmu \/ y.kind[p] = "string" \/ y.open[p] # 0
    BY DEF Inv, Lists, Used
  <2>5. \A p \in d.strings : y.kind[p] = "string"
    BY <1>9, <1>10 DEF Inv, Lists
  <2>6. \A p \in d.gray : d.mark[p] = "gray" /\ y.kind[p] \in Traversed
    BY <1>9, <1>10 DEF Inv, Lists
  <2>7. \A p \in d.again : d.mark[p] = "gray" /\ y.kind[p] \in {"table", "thread"} /\ p \notin d.gray
    BY <1>9, <1>10 DEF Inv, Lists
  <2>8. \A p \in d.weak : d.mark[p] = "gray" /\ y.kind[p] \in Weaks
    BY <1>9, <1>10 DEF Inv, Lists
  <2> QED
    BY <2>1, <2>2, <2>3, <2>4, <2>5, <2>6, <2>7, <2>8 DEF Lists
<1>12. Phase(d)
  BY DEF Inv, Phase
<1>13. Colors(y, d)
  <2>1. \A p \in d.tmu : ~isdead(d, p)
    BY <1>1, <1>9, <1>10 DEF Inv, Colors
  <2>2. ~isdead(d, o) /\ d.mark[o] = "white"
    BY <1>t DEF isdead
  <2>3. ASSUME NEW p \in All, p # o, Used(y, p)
        PROVE  /\ y.open[p] # 0 => d.mark[p] # "black"
               /\ y.kind[p] = "udata" => d.mark[p] # "gray"
               /\ d.state \in Marking => ~isdead(d, p)
               /\ d.state \notin Marking =>
                    \/ d.mark[p] = "white"
                    \/ p \in d.tosweep \/ p \in d.strings \/ p \in d.tmu
                    \/ y.open[p] # 0 /\ MainThread \in d.tosweep
    BY <2>3, <1>1 DEF Inv, Colors, Used
  <2> QED
    BY <2>1, <2>2, <2>3 DEF Colors
<1>14. Tri(y, d, {})
  <2> SUFFICES ASSUME c.state \in Marking
               PROVE  Tri(y, d, {})
    BY DEF Tri
  <2>1. \A v : Dark(c, v) /\ v # o /\ v \in All \cup {Nil} => Dark(d, v)
    BY <1>1 DEF Dark
  <2>2. ASSUME NEW p \in All, p # o, Used(x, p), Settled(x, c, p)
        PROVE  Settled(y, d, p)
    <3>1. Pending(c, p) <=> Pending(d, p)
      BY DEF Pending
    <3>2. Sound(x, c, p)
      BY <2>2 DEF Inv, Colors, Sound
    <3>3. x.val[p] # o /\ x.key[p] # o /\ \A s \in Slots : x.stack[s] # o
      BY <3>2, <1>4, <1>2 DEF Inv, Refs
    <3>4. x.val[p] \in All \cup {Nil} /\ x.key[p] \in All \cup {Nil}
          /\ \A s \in Slots : x.stack[s] \in All \cup {Nil}
      BY <1>t DEF HeapType
    <3>5. Traced(x, c, p) => Traced(y, d, p)
      BY <2>1, <2>2, <3>3, <3>4 DEF Traced
    <3> QED
      BY <2>2, <3>1, <3>5 DEF Settled
  <2>3. iswhite(d, o)
    BY <1>t DEF iswhite
  <2>4. ASSUME NEW p \in All, Used(y, p), ~iswhite(d, p), y.kind[p] # "string", y.open[p] = 0
        PROVE  Settled(y, d, p)
    <3>1. p # o /\ Used(x, p) /\ ~iswhite(c, p) /\ x.kind[p] # "string" /\ x.open[p] = 0
      BY <2>3, <2>4, <1>1 DEF Used
    <3> QED
      BY <2>2, <3>1 DEF Inv, Tri
  <2> QED
    BY <2>4, <1>0, <1>1 DEF Inv, Tri, All
<1>15. Finals(y, d, j)
  <2>1. MarkedUdata(y, d)
    BY DEF MarkedUdata, AtomicStates
  <2>2. \A p \in d.finalized : j[p] = IF p \in d.tmu THEN 0 ELSE 1
    BY <1>9, <1>t DEF Inv, Finals, CollectorType
  <2>3. \A p \in Objects : y.kind[p] = "udata" /\ p \notin d.finalized => j[p] = 0 /\ ~isdead(d, p)
    BY <1>1 DEF Inv, Finals, isdead, All
  <2> QED
    BY <2>1, <2>2, <2>3 DEF Finals
<1> QED
  BY <1>5, <1>6, <1>7, <1>8, <1>11, <1>12, <1>13, <1>14, <1>15 DEF Inv

\* linkupvals: the open upvalues os, whose values are no longer in the stack,
\* are linked into root.
LEMMA CloseKeeps ==
  ASSUME NEW x, NEW c, NEW k, Inv(x, c, k, {}), c.state \notin AtomicStates,
         NEW os \in SUBSET All, \A o \in os : x.open[o] # 0 /\ ~isdead(c, o),
         NEW y \in HeapType, y.kind = x.kind, y.key = x.key, y.stack = x.stack,
         \A p \in All : /\ y.val[p] = IF p \in os THEN x.stack[x.open[p]] ELSE x.val[p]
                        /\ y.open[p] = IF p \in os THEN 0 ELSE x.open[p]
  PROVE  Inv(y, linkupvals(y, c, os), k, {})
<1> DEFINE gray == {o \in os : c.mark[o] = "gray"}
           color == IF c.state = "propagate" THEN "black" ELSE "white"
           m == [p \in All |-> IF p \in gray THEN color ELSE c.mark[p]]
           e == [LinkAt(c, os, AtFront(c)) EXCEPT !.mark = m]
           vs == {y.val[o] : o \in gray}
           d == linkupvals(y, c, os)
<1>t. c \in CollectorType /\ x \in HeapType
  BY DEF Inv, Types
<1>0. \A o \in os : /\ o \in All /\ x.kind[o] = "upval" /\ Sound(x, c, o)
                    /\ Entry(x, c, x.stack[x.open[o]]) /\ x.key[o] = Nil
  <2> SUFFICES ASSUME NEW o \in os
               PROVE  /\ o \in All /\ x.kind[o] = "upval" /\ Sound(x, c, o)
                      /\ Entry(x, c, x.stack[x.open[o]]) /\ x.key[o] = Nil
    OBVIOUS
  <2>1. x.kind[o] = "upval" /\ x.key[o] = Nil
    BY DEF Inv, Shape, Weaks
  <2>2. x.open[o] \in Slots
    BY <1>t DEF HeapType
  <2> QED
    BY <2>1, <2>2 DEF Inv, Refs, Sound, Used
<1>1. /\ e \in CollectorType /\ e.state = c.state /\ e.gray = c.gray /\ e.again = c.again
      /\ e.weak = c.weak /\ e.tmu = c.tmu /\ e.strings = c.strings /\ e.finalized = c.finalized
      /\ e.root = c.root \cup os
      /\ e.tosweep = IF c.tosweep = c.root THEN c.tosweep \cup os ELSE c.tosweep
      /\ \A p \in All : e.mark[p] = IF p \in gray THEN color ELSE c.mark[p]
  <2>1. m \in [All -> {"white", "old", "gray", "black"}]
    BY <1>t DEF CollectorType
  <2> HIDE DEF m
  <2>2. /\ e \in CollectorType /\ e.mark = m /\ e.state = c.state /\ e.gray = c.gray /\ e.again = c.again
        /\ e.weak = c.weak /\ e.tmu = c.tmu /\ e.strings = c.strings /\ e.finalized = c.finalized
        /\ e.root = c.root \cup os
        /\ e.tosweep = IF c.tosweep = c.root THEN c.tosweep \cup os ELSE c.tosweep
    BY <2>1, <1>t DEF LinkAt, AtFront, CollectorType
  <2> QED
    BY <2>2 DEF m
<1>2. d = IF c.state = "propagate" THEN markobjects(y, e, vs) ELSE e
  BY <1>t DEF linkupvals, LinkAt, CollectorType
<1>g. \A o \in gray : o \in os /\ c.mark[o] = "gray"
  OBVIOUS
<1>v. vs \in SUBSET (All \cup {Nil}) /\ \A o \in gray : y.val[o] \in vs
  BY DEF HeapType
<1>h. \A o \in os : o \notin gray => c.mark[o] # "gray"
  OBVIOUS
<1> HIDE DEF gray, m, e, vs, d
<1>3. \A p \in All : isdead(e, p) <=> isdead(c, p)
  BY <1>1, <1>g DEF isdead
<1>4. \A p : Sound(y, e, p) <=> Sound(x, c, p)
  BY <1>3 DEF Sound, Used
<1>5. \A v : Entry(y, e, v) <=> Entry(x, c, v)
  BY <1>4 DEF Entry
<1>6. Refs(y, e)
  <2>1. ASSUME NEW o \in All, Sound(y, e, o)
        PROVE  /\ Entry(y, e, y.key[o])
               /\ y.kind[o] = "closure" => Sound(y, e, y.val[o]) /\ y.kind[y.val[o]] = "upval"
               /\ y.kind[o] # "closure" => Entry(y, e, y.val[o])
    <3>1. CASE o \in os
      <4>1. Entry(x, c, Nil) /\ y.kind[o] = "upval"
        BY <3>1, <1>0 DEF Entry
      <4> QED
        BY <3>1, <4>1, <1>0, <1>5
    <3>2. CASE o \notin os
      BY <2>1, <3>2, <1>4, <1>5 DEF Inv, Refs
    <3> QED
      BY <3>1, <3>2
  <2> QED
    BY <2>1, <1>5 DEF Inv, Refs
<1>7. Types(y, e, k) /\ Fixed(y, e) /\ Shape(y)
  <2>1. Shape(y)
    BY <1>0 DEF Inv, Shape
  <2> QED
    BY <2>1, <1>1, <1>3 DEF Inv, Types, Fixed, All
<1>8. Lists(y, e)
  <2>1. c.root \subseteq All /\ c.tmu \subseteq All /\ c.gray \subseteq All
        /\ c.again \subseteq All /\ c.weak \subseteq All
    BY <1>t DEF CollectorType
  <2>2. \A p \in c.gray \cup c.again \cup c.weak : p \notin gray /\ e.mark[p] = "gray"
    <3>1. \A p \in c.gray \cup c.again \cup c.weak : c.mark[p] = "gray" /\ x.kind[p] # "upval"
      BY DEF Inv, Lists, Traversed, Weaks
    <3> QED
      BY <3>1, <2>1, <1>0, <1>1, <1>g
  <2>3. \A p \in e.root : Used(y, p) /\ y.kind[p] # "string" /\ y.open[p] = 0
    BY <2>1, <1>0, <1>1 DEF Inv, Lists, Used
  <2>4. \A p \in e.tmu : p \in e.finalized /\ p \notin e.root
    BY <2>1, <1>0, <1>1 DEF Inv, Lists
  <2>5. \A p \in All : Used(y, p) =>
          p \in e.root \/ p \in e.tmu \/ y.kind[p] = "string" \/ y.open[p] # 0
    BY <1>1 DEF Inv, Lists, Used
  <2>6. e.tosweep \subseteq e.root
    BY <1>1 DEF Inv, Lists
  <2> QED
    BY <2>2, <2>3, <2>4, <2>5, <2>6, <1>1 DEF Inv, Lists
<1>9. Phase(e)
  <2>1. c.tosweep = {} => c.tosweep # c.root
    BY DEF Inv, Fixed
  <2> QED
    BY <2>1, <1>1 DEF Inv, Phase, Marking, AtomicStates
<1>10. Colors(y, e)
  <2>1. \A p \in e.tmu : ~isdead(e, p)
    BY <1>1, <1>3, <1>t DEF Inv, Colors, CollectorType
  <2>2. ASSUME NEW p \in All, Used(y, p)
        PROVE  /\ y.open[p] # 0 => e.mark[p] # "black"
               /\ y.kind[p] = "udata" => e.mark[p] # "gray"
               /\ e.state \in Marking => ~isdead(e, p)
    BY <2>2, <1>0, <1>1, <1>3, <1>g DEF Inv, Colors, Used
  <2>3. ASSUME NEW p \in All, Used(y, p), c.state \notin Marking
        PROVE  \/ e.mark[p] = "white"
               \/ p \in e.tosweep \/ p \in e.strings \/ p \in e.tmu
               \/ y.open[p] # 0 /\ MainThread \in e.tosweep
    <3>1. CASE p \in os
      <4>1. c.mark[p] # "black" /\ c.mark[p] # "old"
        BY <3>1, <1>0 DEF Inv, Colors, isdead, Sound
      <4>2. c.mark[p] \in {"white", "old", "gray", "black"}
        BY <1>t DEF CollectorType
      <4> QED
        BY <2>3, <3>1, <4>1, <4>2, <1>1, <1>h DEF Marking
    <3>2. CASE p \notin os
      BY <2>3, <3>2, <1>1, <1>g DEF Inv, Colors, Used
    <3> QED
      BY <3>1, <3>2
  <2> QED
    BY <2>1, <2>2, <2>3, <1>1 DEF Colors
<1>11. Finals(y, e, k)
  BY <1>1, <1>3 DEF Inv, Finals, MarkedUdata, AtomicStates, All
<1>12. CASE c.state \notin Marking
  <2>1. Tri(y, e, {})
    BY <1>12, <1>1 DEF Tri
  <2> QED
    BY <2>1, <1>12, <1>2, <1>6, <1>7, <1>8, <1>9, <1>10, <1>11 DEF Inv, Marking, d
<1>13. CASE c.state \in Marking
  <2>1. c.state = "propagate" /\ e.state \in Marking
    BY <1>13, <1>1 DEF Marking
  <2>2. \A p \in All : p \notin gray => (iswhite(e, p) <=> iswhite(c, p))
    BY <1>1 DEF iswhite
  <2>3. \A p \in gray : ~iswhite(e, p) /\ e.mark[p] = "black" /\ p \in All
    BY <2>1, <1>0, <1>1, <1>g DEF iswhite
  <2>4. \A v : Dark(c, v) /\ v \in All \cup {Nil} => Dark(e, v)
    BY <2>2, <2>3 DEF Dark
  <2>5. ASSUME NEW p \in All, p \notin os, Settled(x, c, p)
        PROVE  Settled(y, e, p)
    <3>1. x.val[p] \in All \cup {Nil} /\ x.key[p] \in All \cup {Nil}
          /\ \A s \in Slots : x.stack[s] \in All \cup {Nil}
      BY <1>t DEF HeapType
    <3>2. Traced(x, c, p) => Traced(y, e, p)
      BY <2>4, <2>5, <3>1 DEF Traced
    <3>3. p \notin gray
      BY <2>5, <1>g
    <3> QED
      BY <2>5, <3>2, <3>3, <1>1 DEF Settled, Pending
  <2>6. Tri(y, e, gray)
    <3>1. ASSUME NEW p \in All \ gray, Used(y, p), ~iswhite(e, p), y.kind[p] # "string", y.open[p] = 0
          PROVE  Settled(y, e, p)
      <4>1. ~iswhite(c, p) /\ Used(x, p)
        BY <2>2, <3>1 DEF Used
      <4>2. p \notin os
        <5>1. ASSUME p \in os PROVE FALSE
          <6>1. c.mark[p] # "gray" /\ c.mark[p] # "black"
            BY <3>1, <4>1, <5>1, <1>h DEF Inv, Colors
          <6> QED
            BY <4>1, <6>1, <1>t DEF iswhite, CollectorType
        <5> QED
          BY <5>1
      <4> QED
        BY <2>5, <3>1, <4>1, <4>2, <1>13 DEF Inv, Tri
    <3>2. MainThread \in All \ gray /\ Globals \in All \ gray
      BY <1>0, <1>g DEF Inv, Fixed, All
    <3> QED
      BY <3>1, <3>2, <2>2, <1>1, <1>13 DEF Inv, Tri
  <2>7. Inv(y, e, k, gray)
    BY <2>6, <1>6, <1>7, <1>8, <1>9, <1>10, <1>11 DEF Inv
  <2>8. MarkedBy(y, e, d, vs)
    <3>1. Chains(y)
      BY <2>1, <2>7, InvChains
    <3> QED
      BY <2>1, <3>1, <1>1, <1>2, <1>v, Marks
  <2>9. Inv(y, d, k, gray)
    BY <2>1, <2>7, <2>8, MarkKeeps
  <2>10. \A o \in gray : Settled(y, d, o)
    <3> SUFFICES ASSUME NEW o \in gray PROVE Settled(y, d, o)
      OBVIOUS
    <3>1. d.mark[o] = "black" /\ Dark(d, y.val[o])
      BY <2>3, <2>8, <1>v DEF MarkedBy
    <3>2. y.kind[o] = "upval" /\ y.key[o] = Nil
      BY <1>0, <1>g
    <3> QED
      BY <3>1, <3>2 DEF Settled, Traced, Weaks
  <2>11. Tri(y, d, {})
    BY <2>9, <2>10 DEF Inv, Tri
  <2> QED
    BY <2>9, <2>11 DEF Inv, d
<1> QED
  BY <1>12, <1>13

-----------------------------------------------------------------------------
(***************************************************************************)
(* The sweep, and finalizers.                                              *)
(***************************************************************************)
\* Dead objects os are freed: nothing that is not dead refers to them.  What
\* the sweep is past is white.
LEMMA FreeKeeps ==
  ASSUME NEW x, NEW c, NEW k, Inv(x, c, k, {}), c.state \notin Marking,
         NEW os \in SUBSET All, \A o \in os : Used(x, o) /\ isdead(c, o),
         NEW d \in CollectorType, d.state \notin Marking, Phase(d),
         d.root = c.root \ os, d.tmu = c.tmu, d.finalized = c.finalized \ os,
         d.tosweep \subseteq d.root, d.strings \subseteq c.strings \ os,
         \A p \in All : d.mark[p] = IF p \in os THEN "white" ELSE c.mark[p],
         \A p \in All \ os : Used(x, p) =>
           \/ d.mark[p] = "white"
           \/ p \in d.tosweep \/ p \in d.strings \/ p \in d.tmu
           \/ x.open[p] # 0 /\ MainThread \in d.tosweep
  PROVE  Inv(Freed(x, os), d, k, {})
<1> DEFINE y == Freed(x, os)
<1>t. c \in CollectorType /\ x \in HeapType
  BY DEF Inv, Types
<1>1. /\ y \in HeapType /\ y.stack = x.stack
      /\ \A p \in All : /\ y.kind[p] = IF p \in os THEN "free" ELSE x.kind[p]
                        /\ y.open[p] = IF p \in os THEN 0 ELSE x.open[p]
                        /\ y.key[p] = IF p \in os THEN Nil ELSE x.key[p]
                        /\ y.val[p] = IF p \in os THEN Nil ELSE x.val[p]
  BY <1>t DEF Freed, HeapType, Kinds
<1> HIDE DEF y
<1>2. \A p : Sound(y, d, p) <=> Sound(x, c, p)
  BY <1>1 DEF Sound, Used, isdead
<1>3. \A p : Sound(x, c, p) => p \in All \ os
  BY DEF Sound
<1>4. \A v : Entry(x, c, v) => Entry(y, d, v)
  BY <1>1, <1>2, <1>3 DEF Entry
<1>5. Refs(y, d)
  <2>1. ASSUME NEW o \in All, Sound(y, d, o)
        PROVE  /\ Entry(y, d, y.key[o])
               /\ y.kind[o] = "closure" => Sound(y, d, y.val[o]) /\ y.kind[y.val[o]] = "upval"
               /\ y.kind[o] # "closure" => Entry(y, d, y.val[o])
    <3>1. /\ Entry(x, c, x.key[o])
          /\ x.kind[o] = "closure" => Sound(x, c, x.val[o]) /\ x.kind[x.val[o]] = "upval"
          /\ x.kind[o] # "closure" => Entry(x, c, x.val[o])
      BY <2>1, <1>2 DEF Inv, Refs
    <3>2. o \notin os
      BY <2>1, <1>2, <1>3
    <3>3. x.kind[o] = "closure" => Sound(y, d, x.val[o]) /\ y.kind[x.val[o]] = "upval"
      BY <3>1, <1>1, <1>2, <1>3
    <3> QED
      BY <3>1, <3>2, <3>3, <1>1, <1>4
  <2> QED
    BY <2>1, <1>1, <1>4 DEF Inv, Refs
<1>6. MainThread \notin os /\ Globals \notin os /\ c.tmu \cap os = {}
  BY DEF Inv, Fixed, Colors
<1>7. Types(y, d, k)
  BY <1>1 DEF Inv, Types
<1>8. Fixed(y, d)
  BY <1>1, <1>6 DEF Inv, Fixed, All, isdead
<1>9. Shape(y)
  BY <1>1 DEF Inv, Shape, Weaks
<1>10. c.root \subseteq All /\ c.tmu \subseteq All /\ c.finalized \subseteq All /\ c.strings \subseteq All
  BY <1>t DEF CollectorType, All
<1>11. d.gray = {} /\ d.again = {} /\ d.weak = {}
  BY DEF Phase
<1>12. Lists(y, d)
  <2>1. \A p \in d.root : Used(y, p) /\ y.kind[p] # "string" /\ y.open[p] = 0
    BY <1>1, <1>10 DEF Inv, Lists, Used
  <2>2. \A p \in d.tmu : p \in d.finalized /\ p \notin d.root
    BY <1>6 DEF Inv, Lists
  <2>3. \A p \in d.finalized : y.kind[p] = "udata"
    BY <1>1, <1>10 DEF Inv, Lists
  <2>4. \A p \in All : Used(y, p) =>
          p \in d.root \/ p \in d.tmu \/ y.kind[p] = "string" \/ y.open[p] # 0
    BY <1>1 DEF Inv, Lists, Used
  <2>5. \A p \in d.strings : y.kind[p] = "string"
    BY <1>1, <1>10 DEF Inv, Lists
  <2> QED
    BY <2>1, <2>2, <2>3, <2>4, <2>5, <1>11 DEF Lists
<1>13. Colors(y, d)
  <2>1. \A p \in d.tmu : ~isdead(d, p)
    BY <1>6, <1>10 DEF Inv, Colors, isdead
  <2>2. ASSUME NEW p \in All, Used(y, p)
        PROVE  /\ y.open[p] # 0 => d.mark[p] # "black"
               /\ y.kind[p] = "udata" => d.mark[p] # "gray"
               /\ \/ d.mark[p] = "white"
                  \/ p \in d.tosweep \/ p \in d.strings \/ p \in d.tmu
                  \/ y.open[p] # 0 /\ MainThread \in d.tosweep
    <3>1. p \notin os /\ Used(x, p)
      BY <2>2, <1>1 DEF Used
    <3> QED
      BY <3>1, <1>1 DEF Inv, Colors
  <2> QED
    BY <2>1, <2>2 DEF Colors
<1>14. Tri(y, d, {})
  BY DEF Tri
<1>15. Finals(y, d, k)
  <2>1. MarkedUdata(y, d)
    BY DEF MarkedUdata, Marking, AtomicStates
  <2>2. \A p \in d.finalized : k[p] = IF p \in d.tmu THEN 0 ELSE 1
    BY DEF Inv, Finals
  <2>3. \A p \in Objects : y.kind[p] = "udata" /\ p \notin d.finalized => k[p] = 0 /\ ~isdead(d, p)
    BY <1>1 DEF Inv, Finals, isdead, All
  <2> QED
    BY <2>1, <2>2, <2>3 DEF Finals
<1> QED
  BY <1>5, <1>7, <1>8, <1>9, <1>12, <1>13, <1>14, <1>15 DEF Inv, y

\* Sweep first whitens what is not dead, then frees the rest.
LEMMA SweepKeeps ==
  ASSUME NEW x, NEW c, NEW k, Inv(x, c, k, {}), c.state \notin Marking,
         NEW os \in SUBSET All, \A o \in os : Used(x, o),
         NEW dead \in SUBSET os, \A o \in os : o \in dead <=> isdead(c, o),
         NEW d \in CollectorType, d.state \notin Marking, Phase(d),
         d.root = c.root \ dead, d.tmu = c.tmu,
         d.finalized = Sweep(x, c, os).gc.finalized, d.mark = Sweep(x, c, os).gc.mark,
         d.tosweep \subseteq d.root, d.strings \subseteq c.strings \ os,
         \A p \in All \ os : Used(x, p) =>
           \/ c.mark[p] = "white"
           \/ p \in d.tosweep \/ p \in d.strings \/ p \in d.tmu
           \/ x.open[p] # 0 /\ MainThread \in d.tosweep
  PROVE  /\ Inv(Sweep(x, c, os).heap, d, k, {})
         /\ \A o \in All : Used(x, o) /\ ~Used(Sweep(x, c, os).heap, o) => isdead(c, o)
<1> DEFINE alive == os \ dead
           e == Whitened(c, alive)
           y == Sweep(x, c, os).heap
<1>t. c \in CollectorType /\ x \in HeapType
  BY DEF Inv, Types
<1>1. dead \in SUBSET All /\ alive \in SUBSET All /\ dead \subseteq os /\ alive \subseteq os
      /\ \A o \in os : (o \in dead <=> isdead(c, o)) /\ (o \in alive <=> ~isdead(c, o))
  OBVIOUS
<1>a. dead = {o \in os : isdead(c, o)}
  OBVIOUS
<1>2. y = Freed(x, dead)
  BY <1>a DEF Sweep
<1>3. Sweep(x, c, os).gc = Forgotten(e, dead)
  BY <1>a DEF Sweep
<1> HIDE DEF alive, e, y
<1>4. /\ e \in CollectorType /\ SameLists(c, e) /\ e.gray = c.gray
      /\ \A p \in All : e.mark[p] = IF p \in alive THEN "white" ELSE c.mark[p]
  BY <1>t DEF e, Whitened, CollectorType, SameLists
<1>4a. /\ d.finalized = c.finalized \ dead
      /\ \A p \in All : d.mark[p] = IF p \in dead \/ p \in alive THEN "white" ELSE c.mark[p]
  <2>1. /\ Forgotten(e, dead).finalized = e.finalized \ dead
        /\ \A p \in All : Forgotten(e, dead).mark[p] = IF p \in dead THEN "white" ELSE e.mark[p]
    BY <1>4 DEF Forgotten, CollectorType
  <2> QED
    BY <2>1, <1>3, <1>4 DEF SameLists
<1>5. Inv(x, e, k, {}) /\ \A p \in All : isdead(e, p) <=> isdead(c, p) /\ p \notin alive
  BY <1>1, <1>4, WhitenKeeps
<1>6. d.root = e.root \ dead /\ d.tmu = e.tmu /\ d.finalized = e.finalized \ dead
      /\ d.strings \subseteq e.strings \ dead /\ e.state \notin Marking
  BY <1>1, <1>4a, <1>4 DEF SameLists
<1>7. \A o \in dead : Used(x, o) /\ isdead(e, o)
  BY <1>1, <1>5
<1>8. \A p \in All : d.mark[p] = IF p \in dead THEN "white" ELSE e.mark[p]
  BY <1>4a, <1>4
<1>9. \A p \in All \ dead : Used(x, p) =>
           \/ d.mark[p] = "white"
           \/ p \in d.tosweep \/ p \in d.strings \/ p \in d.tmu
           \/ x.open[p] # 0 /\ MainThread \in d.tosweep
  BY <1>1, <1>4a
<1>10. Inv(Freed(x, dead), d, k, {})
  BY <1>1, <1>5, <1>6, <1>7, <1>8, <1>9, FreeKeeps
<1>11. \A o \in All : Used(x, o) /\ ~Used(y, o) => isdead(c, o)
  BY <1>1, <1>2, <1>t DEF Freed, Used, HeapType
<1> QED
  BY <1>2, <1>10, <1>11 DEF y

\* GCTM: a userdata goes back from tmu to root and its finalizer is called.
LEMMA FinalKeeps ==
  ASSUME NEW x, NEW c, NEW k, Inv(x, c, k, {}), c.state = "finalize", NEW o \in c.tmu,
         NEW d \in CollectorType, d.state = c.state, d.gray = c.gray, d.again = c.again,
         d.weak = c.weak, d.root = c.root \cup {o}, d.tmu = c.tmu \ {o},
         d.tosweep = c.tosweep, d.strings = c.strings, d.finalized = c.finalized,
         \A p \in All : d.mark[p] = IF p = o THEN "white" ELSE c.mark[p],
         NEW j \in [Objects -> Int],
         \A p \in Objects : j[p] = IF p = o THEN k[p] + 1 ELSE k[p]
  PROVE  Inv(x, d, j, {}) /\ \A p \in All : isdead(d, p) <=> isdead(c, p)
<1>t. c \in CollectorType /\ x \in HeapType /\ k \in [Objects -> 0..1] /\ c.tmu \subseteq All
  BY DEF Inv, Types, CollectorType
<1>1. o \in Objects /\ x.kind[o] = "udata" /\ Used(x, o) /\ x.open[o] = 0 /\ o \in c.finalized
      /\ ~isdead(c, o)
  BY <1>t DEF Inv, Lists, Shape, Colors, Fixed, Used, All
<1>2. k[o] = 0
  BY <1>1 DEF Inv, Finals
<1>3. j \in [Objects -> 0..1] /\ \A p \in Objects : j[p] = IF p = o THEN 1 ELSE k[p]
  BY <1>t, <1>1, <1>2
<1>4. \A p \in All : isdead(d, p) <=> isdead(c, p)
  BY <1>1 DEF isdead
<1>5. \A p : Sound(x, d, p) <=> Sound(x, c, p)
  BY <1>4 DEF Sound
<1>6. Refs(x, d)
  <2>1. \A v : Entry(x, d, v) <=> Entry(x, c, v)
    BY <1>5 DEF Entry
  <2> QED
    BY <2>1, <1>5 DEF Inv, Refs
<1>7. Types(x, d, j) /\ Shape(x)
  BY <1>3 DEF Inv, Types
<1>8. Fixed(x, d)
  BY <1>4 DEF Inv, Fixed, All
<1>9. c.gray = {} /\ c.again = {} /\ c.weak = {} /\ c.state \notin Marking
  BY DEF Inv, Phase, Marking, AtomicStates
<1>10. Lists(x, d)
  BY <1>1, <1>9 DEF Inv, Lists
<1>11. Phase(d)
  BY <1>9 DEF Inv, Phase
<1>12. Colors(x, d)
  BY <1>t, <1>1, <1>4, <1>9 DEF Inv, Colors
<1>13. Tri(x, d, {})
  BY <1>9 DEF Tri
<1>14. Finals(x, d, j)
  <2>1. MarkedUdata(x, d)
    BY <1>9 DEF MarkedUdata, Marking, AtomicStates
  <2>2. \A p \in d.finalized : j[p] = IF p \in d.tmu THEN 0 ELSE 1
    BY <1>t, <1>1, <1>3 DEF Inv, Finals, CollectorType
  <2>3. \A p \in Objects : x.kind[p] = "udata" /\ p \notin d.finalized => j[p] = 0 /\ ~isdead(d, p)
    BY <1>1, <1>3, <1>4 DEF Inv, Finals, All
  <2> QED
    BY <2>1, <2>2, <2>3 DEF Finals
<1> QED
  BY <1>4, <1>6, <1>7, <1>8, <1>10, <1>11, <1>12, <1>13, <1>14 DEF Inv

\* The collector only goes on to a state d outside the mark phase, in which the
\* objects that are not of the current white are yet to be swept.
LEMMA StageKeeps ==
  ASSUME NEW x, NEW c, NEW k, Inv(x, c, k, {}), NEW d \in CollectorType, d.state \notin Marking,
         d.mark = c.mark, d.root = c.root, d.tmu = c.tmu, d.finalized = c.finalized, Phase(d),
         d.tosweep \subseteq c.root, \A s \in d.strings : x.kind[s] = "string",
         \A o \in All : Used(x, o) =>
           \/ d.mark[o] = "white"
           \/ o \in d.tosweep \/ o \in d.strings \/ o \in d.tmu
           \/ x.open[o] # 0 /\ MainThread \in d.tosweep
  PROVE  Inv(x, d, k, {})
<1>1. \A o : (isdead(d, o) <=> isdead(c, o)) /\ (iswhite(d, o) <=> iswhite(c, o))
  BY DEF isdead, iswhite
<1>2. \A o : Sound(x, d, o) <=> Sound(x, c, o)
  BY <1>1 DEF Sound
<1>3. Refs(x, d)
  <2>1. \A v : Entry(x, d, v) <=> Entry(x, c, v)
    BY <1>2 DEF Entry
  <2> QED
    BY <2>1, <1>2 DEF Inv, Refs
<1>4. Types(x, d, k) /\ Shape(x) /\ Fixed(x, d)
  BY <1>1 DEF Inv, Types, Fixed
<1>5. Lists(x, d)
  BY DEF Inv, Lists, Phase
<1>6. Colors(x, d)
  BY <1>1 DEF Inv, Colors
<1>7. Tri(x, d, {})
  BY DEF Tri
<1>8. Finals(x, d, k)
  BY <1>1 DEF Inv, Finals, MarkedUdata, Marking, AtomicStates
<1> QED
  BY <1>3, <1>4, <1>5, <1>6, <1>7, <1>8 DEF Inv

-----------------------------------------------------------------------------
(***************************************************************************)
(* Each step keeps the invariant, and frees only what is dead.             *)
(***************************************************************************)
Frees == \A o \in All : Used(h, o) /\ ~Used(h', o) => isdead(g, o)

Keeps == Inv(h', g', calls', {}) /\ Frees

\* The collector's steps.
LEMMA GCStepKeeps ==
  ASSUME IInv, GCStep
  PROVE  Keeps
<1>t. Inv(h, g, calls, {}) /\ h \in HeapType /\ g \in CollectorType
  BY DEF IInv, Inv, Types
<1>1. CASE Mark \/ FullMark
  <2>1. g' = markroot(h, g) /\ h' = h /\ calls' = calls /\ g.state \in {"pause", "finalize"}
    BY <1>1 DEF Mark, FullMark, Becomes
  <2> QED
    BY <2>1, <1>t, RootKeeps DEF Keeps, Frees
<1>2. CASE Propagate
  <2>1. PICK o \in g.gray : /\ h' = IF o \in Tables(h) THEN Removed(h, o) ELSE h
                            /\ g' = propagatemark(h, g, o)
    BY <1>2 DEF Propagate, Becomes
  <2>2. g.state \in Marking /\ calls' = calls
    BY <1>2 DEF Propagate
  <2>3. Inv(h', g', calls', {})
    BY <2>1, <2>2, <1>t, PropagateKeeps
  <2>4. h'.kind = h.kind
    BY <2>1, <1>t DEF Removed, HeapType
  <2> QED
    BY <2>3, <2>4 DEF Keeps, Frees, Used
<1>3. CASE RemarkUpvalues \/ MarkWeak \/ MarkAgain \/ MarkUdata
  <2>1. h' = h
    BY <1>3 DEF RemarkUpvalues, MarkWeak, MarkAgain, MarkUdata, AtomicStep
  <2> QED
    BY <2>1, <1>3, <1>t, AtomicKeeps DEF Keeps, Frees
<1>4. CASE AtomicEnd
  <2>1. Inv(h', g', calls', {})
    BY <1>4, <1>t, AtomicEndKeeps DEF AtomicEnd, Becomes
  <2>2. h'.kind = h.kind
    BY <1>4, <1>t DEF AtomicEnd, Becomes, atomic_end, Clear, HeapType
  <2> QED
    BY <2>1, <2>2 DEF Keeps, Frees, Used
<1>5. CASE SweepStrings
  <2>1. g.state = "sweepstring" /\ calls' = calls /\ g.state \notin Marking
    BY <1>5 DEF SweepStrings, Marking, AtomicStates
  <2>2. CASE \E s \in g.strings : Becomes(sweepstring(h, g, s))
    <3>1. PICK s \in g.strings : Becomes(sweepstring(h, g, s))
      BY <2>2
    <3> DEFINE os == {s}
               dead == {o \in os : isdead(g, o)}
               r == Sweep(h, g, os)
    <3>0. dead \in SUBSET os /\ \A o \in os : o \in dead <=> isdead(g, o)
      OBVIOUS
    <3>2. s \in All /\ h.kind[s] = "string"
      BY <1>t DEF CollectorType, Inv, Lists, All
    <3>3. os \in SUBSET All /\ \A o \in os : Used(h, o)
      BY <3>2 DEF Used
    <3>4. h' = r.heap /\ g' = [r.gc EXCEPT !.strings = @ \ os]
      BY <3>1 DEF Becomes, sweepstring
    <3>5. /\ r.gc \in CollectorType /\ SameLists(g, [r.gc EXCEPT !.finalized = g.finalized])
          /\ r.gc.gray = g.gray
      BY <1>t DEF Sweep, Whitened, Forgotten, CollectorType, SameLists
    <3>6. g.root \cap dead = {}
      BY <1>t, <3>2 DEF Inv, Lists
    <3> HIDE DEF r, os, dead
    <3>7. /\ g' \in CollectorType /\ g'.state = g.state /\ g'.gray = g.gray /\ g'.again = g.again
          /\ g'.weak = g.weak /\ g'.root = g.root /\ g'.tmu = g.tmu /\ g'.tosweep = g.tosweep
          /\ g'.strings = g.strings \ os /\ g'.finalized = r.gc.finalized /\ g'.mark = r.gc.mark
      BY <3>4, <3>5 DEF CollectorType, SameLists
    <3>8. Phase(g')
      BY <3>7, <1>t DEF Inv, Phase
    <3>9. g'.root = g.root \ dead /\ g'.tosweep \subseteq g'.root
      BY <3>6, <3>7, <1>t DEF Inv, Lists
    <3>10. \A p \in All \ os : Used(h, p) =>
              \/ g.mark[p] = "white"
              \/ p \in g'.tosweep \/ p \in g'.strings \/ p \in g'.tmu
              \/ h.open[p] # 0 /\ MainThread \in g'.tosweep
      BY <3>7, <2>1, <1>t DEF Inv, Colors
    <3>11. g'.state \notin Marking /\ g'.strings \subseteq g.strings \ os
      BY <3>7, <2>1
    <3>12. g'.finalized = Sweep(h, g, os).gc.finalized /\ g'.mark = Sweep(h, g, os).gc.mark
      BY <3>7 DEF r
    <3>13. /\ Inv(Sweep(h, g, os).heap, g', calls, {})
           /\ \A o \in All : Used(h, o) /\ ~Used(Sweep(h, g, os).heap, o) => isdead(g, o)
      BY <3>0, <3>3, <3>7, <3>8, <3>9, <3>10, <3>11, <3>12, <2>1, <1>t, SweepKeeps
    <3> QED
      BY <3>4, <3>13, <2>1 DEF Keeps, Frees, r
  <2>3. CASE g.strings = {} /\ Becomes([heap |-> h, gc |-> [g EXCEPT !.state = "sweep"]])
    <3>1. /\ g' \in CollectorType /\ g'.state = "sweep" /\ g'.gray = g.gray /\ g'.again = g.again
          /\ g'.weak = g.weak /\ g'.root = g.root /\ g'.tmu = g.tmu /\ g'.tosweep = g.tosweep
          /\ g'.strings = {} /\ g'.finalized = g.finalized /\ g'.mark = g.mark /\ h' = h
      BY <2>3, <1>t DEF Becomes, CollectorType
    <3>2. Phase(g') /\ g'.state \notin Marking
      BY <3>1, <2>1, <1>t DEF Inv, Phase, Marking, AtomicStates
    <3>3. g'.tosweep \subseteq g.root
      BY <3>1, <1>t DEF Inv, Lists
    <3>4. \A o \in All : Used(h, o) =>
            \/ g'.mark[o] = "white"
            \/ o \in g'.tosweep \/ o \in g'.strings \/ o \in g'.tmu
            \/ h.open[o] # 0 /\ MainThread \in g'.tosweep
      BY <2>1, <2>3, <3>1, <1>t DEF Inv, Colors
    <3> QED
      BY <2>1, <3>1, <3>2, <3>3, <3>4, <1>t, StageKeeps DEF Keeps, Frees
  <2> QED
    BY <2>2, <2>3, <1>5 DEF SweepStrings
<1>6. CASE SweepList
  <2>1. g.state = "sweep" /\ calls' = calls /\ g.state \notin Marking
    BY <1>6 DEF SweepList, Marking, AtomicStates
  <2>2. PICK part \in SUBSET g.tosweep : Becomes(sweeplist(h, g, part))
    BY <1>6 DEF SweepList
  <2> DEFINE ups == IF MainThread \in part THEN OpenUpvalues(h) ELSE {}
             os == part \cup ups
             dead == {o \in os : isdead(g, o)}
             r == Sweep(h, g, os)
  <2>3. part \subseteq g.root /\ g.root \subseteq All /\ ups \subseteq Objects /\ Objects \subseteq All
    BY <1>t DEF Inv, Lists, CollectorType, OpenUpvalues, All
  <2>4. os \in SUBSET All /\ \A o \in os : Used(h, o)
    BY <2>3, <1>t DEF Inv, Lists, Used, OpenUpvalues
  <2>5. h' = r.heap /\ g' = [r.gc EXCEPT !.root    = @ \ {o \in part : isdead(g, o)},
                                         !.tosweep = @ \ part,
                                         !.state   = IF g.tosweep = part THEN "finalize" ELSE "sweep"]
    BY <2>2 DEF Becomes, sweeplist
  <2>6. /\ r.gc \in CollectorType /\ SameLists(g, [r.gc EXCEPT !.finalized = g.finalized])
        /\ r.gc.gray = g.gray
    BY <1>t DEF Sweep, Whitened, Forgotten, CollectorType, SameLists
  <2>7. g.root \ {o \in part : isdead(g, o)} = g.root \ dead
    BY <1>t DEF Inv, Lists, OpenUpvalues
  <2>8. \A o \in OpenUpvalues(h) : MainThread \in part => o \in os
    OBVIOUS
  <2>9. part \subseteq os /\ dead \in SUBSET os /\ \A o \in os : o \in dead <=> isdead(g, o)
    OBVIOUS
  <2> HIDE DEF r, os, ups, dead
  <2>10. /\ g' \in CollectorType /\ g'.gray = g.gray /\ g'.again = g.again
         /\ g'.weak = g.weak /\ g'.root = g.root \ dead /\ g'.tmu = g.tmu
         /\ g'.tosweep = g.tosweep \ part /\ g'.strings = g.strings
         /\ g'.finalized = r.gc.finalized /\ g'.mark = r.gc.mark
         /\ g'.state = IF g.tosweep = part THEN "finalize" ELSE "sweep"
    BY <2>5, <2>6, <2>7 DEF CollectorType, SameLists
  <2>11. g.strings = {} /\ g.gray = {} /\ g.again = {} /\ g.weak = {}
    BY <2>1, <1>t DEF Inv, Phase
  <2>12. Phase(g') /\ g'.state \notin Marking
    BY <2>10, <2>11 DEF Phase, Marking, AtomicStates
  <2>13. g'.tosweep \subseteq g'.root
    <3>1. dead \cap g.tosweep \subseteq part
      BY <1>t, <2>3 DEF Inv, Lists, dead, os, ups, OpenUpvalues
    <3> QED
      BY <3>1, <2>10, <1>t DEF Inv, Lists
  <2>14. g'.strings \subseteq g.strings \ os
    BY <2>10, <2>11
  <2>15. \A p \in All \ os : Used(h, p) =>
            \/ g.mark[p] = "white"
            \/ p \in g'.tosweep \/ p \in g'.strings \/ p \in g'.tmu
            \/ h.open[p] # 0 /\ MainThread \in g'.tosweep
    <3> SUFFICES ASSUME NEW p \in All \ os, Used(h, p), g.mark[p] # "white", p \notin g.tmu
                 PROVE  p \in g'.tosweep \/ (h.open[p] # 0 /\ MainThread \in g'.tosweep)
      BY <2>10
    <3>1. p \in g.tosweep \/ (h.open[p] # 0 /\ MainThread \in g.tosweep)
      BY <2>1, <2>11, <1>t DEF Inv, Colors
    <3>2. p \notin part
      BY <2>9
    <3>3. h.open[p] # 0 => p \in OpenUpvalues(h)
      BY <1>t DEF Inv, Shape, Fixed, OpenUpvalues, All
    <3> QED
      BY <3>1, <3>2, <3>3, <2>8, <2>10
  <2>16. g'.finalized = Sweep(h, g, os).gc.finalized /\ g'.mark = Sweep(h, g, os).gc.mark
    BY <2>10 DEF r
  <2>17. /\ Inv(Sweep(h, g, os).heap, g', calls, {})
         /\ \A o \in All : Used(h, o) /\ ~Used(Sweep(h, g, os).heap, o) => isdead(g, o)
    BY <2>1, <2>4, <2>9, <2>10, <2>12, <2>13, <2>14, <2>15, <2>16, <1>t, SweepKeeps
  <2> QED
    BY <2>1, <2>5, <2>17 DEF Keeps, Frees, r
<1>7. CASE \E keep \in BOOLEAN : Finalize(keep)
  <2>1. PICK keep \in BOOLEAN : Finalize(keep)
    BY <1>7
  <2>2. PICK o \in g.tmu :
          LET d == makewhite(LinkAt([g EXCEPT !.tmu = @ \ {o}], {o}, AfterMain(g)), o)
          IN  /\ g' = IF keep THEN barrierback(d, Globals, o) ELSE d
              /\ h' = IF keep THEN [h EXCEPT !.val[Globals] = o] ELSE h
              /\ calls' = [calls EXCEPT ![o] = @ + 1]
    BY <2>1 DEF Finalize
  <2> DEFINE d == makewhite(LinkAt([g EXCEPT !.tmu = @ \ {o}], {o}, AfterMain(g)), o)
  <2>3. g.state = "finalize" /\ g.state \notin AtomicStates /\ o \in All
    BY <2>1, <1>t DEF Finalize, AtomicStates, CollectorType
  <2>4. g.tosweep = {}
    BY <2>3, <1>t DEF Inv, Phase
  <2>5. /\ d \in CollectorType /\ d.state = g.state /\ d.gray = g.gray /\ d.again = g.again
        /\ d.weak = g.weak /\ d.root = g.root \cup {o} /\ d.tmu = g.tmu \ {o}
        /\ d.tosweep = g.tosweep /\ d.strings = g.strings /\ d.finalized = g.finalized
        /\ \A p \in All : d.mark[p] = IF p = o THEN "white" ELSE g.mark[p]
    BY <2>3, <2>4, <1>t DEF makewhite, Paint, LinkAt, AfterMain, CollectorType
  <2>6. /\ g' = (IF keep THEN barrierback(d, Globals, o) ELSE d)
        /\ calls' \in [Objects -> Int]
        /\ \A p \in Objects : calls'[p] = IF p = o THEN calls[p] + 1 ELSE calls[p]
    <3>1. o \in Objects /\ calls \in [Objects -> 0..1]
      BY <1>t DEF Inv, Types, Lists, CollectorType
    <3> QED
      BY <3>1, <2>2
  <2> HIDE DEF d
  <2>7. Inv(h, d, calls', {}) /\ \A p \in All : isdead(d, p) <=> isdead(g, p)
    BY <2>3, <2>5, <2>6, <1>t, FinalKeeps
  <2>8. CASE ~keep
    BY <2>2, <2>6, <2>7, <2>8 DEF Keeps, Frees
  <2>9. CASE keep
    <3>1. Globals \in All /\ Globals \in Tables(h) /\ h.kind[Globals] = "table" /\ h.open[Globals] = 0
      BY <1>t DEF Inv, Fixed, Shape, Tables, All
    <3>2. /\ Inv(h, g', calls', {}) /\ g'.state = d.state
          /\ \A p \in All : isdead(g', p) <=> isdead(d, p)
          /\ g'.mark[Globals] = "black" => Dark(g', o)
      BY <2>3, <2>5, <2>6, <2>7, <2>9, <3>1, BackKeeps
    <3>3. Entry(h, g', o) /\ Entry(h, g', Nil)
      BY <2>3, <2>7, <3>2, <1>t DEF Entry, Sound, Inv, Lists, Colors, Used
    <3>4. /\ h' \in HeapType /\ h'.kind = h.kind /\ h'.open = h.open /\ h'.stack = h.stack
          /\ \A p \in All : /\ h'.key[p] = IF p = Globals THEN Nil ELSE h.key[p]
                            /\ h'.val[p] = IF p = Globals THEN o ELSE h.val[p]
      <4>1. h.key[Globals] = Nil
        BY <3>1, <1>t DEF Inv, Shape, Weaks
      <4> QED
        BY <4>1, <2>2, <2>3, <2>9, <3>1, <1>t DEF HeapType
    <3>5. g'.state \notin AtomicStates
      BY <2>3, <2>5, <3>2
    <3>6. Inv(h', g', calls', {})
      <4>1. Inv(h, g', calls', {}) /\ g'.state \notin AtomicStates
        BY <3>2, <3>5
      <4>2. Globals \in All /\ h.kind[Globals] \in {"table", "weakvalue", "weakkey", "upval"} /\ h.open[Globals] = 0
        BY <3>1
      <4>3. Entry(h, g', Nil) /\ Entry(h, g', o) /\ (h.kind[Globals] \notin Weaks => Nil = Nil)
        BY <3>3
      <4>4. g'.mark[Globals] = "black" => Dark(g', o)
        BY <3>2
      <4> QED
        BY <4>1, <4>2, <4>3, <4>4, <3>4, WriteKeeps
    <3> QED
      BY <3>4, <3>6 DEF Keeps, Frees, Used
  <2> QED
    BY <2>8, <2>9
<1>8. CASE Pause
  <2>1. g.state = "finalize" /\ g.tmu = {} /\ g' = [g EXCEPT !.state = "pause"] /\ h' = h /\ calls' = calls
    BY <1>8 DEF Pause
  <2>2. /\ g' \in CollectorType /\ g'.state = "pause" /\ g'.gray = g.gray /\ g'.again = g.again
        /\ g'.weak = g.weak /\ g'.root = g.root /\ g'.tmu = g.tmu /\ g'.tosweep = g.tosweep
        /\ g'.strings = g.strings /\ g'.finalized = g.finalized /\ g'.mark = g.mark
    BY <2>1, <1>t DEF CollectorType
  <2>3. Phase(g') /\ g'.state \notin Marking /\ g.strings = {} /\ g.tosweep = {}
    BY <2>1, <2>2, <1>t DEF Inv, Phase, Marking, AtomicStates
  <2>4. \A o \in All : Used(h, o) => g'.mark[o] = "white"
    BY <2>1, <2>2, <1>t, SweptWhite
  <2> QED
    BY <2>1, <2>2, <2>3, <2>4, <1>t, StageKeeps DEF Keeps, Frees
<1> QED
  BY <1>1, <1>2, <1>3, <1>4, <1>5, <1>6, <1>7, <1>8 DEF GCStep

\* luaC_fullgc begins with a sweep that frees nothing.
LEMMA FullGCKeeps ==
  ASSUME IInv, FullGC
  PROVE  Keeps
<1>t. Inv(h, g, calls, {}) /\ h \in HeapType /\ g \in CollectorType /\ h' = h /\ calls' = calls
  BY DEF IInv, Inv, Types, FullGC
<1>1. CASE g.state \notin {"pause", "propagate"}
  BY <1>1, <1>t DEF FullGC, Keeps, Frees
<1>2. CASE g.state \in {"pause", "propagate"}
  <2>1. /\ g' \in CollectorType /\ g'.state = "sweepstring" /\ g'.gray = {} /\ g'.again = {}
        /\ g'.weak = {} /\ g'.root = g.root /\ g'.tmu = g.tmu /\ g'.tosweep = g.root
        /\ g'.strings = {o \in Objects : h.kind[o] = "string"} /\ g'.finalized = g.finalized
        /\ g'.mark = g.mark
    BY <1>2, <1>t DEF FullGC, CollectorType
  <2>2. Phase(g') /\ g'.state \notin Marking
    BY <2>1 DEF Phase, Marking, AtomicStates
  <2>3. \A o \in All : Used(h, o) =>
          \/ g'.mark[o] = "white"
          \/ o \in g'.tosweep \/ o \in g'.strings \/ o \in g'.tmu
          \/ h.open[o] # 0 /\ MainThread \in g'.tosweep
    BY <2>1, <1>t DEF Inv, Lists, Fixed, All
  <2> QED
    BY <2>1, <2>2, <2>3, <1>t, StageKeeps DEF Keeps, Frees
<1> QED
  BY <1>1, <1>2

\* What the code can get at is not dead.
LEMMA ReachedSound ==
  ASSUME IInv
  PROVE  /\ \A v \in Stacked \cup {Nil} : Entry(h, g, v)
         /\ \A o \in Reached : Sound(h, g, o) /\ o \in All
<1>1. Inv(h, g, calls, {})
  BY DEF IInv
<1>2. \A v \in Stacked \cup {Nil} : Entry(h, g, v)
  BY <1>1 DEF Inv, Refs, Stacked, Entry
<1>3. Sound(h, g, Globals) /\ h.kind[Globals] = "table"
  BY <1>1 DEF Inv, Fixed, Sound, Used, All
<1>4. Entry(h, g, h.val[Globals])
  BY <1>1, <1>3 DEF Inv, Refs, Sound
<1> QED
  BY <1>2, <1>3, <1>4 DEF Reached, Entry, Sound

\* A new object, and the stack slot it is put into.
LEMMA NewKeeps ==
  ASSUME IInv, NEW s \in Slots,
         (\E kd \in kinds : New(kd, s)) \/ newudata(s)
  PROVE  Keeps
<1>t. Inv(h, g, calls, {}) /\ h \in HeapType /\ g \in CollectorType /\ calls \in [Objects -> 0..1]
  BY DEF IInv, Inv, Types
<1>g. g.state \notin AtomicStates
  BY DEF New, newudata, Running
<1>1. PICK o \in Free, kd \in {"table", "weakvalue", "weakkey", "udata"}, v \in {Nil, Globals} :
        /\ h' = Allocated(kd, o, v, s)
        /\ v = IF kd = "udata" THEN Globals ELSE Nil
        /\ g' = IF kd = "udata" THEN LinkAt(makewhite(g, o), {o}, AfterMain(g)) ELSE link(g, o)
        /\ calls' \in [Objects -> 0..1]
        /\ \A p \in Objects : p # o => calls'[p] = calls[p]
        /\ kd = "udata" => calls'[o] = 0
  <2> DEFINE o == CHOOSE p \in Free : TRUE
  <2>1. o \in Free
    BY DEF New, newudata
  <2>2. CASE \E kd \in kinds : New(kd, s)
    <3>1. PICK kd \in kinds : New(kd, s)
      BY <2>2
    <3>2. kd \in {"table", "weakvalue", "weakkey"}
      <4>1. kinds \subseteq {"table", "weakvalue", "weakkey", "string", "udata", "closure"}
        BY ConstantsAssumption DEF IInv
      <4> QED
        BY <4>1, <3>1 DEF New
    <3>3. h' = Allocated(kd, o, Nil, s) /\ g' = link(g, o) /\ calls' = calls
      BY <3>1 DEF New
    <3> HIDE DEF o
    <3> QED
      BY <2>1, <3>2, <3>3, <1>t
  <2>3. CASE newudata(s)
    <3>1. /\ h' = Allocated("udata", o, Globals, s)
          /\ g' = LinkAt(makewhite(g, o), {o}, AfterMain(g))
          /\ calls' = [calls EXCEPT ![o] = 0]
      BY <2>3 DEF newudata
    <3> HIDE DEF o
    <3>2. calls' \in [Objects -> 0..1] /\ calls'[o] = 0 /\ \A p \in Objects : p # o => calls'[p] = calls[p]
      BY <2>1, <3>1, <1>t DEF Free
    <3> QED
      BY <2>1, <3>1, <3>2
  <2> QED
    BY <2>2, <2>3
<1> DEFINE y == [h EXCEPT !.kind[o] = kd, !.key[o] = Nil, !.val[o] = v]
<1>2. o \in Objects /\ o \in All /\ h.kind[o] = "free" /\ Globals \in All
  BY DEF Free, All
<1>3. h.open[o] = 0
  BY <1>2, <1>t DEF Inv, Shape
<1>4. /\ y \in HeapType /\ y.stack = h.stack
      /\ \A p \in All : p # o => /\ y.kind[p] = h.kind[p] /\ y.key[p] = h.key[p]
                                 /\ y.val[p] = h.val[p] /\ y.open[p] = h.open[p]
      /\ y.kind[o] = kd /\ y.key[o] = Nil /\ y.val[o] = v /\ y.open[o] = 0
  BY <1>2, <1>3, <1>t DEF HeapType, Kinds
<1>5. h' = [y EXCEPT !.stack[s] = o]
  BY <1>1, <1>t DEF Allocated, HeapType
<1> HIDE DEF y
<1>6. /\ g' \in CollectorType /\ g'.state = g.state /\ g'.gray = g.gray /\ g'.again = g.again
      /\ g'.weak = g.weak /\ g'.tmu = g.tmu /\ g'.strings = g.strings
      /\ g'.finalized = g.finalized /\ g'.root = g.root \cup {o}
      /\ \A p \in All : g'.mark[p] = IF p = o THEN "white" ELSE g.mark[p]
      /\ \/ g'.tosweep = g.tosweep /\ g.tosweep # g.root
         \/ g'.tosweep = g.tosweep /\ MainThread \notin g.tosweep
         \/ g'.tosweep = g.tosweep \cup {o} /\ g.tosweep = g.root
         \/ g'.tosweep = g.tosweep \cup {o} /\ MainThread \in g.tosweep
  BY <1>1, <1>2, <1>t DEF link, LinkAt, makewhite, Paint, AtFront, AfterMain, CollectorType
<1>7. /\ g'.tosweep = g.tosweep \/ (g'.tosweep = g.tosweep \cup {o} /\ g.tosweep # {})
      /\ g'.tosweep \subseteq g'.root
      /\ g.state = "sweepstring" => g'.tosweep = g'.root
  BY <1>6, <1>t DEF Inv, Fixed, Lists, Phase
<1>8. Inv(y, g', calls', {})
  <2>1. y.kind[o] \in Weaks \cup {"table", "string", "udata", "closure", "upval"}
    BY <1>4 DEF Weaks
  <2>2. y.open[o] # 0 <=> y.kind[o] = "upval"
    BY <1>4
  <2>3. y.kind[o] \notin {"udata", "closure"} => y.val[o] = Nil
    BY <1>1, <1>4
  <2>4. y.kind[o] = "udata" => y.val[o] = Globals
    BY <1>1, <1>4
  <2>5. y.kind[o] = "closure" => Sound(h, g, y.val[o]) /\ h.kind[y.val[o]] = "upval"
    BY <1>4
  <2>6. g'.root = IF y.kind[o] \in {"string", "upval"} THEN g.root ELSE g.root \cup {o}
    BY <1>4, <1>6
  <2>7. calls' \in [Objects -> 0..1] /\ (y.kind[o] = "udata" => calls'[o] = 0)
        /\ \A p \in Objects : p # o => calls'[p] = calls[p]
    BY <1>1, <1>4
  <2> QED
    <3>1. Born(h, g, y, g', o)
      BY <2>1, <2>2, <2>3, <2>4, <2>5, <2>6, <1>2, <1>4, <1>6, <1>7 DEF Born
    <3> QED
      BY <3>1, <2>7, <1>t, <1>g, BornKeeps
<1>9. Entry(y, g', o)
  BY <1>2, <1>4, <1>6 DEF Entry, Sound, Used, isdead
<1>10. Inv(h', g', calls', {})
  BY <1>5, <1>6, <1>8, <1>9, <1>g, MoveKeeps
<1>11. Frees
  BY <1>1, <1>2, <1>t DEF Frees, Used, Allocated, HeapType
<1> QED
  BY <1>10, <1>11 DEF Keeps

\* A new string or open upvalue is not linked into root.
LEMMA UnlinkedKeeps ==
  ASSUME NEW x, NEW c, NEW k, Inv(x, c, k, {}), c.state \notin AtomicStates,
         NEW o \in Objects, x.kind[o] = "free", NEW kd \in {"string", "upval"},
         NEW y \in HeapType, y.key = x.key, y.val = x.val, y.stack = x.stack,
         \A p \in All : y.kind[p] = IF p = o THEN kd ELSE x.kind[p],
         \A p \in All : p # o => y.open[p] = x.open[p],
         y.open[o] # 0 <=> kd = "upval",
         NEW d \in CollectorType, SameLists(c, d), d.gray = c.gray,
         \A p \in All : d.mark[p] = IF p = o THEN "white" ELSE c.mark[p]
  PROVE  Inv(y, d, k, {}) /\ Sound(y, d, o)
<1>t. c \in CollectorType /\ x \in HeapType /\ k \in [Objects -> 0..1] /\ o \in All
  BY DEF Inv, Types, All
<1>1. x.key[o] = Nil /\ x.val[o] = Nil
  BY <1>t DEF Inv, Shape, Weaks
<1>2. \A p \in All : p # o => /\ y.kind[p] = x.kind[p] /\ y.key[p] = x.key[p]
                              /\ y.val[p] = x.val[p] /\ y.open[p] = x.open[p]
  OBVIOUS
<1>3. /\ y.kind[o] \in Weaks \cup {"table", "string", "udata", "closure", "upval"}
      /\ y.open[o] # 0 <=> y.kind[o] = "upval"
      /\ y.kind[o] \notin {"udata", "closure"} => y.val[o] = Nil
      /\ y.kind[o] = "udata" => y.val[o] = Globals
      /\ y.kind[o] = "closure" => Sound(x, c, y.val[o]) /\ x.kind[y.val[o]] = "upval"
      /\ y.kind[o] \in {"string", "upval"} /\ y.key[o] = Nil
  BY <1>1, <1>t
<1>4. /\ d.state = c.state /\ d.again = c.again /\ d.weak = c.weak /\ d.tmu = c.tmu
      /\ d.strings = c.strings /\ d.finalized = c.finalized
      /\ d.root = IF y.kind[o] \in {"string", "upval"} THEN c.root ELSE c.root \cup {o}
      /\ d.tosweep = c.tosweep /\ d.tosweep \subseteq d.root
      /\ c.state = "sweepstring" => d.tosweep = d.root
  BY <1>3 DEF SameLists, Inv, Lists, Phase
<1>5. Inv(y, d, k, {})
  <2>1. Born(x, c, y, d, o)
    BY <1>2, <1>3, <1>4 DEF Born
  <2> QED
    BY <2>1, <1>3, <1>t, BornKeeps
<1>6. Sound(y, d, o)
  BY <1>3, <1>t DEF Sound, Used, isdead
<1> QED
  BY <1>5, <1>6, <1>t

\* A string is made, or found, and brought back if it is dead.
LEMMA StringKeeps ==
  ASSUME IInv, NEW s \in Slots, newlstr(s)
  PROVE  Keeps
<1>t. Inv(h, g, calls, {}) /\ h \in HeapType /\ g \in CollectorType /\ calls' = calls
      /\ calls \in [Objects -> 0..1]
  BY DEF IInv, Inv, Types, newlstr
<1>g. g.state \notin AtomicStates
  BY DEF newlstr, Running
<1>1. PICK o \in {p \in Objects : h.kind[p] \in {"free", "string"}} :
        /\ h' = [h EXCEPT !.kind[o] = "string", !.stack[s] = o]
        /\ g' = IF h.kind[o] = "free" \/ isdead(g, o) THEN makewhite(g, o) ELSE g
  BY DEF newlstr
<1>2. o \in All /\ h.open[o] = 0 /\ h.key[o] = Nil /\ h.val[o] = Nil
  BY <1>t DEF All, Inv, Shape, Weaks
<1>3. makewhite(g, o) \in CollectorType /\ SameLists(g, makewhite(g, o)) /\ makewhite(g, o).gray = g.gray
      /\ \A p \in All : makewhite(g, o).mark[p] = IF p = o THEN "white" ELSE g.mark[p]
  BY <1>2, <1>t DEF makewhite, Paint, CollectorType, SameLists
<1> DEFINE y == [h EXCEPT !.kind[o] = "string"]
<1>4. /\ y \in HeapType /\ y.stack = h.stack /\ y.key = h.key /\ y.val = h.val /\ y.open = h.open
      /\ \A p \in All : y.kind[p] = IF p = o THEN "string" ELSE h.kind[p]
      /\ h.kind[o] = "string" => y = h
  BY <1>2, <1>t DEF HeapType, Kinds
<1>5. h' = [y EXCEPT !.stack[s] = o]
  BY <1>1, <1>t DEF HeapType
<1> HIDE DEF y
<1>6. Inv(y, g', calls, {}) /\ ~isdead(g', o) /\ g'.state = g.state
  <2>1. CASE h.kind[o] = "free"
    <3>1. g' = makewhite(g, o)
      BY <2>1, <1>1
    <3>2. Inv(y, g', calls, {}) /\ Sound(y, g', o)
      BY <2>1, <3>1, <1>2, <1>3, <1>4, <1>t, <1>g, UnlinkedKeeps
    <3> QED
      BY <3>1, <3>2, <1>3 DEF Sound, SameLists
  <2>2. CASE h.kind[o] # "free"
    <3>1. h.kind[o] = "string" /\ y = h
      BY <2>2, <1>4
    <3>2. CASE ~isdead(g, o)
      BY <2>2, <3>1, <3>2, <1>1, <1>t
    <3>3. CASE isdead(g, o)
      <4> DEFINE os == {o}
      <4>1. g.state \notin Marking
        BY <3>1, <3>3, <1>2, <1>t DEF Inv, Colors, Used
      <4>2. os \in SUBSET All /\ \A p \in os : ~isdead(g, p) \/ h.kind[p] = "string" \/ h.open[p] # 0
        BY <3>1, <1>2
      <4>3. /\ g' \in CollectorType /\ SameLists(g, g') /\ g'.gray = g.gray
            /\ \A p \in All : g'.mark[p] = IF p \in os THEN "white" ELSE g.mark[p]
        BY <3>3, <1>1, <1>3
      <4>4. o \in os
        OBVIOUS
      <4> HIDE DEF os
      <4>5. Inv(h, g', calls, {}) /\ \A p \in All : isdead(g', p) <=> isdead(g, p) /\ p \notin os
        BY <4>1, <4>2, <4>3, <1>t, WhitenKeeps
      <4> QED
        BY <4>3, <4>4, <4>5, <3>1, <1>2 DEF SameLists
    <3> QED
      BY <3>2, <3>3
  <2> QED
    BY <2>1, <2>2
<1>7. Entry(y, g', o)
  BY <1>2, <1>4, <1>6 DEF Entry, Sound, Used
<1>8. Inv(h', g', calls', {})
  BY <1>5, <1>6, <1>7, <1>g, <1>t, MoveKeeps
<1>9. Frees
  BY <1>1, <1>2, <1>t DEF Frees, Used, HeapType
<1> QED
  BY <1>8, <1>9 DEF Keeps

\* luaF_findupval: the open upvalue of a slot is made, or brought back if dead.
LEMMA UpvalKeeps ==
  ASSUME NEW x, NEW c, NEW k, Inv(x, c, k, {}), c.state \notin AtomicStates,
         NEW uv \in Objects, NEW level \in Slots,
         x.kind[uv] = "free" \/ x.open[uv] = level,
         NEW y \in HeapType, y.key = x.key, y.val = x.val, y.stack = x.stack,
         \A p \in All : y.kind[p] = IF p = uv THEN "upval" ELSE x.kind[p],
         \A p \in All : y.open[p] = IF p = uv THEN level ELSE x.open[p],
         NEW d \in CollectorType, SameLists(c, d), d.gray = c.gray,
         \A p \in All : d.mark[p] = IF p = uv /\ (x.kind[uv] = "free" \/ isdead(c, uv))
                                    THEN "white" ELSE c.mark[p]
  PROVE  Inv(y, d, k, {}) /\ Sound(y, d, uv) /\ y.kind[uv] = "upval"
<1>t. c \in CollectorType /\ x \in HeapType /\ k \in [Objects -> 0..1] /\ uv \in All /\ level # 0
  BY ConstantsAssumption DEF Inv, Types, All
<1>1. y.kind[uv] = "upval" /\ y.open[uv] = level
  BY <1>t
<1>2. CASE x.kind[uv] = "free"
  <2>1. \A p \in All : p # uv => y.open[p] = x.open[p]
    OBVIOUS
  <2>2. \A p \in All : d.mark[p] = IF p = uv THEN "white" ELSE c.mark[p]
    BY <1>2
  <2> QED
    BY <1>1, <1>2, <1>t, <2>1, <2>2, UnlinkedKeeps
<1>3. CASE x.kind[uv] # "free"
  <2>1. x.open[uv] = level /\ x.kind[uv] = "upval"
    BY <1>3, <1>t DEF Inv, Shape
  <2>2. y = x
    <3>1. y.kind = x.kind /\ y.open = x.open
      BY <2>1, <1>t DEF HeapType
    <3> QED
      BY <3>1, <1>t DEF HeapType
  <2>3. CASE ~isdead(c, uv)
    <3>1. d = c
      <4>1. d.mark = c.mark
        BY <2>3, <1>3, <1>t DEF CollectorType
      <4> QED
        BY <4>1, <1>t DEF CollectorType, SameLists
    <3> QED
      BY <2>2, <2>3, <3>1, <1>1, <1>t DEF Sound, Used
  <2>4. CASE isdead(c, uv)
    <3> DEFINE os == {uv}
    <3>1. c.state \notin Marking
      BY <2>4, <1>3, <1>t DEF Inv, Colors, Used
    <3>2. os \in SUBSET All /\ \A p \in os : ~isdead(c, p) \/ x.kind[p] = "string" \/ x.open[p] # 0
      BY <2>1, <1>t
    <3>3. \A p \in All : d.mark[p] = IF p \in os THEN "white" ELSE c.mark[p]
      BY <2>4
    <3>4. uv \in os
      OBVIOUS
    <3> HIDE DEF os
    <3>5. Inv(x, d, k, {}) /\ \A p \in All : isdead(d, p) <=> isdead(c, p) /\ p \notin os
      BY <3>1, <3>2, <3>3, WhitenKeeps
    <3> QED
      BY <2>2, <3>4, <3>5, <1>1, <1>3, <1>t DEF Sound, Used
  <2> QED
    BY <2>3, <2>4
<1> QED
  BY <1>2, <1>3

\* A closure and its upvalue.
LEMMA ClosureKeeps ==
  ASSUME IInv, NEW s \in Slots, NEW level \in Slots, newclosure(level, s)
  PROVE  Keeps
<1>t. Inv(h, g, calls, {}) /\ h \in HeapType /\ g \in CollectorType /\ calls' = calls
      /\ calls \in [Objects -> 0..1] /\ level # 0
  BY ConstantsAssumption DEF IInv, Inv, Types, newclosure
<1>g. g.state \notin AtomicStates
  BY DEF newclosure, Running
<1>1. PICK o \in Free, uv \in Objects :
        /\ o # uv
        /\ h.kind[uv] = "free" \/ h.open[uv] = level
        /\ h' = [Allocated("closure", o, uv, s) EXCEPT !.kind[uv] = "upval", !.open[uv] = level]
        /\ g' = IF h.kind[uv] = "free" \/ isdead(link(g, o), uv) THEN makewhite(link(g, o), uv)
                ELSE link(g, o)
  <2> DEFINE o    == CHOOSE p \in Free : TRUE
             has  == {p \in Objects : h.open[p] = level}
             rest == Free \ {o}
             uv   == IF has # {} THEN CHOOSE p \in has : TRUE ELSE CHOOSE p \in rest : TRUE
  <2>1. /\ Free # {} /\ (has # {} \/ rest # {})
        /\ h' = [Allocated("closure", o, uv, s) EXCEPT !.kind[uv] = "upval", !.open[uv] = level]
        /\ g' = IF has = {} \/ isdead(link(g, o), uv) THEN makewhite(link(g, o), uv) ELSE link(g, o)
    BY DEF newclosure
  <2>2. o \in Free /\ (has # {} => uv \in has) /\ (has = {} => uv \in rest)
    BY <2>1
  <2>3. \A p \in has : p \in Objects /\ h.open[p] = level /\ h.kind[p] = "upval"
    BY <1>t DEF Inv, Shape, All
  <2>4. \A p \in rest : p \in Objects /\ h.kind[p] = "free" /\ p # o
    BY DEF Free
  <2>5. h.kind[o] = "free"
    BY <2>2 DEF Free
  <2> HIDE DEF o, uv, has, rest
  <2>6. has = {} <=> h.kind[uv] = "free"
    BY <2>2, <2>3, <2>4
  <2> QED
    BY <2>1, <2>2, <2>3, <2>4, <2>5, <2>6
<1>2. o \in Objects /\ o \in All /\ uv \in All /\ h.kind[o] = "free"
  BY DEF Free, All
<1>3. h.open[o] = 0 /\ h.key[o] = Nil /\ h.val[o] = Nil
  BY <1>2, <1>t DEF Inv, Shape, Weaks
<1> DEFINE x == [h EXCEPT !.kind[uv] = "upval", !.open[uv] = level]
           c == IF h.kind[uv] = "free" \/ isdead(g, uv) THEN makewhite(g, uv) ELSE g
           y == [x EXCEPT !.kind[o] = "closure", !.val[o] = uv]
<1>4. /\ x \in HeapType /\ x.key = h.key /\ x.val = h.val /\ x.stack = h.stack
      /\ \A p \in All : x.kind[p] = IF p = uv THEN "upval" ELSE h.kind[p]
      /\ \A p \in All : x.open[p] = IF p = uv THEN level ELSE h.open[p]
  BY <1>2, <1>t DEF HeapType, Kinds
<1>5. /\ c \in CollectorType /\ SameLists(g, c) /\ c.gray = g.gray
      /\ \A p \in All : c.mark[p] = IF p = uv /\ (h.kind[uv] = "free" \/ isdead(g, uv))
                                    THEN "white" ELSE g.mark[p]
  BY <1>2, <1>t DEF makewhite, Paint, CollectorType, SameLists
<1>6. /\ h' \in HeapType /\ h'.key = [h.key EXCEPT ![o] = Nil] /\ h'.val = [h.val EXCEPT ![o] = uv]
      /\ h'.kind = [h.kind EXCEPT ![o] = "closure", ![uv] = "upval"]
      /\ h'.open = [h.open EXCEPT ![uv] = level] /\ h'.stack = [h.stack EXCEPT ![s] = o]
  BY <1>1, <1>2, <1>t DEF Allocated, HeapType, Kinds
<1> HIDE DEF x
<1>7. /\ y \in HeapType /\ y.key = x.key /\ y.stack = x.stack /\ y.open = x.open
      /\ \A p \in All : y.kind[p] = IF p = o THEN "closure" ELSE x.kind[p]
      /\ \A p \in All : y.val[p] = IF p = o THEN uv ELSE x.val[p]
  BY <1>2, <1>4 DEF HeapType, Kinds
<1> HIDE DEF y, c
<1>8. h' = [y EXCEPT !.stack[s] = o]
  <2> DEFINE z == [y EXCEPT !.stack[s] = o]
  <2>1. /\ z \in HeapType /\ z.key = y.key /\ z.val = y.val /\ z.kind = y.kind /\ z.open = y.open
        /\ z.stack = [y.stack EXCEPT ![s] = o]
    BY <1>2, <1>7 DEF HeapType
  <2> HIDE DEF z
  <2>2. h'.key = z.key
    BY <2>1, <1>2, <1>3, <1>4, <1>6, <1>7, <1>t DEF HeapType
  <2>3. h'.val = z.val
    BY <2>1, <1>2, <1>4, <1>6, <1>7 DEF HeapType
  <2>4. h'.kind = z.kind
    <3>1. \A p \in All : h'.kind[p] = IF p = uv THEN "upval" ELSE IF p = o THEN "closure" ELSE h.kind[p]
      BY <1>2, <1>6, <1>t DEF HeapType
    <3>2. \A p \in All : h'.kind[p] = z.kind[p]
      BY <3>1, <2>1, <1>1, <1>4, <1>7
    <3>3. h'.kind \in [All -> Kinds] /\ z.kind \in [All -> Kinds]
      BY <2>1, <1>6 DEF HeapType
    <3> HIDE DEF Kinds
    <3> QED
      BY <3>2, <3>3
  <2>5. h'.open = z.open
    BY <2>1, <1>2, <1>4, <1>6, <1>7 DEF HeapType
  <2>6. h'.stack = z.stack
    BY <2>1, <1>4, <1>6, <1>7
  <2>7. h' = z
    BY <2>1, <2>2, <2>3, <2>4, <2>5, <2>6, <1>6 DEF HeapType
  <2> QED
    BY <2>7 DEF z
<1>9. Inv(x, c, calls, {}) /\ Sound(x, c, uv) /\ x.kind[uv] = "upval"
  BY <1>1, <1>4, <1>5, <1>t, <1>g, UpvalKeeps
<1>10. /\ g' \in CollectorType /\ g'.state = c.state /\ g'.gray = c.gray /\ g'.again = c.again
       /\ g'.weak = c.weak /\ g'.tmu = c.tmu /\ g'.strings = c.strings
       /\ g'.finalized = c.finalized /\ g'.root = c.root \cup {o}
       /\ \A p \in All : g'.mark[p] = IF p = o THEN "white" ELSE c.mark[p]
       /\ g'.tosweep = IF c.tosweep = c.root THEN c.tosweep \cup {o} ELSE c.tosweep
  <2> DEFINE d == link(g, o)
  <2>1. /\ d \in CollectorType /\ d.state = g.state /\ d.gray = g.gray /\ d.again = g.again
        /\ d.weak = g.weak /\ d.tmu = g.tmu /\ d.strings = g.strings
        /\ d.finalized = g.finalized /\ d.root = g.root \cup {o}
        /\ \A p \in All : d.mark[p] = IF p = o THEN "white" ELSE g.mark[p]
        /\ d.tosweep = IF g.tosweep = g.root THEN g.tosweep \cup {o} ELSE g.tosweep
    BY <1>2, <1>t DEF link, LinkAt, makewhite, Paint, AtFront, CollectorType
  <2>2. g' = IF h.kind[uv] = "free" \/ isdead(d, uv) THEN makewhite(d, uv) ELSE d
    BY <1>1
  <2> HIDE DEF d
  <2>3. isdead(d, uv) <=> isdead(g, uv)
    BY <2>1, <1>1, <1>2 DEF isdead
  <2>4. /\ g' \in CollectorType /\ SameLists(d, g') /\ g'.gray = d.gray
        /\ \A p \in All : g'.mark[p] = IF p = uv /\ (h.kind[uv] = "free" \/ isdead(g, uv))
                                       THEN "white" ELSE d.mark[p]
    BY <2>1, <2>2, <2>3, <1>2 DEF makewhite, Paint, CollectorType, SameLists
  <2>5. \A p \in All : g'.mark[p] = IF p = o THEN "white" ELSE c.mark[p]
    BY <2>1, <2>4, <1>1, <1>5
  <2> QED
    BY <2>1, <2>4, <2>5, <1>5 DEF SameLists
<1>11. Inv(y, g', calls, {})
  <2>1. x.kind[o] = "free" /\ x.open[o] = 0 /\ x.key[o] = Nil
    BY <1>1, <1>2, <1>3, <1>4
  <2>2. /\ \A p \in All : p # o => /\ y.kind[p] = x.kind[p] /\ y.key[p] = x.key[p]
                                   /\ y.val[p] = x.val[p] /\ y.open[p] = x.open[p]
        /\ y.kind[o] = "closure" /\ y.key[o] = Nil /\ y.open[o] = 0 /\ y.val[o] = uv
    BY <2>1, <1>2, <1>7
  <2>3. /\ y.kind[o] \in Weaks \cup {"table", "string", "udata", "closure", "upval"}
        /\ y.open[o] # 0 <=> y.kind[o] = "upval"
        /\ g'.root = IF y.kind[o] \in {"string", "upval"} THEN c.root ELSE c.root \cup {o}
    BY <2>2, <1>10
  <2>4. /\ g'.tosweep = c.tosweep \/ (g'.tosweep = c.tosweep \cup {o} /\ c.tosweep # {})
        /\ g'.tosweep \subseteq g'.root
        /\ c.state = "sweepstring" => g'.tosweep = g'.root
    BY <1>9, <1>10 DEF Inv, Fixed, Lists, Phase
  <2>5. Born(x, c, y, g', o)
    BY <2>1, <2>2, <2>3, <2>4, <1>2, <1>7, <1>9, <1>10 DEF Born
  <2>6. c.state \notin AtomicStates
    BY <1>5, <1>g DEF SameLists
  <2> QED
    BY <2>2, <2>5, <2>6, <1>9, <1>t, BornKeeps
<1>12. Entry(y, g', o)
  BY <1>2, <1>7, <1>10 DEF Entry, Sound, Used, isdead
<1>13. Inv(h', g', calls', {})
  <2>1. g'.state \notin AtomicStates
    BY <1>5, <1>10, <1>g DEF SameLists
  <2> QED
    BY <2>1, <1>8, <1>11, <1>12, <1>t, MoveKeeps
<1>14. Frees
  BY <1>1, <1>2, <1>6, <1>t DEF Frees, Used, HeapType
<1> QED
  BY <1>13, <1>14 DEF Keeps

\* luaF_close: what is dead goes, the rest is closed.
LEMMA CloseStepKeeps ==
  ASSUME IInv, NEW level \in Slots, close(level)
  PROVE  Keeps
<1> DEFINE uvs == {o \in Objects : h.open[o] >= level}
           dead == {o \in uvs : isdead(g, o)}
           kept == uvs \ dead
           x == Freed(h, dead)
           c == Forgotten(g, dead)
           y == [x EXCEPT !.val  = [o \in All |-> IF o \in kept THEN h.stack[h.open[o]] ELSE @[o]],
                          !.open = [o \in All |-> IF o \in kept THEN 0 ELSE @[o]]]
<1>t. Inv(h, g, calls, {}) /\ h \in HeapType /\ g \in CollectorType /\ calls' = calls
  BY DEF IInv, Inv, Types, close
<1>g. g.state \notin AtomicStates
  BY DEF close, Running
<1>1. h' = y /\ g' = linkupvals(y, c, kept)
  BY DEF close
<1>2. /\ \A o \in uvs : o \in All /\ h.open[o] # 0 /\ h.open[o] \in Slots /\ Used(h, o)
      /\ dead \in SUBSET All /\ kept \in SUBSET All /\ dead \cap kept = {}
      /\ \A o \in dead : o \in uvs /\ isdead(g, o)
      /\ \A o \in kept : o \in uvs /\ ~isdead(g, o)
  <2>1. \A o \in uvs : o \in All /\ h.open[o] # 0
    BY ConstantsAssumption DEF All
  <2>2. \A o \in uvs : h.open[o] \in Slots /\ Used(h, o)
    BY <2>1, <1>t DEF Inv, Shape, HeapType, Used
  <2> QED
    BY <2>1, <2>2
<1>3. /\ x \in HeapType /\ x.stack = h.stack
      /\ \A p \in All : /\ x.kind[p] = IF p \in dead THEN "free" ELSE h.kind[p]
                        /\ x.open[p] = IF p \in dead THEN 0 ELSE h.open[p]
  BY <1>t DEF Freed, HeapType, Kinds
<1>4. /\ c \in CollectorType /\ c.state = g.state /\ c.gray = g.gray /\ c.again = g.again
      /\ c.weak = g.weak /\ c.root = g.root /\ c.tmu = g.tmu /\ c.tosweep = g.tosweep
      /\ c.strings = g.strings /\ c.finalized = g.finalized \ dead
      /\ \A p \in All : c.mark[p] = IF p \in dead THEN "white" ELSE g.mark[p]
  BY <1>t DEF Forgotten, CollectorType
<1> HIDE DEF uvs, dead, kept, c
<1>5. Inv(x, c, calls, {})
  <2>1. CASE g.state \in Marking
    <3>1. dead = {}
      BY <2>1, <1>2, <1>t DEF Inv, Colors
    <3>2. x = h
      BY <3>1, <1>t DEF x, Freed, HeapType
    <3>3. c = g
      BY <3>1, <1>t DEF c, Forgotten, CollectorType
    <3> QED
      BY <3>2, <3>3, <1>t
  <2>2. CASE g.state \notin Marking
    <3>1. \A o \in dead : Used(h, o) /\ isdead(g, o)
      BY <1>2
    <3>2. dead \cap g.root = {} /\ dead \cap g.strings = {}
      BY <1>2, <1>t DEF Inv, Lists, Shape
    <3>3. Phase(c)
      BY <1>4, <1>t DEF Inv, Phase
    <3>4. /\ c.root = g.root \ dead /\ c.tosweep \subseteq c.root
          /\ c.strings \subseteq g.strings \ dead
      BY <3>2, <1>4, <1>t DEF Inv, Lists
    <3>5. \A p \in All \ dead : Used(h, p) =>
            \/ c.mark[p] = "white"
            \/ p \in c.tosweep \/ p \in c.strings \/ p \in c.tmu
            \/ h.open[p] # 0 /\ MainThread \in c.tosweep
      BY <2>2, <1>4, <1>t DEF Inv, Colors
    <3> QED
      BY <2>2, <3>1, <3>3, <3>4, <3>5, <1>2, <1>4, <1>t, FreeKeeps
  <2> QED
    BY <2>1, <2>2
<1> HIDE DEF x
<1>6. /\ y \in HeapType /\ y.kind = x.kind /\ y.key = x.key /\ y.stack = x.stack
      /\ \A p \in All : /\ y.val[p] = IF p \in kept THEN x.stack[x.open[p]] ELSE x.val[p]
                        /\ y.open[p] = IF p \in kept THEN 0 ELSE x.open[p]
  <2> DEFINE v == [o \in All |-> IF o \in kept THEN h.stack[h.open[o]] ELSE x.val[o]]
             op == [o \in All |-> IF o \in kept THEN 0 ELSE x.open[o]]
  <2>1. v \in [All -> All \cup {Nil}]
    BY <1>2, <1>3, <1>t DEF HeapType
  <2>2. op \in [All -> Slots \cup {0}]
    BY <1>3 DEF HeapType
  <2>3. \A p \in kept : x.open[p] = h.open[p]
    BY <1>2, <1>3
  <2>4. y = [x EXCEPT !.val = v, !.open = op]
    BY <1>3 DEF HeapType
  <2>5. /\ \A p \in All : v[p] = IF p \in kept THEN x.stack[x.open[p]] ELSE x.val[p]
        /\ \A p \in All : op[p] = IF p \in kept THEN 0 ELSE x.open[p]
    BY <2>3, <1>3
  <2> HIDE DEF v, op, y
  <2>6. y \in HeapType /\ y.kind = x.kind /\ y.key = x.key /\ y.stack = x.stack
        /\ y.val = v /\ y.open = op
    BY <2>1, <2>2, <2>4, <1>3 DEF HeapType
  <2> QED
    BY <2>5, <2>6
<1> HIDE DEF y
<1>7. Inv(h', g', calls', {})
  <2>1. \A o \in kept : x.open[o] # 0 /\ ~isdead(c, o)
    BY <1>2, <1>3, <1>4 DEF isdead
  <2> QED
    BY <2>1, <1>1, <1>2, <1>4, <1>5, <1>6, <1>t, <1>g, CloseKeeps
<1>8. Frees
  BY <1>1, <1>2, <1>3, <1>6 DEF Frees, Used
<1> QED
  BY <1>7, <1>8 DEF Keeps

\* Moves on the stack, also of what an object holds that the code can get at.
LEMMA LoadKeeps ==
  ASSUME IInv, NEW s \in Slots, Move(Nil, s) \/ Load(s)
  PROVE  Keeps
<1>t. Inv(h, g, calls, {}) /\ h \in HeapType
  BY DEF IInv, Inv, Types
<1>1. PICK v : Move(v, s) /\ Entry(h, g, v)
  <2>1. CASE Move(Nil, s)
    BY <2>1 DEF Entry
  <2>2. CASE Load(s)
    <3>1. PICK o \in Reached : \/ o \in Tables(h) /\ Move(h.val[o], s)
                               \/ h.kind[o] = "closure" /\ Move(Value(h, h.val[o]), s)
                               \/ Move(h.key[o], s)
      BY <2>2 DEF Load
    <3>2. Sound(h, g, o) /\ o \in All
      BY ReachedSound
    <3>3. /\ Entry(h, g, h.key[o])
          /\ h.kind[o] = "closure" => Sound(h, g, h.val[o]) /\ h.kind[h.val[o]] = "upval"
          /\ h.kind[o] # "closure" => Entry(h, g, h.val[o])
      BY <3>2, <1>t DEF Inv, Refs
    <3>4. o \in Tables(h) => h.kind[o] # "closure"
      BY DEF Tables
    <3>5. h.kind[o] = "closure" => Entry(h, g, Value(h, h.val[o]))
      <4> SUFFICES ASSUME h.kind[o] = "closure"
                   PROVE  Entry(h, g, Value(h, h.val[o]))
        OBVIOUS
      <4>1. Sound(h, g, h.val[o]) /\ h.val[o] \in All /\ h.kind[h.val[o]] # "closure"
        BY <3>3 DEF Sound
      <4>2. h.open[h.val[o]] # 0 => h.open[h.val[o]] \in Slots
        BY <4>1, <1>t DEF HeapType
      <4> QED
        BY <4>1, <4>2, <1>t DEF Inv, Refs, Value
    <3> QED
      BY <3>1, <3>3, <3>4, <3>5
  <2> QED
    BY <2>1, <2>2
<1>2. /\ g.state \notin AtomicStates /\ h' = [h EXCEPT !.stack[s] = v] /\ g' = g /\ calls' = calls
  BY <1>1 DEF Move, Running
<1>3. Inv(h', g', calls', {})
  BY <1>1, <1>2, <1>t, MoveKeeps
<1>4. h'.kind = h.kind
  BY <1>2, <1>t DEF HeapType
<1> QED
  BY <1>3, <1>4 DEF Keeps, Frees, Used

\* A table is set: the barriers for the key and the value, then the write.
LEMMA SetTableKeeps ==
  ASSUME IInv, NEW s \in Slots, NEW o \in Reached, NEW k \in Stacked \cup {Nil},
         SetTable(o, k, h.stack[s])
  PROVE  Keeps
<1> DEFINE v == h.stack[s]
           c == IF v = Nil THEN g ELSE barrierback(g, o, k)
           kk == IF v = Nil THEN h.key[o] ELSE k
<1>t. Inv(h, g, calls, {}) /\ h \in HeapType /\ g \in CollectorType /\ calls' = calls
  BY DEF IInv, Inv, Types, SetTable
<1>g. g.state \notin AtomicStates /\ o \in Tables(h) /\ (h.kind[o] = "table" => k = Nil)
  BY DEF SetTable, Running
<1>1. h' = [h EXCEPT !.key[o] = kk, !.val[o] = v] /\ g' = barrierback(c, o, v)
  BY <1>t DEF SetTable, HeapType
<1>2. Entry(h, g, v) /\ Entry(h, g, k) /\ Sound(h, g, o) /\ o \in All
  BY ReachedSound DEF Stacked
<1>3. Entry(h, g, kk) /\ (h.kind[o] \notin Weaks => kk = Nil)
  <2>1. Entry(h, g, h.key[o]) /\ (h.kind[o] \notin Weaks => h.key[o] = Nil)
    BY <1>2, <1>t DEF Inv, Refs, Shape
  <2>2. h.kind[o] \notin Weaks => k = Nil
    BY <1>g DEF Tables, Weaks
  <2> QED
    BY <2>1, <2>2, <1>2
<1>4. v \in All \cup {Nil} /\ k \in All \cup {Nil}
  BY <1>2 DEF Entry, Sound
<1>k. h.kind[o] \in {"table", "weakvalue", "weakkey"} /\ h.open[o] = 0
  BY <1>g, <1>2, <1>t DEF Tables, Inv, Shape
<1>5. /\ Inv(h, c, calls, {}) /\ c.state = g.state
      /\ \A p \in All : isdead(c, p) <=> isdead(g, p)
  BY <1>4, <1>g, <1>t, BackKeeps
<1> HIDE DEF c, v, kk
<1>6. /\ Inv(h, g', calls, {}) /\ g'.state = g.state
      /\ \A p \in All : isdead(g', p) <=> isdead(c, p)
      /\ g'.mark[o] = "black" => Dark(g', v)
  BY <1>1, <1>4, <1>5, <1>g, BackKeeps
<1>7. Entry(h, g', v) /\ Entry(h, g', kk)
  BY <1>2, <1>3, <1>5, <1>6 DEF Entry, Sound
<1>8. kk \in All \cup {Nil}
  BY <1>3 DEF Entry, Sound
<1>9. /\ h' \in HeapType /\ h'.kind = h.kind /\ h'.open = h.open /\ h'.stack = h.stack
      /\ \A p \in All : /\ h'.key[p] = IF p = o THEN kk ELSE h.key[p]
                        /\ h'.val[p] = IF p = o THEN v ELSE h.val[p]
  BY <1>1, <1>2, <1>4, <1>8, <1>t DEF HeapType
<1>10. Inv(h', g', calls', {})
  <2>1. g'.state \notin AtomicStates /\ h.kind[o] \in {"table", "weakvalue", "weakkey", "upval"}
    BY <1>6, <1>g, <1>k
  <2> QED
    BY <2>1, <1>2, <1>3, <1>6, <1>7, <1>9, <1>k, <1>t, WriteKeeps
<1> QED
  BY <1>9, <1>10 DEF Keeps, Frees, Used

\* A closure assigns to its upvalue, which is in the stack or closed.
LEMMA SetUpvalueKeeps ==
  ASSUME IInv, NEW s \in Slots, NEW o \in Reached, SetUpvalue(o, h.stack[s])
  PROVE  Keeps
<1> DEFINE v == h.stack[s]
           uv == h.val[o]
<1>t. Inv(h, g, calls, {}) /\ h \in HeapType /\ g \in CollectorType /\ calls' = calls
  BY DEF IInv, Inv, Types, SetUpvalue
<1>g. g.state \notin AtomicStates /\ h.kind[o] = "closure"
  BY DEF SetUpvalue, Running
<1>1. /\ h' = IF h.open[uv] # 0 THEN [h EXCEPT !.stack[h.open[uv]] = v] ELSE [h EXCEPT !.val[uv] = v]
      /\ g' = barrierf(h, g, uv, v)
  BY DEF SetUpvalue
<1>2. Entry(h, g, v) /\ Sound(h, g, o) /\ o \in All
  BY ReachedSound DEF Stacked
<1>3. Sound(h, g, uv) /\ h.kind[uv] = "upval" /\ uv \in All
  BY <1>2, <1>g, <1>t DEF Inv, Refs, Sound
<1> HIDE DEF v, uv
<1>4. /\ Inv(h, g', calls, {}) /\ g'.state = g.state
      /\ \A p \in All : isdead(g', p) => isdead(g, p)
      /\ g'.mark[uv] = "black" => Dark(g', v)
  BY <1>1, <1>2, <1>3, <1>g, <1>t, ForwardKeeps
<1>5. Entry(h, g', v) /\ Entry(h, g', Nil) /\ v \in All \cup {Nil}
  BY <1>2, <1>4 DEF Entry, Sound
<1>6. g'.state \notin AtomicStates
  BY <1>4, <1>g
<1>7. h'.kind = h.kind
  BY <1>1, <1>t DEF HeapType
<1>8. Inv(h', g', calls', {})
  <2>1. CASE h.open[uv] # 0
    <3>1. h.open[uv] \in Slots
      BY <2>1, <1>3, <1>t DEF HeapType
    <3>2. h' = [h EXCEPT !.stack[h.open[uv]] = v]
      BY <2>1, <1>1
    <3> QED
      BY <3>1, <3>2, <1>4, <1>5, <1>6, <1>t, MoveKeeps
  <2>2. CASE h.open[uv] = 0
    <3>1. h.key[uv] = Nil
      BY <1>3, <1>t DEF Inv, Shape, Weaks
    <3>2. /\ h' \in HeapType /\ h'.kind = h.kind /\ h'.open = h.open /\ h'.stack = h.stack
          /\ \A p \in All : /\ h'.key[p] = IF p = uv THEN Nil ELSE h.key[p]
                            /\ h'.val[p] = IF p = uv THEN v ELSE h.val[p]
      BY <2>2, <3>1, <1>1, <1>3, <1>5, <1>t DEF HeapType
    <3>3. h.kind[uv] \in {"table", "weakvalue", "weakkey", "upval"}
      BY <1>3
    <3> QED
      BY <2>2, <3>2, <3>3, <1>3, <1>4, <1>5, <1>6, <1>t, WriteKeeps
  <2> QED
    BY <2>1, <2>2
<1> QED
  BY <1>7, <1>8 DEF Keeps, Frees, Used

\* Every step keeps the invariant, and frees only what is dead.
LEMMA NextKeeps ==
  ASSUME IInv, [Next]_vars
  PROVE  IInv' /\ Frees
<1>1. CASE UNCHANGED vars
  BY <1>1 DEF vars, IInv, Frees
<1>2. CASE Next
  <2>1. kinds' = kinds /\ kinds' \in KindSets
    BY <1>2 DEF Next, IInv
  <2>2. full' \in {"no", "finish", "mark"}
    <3>1. full' \in {full, "no", "finish", "mark"}
      BY <1>2 DEF Next, GCStep, Code, Mark, Propagate, RemarkUpvalues, MarkWeak, MarkAgain, MarkUdata,
                  AtomicStep, AtomicEnd, SweepStrings, SweepList, Finalize, Pause, FullMark, FullGC,
                  New, newudata, newlstr, newclosure, close, Load, Move, SetTable, SetUpvalue
    <3> QED
      BY <3>1 DEF IInv
  <2>3. Keeps
    <3>1. CASE GCStep
      BY <3>1, GCStepKeeps
    <3>2. CASE FullGC
      BY <3>2, FullGCKeeps
    <3>3. CASE Code
      <4>1. PICK s \in Slots :
               \/ \E k \in kinds : New(k, s)
               \/ newudata(s)
               \/ newlstr(s)
               \/ \E level \in Slots : newclosure(level, s)
               \/ close(s)
               \/ Move(Nil, s)
               \/ Load(s)
               \/ \E o \in Reached, k \in Stacked \cup {Nil} : SetTable(o, k, h.stack[s])
               \/ \E o \in Reached : SetUpvalue(o, h.stack[s])
        BY <3>3 DEF Code
      <4> QED
        BY <4>1, NewKeeps, StringKeeps, ClosureKeeps, CloseStepKeeps, LoadKeeps, SetTableKeeps,
           SetUpvalueKeeps
    <3> QED
      BY <1>2, <3>1, <3>2, <3>3 DEF Next
  <2> QED
    BY <2>1, <2>2, <2>3 DEF Keeps, IInv
<1> QED
  BY <1>1, <1>2

-----------------------------------------------------------------------------
(***************************************************************************)
(* The results.                                                            *)
(***************************************************************************)
LEMMA InitInv ==
  ASSUME Init
  PROVE  IInv
<1>1. kinds \in KindSets /\ full = "no"
  BY DEF Init
<1>2. /\ h \in HeapType
      /\ \A o \in All : /\ h.kind[o] = CASE o = MainThread -> "thread"
                                         [] o = Globals -> "table"
                                         [] OTHER -> "free"
                        /\ h.key[o] = Nil /\ h.val[o] = Nil /\ h.open[o] = 0
      /\ \A s \in Slots : h.stack[s] = Nil
  BY DEF Init, HeapType, Kinds
<1>3. /\ g \in CollectorType /\ g.state = "pause" /\ g.gray = {} /\ g.again = {} /\ g.weak = {}
      /\ g.root = {Globals, MainThread} /\ g.tmu = {} /\ g.tosweep = {} /\ g.strings = {}
      /\ g.finalized = {} /\ \A o \in All : g.mark[o] = "white"
  BY DEF Init, CollectorType, All
<1>4. calls \in [Objects -> 0..1] /\ \A o \in Objects : calls[o] = 0
  BY DEF Init
<1>5. /\ MainThread # Globals /\ MainThread \in All /\ Globals \in All
      /\ \A o \in Objects : o \in All /\ o # MainThread /\ o # Globals
  BY ConstantsAssumption DEF All
<1>6. \A o \in All : ~isdead(g, o)
  BY <1>3 DEF isdead
<1>7. Types(h, g, calls) /\ Fixed(h, g) /\ Shape(h) /\ Phase(g)
  BY <1>2, <1>3, <1>4, <1>5, <1>6 DEF Types, Fixed, Shape, Phase, Marking, AtomicStates
<1>8. Refs(h, g)
  BY <1>2 DEF Refs, Entry
<1>9. Lists(h, g)
  BY <1>2, <1>3, <1>5 DEF Lists, Used
<1>10. Colors(h, g)
  BY <1>2, <1>3, <1>6 DEF Colors
<1>11. Tri(h, g, {}) /\ Finals(h, g, calls)
  BY <1>3, <1>4, <1>5, <1>6 DEF Tri, Marking, AtomicStates, Finals, MarkedUdata
<1> QED
  BY <1>1, <1>7, <1>8, <1>9, <1>10, <1>11 DEF IInv, Inv

\* The inductive invariant of the collector holds in every reachable state.
THEOREM Invariant == Spec => []IInv
<1>1. Init => IInv
  BY InitInv
<1>2. IInv /\ [Next]_vars => IInv'
  BY NextKeeps
<1> QED
  BY <1>1, <1>2, PTL DEF Spec

\* What is in use is sound: the sound objects hold the main thread, the globals
\* and whatever they refer to.
LEMMA LiveSound ==
  ASSUME IInv
  PROVE  \A o \in Live : o \in All /\ Sound(h, g, o)
<1> DEFINE os == {o \in Objects : Sound(h, g, o)}
<1>t. Inv(h, g, calls, {}) /\ h \in HeapType
  BY DEF IInv, Inv, Types
<1>1. Sound(h, g, MainThread) /\ Sound(h, g, Globals)
  BY <1>t DEF Inv, Fixed, Sound, Used, All
<1>2. \A o : o \in os \cup {MainThread, Globals} <=> Sound(h, g, o)
  BY <1>1 DEF Sound, All
<1> HIDE DEF os
<1>3. ASSUME NEW o, Sound(h, g, o), NEW p \in Strong(o) \ {Nil}
      PROVE  Sound(h, g, p)
  <2>o. o \in All /\ h.kind[o] \in Kinds /\ h.kind[o] # "free"
    BY <1>3, <1>t DEF Sound, Used, HeapType
  <2>1. /\ Entry(h, g, h.key[o])
        /\ h.kind[o] = "closure" => Sound(h, g, h.val[o])
        /\ h.kind[o] # "closure" => Entry(h, g, h.val[o])
        /\ \A s \in Slots : Entry(h, g, h.stack[s])
    BY <1>3, <2>o, <1>t DEF Inv, Refs
  <2>2. h.open[o] # 0 => h.open[o] \in Slots /\ h.kind[o] = "upval"
    BY <2>o, <1>t DEF HeapType, Inv, Shape
  <2>3. CASE h.kind[o] = "thread"
    <3>1. p \in Stacked \/ p = Globals
      BY <1>3, <2>3 DEF Strong
    <3> QED
      BY <3>1, <2>1, <1>1, <1>3 DEF Stacked, Entry
  <2>4. CASE h.kind[o] \in {"table", "weakkey"}
    <3>1. p = h.val[o]
      BY <1>3, <2>4 DEF Strong
    <3> QED
      BY <3>1, <2>1, <2>4, <1>3 DEF Entry
  <2>5. CASE h.kind[o] = "weakvalue"
    <3>1. p = h.key[o]
      BY <1>3, <2>5 DEF Strong
    <3> QED
      BY <3>1, <2>1, <1>3 DEF Entry
  <2>6. CASE h.kind[o] \in {"upval", "closure", "udata"}
    <3>1. p = Value(h, o)
      BY <1>3, <2>6 DEF Strong
    <3> QED
      BY <3>1, <2>1, <2>2, <1>3 DEF Value, Entry
  <2>7. CASE h.kind[o] = "string"
    BY <1>3, <2>7 DEF Strong
  <2> QED
    BY <2>3, <2>4, <2>5, <2>6, <2>7, <2>o DEF Kinds
<1>4. Closed(os)
  BY <1>2, <1>3 DEF Closed
<1>5. ASSUME NEW o \in Live, ~Sound(h, g, o)
      PROVE  FALSE
  <2>1. o \in Objects /\ \A ps \in SUBSET (Objects \ {o}) : ~Closed(ps)
    BY <1>1, <1>5 DEF Live
  <2>2. os \in SUBSET (Objects \ {o})
    BY <1>5 DEF os
  <2> QED
    BY <2>1, <2>2, <1>4
<1> QED
  BY <1>5 DEF Sound

\* Nothing in use has been freed, whatever the code did between two steps of
\* the collector, and no black object hides a white one while marking goes on.
LEMMA InvSound ==
  ASSUME IInv
  PROVE  HeapSound
<1>t. Inv(h, g, calls, {}) /\ h \in HeapType /\ g \in CollectorType
  BY DEF IInv, Inv, Types
<1>1. TypeOK
  BY DEF TypeOK, IInv, Inv, Types
<1>2. NoDangling
  <2> SUFFICES ASSUME NEW o \in Live
               PROVE  /\ h.kind[o] # "free"
                      /\ h.val[o] # Nil => /\ h.kind[h.val[o]] # "free"
                                           /\ h.key[o] # Nil => h.kind[h.key[o]] # "free"
    BY DEF NoDangling
  <2>1. o \in All /\ Sound(h, g, o)
    BY LiveSound
  <2>2. /\ Entry(h, g, h.key[o])
        /\ h.kind[o] = "closure" => Sound(h, g, h.val[o])
        /\ h.kind[o] # "closure" => Entry(h, g, h.val[o])
    BY <2>1, <1>t DEF Inv, Refs
  <2> QED
    BY <2>1, <2>2 DEF Entry, Sound, Used
<1>3. NoBlackToWhite
  <2> SUFFICES ASSUME g.state = "propagate", NEW o \in All, h.kind[o] # "free", g.mark[o] = "black",
                      NEW p \in Strong(o) \ {Nil}
               PROVE  ~iswhite(g, p)
    BY DEF NoBlackToWhite
  <2>1. h.open[o] = 0
    BY <1>t DEF Inv, Colors, Used
  <2>2. h.kind[o] # "string"
    BY DEF Strong
  <2>3. Settled(h, g, o) /\ ~iswhite(g, Globals)
    BY <2>1, <2>2, <1>t DEF Inv, Tri, Used, Marking, iswhite
  <2>4. ~Pending(g, o) /\ h.kind[o] \notin Weaks
    BY <2>3, <1>t DEF Pending, Settled, Inv, Lists
  <2>5. Traced(h, g, o)
    BY <2>3, <2>4 DEF Settled
  <2>6. h.kind[o] \in Kinds
    BY <1>t DEF HeapType
  <2>7. CASE h.kind[o] = "thread"
    <3>1. p \in Stacked \/ p = Globals
      BY <2>7 DEF Strong
    <3> QED
      BY <3>1, <2>3, <2>5, <2>7 DEF Stacked, Traced, Dark
  <2>8. CASE h.kind[o] \in {"table", "upval", "closure", "udata"}
    <3>1. p = h.val[o]
      BY <2>1, <2>8 DEF Strong, Value
    <3> QED
      BY <3>1, <2>5, <2>8 DEF Traced, Dark
  <2> QED
    BY <2>2, <2>4, <2>6, <2>7, <2>8 DEF Kinds, Weaks
<1> QED
  BY <1>1, <1>2, <1>3 DEF HeapSound

\* The heap is sound between any two steps of lgc.c.
THEOREM HeapIsSound == Spec => []HeapSound
<1>1. IInv => HeapSound
  BY InvSound
<1> QED
  BY <1>1, Invariant, PTL

\* A userdata is freed only after its finalizer was called, and that is called
\* once (GCTM and the sweep of lgc.c).
THEOREM FinalizersCalledOnce == Spec => FinalizedOnce
<1>1. ASSUME IInv, [Next]_vars
      PROVE  \A o \in Objects :
               /\ calls'[o] <= 1
               /\ h.kind[o] = "udata" /\ h'.kind[o] = "free" => calls[o] = 1
  <2>1. IInv' /\ Frees
    BY <1>1, NextKeeps
  <2>2. calls' \in [Objects -> 0..1]
    BY <2>1 DEF IInv, Inv, Types
  <2>3. ASSUME NEW o \in Objects, h.kind[o] = "udata", h'.kind[o] = "free"
        PROVE  calls[o] = 1
    <3>1. isdead(g, o)
      BY <2>1, <2>3 DEF Frees, Used, All
    <3>2. o \in g.finalized /\ o \notin g.tmu
      BY <1>1, <2>3, <3>1 DEF IInv, Inv, Finals, Colors
    <3> QED
      BY <1>1, <3>2 DEF IInv, Inv, Finals
  <2> QED
    BY <2>2, <2>3
<1> QED
  BY <1>1, Invariant, PTL DEF FinalizedOnce, Spec
=============================================================================
