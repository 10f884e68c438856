----------------------------- MODULE Api_proofs -----------------------------
(***************************************************************************)
(* The C interface implements ApiSpec, for frames of any number of slots,  *)
(* any values left in them, any tables and any indices.                    *)
(***************************************************************************)
EXTENDS Api, SequenceTheorems, TLAPS

-----------------------------------------------------------------------------
(***************************************************************************)
(* The window of the first t slots as a sequence.                          *)
(***************************************************************************)

\* Its length and its elements.
LEMMA Window ==
  ASSUME NEW S, NEW n \in Nat, NEW m \in [1..n -> S], NEW t \in 0..n
  PROVE  /\ SubSeq(m, 1, t) \in Seq(S)
         /\ Len(SubSeq(m, 1, t)) = t
         /\ \A j \in 1..t : SubSeq(m, 1, t)[j] = m[j]
<1>1. m \in Seq(S) /\ Len(m) = n
  BY IsASeq, LenProperties
<1>2. 1 \in 1..(Len(m) + 1) /\ t \in (1 - 1)..Len(m)
  BY <1>1
<1>3. QED
  BY <1>1, <1>2, SubSeqProperties

\* m2 is m after the k last of t values have been popped and those of q pushed.
Moves(m, m2, n, t, k, q, S) ==
  /\ n \in Nat /\ m \in [1..n -> S] /\ m2 \in [1..n -> S]
  /\ t \in 0..n /\ k \in 0..t /\ q \in Seq(S) /\ t - k + Len(q) <= n
  /\ \A j \in 1..(t - k) : m2[j] = m[j]
  /\ \A j \in 1..Len(q) : m2[t - k + j] = q[j]

\* The same of the sequences that the windows are.
Moved(m, m2, t, k, q) ==
  SubSeq(m2, 1, t - k + Len(q)) = SubSeq(SubSeq(m, 1, t), 1, t - k) \o q

LEMMA SequenceMoves ==
  ASSUME NEW m, NEW m2, NEW n, NEW t, NEW k, NEW q, NEW S, Moves(m, m2, n, t, k, q, S)
  PROVE  Moved(m, m2, t, k, q)
<1> DEFINE w == SubSeq(m, 1, t)
           p == SubSeq(w, 1, t - k)
           b == SubSeq(m2, 1, t - k + Len(q))
<1>1. /\ n \in Nat /\ m \in [1..n -> S] /\ m2 \in [1..n -> S]
      /\ t \in 0..n /\ k \in 0..t /\ q \in Seq(S) /\ t - k + Len(q) <= n
      /\ \A j \in 1..(t - k) : m2[j] = m[j]
      /\ \A j \in 1..Len(q) : m2[t - k + j] = q[j]
  BY DEF Moves
<1>2. Len(q) \in Nat
  BY <1>1, LenProperties
<1>3. t \in Nat /\ t - k \in 0..t /\ t - k + Len(q) \in 0..n
  BY <1>1, <1>2
<1>4. w \in Seq(S) /\ Len(w) = t /\ \A j \in 1..t : w[j] = m[j]
  BY <1>1, Window
<1>5. /\ b \in Seq(S) /\ Len(b) = t - k + Len(q)
      /\ \A j \in 1..(t - k + Len(q)) : b[j] = m2[j]
  BY <1>1, <1>3, Window
<1> HIDE DEF w, b
<1>6. w \in [1..Len(w) -> S]
  BY <1>4, LenProperties
<1>7. w \in [1..t -> S]
  BY <1>4, <1>6
<1>8. p \in Seq(S) /\ Len(p) = t - k /\ \A j \in 1..(t - k) : p[j] = w[j]
  BY <1>3, <1>7, Window
<1> HIDE DEF p
<1>9. /\ p \o q \in Seq(S) /\ Len(p \o q) = Len(p) + Len(q)
      /\ \A j \in 1..(Len(p) + Len(q)) : (p \o q)[j] = IF j <= Len(p) THEN p[j] ELSE q[j - Len(p)]
  BY <1>1, <1>8, ConcatProperties
<1>10. /\ p \o q \in Seq(S) /\ Len(p \o q) = t - k + Len(q)
       /\ \A j \in 1..(t - k + Len(q)) : (p \o q)[j] = IF j <= t - k THEN p[j] ELSE q[j - (t - k)]
  BY <1>8, <1>9
<1>11. ASSUME NEW j \in 1..(t - k + Len(q)) PROVE b[j] = (p \o q)[j]
  <2>1. CASE j <= t - k
    <3>1. j \in 1..(t - k) /\ j \in 1..t
      BY <2>1, <1>1, <1>2
    <3>2. m2[j] = m[j] /\ p[j] = w[j] /\ w[j] = m[j] /\ b[j] = m2[j]
      BY <3>1, <1>1, <1>4, <1>5, <1>8
    <3>3. (p \o q)[j] = p[j]
      BY <2>1, <1>10
    <3>4. QED
      BY <3>2, <3>3
  <2>2. CASE ~(j <= t - k)
    <3>1. j - (t - k) \in 1..Len(q) /\ t - k + (j - (t - k)) = j
      BY <2>2, <1>1, <1>2
    <3>2. m2[j] = q[j - (t - k)]
      BY <3>1, <1>1
    <3>3. (p \o q)[j] = q[j - (t - k)]
      BY <2>2, <1>10
    <3>4. QED
      BY <3>2, <3>3, <1>5
  <2>3. QED
    BY <2>1, <2>2
<1>12. b = p \o q
  BY <1>5, <1>10, <1>11, SeqEqual
<1>13. QED
  BY <1>12 DEF b, p, w, Moved

-----------------------------------------------------------------------------
(***************************************************************************)
(* The invariant: what is in a slot, an upvalue, a field or one of the     *)
(* other places is nil, a number, a string, garbage that was in the slots  *)
(* or an object that exists; environments and metatables are tables or nil.*)
(***************************************************************************)
Objects == (Tables \cap heap) \cup {"nil"}

Inv ==
  /\ TypeOK
  /\ frame \in Frames
  /\ heap \subseteq Tables \cup {Fun, New} /\ Fun \in heap
  /\ ups \in [{Fun, New} -> Seq(Values)]
  /\ env \in [{Fun, New} -> Objects]
  /\ pseudo \in [{"reg", "gt"} -> Values]
  /\ meta \in [Tables -> Objects]
  /\ tab \in [Tables -> [Keys -> Values]]

\* What is assumed of the frame there is.
LEMMA FrameFacts ==
  ASSUME frame \in Frames
  PROVE  /\ Slots \in Nat /\ MaxUp \in Int /\ Made \subseteq Tables
         /\ Initial \cap (Tables \cup {Fun, New, "none"}) = {}
         /\ Literals \subseteq {"nil", "num", "str"}
         /\ Upvalues \in Seq({"nil", "num", "str"})
         /\ Pseudo \subseteq Int /\ \A p \in Pseudo : p <= -10
  BY FramesAssumed DEF FramesAssumption, Slots, MaxUp, Made, Initial, Literals, Upvalues, Pseudo

\* Values are kept apart from "none", and those that are objects exist.
LEMMA ValueFacts ==
  ASSUME Inv
  PROVE  /\ {"nil", "num", "str"} \subseteq Values /\ "none" \notin Values
         /\ \A v \in Values : v \in Tables => v \in heap /\ v \in Objects
         /\ \A v \in Values : v \in {Fun, New} <=> IsFunction(v)
         /\ Objects \subseteq Values
         /\ "num" \notin Objects /\ "str" \notin Objects
  BY FrameFacts, FramesAssumed DEF Inv, FramesAssumption, Values, Objects, IsFunction

\* An index the interface accepts is one of four kinds of number.
LEMMA IndexFacts ==
  ASSUME Inv, NEW i \in Indices
  PROVE  /\ i \in Int /\ i # 0
         /\ i > 0 => i \in 1..Slots
         /\ -Slots <= i \/ i <= -10
  BY FrameFacts DEF Inv, Indices

\* The address of an index in the frame, and what is found there.
LEMMA AddressFacts ==
  ASSUME Inv, NEW i \in Indices, Acceptable(i)
  PROVE  LET a == index2adr(i)
         IN  /\ i > 0 /\ i <= top => a = Slot(i)
             /\ i > top => a = NilObject
             /\ i < 0 /\ i > -10 => a = Slot(top + 1 + i) /\ top + 1 + i \in 1..top
             /\ i = -10 => a = [k |-> "reg", j |-> 0]
             /\ i = -11 => a = [k |-> "env", j |-> 0]
             /\ i = -12 => a = [k |-> "gt", j |-> 0]
             /\ i < -12 /\ -12 - i <= Len(ups[Fun]) =>
                  a = [k |-> "up", j |-> -12 - i] /\ -12 - i \in 1..Len(ups[Fun])
             /\ i < -12 /\ ~(-12 - i <= Len(ups[Fun])) => a = NilObject
<1>1. top \in Nat /\ i \in Int /\ i # 0
  BY IndexFacts DEF Inv, TypeOK
<1>2. Len(ups[Fun]) \in Nat
  BY LenProperties DEF Inv
<1>3. QED
  BY <1>1, <1>2 DEF index2adr, Acceptable, LUA_REGISTRYINDEX, LUA_ENVIRONINDEX, LUA_GLOBALSINDEX

\* The stack the slots stand for.
Stack == SubSeq(mem, 1, top)

LEMMA StackFacts ==
  ASSUME Inv
  PROVE  /\ top \in Nat /\ top \in 0..Slots /\ Slots \in Nat
         /\ mem \in [1..Slots -> Values]
         /\ Stack \in Seq(Values) /\ Len(Stack) = top
         /\ \A j \in 1..top : Stack[j] = mem[j] /\ j \in 1..Slots /\ mem[j] \in Values
<1>1. top \in 0..Slots /\ mem \in [1..Slots -> Values] /\ Slots \in Nat
  BY FrameFacts DEF Inv, TypeOK
<1>2. /\ Stack \in Seq(Values) /\ Len(Stack) = top
      /\ \A j \in 1..top : Stack[j] = mem[j]
  BY <1>1, Window DEF Stack
<1>3. QED
  BY <1>1, <1>2

\* What an index names is found at its address, and it is a value.
LEMMA NamedFacts ==
  ASSUME Inv, NEW i \in Indices, Acceptable(i)
  PROVE  /\ At(index2adr(i)) \in Values
         /\ index2adr(i) = NilObject => At(index2adr(i)) = "nil"
         /\ Promised!Named(i) = IF index2adr(i) = NilObject THEN "none" ELSE At(index2adr(i))
<1> DEFINE a == index2adr(i)
<1>1. i \in Int /\ i # 0 /\ (i > 0 => i \in 1..Slots)
  BY IndexFacts
<1>2. /\ Promised!Top = top /\ top \in Nat
      /\ Promised!REG = -10 /\ Promised!ENV = -11 /\ Promised!GLOB = -12
  BY StackFacts DEF Promised!Top, Stack, Promised!REG, Promised!ENV, Promised!GLOB
<1>3. CASE i > 0 /\ i <= top
  <2>1. a = Slot(i) /\ i \in 1..top
    BY <1>1, <1>3, AddressFacts, StackFacts
  <2>2. Promised!Named(i) = Stack[i]
    BY <1>1, <1>2, <1>3 DEF Promised!Named, Stack
  <2>3. QED
    BY <2>1, <2>2, StackFacts DEF At, Slot, NilObject
<1>4. CASE i > top
  <2>1. a = NilObject
    BY <1>4, AddressFacts
  <2>2. Promised!Named(i) = "none"
    BY <1>1, <1>2, <1>4 DEF Promised!Named
  <2>3. QED
    BY <2>1, <2>2, ValueFacts DEF At, NilObject
<1>5. CASE i < 0 /\ i > -10
  <2>1. a = Slot(top + 1 + i) /\ top + 1 + i \in 1..top
    BY <1>5, AddressFacts
  <2>2. /\ ~(i > 0) /\ ~(i > Promised!Top) /\ i < 0 /\ i > Promised!REG
        /\ i # Promised!REG /\ i # Promised!ENV /\ i # Promised!GLOB
    BY <1>1, <1>2, <1>5
  <2>3. Promised!Named(i) = SubSeq(mem, 1, top)[Promised!Top + 1 + i]
    BY <2>2 DEF Promised!Named
  <2>4. Promised!Named(i) = Stack[top + 1 + i]
    BY <1>2, <2>3 DEF Stack
  <2>5. QED
    BY <2>1, <2>4, StackFacts DEF At, Slot, NilObject
<1>6. CASE i = -10
  <2>1. a = [k |-> "reg", j |-> 0]
    BY <1>6, AddressFacts
  <2>2. Promised!Named(i) = pseudo["reg"]
    BY <1>1, <1>2, <1>6 DEF Promised!Named
  <2>3. QED
    BY <2>1, <2>2 DEF At, NilObject, Inv
<1>7. CASE i = -11
  <2>1. a = [k |-> "env", j |-> 0]
    BY <1>7, AddressFacts
  <2>2. Promised!Named(i) = env[Fun]
    BY <1>1, <1>2, <1>7 DEF Promised!Named
  <2>3. QED
    BY <2>1, <2>2, ValueFacts DEF At, NilObject, Inv
<1>8. CASE i = -12
  <2>1. a = [k |-> "gt", j |-> 0]
    BY <1>8, AddressFacts
  <2>2. Promised!Named(i) = pseudo["gt"]
    BY <1>1, <1>2, <1>8 DEF Promised!Named
  <2>3. QED
    BY <2>1, <2>2 DEF At, NilObject, Inv
<1>9. CASE i < -12
  <2>1. Promised!Named(i) = IF -12 - i <= Len(ups[Fun]) THEN ups[Fun][-12 - i] ELSE "none"
    BY <1>1, <1>2, <1>9 DEF Promised!Named
  <2>2. CASE -12 - i <= Len(ups[Fun])
    <3>1. a = [k |-> "up", j |-> -12 - i] /\ -12 - i \in 1..Len(ups[Fun])
      BY <1>9, <2>2, AddressFacts
    <3>2. ups[Fun][-12 - i] \in Values
      BY <3>1, ElementOfSeq DEF Inv
    <3>3. QED
      BY <2>1, <2>2, <3>1, <3>2 DEF At, NilObject
  <2>3. CASE ~(-12 - i <= Len(ups[Fun]))
    <3>1. a = NilObject
      BY <1>9, <2>3, AddressFacts
    <3>2. QED
      BY <2>1, <2>3, <3>1, ValueFacts DEF At, NilObject
  <2>4. QED
    BY <2>2, <2>3
<1>10. QED
  BY <1>1, <1>3, <1>4, <1>5, <1>6, <1>7, <1>8, <1>9, StackFacts

-----------------------------------------------------------------------------
(***************************************************************************)
(* Steps: what is well typed stays so, and the stack becomes what is       *)
(* promised.                                                               *)
(***************************************************************************)
Right == Inv' /\ Promised!Promise(call')

\* What was a value remains one when objects are made.
LEMMA Monotone ==
  ASSUME Inv, frame' = frame, heap \subseteq heap'
  PROVE  /\ Slots' = Slots /\ Values \subseteq Values' /\ Objects \subseteq Objects'
         /\ mem \in [1..Slots -> Values'] /\ ups \in [{Fun, New} -> Seq(Values')]
         /\ env \in [{Fun, New} -> Objects'] /\ pseudo \in [{"reg", "gt"} -> Values']
         /\ meta \in [Tables -> Objects'] /\ tab \in [Tables -> [Keys -> Values']]
<1>1. Slots' = Slots /\ Values \subseteq Values' /\ Objects \subseteq Objects'
  BY DEF Slots, Values, Initial, Objects
<1>2. Seq(Values) \subseteq Seq(Values')
  BY <1>1, SeqMonotonic
<1>3. QED
  BY <1>1, <1>2 DEF Inv, TypeOK

\* The parts of the invariant, after a step.
LEMMA Kept ==
  ASSUME Inv, frame' = frame, heap \subseteq heap', heap' \subseteq Tables \cup {Fun, New},
         top' \in 0..Slots, mem' \in [1..Slots -> Values'],
         ups' \in [{Fun, New} -> Seq(Values')], env' \in [{Fun, New} -> Objects'],
         pseudo' \in [{"reg", "gt"} -> Values'],
         meta' \in [Tables -> Objects'], tab' \in [Tables -> [Keys -> Values']]
  PROVE  Inv'
<1>1. Slots' = Slots
  BY Monotone
<1>2. \A f \in {Fun, New} : \A i \in DOMAIN ups'[f] : ups'[f][i] \in Values'
  <2>1. TAKE f \in {Fun, New}
  <2>2. ups'[f] \in Seq(Values')
    OBVIOUS
  <2>3. DOMAIN ups'[f] = 1..Len(ups'[f])
    BY <2>2, LenProperties
  <2>4. QED
    BY <2>2, <2>3, ElementOfSeq
<1>3. \A t \in Tables : meta'[t] \in Tables \cup {"nil"} /\ tab'[t] \in [Keys -> Values']
  BY DEF Objects
<1>4. TypeOK'
  BY <1>1, <1>2, <1>3 DEF TypeOK
<1>5. QED
  BY <1>4 DEF Inv

\* The stack changes and no object does.
LEMMA StackStep ==
  ASSUME Inv, frame' = frame, UNCHANGED objects, top' \in 0..Slots, mem' \in [1..Slots -> Values]
  PROVE  Inv'
<1>1. heap' = heap /\ ups' = ups /\ env' = env /\ pseudo' = pseudo /\ meta' = meta /\ tab' = tab
  BY DEF objects
<1>2. /\ Slots' = Slots /\ Values \subseteq Values'
      /\ ups \in [{Fun, New} -> Seq(Values')]
      /\ env \in [{Fun, New} -> Objects'] /\ pseudo \in [{"reg", "gt"} -> Values']
      /\ meta \in [Tables -> Objects'] /\ tab \in [Tables -> [Keys -> Values']]
  BY <1>1, Monotone
<1>3. mem' \in [1..Slots -> Values']
  BY <1>2
<1>4. heap' \subseteq Tables \cup {Fun, New}
  BY <1>1 DEF Inv
<1>5. QED
  BY <1>1, <1>2, <1>3, <1>4, Kept

\* k values are popped and those of q pushed, and no object changes.
LEMMA Becoming ==
  ASSUME Inv, frame' = frame, UNCHANGED objects, NEW k, NEW q,
         Moves(mem, mem', Slots, top, k, q, Values), top' = top - k + Len(q)
  PROVE  Inv' /\ Promised!Becomes(k, q)
<1>1. top' \in 0..Slots /\ mem' \in [1..Slots -> Values]
  <2>1. /\ Slots \in Nat /\ top \in 0..Slots /\ k \in 0..top
        /\ top - k + Len(q) <= Slots /\ Len(q) \in Nat /\ mem' \in [1..Slots -> Values]
    BY LenProperties DEF Moves
  <2>2. QED
    BY <2>1
<1>2. Inv'
  BY <1>1, StackStep
<1>3. Moved(mem, mem', top, k, q)
  BY SequenceMoves
<1>4. SubSeq(mem', 1, top') = SubSeq(SubSeq(mem, 1, top), 1, top - k) \o q
  BY <1>3 DEF Moved
<1>5. Promised!Top = top
  BY StackFacts DEF Promised!Top, Stack
<1>6. UNCHANGED Promised!objects
  BY DEF objects, Promised!objects
<1>7. QED
  BY <1>2, <1>4, <1>5, <1>6 DEF Promised!Becomes

\* One value is pushed.
LEMMA Pushing ==
  ASSUME Inv, frame' = frame, UNCHANGED objects, NEW v \in Values, Pushes(v)
  PROVE  Inv' /\ Promised!Becomes(0, <<v>>)
<1>1. /\ top \in Nat /\ Slots \in Nat /\ top + 1 <= Slots
      /\ mem' = [mem EXCEPT ![top + 1] = v] /\ top' = top + 1 /\ mem \in [1..Slots -> Values]
  BY StackFacts DEF Pushes, Room
<1>2. <<v>> \in Seq(Values) /\ Len(<<v>>) = 1 /\ <<v>>[1] = v
  OBVIOUS
<1>3. Moves(mem, mem', Slots, top, 0, <<v>>, Values) /\ top' = top - 0 + Len(<<v>>)
  BY <1>1, <1>2 DEF Moves
<1>4. QED
  BY <1>3, Becoming

\* The stack stays as it is.
LEMMA Staying ==
  ASSUME Inv, frame' = frame, UNCHANGED objects, UNCHANGED state
  PROVE  Inv' /\ Promised!Becomes(0, <<>>)
<1>1. /\ top \in Nat /\ Slots \in Nat /\ top <= Slots /\ mem \in [1..Slots -> Values]
      /\ mem' = mem /\ top' = top
  BY StackFacts DEF state
<1>2. <<>> \in Seq(Values) /\ Len(<<>>) = 0
  BY EmptySeq
<1>3. Moves(mem, mem', Slots, top, 0, <<>>, Values) /\ top' = top - 0 + Len(<<>>)
  BY <1>1, <1>2 DEF Moves
<1>4. QED
  BY <1>3, Becoming

\* One value is popped.
LEMMA Popping ==
  ASSUME Inv, frame' = frame, UNCHANGED objects, top >= 1, top' = top - 1, mem' = mem
  PROVE  Inv' /\ Promised!Becomes(1, <<>>)
<1>1. /\ top \in Nat /\ Slots \in Nat /\ top <= Slots /\ mem \in [1..Slots -> Values]
  BY StackFacts
<1>2. <<>> \in Seq(Values) /\ Len(<<>>) = 0
  BY EmptySeq
<1>3. Moves(mem, mem', Slots, top, 1, <<>>, Values) /\ top' = top - 1 + Len(<<>>)
  BY <1>1, <1>2 DEF Moves
<1>4. QED
  BY <1>3, Becoming

\* lua_pushnil and the others.
LEMMA PushRight ==
  ASSUME Inv, frame' = frame, lua_push
  PROVE  Right
<1>1. PICK v \in Literals : Pushes(v) /\ Calls("push", 0, v, "") /\ UNCHANGED <<objects, lenv>>
  BY DEF lua_push
<1>2. v \in Values
  BY FrameFacts DEF Inv, Values
<1>3. Inv' /\ Promised!Becomes(0, <<v>>)
  BY <1>1, <1>2, Pushing
<1>4. call'.f = "push" /\ call'.n = v
  BY <1>1 DEF Calls
<1>5. Promised!Promise(call')
  BY <1>3, <1>4 DEF Promised!Promise
<1>6. QED
  BY <1>3, <1>5 DEF Right

LEMMA PushvalueRight ==
  ASSUME Inv, frame' = frame, lua_pushvalue
  PROVE  Right
<1>1. PICK i \in Indices : /\ Acceptable(i) /\ Pushes(At(index2adr(i)))
                           /\ Calls("pushvalue", i, "", "") /\ UNCHANGED <<objects, lenv>>
  BY DEF lua_pushvalue
<1> DEFINE v == At(index2adr(i))
           w == Promised!Named(i)
<1>2. v \in Values /\ v = IF w = "none" THEN "nil" ELSE w
  BY <1>1, NamedFacts, ValueFacts
<1>3. Inv' /\ Promised!Becomes(0, <<v>>)
  BY <1>1, <1>2, Pushing
<1>4. call'.f = "pushvalue" /\ call'.i = i
  BY <1>1 DEF Calls
<1>5. Promised!Promise(call')
  BY <1>2, <1>3, <1>4 DEF Promised!Promise
<1>6. QED
  BY <1>3, <1>5 DEF Right

LEMMA TypeRight ==
  ASSUME Inv, frame' = frame, lua_type
  PROVE  Right
<1>1. PICK i \in Indices :
        /\ Acceptable(i)
        /\ Calls("type", i, "", IF index2adr(i) = NilObject THEN "none" ELSE At(index2adr(i)))
        /\ UNCHANGED <<state, objects>>
  BY DEF lua_type
<1>2. Inv' /\ Promised!Becomes(0, <<>>)
  BY <1>1, Staying
<1>3. call'.f = "type" /\ call'.i = i /\ call'.r = Promised!Named(i)
  BY <1>1, NamedFacts DEF Calls
<1>4. Promised!Promise(call')
  BY <1>2, <1>3 DEF Promised!Promise
<1>5. QED
  BY <1>2, <1>4 DEF Right

LEMMA RawequalRight ==
  ASSUME Inv, frame' = frame, lua_rawequal
  PROVE  Right
<1>1. PICK i \in Indices, j \in Indices :
        /\ Acceptable(i) /\ Acceptable(j) /\ UNCHANGED <<state, objects>>
        /\ Calls("rawequal", i, j,
                 IF index2adr(i) # NilObject /\ index2adr(j) # NilObject /\ At(index2adr(i)) = At(index2adr(j))
                 THEN "true" ELSE "false")
  BY DEF lua_rawequal
<1>2. Inv' /\ Promised!Becomes(0, <<>>)
  BY <1>1, Staying
<1>3. /\ index2adr(i) # NilObject <=> Promised!Named(i) # "none"
      /\ index2adr(j) # NilObject <=> Promised!Named(j) # "none"
      /\ index2adr(i) # NilObject => Promised!Named(i) = At(index2adr(i))
      /\ index2adr(j) # NilObject => Promised!Named(j) = At(index2adr(j))
  BY <1>1, NamedFacts, ValueFacts
<1>4. /\ call'.f = "rawequal" /\ call'.i = i /\ call'.n = j
      /\ call'.r = IF Promised!Named(i) # "none" /\ Promised!Named(j) # "none"
                      /\ Promised!Named(i) = Promised!Named(j) THEN "true" ELSE "false"
  BY <1>1, <1>3 DEF Calls
<1>5. Promised!Promise(call')
  BY <1>2, <1>4 DEF Promised!Promise
<1>6. QED
  BY <1>2, <1>5 DEF Right

\* The table an index names, and what is in it.
LEMMA TableFacts ==
  ASSUME Inv, NEW i \in Indices, IsTable(i)
  PROVE  /\ Promised!Named(i) = At(index2adr(i))
         /\ At(index2adr(i)) \in Tables
         /\ \A k : luaH_get(At(index2adr(i)), k) = Promised!Get(At(index2adr(i)), k)
         /\ \A k : luaH_get(At(index2adr(i)), k) \in Values
<1>1. /\ Promised!Named(i) = At(index2adr(i)) /\ At(index2adr(i)) \in Tables
  BY NamedFacts DEF IsTable, Valid
<1>2. tab[At(index2adr(i))] \in [Keys -> Values]
  BY <1>1 DEF Inv
<1>3. QED
  BY <1>1, <1>2, ValueFacts DEF luaH_get, Promised!Get

\* The value at the top.
LEMMA TopFacts ==
  ASSUME Inv, top >= 1
  PROVE  /\ TopValue \in Values /\ top \in 1..Slots
         /\ Promised!Last(SubSeq(mem, 1, top)) = TopValue
  BY StackFacts DEF TopValue, Promised!Last, Stack

LEMMA GettableRight ==
  ASSUME Inv, frame' = frame, lua_gettable
  PROVE  Right
<1>1. PICK i \in Indices :
        /\ IsTable(i) /\ top >= 1
        /\ mem' = [mem EXCEPT ![top] = luaH_get(At(index2adr(i)), TopValue)]
        /\ Calls("gettable", i, "", "") /\ UNCHANGED <<top, objects, lenv>>
  BY DEF lua_gettable
<1> DEFINE v == luaH_get(At(index2adr(i)), TopValue)
<1>2. v \in Values /\ v = Promised!Get(Promised!Named(i), Promised!Last(SubSeq(mem, 1, top)))
  BY <1>1, TableFacts, TopFacts
<1> HIDE DEF v
<1>3. <<v>> \in Seq(Values) /\ Len(<<v>>) = 1 /\ <<v>>[1] = v
  BY <1>2
<1>4. Moves(mem, mem', Slots, top, 1, <<v>>, Values) /\ top' = top - 1 + Len(<<v>>)
  <2>1. /\ mem' = [mem EXCEPT ![top] = v] /\ top' = top /\ top >= 1 /\ top \in 0..Slots
        /\ mem \in [1..Slots -> Values] /\ Slots \in Nat
    BY <1>1, StackFacts DEF v
  <2>2. mem' \in [1..Slots -> Values] /\ mem'[top] = v /\ \A j \in 1..(top - 1) : mem'[j] = mem[j]
    BY <2>1, <1>2
  <2>3. QED
    BY <2>1, <2>2, <1>3 DEF Moves
<1>5. Inv' /\ Promised!Becomes(1, <<v>>)
  BY <1>1, <1>4, Becoming
<1>6. call'.f = "gettable" /\ call'.i = i
  BY <1>1 DEF Calls
<1>7. Promised!Promise(call')
  BY <1>2, <1>5, <1>6 DEF Promised!Promise
<1>8. QED
  BY <1>5, <1>7 DEF Right

LEMMA GetfieldRight ==
  ASSUME Inv, frame' = frame, lua_getfield
  PROVE  Right
<1>1. PICK i \in Indices, k \in Keys :
        /\ IsTable(i) /\ Pushes(luaH_get(At(index2adr(i)), k))
        /\ Calls("getfield", i, k, "") /\ UNCHANGED <<objects, lenv>>
  BY DEF lua_getfield
<1> DEFINE v == luaH_get(At(index2adr(i)), k)
<1>2. v \in Values /\ v = Promised!Get(Promised!Named(i), k)
  BY <1>1, TableFacts
<1>3. Inv' /\ Promised!Becomes(0, <<v>>)
  BY <1>1, <1>2, Pushing
<1>4. call'.f = "getfield" /\ call'.i = i /\ call'.n = k
  BY <1>1 DEF Calls
<1>5. Promised!Promise(call')
  BY <1>2, <1>3, <1>4 DEF Promised!Promise
<1>6. QED
  BY <1>3, <1>5 DEF Right

LEMMA GetmetatableRight ==
  ASSUME Inv, frame' = frame, lua_getmetatable
  PROVE  Right
<1> DEFINE found(i) == At(index2adr(i)) \in Tables /\ meta[At(index2adr(i))] # "nil"
<1>1. PICK i \in Indices :
        /\ Acceptable(i)
        /\ IF found(i) THEN Pushes(meta[At(index2adr(i))]) ELSE UNCHANGED state
        /\ Calls("getmetatable", i, "", IF found(i) THEN "true" ELSE "false")
        /\ UNCHANGED <<objects, lenv>>
  BY DEF lua_getmetatable
<1> DEFINE v == At(index2adr(i))
<1>2. \/ v = Promised!Named(i)
      \/ v = "nil" /\ Promised!Named(i) = "none"
  BY <1>1, NamedFacts
<1>3. "nil" \notin Tables /\ "none" \notin Tables
  BY FramesAssumed DEF FramesAssumption
<1>4. /\ call'.f = "getmetatable" /\ call'.i = i
      /\ call'.r = IF found(i) THEN "true" ELSE "false"
  BY <1>1 DEF Calls
<1>5. CASE found(i)
  <2>1. meta[v] \in Values /\ Promised!Named(i) = v
    BY <1>2, <1>3, <1>5, ValueFacts DEF Inv
  <2>2. Inv' /\ Promised!Becomes(0, <<meta[v]>>)
    BY <1>1, <1>5, <2>1, Pushing
  <2>3. Promised!Promise(call')
    BY <1>4, <1>5, <2>1, <2>2 DEF Promised!Promise
  <2>4. QED
    BY <2>2, <2>3 DEF Right
<1>6. CASE ~found(i)
  <2>1. ~(Promised!Named(i) \in Tables /\ meta[Promised!Named(i)] # "nil")
    BY <1>2, <1>3, <1>6
  <2>2. Inv' /\ Promised!Becomes(0, <<>>)
    BY <1>1, <1>6, Staying
  <2>3. Promised!Promise(call')
    BY <1>4, <1>6, <2>1, <2>2 DEF Promised!Promise
  <2>4. QED
    BY <2>2, <2>3 DEF Right
<1>7. QED
  BY <1>5, <1>6

\* The functions an index may name are those of the objects.
LEMMA FunctionFacts ==
  ASSUME Inv, NEW i \in Indices, Acceptable(i)
  PROVE  /\ IsFunction(At(index2adr(i))) <=> Promised!Named(i) \in {Fun, New}
         /\ IsFunction(At(index2adr(i))) => Promised!Named(i) = At(index2adr(i))
         /\ DOMAIN env = {Fun, New} /\ DOMAIN ups = {Fun, New}
<1>1. "none" \notin {Fun, New} /\ "nil" \notin {Fun, New}
  BY FramesAssumed DEF FramesAssumption
<1>2. IsFunction(At(index2adr(i))) <=> At(index2adr(i)) \in {Fun, New}
  BY NamedFacts, ValueFacts
<1>3. QED
  BY <1>1, <1>2, NamedFacts DEF Inv

LEMMA GetfenvRight ==
  ASSUME Inv, frame' = frame, lua_getfenv
  PROVE  Right
<1>1. PICK i \in Indices :
        /\ Valid(i)
        /\ Pushes(IF IsFunction(At(index2adr(i))) THEN env[At(index2adr(i))] ELSE "nil")
        /\ Calls("getfenv", i, "", "") /\ UNCHANGED <<objects, lenv>>
  BY DEF lua_getfenv
<1> DEFINE v == IF IsFunction(At(index2adr(i))) THEN env[At(index2adr(i))] ELSE "nil"
<1>2. v = IF Promised!Named(i) \in DOMAIN env THEN env[Promised!Named(i)] ELSE "nil"
  BY <1>1, FunctionFacts DEF Valid
<1>3. v \in Values
  BY <1>1, <1>2, FunctionFacts, ValueFacts DEF Valid, Inv
<1> HIDE DEF v
<1>4. Pushes(v)
  BY <1>1 DEF v
<1>5. Inv' /\ Promised!Becomes(0, <<v>>)
  BY <1>1, <1>3, <1>4, Pushing
<1>6. call'.f = "getfenv" /\ call'.i = i
  BY <1>1 DEF Calls
<1>7. Promised!Promise(call')
  BY <1>2, <1>5, <1>6 DEF Promised!Promise
<1>8. QED
  BY <1>5, <1>7 DEF Right

\* The upvalue n of what an index names, if there is one.
LEMMA UpvalueFacts ==
  ASSUME Inv, NEW i \in Indices, Acceptable(i), NEW n \in 1..2
  PROVE  LET f == At(index2adr(i))
             v == Promised!Named(i)
         IN  /\ aux_upvalue(f, n) <=> v \in DOMAIN ups /\ n \in DOMAIN ups[v]
             /\ aux_upvalue(f, n) =>
                  v = f /\ f \in {Fun, New} /\ n \in 1..Len(ups[f]) /\ ups[f][n] \in Values
<1> DEFINE f == At(index2adr(i))
           v == Promised!Named(i)
<1>1. /\ IsFunction(f) <=> v \in {Fun, New}
      /\ IsFunction(f) => v = f
      /\ DOMAIN ups = {Fun, New}
  BY FunctionFacts
<1>2. \A g \in {Fun, New} : ups[g] \in Seq(Values)
  BY DEF Inv
<1>3. \A g \in {Fun, New} : DOMAIN ups[g] = 1..Len(ups[g]) /\ Len(ups[g]) \in Nat
  BY <1>2, LenProperties
<1>4. \A g \in {Fun, New} : n \in 1..Len(ups[g]) => ups[g][n] \in Values
  BY <1>2, ElementOfSeq
<1> HIDE DEF f, v
<1>5. /\ aux_upvalue(f, n) <=> v \in DOMAIN ups /\ n \in DOMAIN ups[v]
      /\ aux_upvalue(f, n) => v = f /\ f \in {Fun, New} /\ n \in 1..Len(ups[f])
  BY <1>1, <1>3 DEF aux_upvalue
<1>6. QED
  BY <1>4, <1>5 DEF f, v

LEMMA GetupvalueRight ==
  ASSUME Inv, frame' = frame, lua_getupvalue
  PROVE  Right
<1>1. PICK i \in Indices, n \in 1..2 :
        /\ Acceptable(i)
        /\ IF aux_upvalue(At(index2adr(i)), n) THEN Pushes(ups[At(index2adr(i))][n]) ELSE UNCHANGED state
        /\ Calls("getupvalue", i, n, "") /\ UNCHANGED <<objects, lenv>>
  BY DEF lua_getupvalue
<1> DEFINE f == At(index2adr(i))
           v == Promised!Named(i)
<1>2. /\ aux_upvalue(f, n) <=> v \in DOMAIN ups /\ n \in DOMAIN ups[v]
      /\ aux_upvalue(f, n) => v = f /\ ups[f][n] \in Values
  BY <1>1, UpvalueFacts
<1>3. call'.f = "getupvalue" /\ call'.i = i /\ call'.n = n
  BY <1>1 DEF Calls
<1>4. CASE aux_upvalue(f, n)
  <2>1. Inv' /\ Promised!Becomes(0, <<ups[v][n]>>)
    BY <1>1, <1>2, <1>4, Pushing
  <2>2. Promised!Promise(call')
    BY <1>2, <1>3, <1>4, <2>1 DEF Promised!Promise
  <2>3. QED
    BY <2>1, <2>2 DEF Right
<1>5. CASE ~aux_upvalue(f, n)
  <2>1. Inv' /\ Promised!Becomes(0, <<>>)
    BY <1>1, <1>5, Staying
  <2>2. Promised!Promise(call')
    BY <1>2, <1>3, <1>5, <2>1 DEF Promised!Promise
  <2>3. QED
    BY <2>1, <2>2 DEF Right
<1>6. QED
  BY <1>4, <1>5

\* The key after k has a value.
LEMMA NextFacts ==
  ASSUME Inv, NEW t \in Tables, NEW k \in Keys \cup {"nil"}, luaH_next(t, k) # "nil"
  PROVE  /\ luaH_next(t, k) \in Keys \ {k} /\ tab[t][luaH_next(t, k)] # "nil"
         /\ luaH_next(t, k) \in Values /\ tab[t][luaH_next(t, k)] \in Values
<1> DEFINE n == luaH_next(t, k)
<1>1. Keys \subseteq {"num", "str"}
  BY FramesAssumed DEF FramesAssumption
<1>2. n \in Keys \ {k} /\ tab[t][n] # "nil"
  BY <1>1 DEF luaH_next
<1>3. tab[t] \in [Keys -> Values]
  BY DEF Inv
<1> HIDE DEF n
<1>4. n \in Values /\ tab[t][n] \in Values
  BY <1>1, <1>2, <1>3, ValueFacts
<1>5. QED
  BY <1>2, <1>4 DEF n

LEMMA NextRight ==
  ASSUME Inv, frame' = frame, lua_next
  PROVE  Right
<1> DEFINE t(i) == At(index2adr(i))
           k(i) == luaH_next(t(i), TopValue)
<1>1. PICK i \in Indices :
        /\ IsTable(i) /\ top >= 1 /\ TopValue \in Keys \cup {"nil"}
        /\ IF k(i) = "nil" THEN top' = top - 1 /\ UNCHANGED mem
           ELSE /\ Room(1) /\ top' = top + 1
                /\ mem' = [mem EXCEPT ![top] = k(i), ![top + 1] = tab[t(i)][k(i)]]
        /\ Calls("next", i, "", IF k(i) = "nil" THEN "false" ELSE "true")
        /\ UNCHANGED <<objects, lenv>>
  BY DEF lua_next
<1>2. Promised!Named(i) = t(i) /\ t(i) \in Tables
  BY <1>1, TableFacts
<1>3. /\ call'.f = "next" /\ call'.i = i
      /\ call'.r = IF k(i) = "nil" THEN "false" ELSE "true"
  BY <1>1 DEF Calls
<1>4. CASE k(i) = "nil"
  <2>1. Inv' /\ Promised!Becomes(1, <<>>)
    BY <1>1, <1>4, Popping
  <2>2. Promised!Promise(call')
    BY <1>3, <1>4, <2>1 DEF Promised!Promise
  <2>3. QED
    BY <2>1, <2>2 DEF Right
<1>5. CASE k(i) # "nil"
  <2> DEFINE a == k(i)
             b == tab[t(i)][k(i)]
  <2>1. a \in Keys \ {TopValue} /\ b # "nil" /\ a \in Values /\ b \in Values
    BY <1>1, <1>2, <1>5, NextFacts
  <2>2. /\ top >= 1 /\ top + 1 <= Slots /\ top' = top + 1
        /\ mem' = [mem EXCEPT ![top] = a, ![top + 1] = b]
    BY <1>1, <1>5 DEF Room
  <2>3. b = tab[Promised!Named(i)][a]
    BY <1>2
  <2>4. TopValue = Promised!Last(SubSeq(mem, 1, top))
    BY <1>1, TopFacts
  <2> HIDE DEF a, b
  <2>5. <<a, b>> \in Seq(Values) /\ Len(<<a, b>>) = 2 /\ <<a, b>>[1] = a /\ <<a, b>>[2] = b
    BY <2>1
  <2>6. /\ mem' \in [1..Slots -> Values] /\ mem'[top] = a /\ mem'[top + 1] = b
        /\ \A j \in 1..(top - 1) : mem'[j] = mem[j]
    <3>1. /\ mem \in [1..Slots -> Values] /\ Slots \in Nat /\ top \in Nat
          /\ top \in 1..Slots /\ top + 1 \in 1..Slots /\ top # top + 1
      BY <2>2, StackFacts
    <3>2. mem' \in [1..Slots -> Values]
      BY <2>1, <2>2, <3>1
    <3>3. mem'[top] = a /\ mem'[top + 1] = b
      BY <2>2, <3>1
    <3>4. ASSUME NEW j \in 1..(top - 1) PROVE mem'[j] = mem[j]
      <4>1. j \in 1..Slots /\ j # top /\ j # top + 1
        BY <3>1
      <4>2. QED
        BY <2>2, <3>1, <4>1
    <3>5. QED
      BY <3>2, <3>3, <3>4
  <2>7. \A j \in 1..2 : mem'[top - 1 + j] = <<a, b>>[j]
    <3>1. top - 1 + 1 = top /\ top - 1 + 2 = top + 1
      BY StackFacts
    <3>2. QED
      BY <3>1, <2>5, <2>6
  <2>8. top - 1 + Len(<<a, b>>) <= Slots /\ top \in 0..Slots /\ 1 \in 0..top
    BY <2>2, <2>5, StackFacts
  <2>9. \A j \in 1..Len(<<a, b>>) : mem'[top - 1 + j] = <<a, b>>[j]
    BY <2>5, <2>7
  <2>10. Moves(mem, mem', Slots, top, 1, <<a, b>>, Values)
    BY <2>5, <2>6, <2>8, <2>9, StackFacts DEF Moves
  <2>11. top' = top - 1 + Len(<<a, b>>)
    BY <2>2, <2>5, StackFacts
  <2>12. Inv' /\ Promised!Becomes(1, <<a, b>>)
    BY <1>1, <2>10, <2>11, Becoming
  <2>13. \E j \in Keys \ {Promised!Last(SubSeq(mem, 1, top))} :
           /\ call'.r = "true" /\ tab[Promised!Named(i)][j] # "nil"
           /\ Promised!Becomes(1, <<j, tab[Promised!Named(i)][j]>>)
    BY <1>3, <1>5, <2>1, <2>3, <2>4, <2>12
  <2>14. Promised!Promise(call')
    BY <1>3, <2>13 DEF Promised!Promise
  <2>15. QED
    BY <2>12, <2>14 DEF Right
<1>6. QED
  BY <1>4, <1>5

LEMMA ConcatRight ==
  ASSUME Inv, frame' = frame, lua_concat
  PROVE  Right
<1>1. PICK n \in 0..top :
        /\ \/ n = 0 /\ Pushes("str")
           \/ n = 1 /\ UNCHANGED state
           \/ n > 1 /\ mem' = [mem EXCEPT ![top - n + 1] = "str"] /\ top' = top - (n - 1)
        /\ Calls("concat", 0, n, "") /\ UNCHANGED <<objects, lenv>>
  BY DEF lua_concat
<1>2. n \in Nat
  BY StackFacts
<1>3. call'.f = "concat" /\ call'.n = n
  BY <1>1 DEF Calls
<1>4. "str" \in Values
  BY ValueFacts
<1>5. CASE n = 0 /\ Pushes("str")
  <2>1. Inv' /\ Promised!Becomes(0, <<"str">>)
    BY <1>1, <1>4, <1>5, Pushing
  <2>2. Promised!Promise(call')
    BY <1>3, <1>5, <2>1 DEF Promised!Promise
  <2>3. QED
    BY <2>1, <2>2 DEF Right
<1>6. CASE n = 1 /\ UNCHANGED state
  <2>1. Inv' /\ Promised!Becomes(0, <<>>)
    BY <1>1, <1>6, Staying
  <2>2. Promised!Promise(call')
    BY <1>3, <1>6, <2>1 DEF Promised!Promise
  <2>3. QED
    BY <2>1, <2>2 DEF Right
<1>7. CASE n > 1 /\ mem' = [mem EXCEPT ![top - n + 1] = "str"] /\ top' = top - (n - 1)
  <2>1. <<"str">> \in Seq(Values) /\ Len(<<"str">>) = 1 /\ <<"str">>[1] = "str"
    BY <1>4
  <2>2. /\ top - n + 1 \in 1..Slots /\ top' = top - n + 1
        /\ mem' \in [1..Slots -> Values] /\ mem'[top - n + 1] = "str"
        /\ \A j \in 1..(top - n) : mem'[j] = mem[j]
    BY <1>4, <1>7, <1>2, StackFacts
  <2>3. \A j \in 1..1 : mem'[top - n + j] = <<"str">>[j]
    BY <2>1, <2>2
  <2>4. Moves(mem, mem', Slots, top, n, <<"str">>, Values)
    BY <2>1, <2>2, <2>3, StackFacts DEF Moves
  <2>5. Inv' /\ Promised!Becomes(n, <<"str">>)
    BY <1>1, <2>1, <2>2, <2>4, Becoming
  <2>6. Promised!Promise(call')
    BY <1>3, <1>7, <2>5 DEF Promised!Promise
  <2>7. QED
    BY <2>5, <2>6 DEF Right
<1>8. QED
  BY <1>1, <1>5, <1>6, <1>7

-----------------------------------------------------------------------------
(***************************************************************************)
(* Calls that move values within the window.                               *)
(***************************************************************************)

\* A function on 1..n is a sequence of length n.
LEMMA FunctionIsSeq ==
  ASSUME NEW S, NEW n \in Nat, NEW q \in [1..n -> S]
  PROVE  q \in Seq(S) /\ Len(q) = n
BY IsASeq, LenProperties

\* A window and a sequence with the same elements.
LEMMA WindowIs ==
  ASSUME NEW S, NEW n \in Nat, NEW m \in [1..n -> S], NEW t \in 0..n,
         NEW q \in Seq(S), Len(q) = t, \A j \in 1..t : q[j] = m[j]
  PROVE  SubSeq(m, 1, t) = q
<1>1. /\ SubSeq(m, 1, t) \in Seq(S) /\ Len(SubSeq(m, 1, t)) = t
      /\ \A j \in 1..t : SubSeq(m, 1, t)[j] = m[j]
  BY Window
<1>2. QED
  BY <1>1, SeqEqual

LEMMA SettopRight ==
  ASSUME Inv, frame' = frame, lua_settop
  PROVE  Right
<1> DEFINE n(i) == IF i >= 0 THEN i ELSE top + 1 + i
<1>1. PICK i \in (-Slots - 1)..Slots :
        /\ IF i >= 0
           THEN /\ mem' = [j \in 1..Slots |-> IF j > top /\ j <= i THEN "nil" ELSE mem[j]]
                /\ top' = i
           ELSE -(i + 1) <= top /\ top' = top + i + 1 /\ UNCHANGED mem
        /\ Calls("settop", i, "", "") /\ UNCHANGED <<objects, lenv>>
  BY DEF lua_settop
<1>2. /\ top \in Nat /\ top <= Slots /\ Slots \in Nat /\ mem \in [1..Slots -> Values]
      /\ "nil" \in Values /\ i \in Int
  BY StackFacts, ValueFacts
<1>3. /\ top' = n(i) /\ n(i) \in 0..Slots /\ mem' \in [1..Slots -> Values]
      /\ \A j \in 1..n(i) : mem'[j] = IF j <= top THEN mem[j] ELSE "nil"
  <2>1. CASE i >= 0
    <3>1. mem' = [j \in 1..Slots |-> IF j > top /\ j <= i THEN "nil" ELSE mem[j]] /\ top' = i
      BY <1>1, <2>1
    <3>2. QED
      BY <1>2, <2>1, <3>1
  <2>2. CASE ~(i >= 0)
    <3>1. -(i + 1) <= top /\ top' = top + i + 1 /\ mem' = mem
      BY <1>1, <2>2
    <3>2. QED
      BY <1>2, <2>2, <3>1
  <2>3. QED
    BY <2>1, <2>2
<1> DEFINE q == [j \in 1..n(i) |-> IF j <= top THEN SubSeq(mem, 1, top)[j] ELSE "nil"]
<1>4. q \in Seq(Values) /\ Len(q) = n(i) /\ \A j \in 1..n(i) : q[j] = mem'[j]
  <2>1. \A j \in 1..n(i) : q[j] = mem'[j]
    BY <1>2, <1>3, StackFacts DEF Stack
  <2>2. \A j \in 1..n(i) : mem'[j] \in Values
    BY <1>2, <1>3
  <2>3. q \in [1..n(i) -> Values]
    BY <2>1, <2>2
  <2>4. n(i) \in Nat
    BY <1>3
  <2> HIDE DEF q, n
  <2>5. q \in Seq(Values) /\ Len(q) = n(i)
    BY <2>3, <2>4, FunctionIsSeq
  <2>6. QED
    BY <2>1, <2>5
<1>5. SubSeq(mem, 1, top)' = q
  <2> HIDE DEF q
  <2>1. SubSeq(mem', 1, n(i)) = q
    BY <1>2, <1>3, <1>4, WindowIs
  <2>2. QED
    BY <1>3, <2>1
<1>6. Inv'
  BY <1>1, <1>3, StackStep
<1>7. UNCHANGED Promised!objects
  BY <1>1 DEF objects, Promised!objects
<1>8. Promised!Top = top
  BY StackFacts DEF Promised!Top, Stack
<1>9. call'.f = "settop" /\ call'.i = i
  BY <1>1 DEF Calls
<1>10. Promised!Promise(call')
  BY <1>5, <1>7, <1>8, <1>9 DEF Promised!Promise
<1>11. QED
  BY <1>6, <1>10 DEF Right

\* The place in the window that an index names.
LEMMA PlaceFacts ==
  ASSUME Inv, NEW i \in Indices, InStack(i)
  PROVE  LET p == IF i > 0 THEN i ELSE Promised!Top + 1 + i
         IN  index2adr(i) = Slot(p) /\ index2adr(i).j = p /\ p \in 1..top
<1>1. /\ top \in Nat /\ Promised!Top = top /\ i \in Int /\ i # 0 /\ i > -10
      /\ Acceptable(i) /\ index2adr(i) # NilObject
  BY StackFacts, IndexFacts DEF Promised!Top, Stack, InStack, Valid, LUA_REGISTRYINDEX
<1>2. ~(i > top)
  BY <1>1, AddressFacts
<1>3. CASE i > 0
  <2>1. index2adr(i) = Slot(i) /\ i \in 1..top
    BY <1>1, <1>2, <1>3, AddressFacts
  <2>2. QED
    BY <1>1, <1>3, <2>1 DEF Slot
<1>4. CASE i < 0
  <2>1. index2adr(i) = Slot(top + 1 + i) /\ top + 1 + i \in 1..top
    BY <1>1, <1>4, AddressFacts
  <2>2. QED
    BY <1>1, <1>4, <2>1 DEF Slot
<1>5. QED
  BY <1>1, <1>3, <1>4

\* A sequence without its element p.
LEMMA Removed ==
  ASSUME NEW S, NEW s \in Seq(S), NEW p \in 1..Len(s)
  PROVE  /\ Promised!RemoveAt(s, p) \in Seq(S)
         /\ Len(Promised!RemoveAt(s, p)) = Len(s) - 1
         /\ \A j \in 1..(Len(s) - 1) : Promised!RemoveAt(s, p)[j] = IF j < p THEN s[j] ELSE s[j + 1]
<1> DEFINE a == SubSeq(s, 1, p - 1)
           b == SubSeq(s, p + 1, Len(s))
<1>1. Len(s) \in Nat
  BY LenProperties
<1>2. a \in Seq(S) /\ Len(a) = p - 1 /\ \A j \in 1..(p - 1) : a[j] = s[j]
  <2>1. 1 \in 1..(Len(s) + 1) /\ p - 1 \in (1 - 1)..Len(s)
    BY <1>1
  <2>2. a \in Seq(S) /\ Len(a) = (p - 1) - 1 + 1 /\ \A j \in 1..((p - 1) - 1 + 1) : a[j] = s[1 + j - 1]
    BY <2>1, SubSeqProperties
  <2>3. QED
    BY <1>1, <2>2
<1>3. b \in Seq(S) /\ Len(b) = Len(s) - p /\ \A j \in 1..(Len(s) - p) : b[j] = s[p + j]
  <2>1. p + 1 \in 1..(Len(s) + 1) /\ Len(s) \in ((p + 1) - 1)..Len(s)
    BY <1>1
  <2>2. /\ b \in Seq(S) /\ Len(b) = Len(s) - (p + 1) + 1
        /\ \A j \in 1..(Len(s) - (p + 1) + 1) : b[j] = s[(p + 1) + j - 1]
    BY <2>1, SubSeqProperties
  <2>3. QED
    BY <1>1, <2>2
<1> HIDE DEF a, b
<1>4. /\ a \o b \in Seq(S) /\ Len(a \o b) = Len(a) + Len(b)
      /\ \A j \in 1..(Len(a) + Len(b)) : (a \o b)[j] = IF j <= Len(a) THEN a[j] ELSE b[j - Len(a)]
  BY <1>2, <1>3, ConcatProperties
<1>5. Len(a) + Len(b) = Len(s) - 1
  BY <1>1, <1>2, <1>3
<1>6. ASSUME NEW j \in 1..(Len(s) - 1) PROVE (a \o b)[j] = IF j < p THEN s[j] ELSE s[j + 1]
  <2>1. (a \o b)[j] = IF j <= p - 1 THEN a[j] ELSE b[j - (p - 1)]
    BY <1>2, <1>4, <1>5
  <2>2. CASE j < p
    BY <1>2, <2>1, <2>2
  <2>3. CASE ~(j < p)
    <3>1. j - (p - 1) \in 1..(Len(s) - p) /\ p + (j - (p - 1)) = j + 1
      BY <1>1, <2>3
    <3>2. b[j - (p - 1)] = s[p + (j - (p - 1))]
      BY <1>3, <3>1
    <3>3. QED
      BY <2>1, <2>3, <3>1, <3>2
  <2>4. QED
    BY <2>2, <2>3
<1>7. a \o b \in Seq(S) /\ Len(a \o b) = Len(s) - 1
  BY <1>4, <1>5
<1>8. Promised!RemoveAt(s, p) = a \o b
  BY DEF Promised!RemoveAt, a, b
<1>9. QED
  BY <1>6, <1>7, <1>8

LEMMA RemoveRight ==
  ASSUME Inv, frame' = frame, lua_remove
  PROVE  Right
<1> DEFINE p(i) == index2adr(i).j
<1>1. PICK i \in Indices :
        /\ InStack(i) /\ top' = top - 1
        /\ mem' = [j \in 1..Slots |-> IF j >= p(i) /\ j < top THEN mem[j + 1] ELSE mem[j]]
        /\ Calls("remove", i, "", "") /\ UNCHANGED <<objects, lenv>>
  BY DEF lua_remove
<1>2. p(i) \in 1..top /\ p(i) = IF i > 0 THEN i ELSE Promised!Top + 1 + i
  BY <1>1, PlaceFacts
<1> DEFINE q == Promised!RemoveAt(SubSeq(mem, 1, top), p(i))
           r == p(i)
<1> HIDE DEF p
<1>3. /\ q \in Seq(Values) /\ Len(q) = top - 1
      /\ \A j \in 1..(top - 1) : q[j] = IF j < r THEN Stack[j] ELSE Stack[j + 1]
  <2>1. Stack \in Seq(Values) /\ Len(Stack) = top
    BY StackFacts
  <2>2. r \in 1..Len(Stack)
    BY <1>2, <2>1
  <2>3. q = Promised!RemoveAt(Stack, r)
    BY DEF Stack
  <2> HIDE DEF q, r
  <2>4. /\ Promised!RemoveAt(Stack, r) \in Seq(Values)
        /\ Len(Promised!RemoveAt(Stack, r)) = Len(Stack) - 1
        /\ \A j \in 1..(Len(Stack) - 1) :
              Promised!RemoveAt(Stack, r)[j] = IF j < r THEN Stack[j] ELSE Stack[j + 1]
    BY <2>1, <2>2, Removed
  <2>5. QED
    BY <2>1, <2>3, <2>4
<1> HIDE DEF q, r
<1>4. /\ top' \in 0..Slots /\ mem' \in [1..Slots -> Values]
      /\ \A j \in 1..(top - 1) : mem'[j] = IF j < r THEN mem[j] ELSE mem[j + 1]
  <2>1. mem' = [j \in 1..Slots |-> IF j >= r /\ j < top THEN mem[j + 1] ELSE mem[j]]
    BY <1>1 DEF r
  <2>2. r \in 1..top
    BY <1>2 DEF r
  <2>3. top \in Nat /\ top <= Slots /\ Slots \in Nat /\ mem \in [1..Slots -> Values]
    BY StackFacts
  <2>4. top' = top - 1
    BY <1>1
  <2>5. top' \in 0..Slots
    BY <2>4, <2>2, <2>3
  <2>6. mem' \in [1..Slots -> Values]
    BY <2>1, <2>2, <2>3
  <2>7. \A j \in 1..(top - 1) : mem'[j] = IF j < r THEN mem[j] ELSE mem[j + 1]
    BY <2>1, <2>2, <2>3
  <2>8. QED
    BY <2>5, <2>6, <2>7
<1>5. ASSUME NEW j \in 1..(top - 1) PROVE q[j] = mem'[j]
  <2>1. j \in 1..top /\ j + 1 \in 1..top
    BY StackFacts
  <2>2. Stack[j] = mem[j] /\ Stack[j + 1] = mem[j + 1]
    BY <2>1, StackFacts
  <2>3. QED
    BY <1>3, <1>4, <2>2
<1>6. SubSeq(mem, 1, top)' = q
  <2>1. Slots \in Nat /\ top - 1 \in 0..Slots
    BY <1>1, <1>4, StackFacts
  <2>2. SubSeq(mem', 1, top - 1) = q
    BY <1>3, <1>4, <1>5, <2>1, WindowIs
  <2>3. QED
    BY <1>1, <2>2
<1>7. Inv'
  BY <1>1, <1>4, StackStep
<1>8. UNCHANGED Promised!objects
  BY <1>1 DEF objects, Promised!objects
<1>9. call'.f = "remove" /\ call'.i = i
  BY <1>1 DEF Calls
<1>10. Promised!Promise(call')
  BY <1>2, <1>6, <1>8, <1>9 DEF Promised!Promise, q
<1>11. QED
  BY <1>7, <1>10 DEF Right

\* A sequence whose last element is replaced by e at place p.
Takes(S, s, p, e) == s \in Seq(S) /\ p \in 1..Len(s) /\ e \in S

LEMMA Inserted ==
  ASSUME NEW S, NEW s, NEW p, NEW e, Takes(S, s, p, e)
  PROVE  LET q == Promised!InsertAt(Promised!Front(s), p, e)
         IN  /\ q \in Seq(S) /\ Len(q) = Len(s)
             /\ \A j \in 1..Len(s) : q[j] = IF j < p THEN s[j] ELSE IF j = p THEN e ELSE s[j - 1]
<1> USE DEF Takes
<1> DEFINE f == SubSeq(s, 1, Len(s) - 1)
           a == SubSeq(f, 1, p - 1)
           b == SubSeq(f, p, Len(f))
<1>1. Len(s) \in Nat /\ Len(s) >= 1
  BY LenProperties
<1>2. f \in Seq(S) /\ Len(f) = Len(s) - 1 /\ \A j \in 1..(Len(s) - 1) : f[j] = s[j]
  <2>1. s \in [1..Len(s) -> S] /\ Len(s) - 1 \in 0..Len(s)
    BY <1>1, LenProperties
  <2>2. QED
    BY <1>1, <2>1, Window
<1> HIDE DEF f
<1>3. \A j \in 1..(Len(s) - 1) : f[j] \in S
  BY <1>2, ElementOfSeq
<1>4. a \in Seq(S) /\ Len(a) = p - 1 /\ \A j \in 1..(p - 1) : a[j] = f[j]
  <2>1. \A j \in 1..(p - 1) : f[j] \in S
    BY <1>1, <1>3
  <2>2. /\ a \in Seq(S) /\ Len(a) = IF 1 <= p - 1 THEN (p - 1) - 1 + 1 ELSE 0
        /\ \A j \in 1..((p - 1) - 1 + 1) : a[j] = f[1 + j - 1]
    BY <1>1, <2>1, SubSeqProperties
  <2>3. QED
    BY <1>1, <2>2
<1>5. b \in Seq(S) /\ Len(b) = Len(s) - p /\ \A j \in 1..(Len(s) - p) : b[j] = f[p + j - 1]
  <2>1. \A j \in p..(Len(s) - 1) : f[j] \in S
    BY <1>1, <1>3
  <2>2. b = SubSeq(f, p, Len(s) - 1)
    BY <1>2
  <2>3. /\ b \in Seq(S) /\ Len(b) = IF p <= Len(s) - 1 THEN (Len(s) - 1) - p + 1 ELSE 0
        /\ \A j \in 1..((Len(s) - 1) - p + 1) : b[j] = f[p + j - 1]
    BY <1>1, <2>1, <2>2, SubSeqProperties
  <2>4. QED
    BY <1>1, <2>3
<1> HIDE DEF a, b
<1>6. <<e>> \in Seq(S) /\ Len(<<e>>) = 1 /\ <<e>>[1] = e
  OBVIOUS
<1> DEFINE c == a \o <<e>>
<1>7. c \in Seq(S) /\ Len(c) = p /\ \A j \in 1..p : c[j] = IF j < p THEN a[j] ELSE e
  <2>1. /\ c \in Seq(S) /\ Len(c) = Len(a) + Len(<<e>>)
        /\ \A j \in 1..(Len(a) + Len(<<e>>)) : c[j] = IF j <= Len(a) THEN a[j] ELSE <<e>>[j - Len(a)]
    BY <1>4, <1>6, ConcatProperties
  <2>2. Len(a) + Len(<<e>>) = p
    BY <1>1, <1>4, <1>6
  <2>3. \A j \in 1..p : j <= Len(a) <=> j < p
    BY <1>1, <1>4
  <2>4. \A j \in 1..p : ~(j < p) => j - Len(a) = 1
    BY <1>1, <1>4
  <2> HIDE DEF c
  <2>5. QED
    BY <1>6, <2>1, <2>2, <2>3, <2>4
<1> HIDE DEF c
<1> DEFINE q == c \o b
<1>8. /\ q \in Seq(S) /\ Len(q) = Len(c) + Len(b)
      /\ \A j \in 1..(Len(c) + Len(b)) : q[j] = IF j <= Len(c) THEN c[j] ELSE b[j - Len(c)]
  BY <1>5, <1>7, ConcatProperties
<1>9. Len(c) + Len(b) = Len(s)
  BY <1>1, <1>5, <1>7
<1> HIDE DEF q
<1>10. ASSUME NEW j \in 1..Len(s)
       PROVE  q[j] = IF j < p THEN s[j] ELSE IF j = p THEN e ELSE s[j - 1]
  <2>1. q[j] = IF j <= p THEN c[j] ELSE b[j - p]
    BY <1>7, <1>8, <1>9
  <2>2. CASE j < p
    <3>1. j \in 1..p /\ j \in 1..(p - 1) /\ j \in 1..(Len(s) - 1)
      BY <1>1, <2>2
    <3>2. q[j] = c[j]
      BY <1>1, <2>1, <2>2
    <3>3. c[j] = a[j]
      BY <1>7, <2>2, <3>1
    <3>4. a[j] = f[j] /\ f[j] = s[j]
      BY <1>2, <1>4, <3>1
    <3>5. QED
      BY <2>2, <3>2, <3>3, <3>4
  <2>3. CASE j = p
    BY <1>1, <1>7, <2>1, <2>3
  <2>4. CASE j > p
    <3>1. j - p \in 1..(Len(s) - p) /\ p + (j - p) - 1 = j - 1 /\ j - 1 \in 1..(Len(s) - 1)
      BY <1>1, <2>4
    <3>2. b[j - p] = f[j - 1] /\ f[j - 1] = s[j - 1]
      BY <1>2, <1>5, <3>1
    <3>3. QED
      BY <1>1, <2>1, <2>4, <3>2
  <2>5. QED
    BY <1>1, <2>2, <2>3, <2>4
<1>11. Promised!InsertAt(Promised!Front(s), p, e) = q
  BY DEF Promised!InsertAt, Promised!Front, q, c, a, b, f
<1>12. QED
  BY <1>8, <1>9, <1>10, <1>11

LEMMA InsertRight ==
  ASSUME Inv, frame' = frame, lua_insert
  PROVE  Right
<1> DEFINE p(i) == index2adr(i).j
           moved(i) == [j \in 1..Slots |-> IF j > p(i) /\ j <= top + 1 THEN mem[j - 1] ELSE mem[j]]
<1>1. PICK i \in Indices :
        /\ InStack(i) /\ Room(1)
        /\ mem' = [moved(i) EXCEPT ![p(i)] = moved(i)[top + 1]]
        /\ Calls("insert", i, "", "") /\ UNCHANGED <<top, objects, lenv>>
  BY DEF lua_insert
<1>2. p(i) \in 1..top /\ p(i) = IF i > 0 THEN i ELSE Promised!Top + 1 + i
  BY <1>1, PlaceFacts
<1> DEFINE r == p(i)
           q == Promised!InsertAt(Promised!Front(SubSeq(mem, 1, top)), r, TopValue)
<1>3. Room(1) /\ top' = top
  BY <1>1
<1>4. top \in Nat /\ Slots \in Nat /\ mem \in [1..Slots -> Values]
  BY StackFacts
<1>5. /\ r \in 1..top /\ top \in Nat /\ top + 1 <= Slots /\ Slots \in Nat
      /\ mem \in [1..Slots -> Values] /\ top' = top /\ top >= 1
  <2> HIDE DEF p
  <2>1. QED
    BY <1>2, <1>3, <1>4 DEF Room
<1>6. TopValue \in Values /\ Promised!Last(SubSeq(mem, 1, top)) = TopValue
  BY <1>5, TopFacts
<1>7. /\ mem' \in [1..Slots -> Values]
      /\ \A j \in 1..top : mem'[j] = IF j < r THEN mem[j] ELSE IF j = r THEN TopValue ELSE mem[j - 1]
  <2> DEFINE m == [j \in 1..Slots |-> IF j > r /\ j <= top + 1 THEN mem[j - 1] ELSE mem[j]]
  <2>1. mem' = [m EXCEPT ![r] = m[top + 1]]
    BY <1>1
  <2> HIDE DEF r
  <2>2. m \in [1..Slots -> Values] /\ m[top + 1] = TopValue
    BY <1>5 DEF TopValue
  <2>3. \A j \in 1..top : m[j] = IF j > r THEN mem[j - 1] ELSE mem[j]
    BY <1>5
  <2> HIDE DEF m
  <2>4. QED
    BY <1>5, <1>6, <2>1, <2>2, <2>3
<1> HIDE DEF r, p
<1>8. /\ q \in Seq(Values) /\ Len(q) = top
      /\ \A j \in 1..top : q[j] = IF j < r THEN Stack[j] ELSE IF j = r THEN TopValue ELSE Stack[j - 1]
  <2>1. Stack \in Seq(Values) /\ Len(Stack) = top
    BY StackFacts
  <2>2. q = Promised!InsertAt(Promised!Front(Stack), r, TopValue)
    BY DEF Stack
  <2> DEFINE b == Promised!InsertAt(Promised!Front(Stack), r, TopValue)
  <2>3. r \in 1..Len(Stack)
    BY <1>5, <2>1
  <2> HIDE DEF r
  <2>4. /\ b \in Seq(Values) /\ Len(b) = Len(Stack)
        /\ \A j \in 1..Len(Stack) : b[j] = IF j < r THEN Stack[j] ELSE IF j = r THEN TopValue ELSE Stack[j - 1]
    <3>1. Takes(Values, Stack, r, TopValue)
      BY <1>6, <2>1, <2>3 DEF Takes
    <3>2. QED
      BY <3>1, Inserted
  <2> HIDE DEF q, b
  <2>5. QED
    BY <2>1, <2>2, <2>4 DEF b
<1> HIDE DEF q
<1>9. ASSUME NEW j \in 1..top PROVE q[j] = mem'[j]
  <2>1. Stack[j] = mem[j]
    BY StackFacts
  <2>2. j > r => Stack[j - 1] = mem[j - 1]
    <3>1. j > r => j - 1 \in 1..top
      BY <1>5
    <3>2. QED
      BY <3>1, StackFacts
  <2>3. QED
    BY <1>5, <1>7, <1>8, <2>1, <2>2
<1>10. SubSeq(mem, 1, top)' = q
  <2>1. SubSeq(mem', 1, top) = q
    BY <1>5, <1>7, <1>8, <1>9, WindowIs
  <2>2. QED
    BY <1>5, <2>1
<1>11. Inv'
  <2>1. UNCHANGED objects
    BY <1>1
  <2>2. top' \in 0..Slots
    BY <1>5
  <2>3. QED
    BY <1>7, <2>1, <2>2, StackStep
<1>12. UNCHANGED Promised!objects
  BY <1>1 DEF objects, Promised!objects
<1>13. call'.f = "insert" /\ call'.i = i
  BY <1>1 DEF Calls
<1>14. q = Promised!InsertAt(Promised!Front(SubSeq(mem, 1, top)),
                             IF i > 0 THEN i ELSE Promised!Top + 1 + i,
                             Promised!Last(SubSeq(mem, 1, top)))
  BY <1>2, <1>6 DEF q, r
<1>15. Promised!Promise(call')
  BY <1>10, <1>12, <1>13, <1>14 DEF Promised!Promise
<1>16. QED
  BY <1>11, <1>15 DEF Right

-----------------------------------------------------------------------------
(***************************************************************************)
(* Calls that change objects.                                              *)
(***************************************************************************)

\* Two windows with the same elements below their tops.
Agree(m, n, w, t, k, S) ==
  /\ n \in Nat /\ m \in [1..n -> S] /\ k \in 0..n
  /\ t \in Nat /\ w \in [1..t -> S] /\ k \in 0..t
  /\ \A j \in 1..k : m[j] = w[j]

SameUpTo(m, w, k) == SubSeq(m, 1, k) = SubSeq(w, 1, k)

LEMMA SameWindows ==
  ASSUME NEW m, NEW n, NEW w, NEW t, NEW k, NEW S, Agree(m, n, w, t, k, S)
  PROVE  SameUpTo(m, w, k)
<1> USE DEF Agree, SameUpTo
<1>1. /\ SubSeq(m, 1, k) \in Seq(S) /\ Len(SubSeq(m, 1, k)) = k
      /\ \A j \in 1..k : SubSeq(m, 1, k)[j] = m[j]
  BY Window
<1>2. /\ SubSeq(w, 1, k) \in Seq(S) /\ Len(SubSeq(w, 1, k)) = k
      /\ \A j \in 1..k : SubSeq(w, 1, k)[j] = w[j]
  BY Window
<1>3. \A j \in 1..k : SubSeq(m, 1, k)[j] = SubSeq(w, 1, k)[j]
  BY <1>1, <1>2
<1>4. QED
  BY <1>1, <1>2, <1>3, SeqEqual

\* The n last values are popped.
LEMMA Shorter ==
  ASSUME Inv, NEW n \in {0, 1, 2}, n <= top, top' = top - n, mem' = mem
  PROVE  SubSeq(mem, 1, top)' = SubSeq(SubSeq(mem, 1, top), 1, Promised!Top - n)
<1>1. /\ Promised!Top = top /\ top \in Nat /\ top \in 0..Slots /\ Slots \in Nat
      /\ Stack \in Seq(Values) /\ Len(Stack) = top /\ mem \in [1..Slots -> Values]
      /\ \A j \in 1..top : Stack[j] = mem[j]
  BY StackFacts DEF Promised!Top, Stack
<1>2. Stack \in [1..top -> Values]
  BY <1>1, LenProperties
<1>3. top - n \in 0..top /\ top - n \in 0..Slots
  BY <1>1
<1>4. Agree(mem, Slots, Stack, top, top - n, Values)
  BY <1>1, <1>2, <1>3 DEF Agree
<1>5. SubSeq(mem, 1, top - n) = SubSeq(Stack, 1, top - n)
  <2>1. SameUpTo(mem, Stack, top - n)
    BY <1>4, SameWindows
  <2>2. QED
    BY <2>1 DEF SameUpTo
<1>6. QED
  BY <1>1, <1>5 DEF Stack

\* An upvalue of a function is replaced.
LEMMA UpvalueSet ==
  ASSUME Inv, NEW f \in {Fun, New}, NEW n \in 1..Len(ups[f]), NEW v \in Values
  PROVE  [ups EXCEPT ![f][n] = v] \in [{Fun, New} -> Seq(Values)]
<1>1. ups \in [{Fun, New} -> Seq(Values)]
  BY DEF Inv
<1>2. [ups[f] EXCEPT ![n] = v] \in Seq(Values)
  BY <1>1, ExceptSeq
<1>3. QED
  BY <1>1, <1>2

\* What an index names, other than the environment, is replaced, and n values
\* are popped.
LEMMA Assigning ==
  ASSUME Inv, frame' = frame, NEW i \in Indices, Valid(i), i # -11, NEW v \in Values,
         setobj(index2adr(i), v), UNCHANGED <<env, tab, meta, heap>>,
         NEW n \in {0, 1}, n <= top, top' = top - n
  PROVE  Inv' /\ Promised!Assigned(i, v, n)
<1> DEFINE a == index2adr(i)
           at == IF i > 0 THEN i ELSE Promised!Top + 1 + i
<1>1. /\ Promised!Top = top /\ top \in Nat /\ top \in 0..Slots /\ Slots \in Nat
      /\ Stack \in Seq(Values) /\ Len(Stack) = top /\ mem \in [1..Slots -> Values]
      /\ \A j \in 1..top : Stack[j] = mem[j]
  BY StackFacts DEF Promised!Top, Stack
<1>2. i \in Int /\ i # 0 /\ Acceptable(i) /\ a # NilObject
  BY IndexFacts DEF Valid
<1>3. /\ Promised!REG = -10 /\ Promised!ENV = -11 /\ Promised!GLOB = -12
  BY DEF Promised!REG, Promised!ENV, Promised!GLOB
<1>4. top' \in 0..Slots
  BY <1>1
<1>5. /\ ups \in [{Fun, New} -> Seq(Values)] /\ pseudo \in [{"reg", "gt"} -> Values]
      /\ heap' = heap /\ env' = env /\ meta' = meta /\ tab' = tab
  BY DEF Inv
<1>6. ASSUME mem' \in [1..Slots -> Values], ups' \in [{Fun, New} -> Seq(Values)],
             pseudo' \in [{"reg", "gt"} -> Values]
      PROVE  Inv'
  <2>1. /\ Slots' = Slots /\ Values' = Values
        /\ env \in [{Fun, New} -> Objects'] /\ meta \in [Tables -> Objects']
        /\ tab \in [Tables -> [Keys -> Values']]
    BY <1>5, Monotone DEF Values, Initial
  <2>2. heap \subseteq heap' /\ heap' \subseteq Tables \cup {Fun, New}
    BY <1>5 DEF Inv
  <2>3. QED
    BY <1>4, <1>5, <1>6, <2>1, <2>2, Kept
<1>7. CASE i > -10
  <2>1. InStack(i)
    BY <1>7 DEF InStack, LUA_REGISTRYINDEX
  <2>2. a = Slot(at) /\ at \in 1..top
    BY <2>1, PlaceFacts
  <2>3. mem' = [mem EXCEPT ![at] = v] /\ ups' = ups /\ pseudo' = pseudo
    BY <2>2 DEF setobj, Slot
  <2> HIDE DEF at
  <2>4. mem' \in [1..Slots -> Values]
    BY <1>1, <2>3
  <2>5. Inv'
    BY <1>5, <1>6, <2>3, <2>4
  <2>6. Agree(mem', Slots, [Stack EXCEPT ![at] = v], top, top - n, Values)
    <3>1. Stack \in [1..top -> Values]
      BY <1>1, LenProperties
    <3>2. [Stack EXCEPT ![at] = v] \in [1..top -> Values]
      BY <3>1
    <3>3. top - n \in 0..top /\ top - n \in 0..Slots
      BY <1>1
    <3>4. \A j \in 1..(top - n) : mem'[j] = [Stack EXCEPT ![at] = v][j]
      BY <1>1, <2>2, <2>3, <3>1
    <3>5. QED
      BY <1>1, <2>4, <3>2, <3>3, <3>4 DEF Agree
  <2>7. SubSeq(mem', 1, top - n) = SubSeq([Stack EXCEPT ![at] = v], 1, top - n)
    <3>1. SameUpTo(mem', [Stack EXCEPT ![at] = v], top - n)
      BY <2>6, SameWindows
    <3>2. QED
      BY <3>1 DEF SameUpTo
  <2>8. SubSeq(mem, 1, top)' = SubSeq([SubSeq(mem, 1, top) EXCEPT ![at] = v], 1, Promised!Top - n)
    BY <1>1, <2>7 DEF Stack
  <2>9. UNCHANGED Promised!objects
    BY <1>5, <2>3 DEF Promised!objects
  <2>10. i > Promised!REG
    BY <1>3, <1>7
  <2>11. Promised!Assigned(i, v, n)
    BY <2>8, <2>9, <2>10 DEF Promised!Assigned, at
  <2>12. QED
    BY <2>5, <2>11
<1>8. ASSUME mem' = mem PROVE SubSeq(mem, 1, top)' = SubSeq(SubSeq(mem, 1, top), 1, Promised!Top - n)
  BY <1>8, Shorter
<1>9. CASE i = -10
  <2>1. a = [k |-> "reg", j |-> 0]
    BY <1>2, <1>9, AddressFacts
  <2>2. mem' = mem /\ ups' = ups /\ pseudo' = [pseudo EXCEPT !["reg"] = v]
    BY <2>1 DEF setobj
  <2>3. Inv'
    BY <1>1, <1>5, <1>6, <2>2
  <2>4. /\ ~(i > Promised!REG) /\ i = Promised!REG /\ i # Promised!GLOB
        /\ i # Promised!ENV /\ ~(i < Promised!GLOB)
    BY <1>3, <1>9
  <2>5. Promised!Assigned(i, v, n)
    <3>1. SubSeq(mem, 1, top)' = SubSeq(SubSeq(mem, 1, top), 1, Promised!Top - n)
      BY <1>8, <2>2, Zenon
    <3>2. UNCHANGED <<tab, meta, heap>> /\ env' = env /\ ups' = ups
      BY <1>5, <2>2
    <3>3. QED
      BY <2>2, <2>4, <3>1, <3>2 DEF Promised!Assigned
  <2>6. QED
    BY <2>3, <2>5
<1>10. CASE i = -12
  <2>1. a = [k |-> "gt", j |-> 0]
    BY <1>2, <1>10, AddressFacts
  <2>2. mem' = mem /\ ups' = ups /\ pseudo' = [pseudo EXCEPT !["gt"] = v]
    BY <2>1 DEF setobj
  <2>3. Inv'
    BY <1>1, <1>5, <1>6, <2>2
  <2>4. /\ ~(i > Promised!REG) /\ i # Promised!REG /\ i = Promised!GLOB
        /\ i # Promised!ENV /\ ~(i < Promised!GLOB)
    BY <1>3, <1>10
  <2>5. Promised!Assigned(i, v, n)
    <3>1. SubSeq(mem, 1, top)' = SubSeq(SubSeq(mem, 1, top), 1, Promised!Top - n)
      BY <1>8, <2>2, Zenon
    <3>2. UNCHANGED <<tab, meta, heap>> /\ env' = env /\ ups' = ups
      BY <1>5, <2>2
    <3>3. QED
      BY <2>2, <2>4, <3>1, <3>2 DEF Promised!Assigned
  <2>6. QED
    BY <2>3, <2>5
<1>11. CASE i < -12
  <2> DEFINE u == -12 - i
  <2>1. a = [k |-> "up", j |-> u] /\ u \in 1..Len(ups[Fun])
    BY <1>2, <1>11, AddressFacts
  <2>2. mem' = mem /\ ups' = [ups EXCEPT ![Fun][u] = v] /\ pseudo' = pseudo
    BY <2>1 DEF setobj
  <2>3. Inv'
    BY <1>1, <1>5, <1>6, <2>1, <2>2, UpvalueSet
  <2>4. /\ ~(i > Promised!REG) /\ i # Promised!REG /\ i # Promised!GLOB
        /\ i # Promised!ENV /\ i < Promised!GLOB /\ Promised!GLOB - i = u
    BY <1>2, <1>3, <1>11
  <2> HIDE DEF u
  <2>5. Promised!Assigned(i, v, n)
    <3>1. SubSeq(mem, 1, top)' = SubSeq(SubSeq(mem, 1, top), 1, Promised!Top - n)
      BY <1>8, <2>2, Zenon
    <3>2. UNCHANGED <<tab, meta, heap>> /\ env' = env
      BY <1>5, <2>2
    <3>3. QED
      BY <2>2, <2>4, <3>1, <3>2 DEF Promised!Assigned
  <2>6. QED
    BY <2>3, <2>5
<1>12. QED
  BY <1>2, <1>7, <1>9, <1>10, <1>11

LEMMA ReplaceRight ==
  ASSUME Inv, frame' = frame, lua_replace
  PROVE  Right
<1>1. PICK i \in Indices :
        /\ Valid(i) /\ top >= 1
        /\ IF i = LUA_ENVIRONINDEX
           THEN /\ TopValue \in Tables /\ env' = [env EXCEPT ![Fun] = TopValue]
                /\ UNCHANGED <<mem, ups, pseudo, lenv>>
           ELSE setobj(index2adr(i), TopValue) /\ UNCHANGED env
        /\ top' = top - 1
        /\ Calls("replace", i, "", "") /\ UNCHANGED <<tab, meta, heap>>
  BY DEF lua_replace
<1>2. TopValue \in Values /\ Promised!Last(SubSeq(mem, 1, top)) = TopValue /\ top \in 1..Slots
  BY <1>1, TopFacts
<1>3. call'.f = "replace" /\ call'.i = i
  BY <1>1 DEF Calls
<1>4. Inv' /\ Promised!Assigned(i, TopValue, 1)
  <2>1. CASE i = -11
    <3>1. /\ TopValue \in Tables /\ env' = [env EXCEPT ![Fun] = TopValue]
          /\ mem' = mem /\ ups' = ups /\ pseudo' = pseudo
          /\ tab' = tab /\ meta' = meta /\ heap' = heap
      BY <1>1, <2>1 DEF LUA_ENVIRONINDEX
    <3>2. TopValue \in Objects
      BY <1>2, <3>1, ValueFacts
    <3>3. /\ heap \subseteq heap' /\ heap' \subseteq Tables \cup {Fun, New}
          /\ env \in [{Fun, New} -> Objects]
      BY <3>1 DEF Inv
    <3>4. /\ Objects \subseteq Objects'
          /\ mem \in [1..Slots -> Values'] /\ ups \in [{Fun, New} -> Seq(Values')]
          /\ pseudo \in [{"reg", "gt"} -> Values']
          /\ meta \in [Tables -> Objects'] /\ tab \in [Tables -> [Keys -> Values']]
      BY <3>3, Monotone
    <3>5. env' \in [{Fun, New} -> Objects']
      BY <3>1, <3>2, <3>3, <3>4
    <3>6. top' = top - 1 /\ top >= 1
      BY <1>1
    <3>7. top' \in 0..Slots
      BY <3>6, StackFacts
    <3>8. Inv'
      BY <3>1, <3>3, <3>4, <3>5, <3>7, Kept
    <3>9. SubSeq(mem, 1, top)' = SubSeq(SubSeq(mem, 1, top), 1, Promised!Top - 1)
      BY <1>1, <3>1, Shorter
    <3>10. /\ ~(i > Promised!REG) /\ i # Promised!REG /\ i # Promised!GLOB
          /\ i = Promised!ENV /\ ~(i < Promised!GLOB)
      BY <2>1 DEF Promised!REG, Promised!ENV, Promised!GLOB
    <3>11. Promised!Assigned(i, TopValue, 1)
      BY <3>1, <3>9, <3>10 DEF Promised!Assigned
    <3>12. QED
      BY <3>8, <3>11
  <2>2. CASE i # -11
    <3>1. setobj(index2adr(i), TopValue) /\ UNCHANGED <<env, tab, meta, heap>>
      BY <1>1, <2>2 DEF LUA_ENVIRONINDEX
    <3>2. QED
      BY <1>1, <1>2, <2>2, <3>1, Assigning
  <2>3. QED
    BY <2>1, <2>2
<1>5. Promised!Promise(call')
  BY <1>2, <1>3, <1>4 DEF Promised!Promise
<1>6. QED
  BY <1>4, <1>5 DEF Right

LEMMA TolstringRight ==
  ASSUME Inv, frame' = frame, lua_tolstring
  PROVE  Right
<1>1. PICK i \in Indices :
        /\ Acceptable(i)
        /\ IF At(index2adr(i)) = "num" THEN setobj(index2adr(i), "str")
           ELSE UNCHANGED <<mem, ups, pseudo, lenv>>
        /\ Calls("tolstring", i, "", IF At(index2adr(i)) \in {"num", "str"} THEN "str" ELSE "NULL")
        /\ UNCHANGED <<top, env, tab, meta, heap>>
  BY DEF lua_tolstring
<1> DEFINE o == At(index2adr(i))
           v == Promised!Named(i)
<1>2. /\ o = "num" <=> v = "num"
      /\ o = "str" <=> v = "str"
      /\ o = "num" => index2adr(i) # NilObject
  BY <1>1, NamedFacts
<1>3. /\ call'.f = "tolstring" /\ call'.i = i
      /\ call'.r = IF o \in {"num", "str"} THEN "str" ELSE "NULL"
  BY <1>1 DEF Calls
<1>4. CASE o = "num"
  <2>1. Valid(i) /\ setobj(index2adr(i), "str")
    BY <1>1, <1>2, <1>4 DEF Valid
  <2>2. i # -11
    <3>1. SUFFICES ASSUME i = -11 PROVE FALSE
      OBVIOUS
    <3>2. index2adr(i) = [k |-> "env", j |-> 0]
      BY <1>1, <3>1, AddressFacts
    <3>3. o = env[Fun]
      BY <3>2 DEF At
    <3>4. env[Fun] \in Objects
      BY DEF Inv
    <3>5. QED
      BY <1>4, <3>3, <3>4, ValueFacts
  <2>3. "str" \in Values /\ top \in Nat /\ 0 <= top /\ top' = top - 0
    <3>1. top' = top
      BY <1>1
    <3>2. QED
      BY <3>1, ValueFacts, StackFacts
  <2>4. Inv' /\ Promised!Assigned(i, "str", 0)
    BY <1>1, <2>1, <2>2, <2>3, Assigning
  <2>5. Promised!Promise(call')
    BY <1>2, <1>3, <1>4, <2>4 DEF Promised!Promise
  <2>6. QED
    BY <2>4, <2>5 DEF Right
<1>5. CASE o # "num"
  <2>1. UNCHANGED objects /\ UNCHANGED state
    BY <1>1, <1>5 DEF objects, state
  <2>2. Inv' /\ Promised!Becomes(0, <<>>)
    BY <2>1, Staying
  <2>3. Promised!Promise(call')
    BY <1>2, <1>3, <1>5, <2>2 DEF Promised!Promise
  <2>4. QED
    BY <2>2, <2>3 DEF Right
<1>6. QED
  BY <1>4, <1>5

\* Objects are changed, and the n last values popped.
LEMMA Storing ==
  ASSUME Inv, frame' = frame, NEW n \in {1, 2}, n <= top, top' = top - n,
         UNCHANGED <<mem, pseudo, heap>>,
         ups' \in [{Fun, New} -> Seq(Values)], env' \in [{Fun, New} -> Objects],
         meta' \in [Tables -> Objects], tab' \in [Tables -> [Keys -> Values]]
  PROVE  Inv' /\ Promised!Stores(n, tab', meta', env', ups')
<1>1. mem' = mem /\ pseudo' = pseudo /\ heap' = heap
  OBVIOUS
<1>2. Values' = Values /\ Objects' = Objects
  BY <1>1 DEF Values, Initial, Objects
<1>3. mem \in [1..Slots -> Values'] /\ pseudo \in [{"reg", "gt"} -> Values']
  BY <1>1, Monotone
<1>4. heap \subseteq heap' /\ heap' \subseteq Tables \cup {Fun, New}
  BY <1>1 DEF Inv
<1>5. top' \in 0..Slots
  BY StackFacts
<1>6. Inv'
  BY <1>1, <1>2, <1>3, <1>4, <1>5, Kept
<1>7. SubSeq(mem, 1, top)' = SubSeq(SubSeq(mem, 1, top), 1, Promised!Top - n)
  BY <1>1, Shorter
<1>8. QED
  BY <1>1, <1>6, <1>7 DEF Promised!Stores

\* The parts that keep their types.
LEMMA ObjectFacts ==
  ASSUME Inv
  PROVE  /\ ups \in [{Fun, New} -> Seq(Values)] /\ env \in [{Fun, New} -> Objects]
         /\ meta \in [Tables -> Objects] /\ tab \in [Tables -> [Keys -> Values]]
  BY DEF Inv

LEMMA SettableRight ==
  ASSUME Inv, frame' = frame, lua_settable
  PROVE  Right
<1>1. PICK i \in Indices :
        /\ IsTable(i) /\ top >= 2 /\ mem[top - 1] \in Keys
        /\ tab' = [tab EXCEPT ![At(index2adr(i))][mem[top - 1]] = mem[top]]
        /\ top' = top - 2
        /\ Calls("settable", i, "", "") /\ UNCHANGED <<mem, ups, env, pseudo, meta, heap, lenv>>
  BY DEF lua_settable
<1> DEFINE t == At(index2adr(i))
           k == mem[top - 1]
<1>2. t \in Tables /\ Promised!Named(i) = t
  BY <1>1, TableFacts
<1>3. top \in Nat /\ top >= 2 /\ Promised!Top = top
  BY <1>1, StackFacts DEF Promised!Top, Stack
<1>4. TopValue \in Values /\ Promised!Last(SubSeq(mem, 1, top)) = TopValue
  BY <1>3, TopFacts
<1>5. SubSeq(mem, 1, top)[Promised!Top - 1] = k
  <2>1. top - 1 \in 1..top
    BY <1>3
  <2>2. QED
    BY <1>3, <2>1, StackFacts DEF Stack
<1> HIDE DEF t, k
<1>6. k \in Keys /\ tab' = [tab EXCEPT ![t][k] = TopValue]
  BY <1>1 DEF t, k, TopValue
<1>7. tab' \in [Tables -> [Keys -> Values]]
  BY <1>2, <1>4, <1>6, ObjectFacts
<1>8. Inv' /\ Promised!Stores(2, tab', meta', env', ups')
  BY <1>1, <1>3, <1>7, ObjectFacts, Storing
<1>9. tab' = Promised!Put(t, k, TopValue)
  BY <1>6 DEF Promised!Put
<1>10. meta' = meta /\ env' = env /\ ups' = ups
  BY <1>1
<1>11. call'.f = "settable" /\ call'.i = i
  BY <1>1 DEF Calls
<1>12. Promised!Promise(call')
  BY <1>2, <1>4, <1>5, <1>8, <1>9, <1>10, <1>11 DEF Promised!Promise
<1>13. QED
  BY <1>8, <1>12 DEF Right

LEMMA SetfieldRight ==
  ASSUME Inv, frame' = frame, lua_setfield
  PROVE  Right
<1>1. PICK i \in Indices, k \in Keys :
        /\ IsTable(i) /\ top >= 1
        /\ tab' = [tab EXCEPT ![At(index2adr(i))][k] = TopValue]
        /\ top' = top - 1
        /\ Calls("setfield", i, k, "") /\ UNCHANGED <<mem, ups, env, pseudo, meta, heap, lenv>>
  BY DEF lua_setfield
<1> DEFINE t == At(index2adr(i))
<1>2. t \in Tables /\ Promised!Named(i) = t
  BY <1>1, TableFacts
<1>3. TopValue \in Values /\ Promised!Last(SubSeq(mem, 1, top)) = TopValue
  BY <1>1, TopFacts
<1>4. tab' = [tab EXCEPT ![t][k] = TopValue]
  BY <1>1
<1> HIDE DEF t
<1>5. tab' \in [Tables -> [Keys -> Values]]
  BY <1>2, <1>3, <1>4, ObjectFacts
<1>6. Inv' /\ Promised!Stores(1, tab', meta', env', ups')
  BY <1>1, <1>5, ObjectFacts, Storing
<1>7. tab' = Promised!Put(t, k, TopValue)
  BY <1>4 DEF Promised!Put
<1>8. meta' = meta /\ env' = env /\ ups' = ups
  BY <1>1
<1>9. call'.f = "setfield" /\ call'.i = i /\ call'.n = k
  BY <1>1 DEF Calls
<1>10. Promised!Promise(call')
  BY <1>2, <1>3, <1>6, <1>7, <1>8, <1>9 DEF Promised!Promise
<1>11. QED
  BY <1>6, <1>10 DEF Right

LEMMA SetmetatableRight ==
  ASSUME Inv, frame' = frame, lua_setmetatable
  PROVE  Right
<1>1. PICK i \in Indices :
        /\ IsTable(i) /\ top >= 1 /\ TopValue \in Tables \cup {"nil"}
        /\ meta' = [meta EXCEPT ![At(index2adr(i))] = TopValue]
        /\ top' = top - 1
        /\ Calls("setmetatable", i, "", "") /\ UNCHANGED <<mem, ups, env, pseudo, tab, heap, lenv>>
  BY DEF lua_setmetatable
<1> DEFINE t == At(index2adr(i))
<1>2. t \in Tables /\ Promised!Named(i) = t
  BY <1>1, TableFacts
<1>3. TopValue \in Values /\ Promised!Last(SubSeq(mem, 1, top)) = TopValue
  BY <1>1, TopFacts
<1>4. meta' = [meta EXCEPT ![t] = TopValue]
  BY <1>1
<1>5. TopValue \in Objects
  BY <1>1, <1>3, ValueFacts DEF Objects
<1> HIDE DEF t
<1>6. meta' \in [Tables -> Objects]
  BY <1>2, <1>4, <1>5, ObjectFacts
<1>7. Inv' /\ Promised!Stores(1, tab', meta', env', ups')
  BY <1>1, <1>6, ObjectFacts, Storing
<1>8. tab' = tab /\ env' = env /\ ups' = ups
  BY <1>1
<1>9. call'.f = "setmetatable" /\ call'.i = i
  BY <1>1 DEF Calls
<1>10. Promised!Promise(call')
  BY <1>2, <1>3, <1>4, <1>7, <1>8, <1>9 DEF Promised!Promise
<1>11. QED
  BY <1>7, <1>10 DEF Right

LEMMA SetfenvRight ==
  ASSUME Inv, frame' = frame, lua_setfenv
  PROVE  Right
<1>1. PICK i \in Indices :
        /\ Valid(i) /\ top >= 1 /\ TopValue \in Tables
        /\ env' = IF IsFunction(At(index2adr(i))) THEN [env EXCEPT ![At(index2adr(i))] = TopValue] ELSE env
        /\ top' = top - 1
        /\ Calls("setfenv", i, "", IF IsFunction(At(index2adr(i))) THEN "true" ELSE "false")
        /\ UNCHANGED <<mem, ups, pseudo, tab, meta, heap, lenv>>
  BY DEF lua_setfenv
<1> DEFINE o == At(index2adr(i))
           v == Promised!Named(i)
<1>2. Acceptable(i)
  BY <1>1 DEF Valid
<1>3. /\ IsFunction(o) <=> v \in DOMAIN env
      /\ IsFunction(o) => v = o /\ o \in {Fun, New}
  BY <1>2, FunctionFacts
<1>4. TopValue \in Objects /\ Promised!Last(SubSeq(mem, 1, top)) = TopValue
  BY <1>1, TopFacts, ValueFacts
<1>5. /\ call'.f = "setfenv" /\ call'.i = i
      /\ call'.r = IF IsFunction(o) THEN "true" ELSE "false"
  BY <1>1 DEF Calls
<1>6. tab' = tab /\ meta' = meta /\ ups' = ups /\ mem' = mem /\ pseudo' = pseudo /\ heap' = heap
  BY <1>1
<1>7. CASE IsFunction(o)
  <2>1. env' = [env EXCEPT ![o] = TopValue]
    BY <1>1, <1>7
  <2>2. env' \in [{Fun, New} -> Objects]
    BY <1>3, <1>4, <1>7, <2>1, ObjectFacts
  <2>3. Inv' /\ Promised!Stores(1, tab', meta', env', ups')
    BY <1>1, <2>2, ObjectFacts, Storing
  <2>4. Promised!Promise(call')
    BY <1>3, <1>4, <1>5, <1>6, <1>7, <2>1, <2>3 DEF Promised!Promise
  <2>5. QED
    BY <2>3, <2>4 DEF Right
<1>8. CASE ~IsFunction(o)
  <2>1. UNCHANGED objects
    BY <1>1, <1>8 DEF objects
  <2>2. Inv' /\ Promised!Becomes(1, <<>>)
    BY <1>1, <2>1, Popping
  <2>3. Promised!Promise(call')
    BY <1>3, <1>5, <1>8, <2>2 DEF Promised!Promise
  <2>4. QED
    BY <2>2, <2>3 DEF Right
<1>9. QED
  BY <1>7, <1>8

LEMMA SetupvalueRight ==
  ASSUME Inv, frame' = frame, lua_setupvalue
  PROVE  Right
<1>1. PICK i \in Indices, n \in 1..2 :
        /\ Acceptable(i) /\ top >= 1
        /\ IF aux_upvalue(At(index2adr(i)), n)
           THEN top' = top - 1 /\ ups' = [ups EXCEPT ![At(index2adr(i))][n] = TopValue]
           ELSE UNCHANGED <<top, ups>>
        /\ Calls("setupvalue", i, n, "") /\ UNCHANGED <<mem, env, pseudo, tab, meta, heap, lenv>>
  BY DEF lua_setupvalue
<1> DEFINE f == At(index2adr(i))
           v == Promised!Named(i)
<1>2. /\ aux_upvalue(f, n) <=> v \in DOMAIN ups /\ n \in DOMAIN ups[v]
      /\ aux_upvalue(f, n) => v = f /\ f \in {Fun, New} /\ n \in 1..Len(ups[f])
  BY <1>1, UpvalueFacts
<1>3. TopValue \in Values /\ Promised!Last(SubSeq(mem, 1, top)) = TopValue
  BY <1>1, TopFacts
<1>4. call'.f = "setupvalue" /\ call'.i = i /\ call'.n = n
  BY <1>1 DEF Calls
<1>5. tab' = tab /\ meta' = meta /\ env' = env /\ mem' = mem /\ pseudo' = pseudo /\ heap' = heap
  BY <1>1
<1>6. CASE aux_upvalue(f, n)
  <2>1. ups' = [ups EXCEPT ![f][n] = TopValue] /\ top' = top - 1
    BY <1>1, <1>6
  <2>2. ups' \in [{Fun, New} -> Seq(Values)]
    BY <1>2, <1>3, <1>6, <2>1, UpvalueSet
  <2>3. Inv' /\ Promised!Stores(1, tab', meta', env', ups')
    BY <1>1, <1>5, <2>1, <2>2, ObjectFacts, Storing
  <2>4. Promised!Promise(call')
    BY <1>2, <1>3, <1>4, <1>5, <1>6, <2>1, <2>3 DEF Promised!Promise
  <2>5. QED
    BY <2>3, <2>4 DEF Right
<1>7. CASE ~aux_upvalue(f, n)
  <2>1. UNCHANGED objects /\ UNCHANGED state
    BY <1>1, <1>7 DEF objects, state
  <2>2. Inv' /\ Promised!Becomes(0, <<>>)
    BY <2>1, Staying
  <2>3. Promised!Promise(call')
    BY <1>2, <1>4, <1>7, <2>2 DEF Promised!Promise
  <2>4. QED
    BY <2>2, <2>3 DEF Right
<1>8. QED
  BY <1>6, <1>7

\* An object is made, the k last values are popped and the object pushed.
LEMMA Making ==
  ASSUME Inv, frame' = frame, NEW o, o \in Tables \cup {Fun, New}, heap' = heap \cup {o},
         NEW k \in Nat, k <= top, top - k + 1 <= Slots,
         mem' = [mem EXCEPT ![top - k + 1] = o], top' = top - k + 1
  PROVE  /\ mem' \in [1..Slots -> Values'] /\ top' \in 0..Slots
         /\ heap \subseteq heap' /\ heap' \subseteq Tables \cup {Fun, New}
         /\ SubSeq(mem, 1, top)' = SubSeq(SubSeq(mem, 1, top), 1, Promised!Top - k) \o <<o>>
<1>1. heap \subseteq heap' /\ heap' \subseteq Tables \cup {Fun, New}
  BY DEF Inv
<1>2. mem \in [1..Slots -> Values'] /\ o \in Values'
  <2>1. mem \in [1..Slots -> Values']
    BY <1>1, Monotone
  <2>2. QED
    BY <2>1 DEF Values
<1>3. top \in Nat /\ top \in 0..Slots /\ Slots \in Nat /\ Promised!Top = top
  BY StackFacts DEF Promised!Top, Stack
<1>4. top - k + 1 \in 1..Slots /\ top' \in 0..Slots /\ k \in 0..top
  BY <1>3
<1>5. /\ mem' \in [1..Slots -> Values'] /\ mem'[top - k + 1] = o
      /\ \A j \in 1..(top - k) : mem'[j] = mem[j]
  BY <1>2, <1>3, <1>4
<1>6. <<o>> \in Seq(Values') /\ Len(<<o>>) = 1 /\ <<o>>[1] = o
  BY <1>2
<1>7. \A j \in 1..Len(<<o>>) : mem'[top - k + j] = <<o>>[j]
  BY <1>5, <1>6
<1>8. top - k + Len(<<o>>) <= Slots
  BY <1>6
<1>9. Moves(mem, mem', Slots, top, k, <<o>>, Values')
  BY <1>2, <1>3, <1>4, <1>5, <1>6, <1>7, <1>8 DEF Moves
<1>10. Moved(mem, mem', top, k, <<o>>)
  BY <1>9, SequenceMoves
<1>11. SubSeq(mem', 1, top - k + 1) = SubSeq(SubSeq(mem, 1, top), 1, top - k) \o <<o>>
  BY <1>6, <1>10 DEF Moved
<1>12. QED
  BY <1>1, <1>3, <1>4, <1>5, <1>11

LEMMA CreatetableRight ==
  ASSUME Inv, frame' = frame, lua_createtable
  PROVE  Right
<1>1. PICK t \in Made \ heap :
        /\ Pushes(t) /\ heap' = heap \cup {t}
        /\ tab' = [tab EXCEPT ![t] = [k \in Keys |-> "nil"]]
        /\ meta' = [meta EXCEPT ![t] = "nil"]
        /\ Calls("createtable", 0, "", "") /\ UNCHANGED <<ups, env, pseudo, lenv>>
  BY DEF lua_createtable
<1>2. t \in Tables
  BY FrameFacts DEF Inv
<1>3. /\ top \in Nat /\ 0 <= top /\ top - 0 + 1 <= Slots
      /\ mem' = [mem EXCEPT ![top - 0 + 1] = t] /\ top' = top - 0 + 1
  <2>1. Room(1) /\ mem' = [mem EXCEPT ![top + 1] = t] /\ top' = top + 1
    BY <1>1 DEF Pushes
  <2>2. top \in Nat /\ top + 1 <= Slots
    BY <2>1, StackFacts DEF Room
  <2>3. 0 <= top /\ top - 0 + 1 = top + 1
    BY <2>2
  <2>4. QED
    BY <2>1, <2>2, <2>3
<1>4. /\ mem' \in [1..Slots -> Values'] /\ top' \in 0..Slots
      /\ heap \subseteq heap' /\ heap' \subseteq Tables \cup {Fun, New}
      /\ SubSeq(mem, 1, top)' = SubSeq(SubSeq(mem, 1, top), 1, Promised!Top - 0) \o <<t>>
  BY <1>1, <1>2, <1>3, Making
<1>5. /\ ups \in [{Fun, New} -> Seq(Values')] /\ env \in [{Fun, New} -> Objects']
      /\ pseudo \in [{"reg", "gt"} -> Values']
      /\ meta \in [Tables -> Objects'] /\ tab \in [Tables -> [Keys -> Values']]
  BY <1>4, Monotone
<1>6. "nil" \in Values' /\ "nil" \in Objects'
  BY DEF Values, Objects
<1>7. meta' \in [Tables -> Objects'] /\ tab' \in [Tables -> [Keys -> Values']]
  BY <1>1, <1>2, <1>5, <1>6
<1>8. Inv'
  BY <1>1, <1>4, <1>5, <1>7, Kept
<1>9. SubSeq(mem, 1, top)' = Append(SubSeq(mem, 1, top), t)
  <2>1. Stack \in Seq(Values) /\ Len(Stack) = top /\ Promised!Top = Len(Stack) /\ top \in Nat
    BY StackFacts DEF Promised!Top, Stack
  <2>2. Promised!Top - 0 = Len(Stack)
    BY <2>1
  <2>3. SubSeq(Stack, 1, Len(Stack)) = Stack
    BY <2>1, SubSeqFull
  <2>4. Append(Stack, t) = Stack \o <<t>>
    <3>1. Stack \in Seq(Values \cup {t})
      BY <2>1, SeqMonotonic, Values \subseteq Values \cup {t}
    <3>2. t \in Values \cup {t}
      OBVIOUS
    <3>3. QED
      BY <3>1, <3>2, AppendIsConcat
  <2>5. SubSeq(mem, 1, top)' = SubSeq(Stack, 1, Promised!Top - 0) \o <<t>>
    BY <1>4 DEF Stack
  <2>6. SubSeq(mem, 1, top)' = Append(Stack, t)
    BY <2>2, <2>3, <2>4, <2>5
  <2>7. QED
    BY <2>6 DEF Stack
<1>10. call'.f = "createtable"
  BY <1>1 DEF Calls
<1>11. \E o \in Tables \ heap :
         /\ SubSeq(mem, 1, top)' = Append(SubSeq(mem, 1, top), o) /\ heap' = heap \cup {o}
         /\ tab' = [tab EXCEPT ![o] = [k \in Keys |-> "nil"]] /\ meta' = [meta EXCEPT ![o] = "nil"]
         /\ UNCHANGED <<ups, env, pseudo>>
  BY <1>1, <1>2, <1>9
<1>12. Promised!Promise(call')
  BY <1>10, <1>11 DEF Promised!Promise
<1>13. QED
  BY <1>8, <1>12 DEF Right

LEMMA PushcclosureRight ==
  ASSUME Inv, frame' = frame, lua_pushcclosure
  PROVE  Right
<1> DEFINE u(n) == [i \in 1..n |-> mem[top - n + i]]
<1>1. PICK n \in 0..MaxUp :
        /\ n <= top /\ New \notin heap /\ Room(1 - n)
        /\ mem' = [mem EXCEPT ![top - n + 1] = New] /\ top' = top - n + 1
        /\ ups' = [ups EXCEPT ![New] = u(n)] /\ env' = [env EXCEPT ![New] = env[Fun]]
        /\ heap' = heap \cup {New}
        /\ Calls("pushcclosure", 0, n, "") /\ UNCHANGED <<pseudo, tab, meta, lenv>>
  BY DEF lua_pushcclosure
<1>2. n \in Nat /\ n <= top /\ top \in Nat /\ Slots \in Nat /\ Promised!Top = top
  <2>1. top \in Nat /\ Slots \in Nat /\ Promised!Top = top
    BY StackFacts DEF Promised!Top, Stack
  <2>2. MaxUp \in Int
    BY FrameFacts DEF Inv
  <2>3. n \in Nat
    BY <2>2
  <2>4. n <= top
    BY <1>1
  <2>5. QED
    BY <2>1, <2>3, <2>4
<1>3. top - n + 1 <= Slots
  <2>1. top + (1 - n) <= Slots
    BY <1>1 DEF Room
  <2>2. QED
    BY <1>2, <2>1
<1>4. /\ mem' \in [1..Slots -> Values'] /\ top' \in 0..Slots
      /\ heap \subseteq heap' /\ heap' \subseteq Tables \cup {Fun, New}
      /\ SubSeq(mem, 1, top)' = SubSeq(SubSeq(mem, 1, top), 1, Promised!Top - n) \o <<New>>
  BY <1>1, <1>2, <1>3, Making
<1>5. u(n) \in Seq(Values) /\ Len(u(n)) = n
  <2>1. \A i \in 1..n : top - n + i \in 1..Slots
    BY <1>2, StackFacts
  <2>2. \A i \in 1..n : mem[top - n + i] \in Values
    BY <2>1, StackFacts
  <2>3. u(n) \in [1..n -> Values]
    BY <2>2
  <2> HIDE DEF u
  <2>4. QED
    BY <1>2, <2>3, FunctionIsSeq
<1>6. /\ Values \subseteq Values' /\ Objects \subseteq Objects'
      /\ ups \in [{Fun, New} -> Seq(Values')] /\ env \in [{Fun, New} -> Objects']
      /\ pseudo \in [{"reg", "gt"} -> Values']
      /\ meta \in [Tables -> Objects'] /\ tab \in [Tables -> [Keys -> Values']]
  BY <1>4, Monotone
<1>7. u(n) \in Seq(Values')
  BY <1>5, <1>6, SeqMonotonic
<1>8. ups' \in [{Fun, New} -> Seq(Values')] /\ env' \in [{Fun, New} -> Objects']
  <2> HIDE DEF u
  <2>1. QED
    BY <1>1, <1>6, <1>7
<1>9. Inv'
  <2>1. pseudo' = pseudo /\ tab' = tab /\ meta' = meta
    BY <1>1
  <2>2. QED
    BY <1>4, <1>6, <1>8, <2>1, Kept
<1>10. SubSeq(SubSeq(mem, 1, top), Promised!Top - n + 1, Promised!Top) = u(n)
  <2> DEFINE b == SubSeq(Stack, top - n + 1, top)
  <2>1. top - n + 1 \in Int /\ top \in Int /\ \A j \in (top - n + 1)..top : Stack[j] \in Values
    BY <1>2, StackFacts
  <2>2. /\ b \in Seq(Values)
        /\ Len(b) = IF top - n + 1 <= top THEN top - (top - n + 1) + 1 ELSE 0
        /\ \A j \in 1..(top - (top - n + 1) + 1) : b[j] = Stack[(top - n + 1) + j - 1]
    BY <2>1, SubSeqProperties
  <2> HIDE DEF b
  <2>3. Len(b) = n
    <3>1. CASE n = 0
      BY <1>2, <2>2, <3>1
    <3>2. CASE n > 0
      BY <1>2, <2>2, <3>2
    <3>3. QED
      BY <1>2, <3>1, <3>2
  <2>4. ASSUME NEW j \in 1..n PROVE b[j] = u(n)[j]
    <3>1. /\ j \in 1..(top - (top - n + 1) + 1) /\ (top - n + 1) + j - 1 = top - n + j
          /\ top - n + j \in 1..top
      BY <1>2
    <3>2. b[j] = Stack[(top - n + 1) + j - 1]
      BY <2>2, <3>1
    <3>3. b[j] = Stack[top - n + j]
      BY <3>1, <3>2
    <3>4. Stack[top - n + j] = mem[top - n + j]
      BY <3>1, StackFacts
    <3>5. QED
      BY <3>3, <3>4
  <2> HIDE DEF u
  <2>5. b = u(n)
    BY <1>5, <2>2, <2>3, <2>4, SeqEqual
  <2>6. QED
    BY <1>2, <2>5 DEF b, Stack
<1> HIDE DEF u
<1>11. call'.f = "pushcclosure" /\ call'.n = n
  BY <1>1 DEF Calls
<1>12. ups' = [ups EXCEPT ![New] = SubSeq(SubSeq(mem, 1, top), Promised!Top - n + 1, Promised!Top)]
  BY <1>1, <1>10
<1>13. /\ heap' = heap \cup {New} /\ env' = [env EXCEPT ![New] = env[Fun]]
       /\ UNCHANGED <<pseudo, tab, meta>>
  BY <1>1
<1>14. Promised!Promise(call')
  BY <1>4, <1>11, <1>12, <1>13 DEF Promised!Promise
<1>15. QED
  BY <1>9, <1>14 DEF Right

-----------------------------------------------------------------------------
(***************************************************************************)
(* The theorems.                                                           *)
(***************************************************************************)
LEMMA Initially ==
  ASSUME Init
  PROVE  Inv /\ Promised!Init
<1>1. /\ frame \in Frames /\ mem \in [1..Slots -> Initial] /\ top = 0
      /\ heap = {Fun} \cup {t \in Made : t = "T1"}
      /\ ups = [f \in {Fun, New} |-> IF f = Fun THEN Upvalues ELSE <<>>]
      /\ env = [f \in {Fun, New} |-> IF "T1" \in Made THEN "T1" ELSE "nil"]
      /\ pseudo = [p \in {"reg", "gt"} |-> IF "T1" \in Made THEN "T1" ELSE "nil"]
      /\ tab = [t \in Tables |-> [k \in Keys |-> "nil"]] /\ meta = [t \in Tables |-> "nil"]
  BY DEF Init
<1>2. /\ Slots \in Nat /\ Made \subseteq Tables /\ Upvalues \in Seq({"nil", "num", "str"})
  BY <1>1, FrameFacts
<1>3. /\ {"nil", "num", "str"} \subseteq Values /\ Initial \subseteq Values /\ "nil" \in Objects
      /\ "T1" \in Made => "T1" \in Objects /\ "T1" \in Values
  BY <1>1, <1>2 DEF Values, Objects
<1>4. heap \subseteq Tables \cup {Fun, New} /\ Fun \in heap
  BY <1>1, <1>2
<1>5. ups \in [{Fun, New} -> Seq(Values)]
  <2>1. Upvalues \in Seq(Values) /\ <<>> \in Seq(Values)
    BY <1>2, <1>3, SeqMonotonic, EmptySeq
  <2>2. QED
    BY <1>1, <2>1
<1>6. /\ env \in [{Fun, New} -> Objects] /\ pseudo \in [{"reg", "gt"} -> Values]
      /\ meta \in [Tables -> Objects] /\ tab \in [Tables -> [Keys -> Values]]
  BY <1>1, <1>3
<1>7. top \in 0..Slots /\ mem \in [1..Slots -> Values]
  BY <1>1, <1>2, <1>3
<1>8. \A f \in {Fun, New} : \A i \in DOMAIN ups[f] : ups[f][i] \in Values
  <2>1. TAKE f \in {Fun, New}
  <2>2. ups[f] \in Seq(Values)
    BY <1>5
  <2>3. DOMAIN ups[f] = 1..Len(ups[f])
    BY <2>2, LenProperties
  <2>4. QED
    BY <2>2, <2>3, ElementOfSeq
<1>9. TypeOK
  BY <1>6, <1>7, <1>8 DEF TypeOK, Objects
<1>10. Inv
  BY <1>1, <1>4, <1>5, <1>6, <1>9 DEF Inv
<1>11. SubSeq(mem, 1, top) = <<>>
  <2>1. Stack \in Seq(Values) /\ Len(Stack) = 0
    BY <1>1, <1>10, StackFacts
  <2>2. Stack = <<>>
    BY <2>1, EmptySeq
  <2>3. QED
    BY <2>2 DEF Stack
<1>12. QED
  BY <1>10, <1>11 DEF Promised!Init

\* Every call of the interface is right.
LEMMA CallRight ==
  ASSUME Inv, Next
  PROVE  Right
<1>1. Calling /\ frame' = frame
  BY DEF Next
<1>2. QED
  BY <1>1, SettopRight, RemoveRight, InsertRight, ReplaceRight, PushvalueRight, PushRight, TypeRight,
     RawequalRight, TolstringRight, GettableRight, GetfieldRight, SettableRight, SetfieldRight,
     CreatetableRight, GetmetatableRight, SetmetatableRight, NextRight, ConcatRight,
     PushcclosureRight, GetfenvRight, SetfenvRight, GetupvalueRight, SetupvalueRight DEF Calling

\* The invariant holds in every state (of lapi.c, between two calls).
THEOREM Invariance == Spec => []Inv
<1>1. Init => Inv
  BY Initially
<1>2. Inv /\ [Next]_vars => Inv'
  <2>1. ASSUME Inv, Next PROVE Inv'
    BY <2>1, CallRight DEF Right
  <2>2. ASSUME Inv, UNCHANGED vars PROVE Inv'
    BY <2>2 DEF vars, Inv, TypeOK, Slots, Values, Initial, Objects
  <2>3. QED
    BY <2>1, <2>2
<1>3. QED
  BY <1>1, <1>2, PTL DEF Spec

\* The calls of lapi.c on a window of slots do to the stack, and to the
\* objects, what ApiSpec promises, and every slot, upvalue and field holds a
\* value, whatever is left above the top.
THEOREM Implements == Spec => KeepsPromise
<1>1. Init => Promised!Init
  BY Initially
<1>2. Inv /\ [Next]_vars => [Promised!Next]_(Promised!vars)
  <2>1. ASSUME Inv, Next PROVE Promised!Next
    BY <2>1, CallRight DEF Right, Promised!Next
  <2>2. ASSUME UNCHANGED vars PROVE UNCHANGED Promised!vars
    BY <2>2 DEF vars, Promised!vars
  <2>3. QED
    BY <2>1, <2>2
<1>3. Inv => TypeOK
  BY DEF Inv
<1>4. QED
  BY <1>1, <1>2, <1>3, Invariance, PTL DEF Spec, KeepsPromise, Promised!Spec

=============================================================================
