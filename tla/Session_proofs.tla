--------------------------- MODULE Session_proofs ---------------------------
(***************************************************************************)
(* The history of a session implements UndoStack, for every set of boards, *)
(* enough or too few board objects and every bound on the history.         *)
(***************************************************************************)
EXTENDS Session, SequenceTheorems, TLAPS

-----------------------------------------------------------------------------
(***************************************************************************)
(* The invariant of current board i and history h over heap H: every live  *)
(* object holds a board, none is shared, and no board is remembered twice  *)
(* in a row.                                                               *)
(***************************************************************************)
Apart(i, h) ==
  /\ \A j \in 1..Len(h) : h[j] # i
  /\ \A j, k \in 1..Len(h) : h[j] = h[k] => j = k

NoRepeat(H, h) == \A j \in 1..(Len(h) - 1) : H[h[j]] # H[h[j + 1]]

Good(H, i, h) ==
  /\ H \in [Refs -> Positions \cup {Nil}]
  /\ i \in Refs \cup {Nil}
  /\ h \in Seq(Refs)
  /\ i = Nil => h = <<>>
  /\ i # Nil => H[i] \in Positions
  /\ \A j \in 1..Len(h) : H[h[j]] \in Positions
  /\ Apart(i, h)
  /\ NoRepeat(H, h)

Inv ==
  /\ Good(heap, it, history)
  /\ Len(history) <= MaxHistory
  /\ details \in BOOLEAN
  /\ DisplayCurrent

Unused(o, i, h) == o \in Refs /\ o # i /\ \A j \in 1..Len(h) : h[j] # o

\* The values on the history, and the state of UndoStack.
Vals(H, h) == [j \in 1..Len(h) |-> H[h[j]]]

OnTop(H, i, h) == h # <<>> /\ H[i] = H[Last(h)]

PastOf(H, i, h) == Vals(H, IF i # Nil /\ OnTop(H, i, h) THEN Front(h) ELSE h)

NowOf(H, i) == IF i = Nil THEN Nil ELSE H[i]

-----------------------------------------------------------------------------
(***************************************************************************)
(* Sequences and their values.                                             *)
(***************************************************************************)

\* Front and Last of a sequence that is not empty.
LEMMA FrontFacts ==
  ASSUME NEW S, NEW h \in Seq(S), h # <<>>
  PROVE  /\ Len(h) \in Nat \ {0}
         /\ Front(h) \in Seq(S)
         /\ Len(Front(h)) = Len(h) - 1
         /\ \A j \in 1..(Len(h) - 1) : Front(h)[j] = h[j]
         /\ Last(h) = h[Len(h)]
         /\ Last(h) \in S
<1>1. Len(h) \in Nat \ {0}
  BY EmptySeq
<1>2. \A j \in 1..(Len(h) - 1) : h[j] \in S
  BY <1>1
<1>3. Len(h) - 1 \in Int
  BY <1>1
<1> DEFINE n == Len(h) - 1
<1>4. /\ SubSeq(h, 1, n) \in Seq(S)
      /\ Len(SubSeq(h, 1, n)) = IF 1 <= n THEN n - 1 + 1 ELSE 0
      /\ \A j \in 1..(n - 1 + 1) : SubSeq(h, 1, n)[j] = h[1 + j - 1]
  <2> HIDE DEF n
  <2>1. 1 \in Int /\ n \in Int /\ \A j \in 1..n : h[j] \in S
    BY <1>2, <1>3 DEF n
  <2>2. QED BY <2>1, SubSeqProperties
<1>5. Front(h) = SubSeq(h, 1, n)
  BY DEF Front
<1>6. Front(h) \in Seq(S) /\ Len(Front(h)) = n
  <2> HIDE DEF n
  <2>1. n \in Nat
    BY <1>1 DEF n
  <2>2. QED BY <2>1, <1>4, <1>5
<1>7. \A j \in 1..n : Front(h)[j] = h[j]
  <2> HIDE DEF n
  <2>1. n \in Nat
    BY <1>1 DEF n
  <2>2. QED BY <2>1, <1>4, <1>5
<1>8. Last(h) = h[Len(h)] /\ Last(h) \in S
  BY <1>1 DEF Last
<1>9. QED
  BY <1>1, <1>6, <1>7, <1>8

\* Appending and taking the front again.
LEMMA FrontAppend ==
  ASSUME NEW S, NEW h \in Seq(S), NEW e \in S
  PROVE  /\ Append(h, e) \in Seq(S) /\ Append(h, e) # <<>>
         /\ Len(Append(h, e)) = Len(h) + 1
         /\ \A j \in 1..Len(h) : Append(h, e)[j] = h[j]
         /\ Last(Append(h, e)) = e
         /\ Append(h, e)[Len(h) + 1] = e
         /\ Front(Append(h, e)) = h
<1>1. /\ Append(h, e) \in Seq(S) /\ Append(h, e) # <<>>
      /\ Len(Append(h, e)) = Len(h) + 1
      /\ \A j \in 1..Len(h) : Append(h, e)[j] = h[j]
      /\ Append(h, e)[Len(h) + 1] = e
  BY AppendProperties
<1>2. Last(Append(h, e)) = e
  BY <1>1 DEF Last
<1>3. /\ Front(Append(h, e)) \in Seq(S)
      /\ Len(Front(Append(h, e))) = Len(h)
      /\ \A j \in 1..Len(h) : Front(Append(h, e))[j] = h[j]
  <2> DEFINE a == Append(h, e)
  <2>1. a \in Seq(S) /\ a # <<>> /\ Len(a) = Len(h) + 1 /\ Len(h) \in Nat
    BY <1>1
  <2> HIDE DEF a
  <2>2. /\ Front(a) \in Seq(S) /\ Len(Front(a)) = Len(a) - 1
        /\ \A j \in 1..(Len(a) - 1) : Front(a)[j] = a[j]
    BY <2>1, FrontFacts
  <2>3. /\ Front(a) \in Seq(S) /\ Len(Front(a)) = Len(h)
        /\ \A j \in 1..Len(h) : Front(a)[j] = a[j]
    BY <2>1, <2>2
  <2>4. QED BY <1>1, <2>3 DEF a
<1>4. Front(Append(h, e)) = h
  BY <1>3, SeqEqual
<1>5. QED
  BY <1>1, <1>2, <1>4

\* A sequence is its front and its last element.
LEMMA AppendFront ==
  ASSUME NEW S, NEW h \in Seq(S), h # <<>>
  PROVE  Append(Front(h), Last(h)) = h
<1>1. /\ Len(h) \in Nat \ {0} /\ Front(h) \in Seq(S) /\ Last(h) \in S
      /\ Len(Front(h)) = Len(h) - 1
      /\ \A j \in 1..(Len(h) - 1) : Front(h)[j] = h[j]
      /\ Last(h) = h[Len(h)]
  BY FrontFacts
<1> DEFINE a == Append(Front(h), Last(h))
<1>2. /\ a \in Seq(S) /\ Len(a) = Len(Front(h)) + 1
      /\ \A j \in 1..Len(Front(h)) : a[j] = Front(h)[j]
      /\ a[Len(Front(h)) + 1] = Last(h)
  BY <1>1, FrontAppend
<1> HIDE DEF a
<1>3. Len(a) = Len(h) /\ \A j \in 1..(Len(h) - 1) : a[j] = h[j]
  BY <1>1, <1>2
<1>4. a[Len(h)] = h[Len(h)]
  BY <1>1, <1>2
<1>5. \A j \in 1..Len(a) : a[j] = h[j]
  BY <1>1, <1>3, <1>4
<1>6. a = h
  BY <1>2, <1>3, <1>5, SeqEqual
<1>7. QED BY <1>6 DEF a

\* The values of a history are a sequence as long as the history.
LEMMA ValsType ==
  ASSUME NEW H \in [Refs -> Positions \cup {Nil}], NEW h \in Seq(Refs)
  PROVE  /\ Vals(H, h) \in Seq(Positions \cup {Nil})
         /\ Len(Vals(H, h)) = Len(h)
         /\ \A j \in 1..Len(h) : Vals(H, h)[j] = H[h[j]]
         /\ Vals(H, h) = <<>> <=> h = <<>>
<1>1. \A j \in 1..Len(h) : h[j] \in Refs
  OBVIOUS
<1>2. Vals(H, h) \in Seq(Positions \cup {Nil}) /\ Len(Vals(H, h)) = Len(h)
  BY <1>1, Len(h) \in Nat DEF Vals
<1>3. QED
  BY <1>2, EmptySeq DEF Vals

\* Values depend only on the objects in the history.
LEMMA ValsAgree ==
  ASSUME NEW H, NEW G, NEW h, \A j \in 1..Len(h) : G[h[j]] = H[h[j]]
  PROVE  Vals(G, h) = Vals(H, h)
BY DEF Vals

\* The values of the front are the front of the values.
LEMMA ValsFront ==
  ASSUME NEW H \in [Refs -> Positions \cup {Nil}], NEW h \in Seq(Refs), h # <<>>
  PROVE  /\ Vals(H, Front(h)) = Front(Vals(H, h))
         /\ Last(Vals(H, h)) = H[Last(h)]
<1>1. /\ Len(h) \in Nat \ {0} /\ Front(h) \in Seq(Refs)
      /\ Len(Front(h)) = Len(h) - 1
      /\ \A j \in 1..(Len(h) - 1) : Front(h)[j] = h[j]
  BY FrontFacts
<1>2. /\ Vals(H, h) \in Seq(Positions \cup {Nil}) /\ Vals(H, h) # <<>>
      /\ Len(Vals(H, h)) = Len(h)
      /\ \A j \in 1..Len(h) : Vals(H, h)[j] = H[h[j]]
  BY ValsType
<1>3. /\ Front(Vals(H, h)) \in Seq(Positions \cup {Nil})
      /\ Len(Front(Vals(H, h))) = Len(h) - 1
      /\ \A j \in 1..(Len(h) - 1) : Front(Vals(H, h))[j] = Vals(H, h)[j]
  BY <1>2, FrontFacts
<1>4. /\ Vals(H, Front(h)) \in Seq(Positions \cup {Nil})
      /\ Len(Vals(H, Front(h))) = Len(h) - 1
      /\ \A j \in 1..(Len(h) - 1) : Vals(H, Front(h))[j] = H[h[j]]
  <2>1. /\ Vals(H, Front(h)) \in Seq(Positions \cup {Nil})
        /\ Len(Vals(H, Front(h))) = Len(Front(h))
        /\ \A j \in 1..Len(Front(h)) : Vals(H, Front(h))[j] = H[Front(h)[j]]
    BY <1>1, ValsType
  <2>2. QED BY <1>1, <2>1
<1>5. \A j \in 1..(Len(h) - 1) : Vals(H, Front(h))[j] = Front(Vals(H, h))[j]
  BY <1>1, <1>2, <1>3, <1>4
<1>6. Vals(H, Front(h)) = Front(Vals(H, h))
  BY <1>3, <1>4, <1>5, SeqEqual
<1>7. QED
  BY <1>1, <1>2, <1>6 DEF Last

\* Appending an object appends its value.
LEMMA ValsAppend ==
  ASSUME NEW H \in [Refs -> Positions \cup {Nil}], NEW h \in Seq(Refs), NEW o \in Refs
  PROVE  Vals(H, Append(h, o)) = Append(Vals(H, h), H[o])
<1>1. /\ Append(h, o) \in Seq(Refs)
      /\ Len(Append(h, o)) = Len(h) + 1
      /\ \A j \in 1..Len(h) : Append(h, o)[j] = h[j]
      /\ Append(h, o)[Len(h) + 1] = o
      /\ Len(h) \in Nat
  BY FrontAppend
<1>2. /\ Vals(H, Append(h, o)) \in Seq(Positions \cup {Nil})
      /\ Len(Vals(H, Append(h, o))) = Len(h) + 1
      /\ \A j \in 1..(Len(h) + 1) : Vals(H, Append(h, o))[j] = H[Append(h, o)[j]]
  <2> DEFINE g == Append(h, o)
  <2>1. g \in Seq(Refs) /\ Len(g) = Len(h) + 1
    BY <1>1
  <2> HIDE DEF g
  <2>2. /\ Vals(H, g) \in Seq(Positions \cup {Nil})
        /\ Len(Vals(H, g)) = Len(g)
        /\ \A j \in 1..Len(g) : Vals(H, g)[j] = H[g[j]]
    BY <2>1, ValsType
  <2>3. /\ Vals(H, g) \in Seq(Positions \cup {Nil})
        /\ Len(Vals(H, g)) = Len(h) + 1
        /\ \A j \in 1..(Len(h) + 1) : Vals(H, g)[j] = H[g[j]]
    BY <2>1, <2>2
  <2>4. QED BY <2>3 DEF g
<1>3. /\ Vals(H, h) \in Seq(Positions \cup {Nil}) /\ Len(Vals(H, h)) = Len(h)
      /\ \A j \in 1..Len(h) : Vals(H, h)[j] = H[h[j]]
      /\ H[o] \in Positions \cup {Nil}
  BY ValsType
<1>4. /\ Append(Vals(H, h), H[o]) \in Seq(Positions \cup {Nil})
      /\ Len(Append(Vals(H, h), H[o])) = Len(h) + 1
      /\ \A j \in 1..Len(h) : Append(Vals(H, h), H[o])[j] = H[h[j]]
      /\ Append(Vals(H, h), H[o])[Len(h) + 1] = H[o]
  BY <1>3, FrontAppend
<1>5. \A j \in 1..(Len(h) + 1) :
        Vals(H, Append(h, o))[j] = Append(Vals(H, h), H[o])[j]
  BY <1>1, <1>2, <1>4
<1>6. QED
  BY <1>2, <1>4, <1>5, SeqEqual

-----------------------------------------------------------------------------
(***************************************************************************)
(* How the invariant is kept.                                              *)
(***************************************************************************)

\* Taking an entry off the history.
LEMMA GoodFront ==
  ASSUME NEW H, NEW i, NEW h, Good(H, i, h), h # <<>>
  PROVE  Good(H, i, Front(h))
<1>1. /\ Len(h) \in Nat \ {0} /\ Front(h) \in Seq(Refs)
      /\ Len(Front(h)) = Len(h) - 1
      /\ \A j \in 1..(Len(h) - 1) : Front(h)[j] = h[j]
  BY FrontFacts DEF Good
<1>2. Apart(i, Front(h))
  BY <1>1 DEF Good, Apart
<1>3. NoRepeat(H, Front(h))
  BY <1>1 DEF Good, NoRepeat
<1>4. \A j \in 1..Len(Front(h)) : H[Front(h)[j]] \in Positions
  BY <1>1 DEF Good
<1>5. QED
  BY <1>1, <1>2, <1>3, <1>4 DEF Good

\* The last entry becomes the current board.
LEMMA GoodLast ==
  ASSUME NEW H, NEW i, NEW h, Good(H, i, h), h # <<>>
  PROVE  /\ Good(H, Last(h), Front(h))
         /\ Last(h) \in Refs
         /\ ~OnTop(H, Last(h), Front(h))
<1>1. /\ Len(h) \in Nat \ {0} /\ Front(h) \in Seq(Refs)
      /\ Len(Front(h)) = Len(h) - 1
      /\ \A j \in 1..(Len(h) - 1) : Front(h)[j] = h[j]
      /\ Last(h) = h[Len(h)] /\ Last(h) \in Refs
  BY FrontFacts DEF Good
<1>2. Good(H, i, Front(h))
  BY GoodFront
<1>3. Apart(Last(h), Front(h))
  BY <1>1 DEF Good, Apart
<1>4. Last(h) # Nil /\ H[Last(h)] \in Positions
  BY <1>1, NilAssumption DEF Good
<1>5. ~OnTop(H, Last(h), Front(h))
  <2> SUFFICES ASSUME Front(h) # <<>> PROVE H[Last(h)] # H[Last(Front(h))]
    BY DEF OnTop
  <2>1. Len(h) - 1 \in 1..(Len(h) - 1) /\ Last(Front(h)) = h[Len(h) - 1]
    BY <1>1, EmptySeq DEF Last
  <2>2. H[h[Len(h) - 1]] # H[h[(Len(h) - 1) + 1]]
    BY <2>1 DEF Good, NoRepeat
  <2>3. QED BY <1>1, <2>1, <2>2
<1>6. QED
  BY <1>1, <1>2, <1>3, <1>4, <1>5 DEF Good

\* Heap G is heap H with v in object o.
Stored(G, H, o, v) ==
  /\ G \in [Refs -> Positions \cup {Nil}]
  /\ G[o] = v
  /\ \A x \in Refs : x # o => G[x] = H[x]

\* An assignment to an object of the heap.
LEMMA StoredExcept ==
  ASSUME NEW H \in [Refs -> Positions \cup {Nil}], NEW o \in Refs,
         NEW v \in Positions \cup {Nil}
  PROVE  Stored([H EXCEPT ![o] = v], H, o, v)
BY DEF Stored

\* The current board becomes object z, which holds v.
LEMMA GoodReplace ==
  ASSUME NEW H, NEW i, NEW h, Good(H, i, h),
         NEW z \in Refs, \A j \in 1..Len(h) : h[j] # z, NEW v \in Positions,
         NEW G, Stored(G, H, z, v)
  PROVE  Good(G, z, h) /\ Vals(G, h) = Vals(H, h)
<1>1. h \in Seq(Refs) /\ Len(h) \in Nat
  BY DEF Good
<1>2. \A j \in 1..Len(h) : G[h[j]] = H[h[j]]
  BY <1>1 DEF Stored
<1>3. Vals(G, h) = Vals(H, h)
  BY <1>2, ValsAgree
<1>4. Apart(z, h)
  BY DEF Good, Apart
<1>5. NoRepeat(G, h)
  BY <1>1, <1>2 DEF Good, NoRepeat
<1>6. \A j \in 1..Len(h) : G[h[j]] \in Positions
  BY <1>2 DEF Good
<1>7. z # Nil
  BY NilAssumption
<1>8. QED
  BY <1>1, <1>3, <1>4, <1>5, <1>6, <1>7 DEF Good, Stored

\* A clone of the current board is appended to the history.
LEMMA GoodAppend ==
  ASSUME NEW H, NEW i, NEW h, Good(H, i, h), i # Nil,
         NEW o, Unused(o, i, h), ~OnTop(H, i, h),
         NEW G, Stored(G, H, o, H[i])
  PROVE  /\ Good(G, i, Append(h, o))
         /\ Vals(G, Append(h, o)) = Append(Vals(H, h), H[i])
<1> DEFINE k == Append(h, o)
<1>1. /\ H \in [Refs -> Positions \cup {Nil}] /\ h \in Seq(Refs) /\ Len(h) \in Nat
      /\ H[i] \in Positions /\ o \in Refs /\ i \in Refs /\ o # i
      /\ \A j \in 1..Len(h) : h[j] # o
  BY DEF Good, Unused
<1>2. /\ G \in [Refs -> Positions \cup {Nil}] /\ G[o] = H[i] /\ G[i] = H[i]
      /\ \A x \in Refs : x # o => G[x] = H[x]
  BY <1>1 DEF Stored
<1>3. \A j \in 1..Len(h) : h[j] \in Refs /\ G[h[j]] = H[h[j]]
  BY <1>1, <1>2
<1>4. /\ k \in Seq(Refs) /\ Len(k) = Len(h) + 1
      /\ \A j \in 1..Len(h) : k[j] = h[j]
      /\ k[Len(h) + 1] = o
  BY <1>1, FrontAppend
<1>5. Vals(G, k) = Append(Vals(H, h), H[i])
  <2>1. Vals(G, h) = Vals(H, h)
    BY <1>3, ValsAgree
  <2>2. Vals(G, k) = Append(Vals(G, h), G[o])
    BY <1>1, <1>2, ValsAppend
  <2>3. QED BY <1>2, <2>1, <2>2
<1> HIDE DEF k
<1>6. Apart(i, k)
  <2>1. Apart(i, h)
    BY DEF Good
  <2>2. \A j \in 1..Len(k) : j \in 1..Len(h) \/ j = Len(h) + 1
    BY <1>1, <1>4
  <2>3. \A j \in 1..Len(k) : k[j] # i
    BY <1>1, <1>4, <2>1, <2>2 DEF Apart
  <2>4. \A j, l \in 1..Len(k) : k[j] = k[l] => j = l
    BY <1>1, <1>4, <2>1, <2>2 DEF Apart
  <2>5. QED BY <2>3, <2>4 DEF Apart
<1>7. NoRepeat(G, k)
  <2> SUFFICES ASSUME NEW j \in 1..(Len(k) - 1) PROVE G[k[j]] # G[k[j + 1]]
    BY DEF NoRepeat
  <2>1. CASE j = Len(h)
    <3>1. h # <<>> /\ Len(h) \in 1..Len(h)
      BY <2>1, <1>1, <1>4, EmptySeq
    <3>2. H[i] # H[h[Len(h)]]
      BY <3>1 DEF OnTop, Last
    <3>3. QED BY <3>1, <3>2, <2>1, <1>2, <1>3, <1>4
  <2>2. CASE j \in 1..(Len(h) - 1)
    <3>1. j \in 1..Len(h) /\ j + 1 \in 1..Len(h) /\ H[h[j]] # H[h[j + 1]]
      BY <2>2, <1>1 DEF Good, NoRepeat
    <3>2. QED BY <3>1, <1>3, <1>4
  <2>3. QED BY <2>1, <2>2, <1>1, <1>4
<1>8. \A j \in 1..Len(k) : G[k[j]] \in Positions
  <2>1. \A j \in 1..Len(h) : G[k[j]] \in Positions
    BY <1>3, <1>4 DEF Good
  <2>2. QED BY <2>1, <1>1, <1>2, <1>4
<1>9. Good(G, i, k)
  BY <1>1, <1>2, <1>4, <1>6, <1>7, <1>8 DEF Good
<1>10. QED
  BY <1>2, <1>5, <1>9 DEF k

-----------------------------------------------------------------------------
(***************************************************************************)
(* The functions of the history.                                           *)
(***************************************************************************)
St(H, i, h) == [heap |-> H, it |-> i, history |-> h]

\* What UndoStack remembers of past q when the present is b.
Kept(q, b) == IF q # <<>> /\ Last(q) = b THEN q ELSE Append(q, b)

\* push with a board: afterwards it is the last entry, and the history is what
\* UndoStack makes of it.
LEMMA PushFacts ==
  ASSUME NEW H, NEW i, NEW h, Good(H, i, h), i # Nil, NEW o, Unused(o, i, h)
  PROVE  LET p == push(St(H, i, h), o) IN
         /\ Good(p.heap, i, p.history)
         /\ p.it = i
         /\ p.heap[i] = H[i]
         /\ OnTop(p.heap, i, p.history)
         /\ Vals(p.heap, p.history) = Kept(Vals(H, h), H[i])
         /\ Vals(p.heap, Front(p.history)) = PastOf(H, i, h)
         /\ Vals(p.heap, p.history) = Kept(PastOf(H, i, h), H[i])
         /\ Len(p.history) <= Len(h) + 1
         /\ \A z : Unused(z, i, h) /\ z # o => Unused(z, i, p.history)
         /\ \A x \in Refs : x # o => p.heap[x] = H[x]
<1> DEFINE p == push(St(H, i, h), o)
<1>1. /\ H \in [Refs -> Positions \cup {Nil}] /\ h \in Seq(Refs) /\ Len(h) \in Nat
      /\ H[i] \in Positions /\ o \in Refs /\ i \in Refs /\ o # i
  BY DEF Good, Unused
<1>2. CASE OnTop(H, i, h)
  <2>1. p = St(H, i, h)
    BY <1>2 DEF OnTop, SameAsTop, push, St
  <2>2. p.heap = H /\ p.it = i /\ p.history = h
    BY <2>1 DEF St
  <2>3. Vals(H, h) # <<>> /\ Last(Vals(H, h)) = H[i]
    BY <1>1, <1>2, ValsType, ValsFront DEF OnTop
  <2>4. Kept(Vals(H, h), H[i]) = Vals(H, h)
    BY <2>3 DEF Kept
  <2>5. PastOf(H, i, h) = Vals(H, Front(h))
    BY <1>2 DEF PastOf
  <2>6. Kept(Vals(H, Front(h)), H[i]) = Vals(H, h)
    <3>1. /\ Front(h) \in Seq(Refs) /\ ~OnTop(H, Last(h), Front(h))
          /\ H[Last(h)] = H[i]
      BY <1>1, <1>2, FrontFacts, GoodLast DEF OnTop
    <3>2. ~(Vals(H, Front(h)) # <<>> /\ Last(Vals(H, Front(h))) = H[i])
      BY <1>1, <3>1, ValsType, ValsFront DEF OnTop
    <3>3. Vals(H, Front(h)) = Front(Vals(H, h))
      BY <1>1, <1>2, ValsFront DEF OnTop
    <3>4. Append(Front(Vals(H, h)), H[i]) = Vals(H, h)
      BY <1>1, <2>3, AppendFront, ValsType
    <3>5. QED BY <3>2, <3>3, <3>4 DEF Kept
  <2> HIDE DEF p
  <2>7. QED BY <1>1, <1>2, <2>2, <2>4, <2>5, <2>6 DEF p
<1>3. CASE ~OnTop(H, i, h)
  <2> DEFINE G == [H EXCEPT ![o] = H[i]]
  <2>1. p.heap = G /\ p.it = i /\ p.history = Append(h, o)
    BY <1>3, NilAssumption DEF OnTop, SameAsTop, push, St
  <2>2. Stored(G, H, o, H[i])
    BY <1>1, StoredExcept
  <2> HIDE DEF G
  <2>3. /\ Good(G, i, Append(h, o))
        /\ Vals(G, Append(h, o)) = Append(Vals(H, h), H[i])
        /\ G[o] = H[i] /\ G[i] = H[i] /\ \A x \in Refs : x # o => G[x] = H[x]
    BY <1>1, <1>3, <2>2, GoodAppend DEF Stored
  <2>4. /\ Append(h, o) # <<>> /\ Last(Append(h, o)) = o
        /\ Front(Append(h, o)) = h /\ Len(Append(h, o)) = Len(h) + 1
        /\ \A j \in 1..Len(h) : Append(h, o)[j] = h[j]
        /\ Append(h, o)[Len(h) + 1] = o
    BY <1>1, FrontAppend
  <2>5. OnTop(G, i, Append(h, o))
    BY <2>2, <2>3, <2>4 DEF OnTop
  <2>6. Kept(Vals(H, h), H[i]) = Append(Vals(H, h), H[i])
    <3>1. ~(Vals(H, h) # <<>> /\ Last(Vals(H, h)) = H[i])
      BY <1>1, <1>3, ValsType, ValsFront DEF OnTop
    <3>2. QED BY <3>1 DEF Kept
  <2>7. PastOf(H, i, h) = Vals(H, h)
    BY <1>3 DEF PastOf
  <2>8. Vals(G, h) = Vals(H, h)
    <3>1. \A j \in 1..Len(h) : h[j] \in Refs /\ h[j] # o
      BY <1>1 DEF Unused
    <3>2. QED BY <3>1, <2>3, ValsAgree
  <2>9. \A z : Unused(z, i, h) /\ z # o => Unused(z, i, Append(h, o))
    BY <1>1, <2>4 DEF Unused
  <2> HIDE DEF p
  <2>10. Good(p.heap, i, p.history) /\ p.it = i /\ p.heap[i] = H[i]
    BY <2>1, <2>2, <2>3
  <2>11. OnTop(p.heap, i, p.history)
    BY <2>1, <2>5
  <2>12. Vals(p.heap, p.history) = Kept(Vals(H, h), H[i])
    BY <2>1, <2>3, <2>6
  <2>13. Vals(p.heap, Front(p.history)) = PastOf(H, i, h)
    BY <2>1, <2>4, <2>7, <2>8
  <2>14. Len(p.history) <= Len(h) + 1
    BY <1>1, <2>1, <2>4
  <2>15. \A z : Unused(z, i, h) /\ z # o => Unused(z, i, p.history)
    BY <2>1, <2>9
  <2>16. \A x \in Refs : x # o => p.heap[x] = H[x]
    BY <2>1, <2>3
  <2>17. QED
    BY <2>7, <2>10, <2>11, <2>12, <2>13, <2>14, <2>15, <2>16 DEF p
<1>4. QED BY <1>2, <1>3

\* back, when the current board is the last entry, as eval has made sure.
LEMMA BackFacts ==
  ASSUME NEW H, NEW i, NEW h, Good(H, i, h), i # Nil, OnTop(H, i, h)
  PROVE  /\ Front(h) = <<>> => back(St(H, i, h)) = St(H, i, <<>>)
         /\ Front(h) # <<>> =>
              back(St(H, i, h)) = St(H, Last(Front(h)), Front(Front(h)))
BY DEF back, St, OnTop, SameAsTop

\* swap, when the current board is the last entry.
LEMMA SwapFacts ==
  ASSUME NEW H, NEW i, NEW h, Good(H, i, h), i # Nil, OnTop(H, i, h), NEW o
  PROVE  LET u == back(St(H, i, h))
             p == push(St(H, i, u.history), o)
         IN  swap(St(H, i, h), o) = St(p.heap, u.it, p.history)
BY DEF swap, St

\* A command that pushes the current board and leaves v, in place or in a new
\* object z.
LEMMA ReplaceFacts ==
  ASSUME NEW H, NEW i, NEW h, Good(H, i, h), i # Nil,
         NEW o, Unused(o, i, h),
         NEW z, z = i \/ (Unused(z, i, h) /\ z # o),
         NEW v \in Positions,
         NEW P, NEW k, push(St(H, i, h), o) = St(P, i, k),
         NEW G, Stored(G, P, z, v)
  PROVE  /\ Good(G, z, k)
         /\ NowOf(G, z) = v
         /\ v = H[i] => PastOf(G, z, k) = PastOf(H, i, h)
         /\ v # H[i] => PastOf(G, z, k) = Kept(PastOf(H, i, h), H[i])
<1>1. /\ Good(P, i, k) /\ P[i] = H[i] /\ OnTop(P, i, k)
      /\ Vals(P, Front(k)) = PastOf(H, i, h)
      /\ Vals(P, k) = Kept(PastOf(H, i, h), H[i])
      /\ \A y : Unused(y, i, h) /\ y # o => Unused(y, i, k)
  <2>1. St(P, i, k).heap = P /\ St(P, i, k).history = k
    BY DEF St
  <2>2. QED BY <2>1, PushFacts
<1>2. z \in Refs /\ \A j \in 1..Len(k) : k[j] # z
  BY <1>1, NilAssumption DEF Unused, Good, Apart
<1>3. Good(G, z, k) /\ Vals(G, k) = Vals(P, k)
  BY <1>1, <1>2, GoodReplace
<1>4. NowOf(G, z) = v
  BY <1>2, NilAssumption DEF NowOf, Stored
<1>5. /\ k \in Seq(Refs) /\ k # <<>> /\ Front(k) \in Seq(Refs)
      /\ Len(Front(k)) = Len(k) - 1 /\ Len(k) \in Nat \ {0}
      /\ \A j \in 1..(Len(k) - 1) : Front(k)[j] = k[j]
      /\ Last(k) = k[Len(k)] /\ Last(k) \in Refs
  BY <1>1, FrontFacts DEF Good, OnTop
<1>6. G[Last(k)] = H[i]
  <2>1. Last(k) # z
    BY <1>2, <1>5
  <2>2. G[Last(k)] = P[Last(k)]
    BY <2>1, <1>5 DEF Stored
  <2>3. QED BY <2>2, <1>1 DEF OnTop
<1>7. Vals(G, Front(k)) = Vals(P, Front(k))
  <2>1. \A j \in 1..Len(Front(k)) : Front(k)[j] \in Refs /\ Front(k)[j] # z
    BY <1>2, <1>5
  <2>2. \A j \in 1..Len(Front(k)) : G[Front(k)[j]] = P[Front(k)[j]]
    BY <2>1 DEF Stored
  <2>3. QED BY <2>2, ValsAgree
<1>8. z # Nil /\ G[z] = v
  BY <1>2, NilAssumption DEF Stored
<1>9. v = H[i] => PastOf(G, z, k) = PastOf(H, i, h)
  BY <1>1, <1>5, <1>6, <1>7, <1>8 DEF PastOf, OnTop
<1>10. v # H[i] => PastOf(G, z, k) = Kept(PastOf(H, i, h), H[i])
  BY <1>1, <1>3, <1>5, <1>6, <1>8 DEF PastOf, OnTop
<1>11. QED
  BY <1>3, <1>4, <1>9, <1>10

-----------------------------------------------------------------------------
(***************************************************************************)
(* The actions.  A step from present n and past q to m and r is a step of  *)
(* UndoStack or changes nothing there.                                     *)
(***************************************************************************)
Remembered(q, n) == IF n = Nil THEN q ELSE Kept(q, n)

UndoStep(n, q, m, r) ==
  \/ m = n /\ r = q
  \/ m \in Positions /\ m # n /\ r = Remembered(q, n)
  \/ m \in Positions /\ r = <<>>
  \/ q # <<>> /\ m = Last(q) /\ r = Front(q)
  \/ q # <<>> /\ m = Last(q) /\ r = Remembered(Front(q), n)

Outcome ==
  /\ Inv'
  /\ it # Nil => it' # Nil
  /\ UndoStep(NowOf(heap, it), PastOf(heap, it, history),
              NowOf(heap', it'), PastOf(heap', it', history'))

\* The objects a command may allocate are distinct and not in use.
LEMMA SpareFacts ==
  ASSUME Good(heap, it, history), Fresh # {}
  PROVE  /\ Unused(Spare[1], it, history)
         /\ Unused(Spare[2], it, history)
         /\ Unused(Spare[3], it, history)
         /\ Spare[1] # Spare[2] /\ Spare[1] # Spare[3] /\ Spare[2] # Spare[3]
<1>1. Spare \in Fresh
  BY DEF Spare
<1>2. /\ \A k \in 1..3 : Spare[k] \in Refs \ Live(Here)
      /\ Spare[1] # Spare[2] /\ Spare[1] # Spare[3] /\ Spare[2] # Spare[3]
  BY <1>1 DEF Fresh
<1>3. \A o \in Refs \ Live(Here) : Unused(o, it, history)
  BY DEF Live, Here, Unused, Good
<1>4. QED BY <1>2, <1>3

\* Collecting the tables that are not in use changes nothing of the session.
LEMMA BecomeFacts ==
  ASSUME NEW H, NEW i, NEW h, Good(H, i, h), Become(St(H, i, h))
  PROVE  /\ it' = i /\ history' = h
         /\ Good(heap', it', history')
         /\ NowOf(heap', it') = NowOf(H, i)
         /\ PastOf(heap', it', history') = PastOf(H, i, h)
<1>1. it' = i /\ history' = h
  BY DEF Become, St
<1>2. /\ H \in [Refs -> Positions \cup {Nil}] /\ h \in Seq(Refs) /\ Len(h) \in Nat
      /\ i \in Refs \cup {Nil} /\ DOMAIN h = 1..Len(h)
  BY DEF Good
<1>3. Live(St(H, i, h)) = {i} \cup {h[j] : j \in 1..Len(h)}
  BY <1>2 DEF Live, St
<1>4. heap' = [o \in Refs |-> IF o \in Live(St(H, i, h)) THEN H[o] ELSE Nil]
  BY DEF Become, St
<1>5. /\ heap' \in [Refs -> Positions \cup {Nil}]
      /\ i # Nil => heap'[i] = H[i]
      /\ \A j \in 1..Len(h) : h[j] \in Refs /\ heap'[h[j]] = H[h[j]]
  BY <1>2, <1>3, <1>4
<1>6. \A j \in 1..Len(h) : heap'[h[j]] \in Positions
  BY <1>5 DEF Good
<1>7. NoRepeat(heap', h)
  BY <1>2, <1>5 DEF Good, NoRepeat
<1>8. Good(heap', i, h)
  BY <1>2, <1>5, <1>6, <1>7 DEF Good
<1>9. NowOf(heap', i) = NowOf(H, i)
  BY <1>5 DEF NowOf
<1>10. i # Nil => (OnTop(heap', i, h) <=> OnTop(H, i, h))
  BY <1>2, <1>5, FrontFacts, EmptySeq DEF OnTop, Last
<1>11. Vals(heap', h) = Vals(H, h)
  BY <1>5, ValsAgree
<1>12. h # <<>> => Vals(heap', Front(h)) = Vals(H, Front(h))
  BY <1>2, <1>5, <1>11, ValsFront
<1>13. PastOf(heap', i, h) = PastOf(H, i, h)
  <2>1. CASE i # Nil /\ OnTop(H, i, h)
    BY <2>1, <1>10, <1>12 DEF PastOf, OnTop
  <2>2. CASE ~(i # Nil /\ OnTop(H, i, h))
    BY <2>2, <1>10, <1>11 DEF PastOf
  <2>3. QED BY <2>1, <2>2
<1>14. QED
  BY <1>1, <1>8, <1>9, <1>13

\* An action that leaves <<H, i, h>> and a display of it.
LEMMA BecomeOutcome ==
  ASSUME Inv, NEW H, NEW i, NEW h, Good(H, i, h), Become(St(H, i, h)),
         it # Nil => i # Nil,
         Len(h) <= MaxHistory, details' \in BOOLEAN,
         shown' = IF i = Nil THEN Nil ELSE [board |-> H[i], details |-> details'],
         UndoStep(NowOf(heap, it), PastOf(heap, it, history),
                  NowOf(H, i), PastOf(H, i, h))
  PROVE  Outcome
<1>1. /\ it' = i /\ history' = h
      /\ Good(heap', it', history')
      /\ NowOf(heap', it') = NowOf(H, i)
      /\ PastOf(heap', it', history') = PastOf(H, i, h)
  BY BecomeFacts
<1>2. i # Nil => heap'[i] = H[i]
  BY <1>1 DEF NowOf
<1>3. DisplayCurrent'
  BY <1>1, <1>2 DEF DisplayCurrent
<1>4. QED
  BY <1>1, <1>3 DEF Outcome, Inv

\* The push that every command starts with.
LEMMA PushedFacts ==
  ASSUME Inv, Room, it # Nil
  PROVE  /\ Pushed = St(Pushed.heap, it, Pushed.history)
         /\ push(St(heap, it, history), Spare[1]) = Pushed
         /\ Unused(Spare[1], it, history)
         /\ Good(Pushed.heap, it, Pushed.history)
         /\ OnTop(Pushed.heap, it, Pushed.history)
         /\ Pushed.heap[it] = heap[it]
         /\ NowOf(Pushed.heap, it) = NowOf(heap, it)
         /\ Vals(Pushed.heap, Front(Pushed.history)) = PastOf(heap, it, history)
         /\ PastOf(Pushed.heap, it, Pushed.history) = PastOf(heap, it, history)
         /\ Unused(Spare[2], it, Pushed.history)
         /\ Unused(Spare[3], it, Pushed.history)
         /\ Len(Pushed.history) <= MaxHistory
<1>1. /\ Good(heap, it, history) /\ Fresh # {}
      /\ Len(history) < MaxHistory /\ Len(history) \in Nat
  BY DEF Inv, Room, Good
<1>2. /\ Unused(Spare[1], it, history)
      /\ Unused(Spare[2], it, history)
      /\ Unused(Spare[3], it, history)
      /\ Spare[1] # Spare[2] /\ Spare[1] # Spare[3]
  BY <1>1, SpareFacts
<1>3. push(St(heap, it, history), Spare[1]) = Pushed
  BY DEF Pushed, Here, St
<1>4. Pushed = St(Pushed.heap, it, Pushed.history)
  BY DEF Pushed, Here, St, push
<1>5. /\ Good(Pushed.heap, it, Pushed.history)
      /\ Pushed.heap[it] = heap[it]
      /\ OnTop(Pushed.heap, it, Pushed.history)
      /\ Vals(Pushed.heap, Front(Pushed.history)) = PastOf(heap, it, history)
      /\ Len(Pushed.history) <= Len(history) + 1
      /\ \A z : Unused(z, it, history) /\ z # Spare[1] => Unused(z, it, Pushed.history)
  BY <1>1, <1>2, <1>3, PushFacts
<1>6. Len(Pushed.history) \in Nat
  BY <1>5 DEF Good
<1>7. Len(Pushed.history) <= MaxHistory
  BY <1>1, <1>5, <1>6, MaxHistoryAssumption
<1>8. /\ NowOf(Pushed.heap, it) = NowOf(heap, it)
      /\ PastOf(Pushed.heap, it, Pushed.history) = PastOf(heap, it, history)
  BY <1>5 DEF NowOf, PastOf
<1>9. QED
  BY <1>2, <1>3, <1>4, <1>5, <1>7, <1>8

\* A command that leaves board v in the object of the current board or in a
\* new one: the history is the pushed one.
LEMMA ReplaceOutcome ==
  ASSUME Inv, Room, it # Nil, NEW v \in Positions,
         NEW z, z = it \/ z = Spare[3],
         Become(St([Pushed.heap EXCEPT ![z] = v], z, Pushed.history)),
         details' \in BOOLEAN,
         shown' = [board |-> [Pushed.heap EXCEPT ![z] = v][z], details |-> details']
  PROVE  Outcome
<1>1. /\ Good(heap, it, history) /\ Fresh # {}
      /\ heap[it] \in Positions /\ it \in Refs
  BY DEF Inv, Room, Good
<1>2. Spare[1] # Spare[3] /\ Unused(Spare[3], it, history)
  BY <1>1, SpareFacts
<1>3. z \in Refs /\ z # Nil
  BY <1>1, <1>2, NilAssumption DEF Unused
<1> DEFINE P == Pushed.heap
<1> DEFINE k == Pushed.history
<1> DEFINE G == [P EXCEPT ![z] = v]
<1>4. /\ push(St(heap, it, history), Spare[1]) = St(P, it, k)
      /\ Unused(Spare[1], it, history)
      /\ Good(P, it, k) /\ Len(k) <= MaxHistory
  BY PushedFacts
<1>5. P \in [Refs -> Positions \cup {Nil}]
  BY <1>4 DEF Good
<1> HIDE DEF P, k
<1>6. Stored(G, P, z, v)
  BY <1>3, <1>5, StoredExcept
<1>7. Become(St(G, z, k)) /\ shown' = [board |-> G[z], details |-> details']
  BY DEF P, k
<1> HIDE DEF G
<1>8. /\ Good(G, z, k)
      /\ NowOf(G, z) = v
      /\ v = heap[it] => PastOf(G, z, k) = PastOf(heap, it, history)
      /\ v # heap[it] =>
           PastOf(G, z, k) = Kept(PastOf(heap, it, history), heap[it])
  <2> DEFINE o == Spare[1]
  <2>1. Unused(o, it, history) /\ push(St(heap, it, history), o) = St(P, it, k)
    BY <1>4
  <2>2. z = it \/ (Unused(z, it, history) /\ z # o)
    BY <1>2
  <2> HIDE DEF o
  <2>3. QED BY <1>1, <1>6, <2>1, <2>2, ReplaceFacts
<1>9. NowOf(heap, it) = heap[it] /\ heap[it] # Nil
  BY <1>1, NilAssumption DEF NowOf
<1>10. UndoStep(NowOf(heap, it), PastOf(heap, it, history),
                NowOf(G, z), PastOf(G, z, k))
  BY <1>8, <1>9 DEF UndoStep, Remembered
<1>11. QED
  BY <1>3, <1>4, <1>7, <1>8, <1>10, BecomeOutcome

\* A rule.
LEMMA RuleOutcome ==
  ASSUME Inv, NEW v \in Positions, Rule(v)
  PROVE  Outcome
<1>1. /\ Room /\ it # Nil
      /\ Become(St([Pushed.heap EXCEPT ![it] = v], it, Pushed.history))
      /\ details' = details
      /\ shown' = [board |-> [Pushed.heap EXCEPT ![it] = v][it], details |-> details']
  BY DEF Rule, Eval, St, print_all
<1>2. details' \in BOOLEAN
  BY <1>1 DEF Inv
<1>3. QED BY <1>1, <1>2, ReplaceOutcome

\* Command new: its own push finds the board pushed already.
LEMMA NewOutcome ==
  ASSUME Inv, NewCommand
  PROVE  Outcome
<1>1. /\ Room /\ it # Nil
      /\ Become(new(Pushed, Spare[2], Spare[3]))
      /\ details' = details
      /\ shown' = print_all(new(Pushed, Spare[2], Spare[3]), details)
  BY DEF NewCommand, Eval
<1>2. /\ Pushed = St(Pushed.heap, it, Pushed.history)
      /\ OnTop(Pushed.heap, it, Pushed.history)
  BY <1>1, PushedFacts
<1>3. push(Pushed, Spare[2]) = Pushed
  <2>1. Pushed.it = it
    BY <1>2 DEF St
  <2>2. SameAsTop(Pushed)
    BY <1>2, <2>1 DEF OnTop, SameAsTop
  <2>3. QED BY <2>2 DEF push
<1>4. new(Pushed, Spare[2], Spare[3])
        = St([Pushed.heap EXCEPT ![Spare[3]] = Blank], Spare[3], Pushed.history)
  BY <1>3 DEF new, St
<1>5. Spare[3] # Nil
  BY <1>1, SpareFacts, NilAssumption DEF Inv, Room, Unused
<1>6. shown' = [board |-> [Pushed.heap EXCEPT ![Spare[3]] = Blank][Spare[3]],
                details |-> details']
  BY <1>1, <1>4, <1>5 DEF print_all, St
<1>7. details' \in BOOLEAN
  BY <1>1 DEF Inv
<1>8. QED
  BY <1>1, <1>4, <1>6, <1>7, BlankAssumption, ReplaceOutcome

\* Command back.  With nothing remembered it drops the entry that eval pushed
\* and nothing else.
LEMMA BackOutcome ==
  ASSUME Inv, BackCommand
  PROVE  Outcome
<1> DEFINE P == Pushed.heap
<1> DEFINE k == Pushed.history
<1>1. /\ Room /\ it # Nil /\ Become(back(Pushed)) /\ details' = details
      /\ shown' = print_all(back(Pushed), details)
  BY DEF BackCommand, Eval
<1>2. /\ Pushed = St(P, it, k)
      /\ Good(P, it, k) /\ OnTop(P, it, k)
      /\ NowOf(P, it) = NowOf(heap, it)
      /\ Vals(P, Front(k)) = PastOf(heap, it, history)
      /\ Len(k) <= MaxHistory
  BY <1>1, PushedFacts
<1>3. /\ Front(k) = <<>> => back(Pushed) = St(P, it, <<>>)
      /\ Front(k) # <<>> => back(Pushed) = St(P, Last(Front(k)), Front(Front(k)))
  BY <1>1, <1>2, BackFacts
<1> HIDE DEF P, k
<1>4. k # <<>> /\ k \in Seq(Refs) /\ P \in [Refs -> Positions \cup {Nil}]
  BY <1>2 DEF OnTop, Good
<1>5. Len(k) \in Nat \ {0} /\ Front(k) \in Seq(Refs) /\ Len(Front(k)) = Len(k) - 1
  BY <1>4, FrontFacts
<1>6. Good(P, it, Front(k))
  BY <1>2, <1>4, GoodFront
<1>7. details' \in BOOLEAN
  BY <1>1 DEF Inv
<1>8. CASE Front(k) = <<>>
  <2>1. Become(St(P, it, <<>>)) /\ Good(P, it, <<>>)
    BY <1>1, <1>3, <1>6, <1>8
  <2>2. shown' = [board |-> P[it], details |-> details']
    BY <1>1, <1>3, <1>8 DEF print_all, St
  <2>3. PastOf(P, it, <<>>) = Vals(P, <<>>)
    BY DEF PastOf, OnTop
  <2>4. UndoStep(NowOf(heap, it), PastOf(heap, it, history),
                 NowOf(P, it), PastOf(P, it, <<>>))
    BY <1>2, <1>8, <2>3 DEF UndoStep
  <2>5. Len(<<>>) <= MaxHistory
    BY MaxHistoryAssumption
  <2>6. QED
    BY <1>1, <1>7, <2>1, <2>2, <2>4, <2>5, BecomeOutcome
<1>9. CASE Front(k) # <<>>
  <2> DEFINE i == Last(Front(k))
  <2> DEFINE h == Front(Front(k))
  <2>1. Become(St(P, i, h)) /\ shown' = print_all(St(P, i, h), details')
    BY <1>1, <1>3, <1>9
  <2>2. Good(P, i, h) /\ i \in Refs /\ ~OnTop(P, i, h)
    BY <1>6, <1>9, GoodLast
  <2>3. Len(h) <= MaxHistory
    <3>1. Len(h) = Len(Front(k)) - 1
      BY <1>5, <1>9, FrontFacts
    <3>2. QED BY <3>1, <1>2, <1>5, MaxHistoryAssumption
  <2>4. /\ Vals(P, h) = Front(PastOf(heap, it, history))
        /\ P[i] = Last(PastOf(heap, it, history))
    BY <1>2, <1>4, <1>5, <1>9, ValsFront
  <2>5. PastOf(heap, it, history) # <<>>
    BY <1>2, <1>4, <1>5, <1>9, ValsType
  <2> HIDE DEF i, h
  <2>6. i # Nil
    BY <2>2, NilAssumption
  <2>7. shown' = [board |-> P[i], details |-> details']
    BY <2>1, <2>6 DEF print_all, St
  <2>8. NowOf(P, i) = P[i] /\ PastOf(P, i, h) = Vals(P, h)
    BY <2>2, <2>6 DEF NowOf, PastOf
  <2>9. UndoStep(NowOf(heap, it), PastOf(heap, it, history),
                 NowOf(P, i), PastOf(P, i, h))
    BY <2>4, <2>5, <2>8 DEF UndoStep
  <2>10. QED
    BY <1>7, <2>1, <2>2, <2>3, <2>6, <2>7, <2>9, BecomeOutcome
<1>10. QED BY <1>8, <1>9

\* Command swap.
LEMMA SwapOutcome ==
  ASSUME Inv, SwapCommand
  PROVE  Outcome
<1> DEFINE P == Pushed.heap
<1> DEFINE k == Pushed.history
<1> DEFINE o == Spare[2]
<1> DEFINE u == back(St(P, it, k))
<1> DEFINE p == push(St(P, it, u.history), o)
<1>1. /\ Room /\ it # Nil /\ Become(swap(Pushed, o)) /\ details' = details
      /\ shown' = print_all(swap(Pushed, o), details)
  BY DEF SwapCommand, Eval
<1>2. /\ Pushed = St(P, it, k)
      /\ Good(P, it, k) /\ OnTop(P, it, k)
      /\ NowOf(P, it) = NowOf(heap, it) /\ P[it] = heap[it]
      /\ Vals(P, Front(k)) = PastOf(heap, it, history)
      /\ Len(k) <= MaxHistory /\ Unused(o, it, k)
  BY <1>1, PushedFacts
<1>3. swap(Pushed, o) = St(p.heap, u.it, p.history)
  BY <1>1, <1>2, SwapFacts
<1>4. /\ Front(k) = <<>> => u = St(P, it, <<>>)
      /\ Front(k) # <<>> => u = St(P, Last(Front(k)), Front(Front(k)))
  BY <1>1, <1>2, BackFacts
<1> HIDE DEF P, k, o
<1>5. /\ k # <<>> /\ k \in Seq(Refs) /\ P \in [Refs -> Positions \cup {Nil}]
      /\ it \in Refs /\ P[it] \in Positions
  BY <1>1, <1>2 DEF OnTop, Good
<1>6. /\ Len(k) \in Nat \ {0} /\ Front(k) \in Seq(Refs) /\ Len(Front(k)) = Len(k) - 1
      /\ \A j \in 1..(Len(k) - 1) : Front(k)[j] = k[j]
  BY <1>5, FrontFacts
<1>7. Good(P, it, Front(k))
  BY <1>2, <1>5, GoodFront
<1>8. details' \in BOOLEAN
  BY <1>1 DEF Inv
<1>9. Unused(o, it, Front(k))
  BY <1>2, <1>6 DEF Unused
<1>10. NowOf(heap, it) = heap[it] /\ heap[it] # Nil
  BY <1>1, <1>2, <1>5, NilAssumption DEF NowOf
<1>11. CASE Front(k) = <<>>
  <2> DEFINE H == p.heap
  <2> DEFINE h == p.history
  <2>1. u.it = it /\ u.history = Front(k)
    BY <1>4, <1>11 DEF St
  <2>2. /\ Good(H, it, h) /\ H[it] = P[it] /\ OnTop(H, it, h)
        /\ Vals(H, Front(h)) = PastOf(P, it, Front(k))
        /\ Len(h) <= Len(Front(k)) + 1
    BY <1>1, <1>7, <1>9, <2>1, PushFacts
  <2>3. swap(Pushed, o) = St(H, it, h)
    BY <1>3, <2>1
  <2> HIDE DEF H, h, p, u
  <2>4. Become(St(H, it, h)) /\ shown' = [board |-> H[it], details |-> details']
    BY <1>1, <2>3 DEF print_all, St
  <2>5. PastOf(P, it, Front(k)) = Vals(P, Front(k))
    BY <1>11 DEF PastOf, OnTop
  <2>6. PastOf(H, it, h) = PastOf(heap, it, history)
    BY <1>1, <1>2, <2>2, <2>5 DEF PastOf
  <2>7. NowOf(H, it) = NowOf(heap, it)
    BY <1>1, <1>2, <2>2 DEF NowOf
  <2>8. UndoStep(NowOf(heap, it), PastOf(heap, it, history),
                 NowOf(H, it), PastOf(H, it, h))
    BY <2>6, <2>7 DEF UndoStep
  <2>9. Len(h) <= MaxHistory
    <3>1. Len(h) \in Nat
      BY <2>2 DEF Good
    <3>2. QED BY <3>1, <1>2, <1>6, <2>2, MaxHistoryAssumption
  <2>10. QED
    BY <1>1, <1>8, <2>2, <2>4, <2>8, <2>9, BecomeOutcome
<1>12. CASE Front(k) # <<>>
  <2> DEFINE i == Last(Front(k))
  <2> DEFINE g == Front(Front(k))
  <2> DEFINE H == p.heap
  <2> DEFINE h == p.history
  <2>1. u.it = i /\ u.history = g
    BY <1>4, <1>12 DEF St
  <2>2. Good(P, it, g) /\ Unused(o, it, g)
    <3>1. /\ Len(g) = Len(Front(k)) - 1 /\ Len(Front(k)) \in Nat
          /\ \A j \in 1..(Len(Front(k)) - 1) : g[j] = Front(k)[j]
      BY <1>6, <1>12, FrontFacts
    <3>2. Unused(o, it, g)
      BY <1>9, <3>1 DEF Unused
    <3>3. QED BY <1>7, <1>12, <3>2, GoodFront
  <2>3. /\ Good(H, it, h) /\ OnTop(H, it, h) /\ H[it] = P[it]
        /\ Vals(H, h) = Kept(Vals(P, g), P[it])
        /\ Len(h) <= Len(g) + 1
        /\ \A z : Unused(z, it, g) /\ z # o => Unused(z, it, h)
        /\ \A x \in Refs : x # o => H[x] = P[x]
    BY <1>1, <2>1, <2>2, PushFacts
  <2>4. swap(Pushed, o) = St(H, i, h)
    BY <1>3, <2>1
  <2>5. Good(P, i, g) /\ i \in Refs
    BY <1>7, <1>12, GoodLast
  <2>6. /\ Len(g) = Len(k) - 2 /\ Len(Front(k)) = Len(k) - 1 /\ Len(Front(k)) \in Nat \ {0}
        /\ i = Front(k)[Len(k) - 1] /\ i = k[Len(k) - 1]
    <3>1. /\ Len(g) = Len(Front(k)) - 1 /\ Len(Front(k)) \in Nat \ {0}
          /\ i = Front(k)[Len(Front(k))]
      BY <1>6, <1>12, FrontFacts
    <3>2. QED BY <1>6, <3>1
  <2>7. Vals(P, g) = Front(PastOf(heap, it, history))
        /\ P[i] = Last(PastOf(heap, it, history))
    BY <1>2, <1>5, <1>6, <1>12, ValsFront
  <2>8. PastOf(heap, it, history) # <<>>
    BY <1>2, <1>5, <1>6, <1>12, ValsType
  <2>9. P[i] # P[it]
    <3>1. P[it] = P[k[Len(k)]]
      BY <1>2 DEF OnTop, Last
    <3>2. Len(k) - 1 \in 1..(Len(k) - 1) /\ (Len(k) - 1) + 1 = Len(k)
      BY <1>6, <2>6
    <3>3. P[k[Len(k) - 1]] # P[k[(Len(k) - 1) + 1]]
      BY <1>2, <3>2 DEF Good, NoRepeat
    <3>4. QED BY <2>6, <3>1, <3>2, <3>3
  <2>10. Unused(i, it, g) /\ i # o
    <3>1. Len(k) - 1 \in 1..Len(k) /\ Len(k) - 1 \in 1..Len(Front(k))
      BY <1>6, <2>6
    <3>2. i # it /\ i # o
      BY <1>2, <2>6, <3>1 DEF Good, Apart, Unused
    <3>3. \A j \in 1..Len(g) : g[j] # i
      BY <2>5 DEF Good, Apart
    <3>4. QED BY <2>5, <3>2, <3>3 DEF Unused
  <2> HIDE DEF i, g, H, h, u, p
  <2>11. Unused(i, it, h) /\ H[i] = P[i]
    BY <2>3, <2>5, <2>10
  <2>12. i # Nil /\ P[i] \in Positions
    BY <2>5, NilAssumption DEF Good
  <2>13. Good(H, i, h)
    <3>1. Apart(i, h)
      BY <2>3, <2>11 DEF Good, Apart, Unused
    <3>2. QED BY <2>3, <2>5, <2>11, <2>12, <3>1 DEF Good
  <2>14. ~OnTop(H, i, h)
    BY <2>3, <2>9, <2>11 DEF OnTop
  <2>15. NowOf(H, i) = P[i] /\ PastOf(H, i, h) = Vals(H, h)
    BY <2>11, <2>12, <2>14 DEF NowOf, PastOf
  <2>16. UndoStep(NowOf(heap, it), PastOf(heap, it, history),
                  NowOf(H, i), PastOf(H, i, h))
    BY <1>2, <1>10, <2>3, <2>7, <2>8, <2>15 DEF UndoStep, Remembered
  <2>17. Become(St(H, i, h)) /\ shown' = [board |-> H[i], details |-> details']
    BY <1>1, <2>4, <2>12 DEF print_all, St
  <2>18. Len(h) <= MaxHistory
    <3>1. Len(h) \in Nat
      BY <2>3 DEF Good
    <3>2. QED BY <3>1, <1>2, <1>6, <2>3, <2>6, MaxHistoryAssumption
  <2>19. QED
    BY <1>8, <2>12, <2>13, <2>16, <2>17, <2>18, BecomeOutcome
<1>13. QED BY <1>11, <1>12

\* Commands that leave the board as it is, and an edit that is rejected: the
\* push shows nowhere.
LEMMA PushedOutcome ==
  ASSUME Inv, Room, Become(Pushed), details' \in BOOLEAN,
         shown' = IF it = Nil THEN Nil ELSE [board |-> heap[it], details |-> details']
  PROVE  Outcome
<1>1. CASE it = Nil
  <2>1. Pushed = St(heap, it, history)
    BY <1>1 DEF Pushed, push, Here, St
  <2>2. Good(heap, it, history) /\ Len(history) <= MaxHistory
    BY DEF Inv
  <2>3. UndoStep(NowOf(heap, it), PastOf(heap, it, history),
                 NowOf(heap, it), PastOf(heap, it, history))
    BY DEF UndoStep
  <2>4. QED BY <2>1, <2>2, <2>3, BecomeOutcome
<1>2. CASE it # Nil
  <2> DEFINE P == Pushed.heap
  <2> DEFINE k == Pushed.history
  <2>1. /\ Pushed = St(P, it, k) /\ Good(P, it, k) /\ P[it] = heap[it]
        /\ NowOf(P, it) = NowOf(heap, it)
        /\ PastOf(P, it, k) = PastOf(heap, it, history)
        /\ Len(k) <= MaxHistory
    BY <1>2, PushedFacts
  <2> HIDE DEF P, k
  <2>2. UndoStep(NowOf(heap, it), PastOf(heap, it, history),
                 NowOf(P, it), PastOf(P, it, k))
    BY <2>1 DEF UndoStep
  <2>3. QED BY <1>2, <2>1, <2>2, BecomeOutcome
<1>3. QED BY <1>1, <1>2

\* Commands details and normal.
LEMMA SetDetailsOutcome ==
  ASSUME Inv, NEW det \in BOOLEAN, SetDetails(det)
  PROVE  Outcome
<1>1. /\ Room /\ it # Nil /\ Become(Pushed) /\ details' = det
      /\ shown' = print_all(Pushed, det)
  BY DEF SetDetails, Eval
<1>2. Pushed.it = it /\ Pushed.heap[it] = heap[it]
  <2>1. /\ Pushed = St(Pushed.heap, it, Pushed.history)
        /\ Pushed.heap[it] = heap[it]
    BY <1>1, PushedFacts
  <2>2. QED BY <2>1 DEF St
<1>3. shown' = [board |-> heap[it], details |-> details']
  BY <1>1, <1>2 DEF print_all
<1>4. QED BY <1>1, <1>3, PushedOutcome

\* A rejected edit.
LEMMA EditRejectedOutcome ==
  ASSUME Inv, EditRejected
  PROVE  Outcome
<1>1. Room /\ Become(Pushed) /\ details' = details /\ shown' = shown
  BY DEF EditRejected
<1>2. /\ details' \in BOOLEAN
      /\ shown' = IF it = Nil THEN Nil ELSE [board |-> heap[it], details |-> details']
  BY <1>1 DEF Inv, DisplayCurrent
<1>3. QED BY <1>1, <1>2, PushedOutcome

\* A board read with no history to keep: a file, or the first edit.
LEMMA FirstOutcome ==
  ASSUME Inv, Fresh # {}, NEW v \in Positions,
         Become(St([heap EXCEPT ![Spare[3]] = v], Spare[3], <<>>)),
         details' = details,
         shown' = print_all(St([heap EXCEPT ![Spare[3]] = v], Spare[3], <<>>), details)
  PROVE  Outcome
<1> DEFINE z == Spare[3]
<1> DEFINE G == [heap EXCEPT ![z] = v]
<1>1. Good(heap, it, history) /\ details' \in BOOLEAN
  BY DEF Inv
<1>2. z \in Refs /\ z # Nil
  BY <1>1, SpareFacts, NilAssumption DEF Unused
<1>3. <<>> \in Seq(Refs) /\ Len(<<>>) = 0
  BY EmptySeq
<1>4. Good(heap, it, <<>>)
  BY <1>1, <1>3 DEF Good, Apart, NoRepeat
<1>5. heap \in [Refs -> Positions \cup {Nil}]
  BY <1>1 DEF Good
<1>6. Become(St(G, z, <<>>)) /\ shown' = print_all(St(G, z, <<>>), details)
  OBVIOUS
<1> HIDE DEF z
<1>7. Stored(G, heap, z, v)
  BY <1>2, <1>5, StoredExcept
<1> HIDE DEF G
<1>8. Good(G, z, <<>>)
  BY <1>2, <1>3, <1>4, <1>7, GoodReplace
<1>9. G \in [Refs -> Positions \cup {Nil}] /\ G[z] = v
  BY <1>7 DEF Stored
<1>10. NowOf(G, z) = v /\ PastOf(G, z, <<>>) = <<>>
  <2>1. Vals(G, <<>>) = <<>>
    BY <1>3, <1>9, ValsType
  <2>2. QED BY <1>2, <1>9, <2>1 DEF NowOf, PastOf, OnTop
<1>11. shown' = [board |-> G[z], details |-> details']
  BY <1>2, <1>6 DEF print_all, St
<1>12. UndoStep(NowOf(heap, it), PastOf(heap, it, history),
                NowOf(G, z), PastOf(G, z, <<>>))
  BY <1>10 DEF UndoStep
<1>13. Len(<<>>) <= MaxHistory
  BY <1>3, MaxHistoryAssumption
<1>14. QED
  BY <1>1, <1>2, <1>6, <1>8, <1>11, <1>12, <1>13, BecomeOutcome

\* Loading a file.
LEMMA LoadOutcome ==
  ASSUME Inv, NEW v \in Positions, Load(v)
  PROVE  Outcome
BY FirstOutcome DEF Load, Read, St

\* An edit that is accepted.
LEMMA EditOutcome ==
  ASSUME Inv, NEW v \in Positions, Edit(v)
  PROVE  Outcome
<1> DEFINE st == St([Pushed.heap EXCEPT ![Spare[3]] = v], Spare[3], Pushed.history)
<1>1. /\ Room /\ Fresh # {} /\ Become(st) /\ details' = details
      /\ shown' = print_all(st, details)
  BY DEF Edit, Read, Room, St
<1>2. CASE it = Nil
  <2>1. Pushed = St(heap, it, history) /\ history = <<>>
    BY <1>2 DEF Pushed, push, Here, St, Inv, Good
  <2>2. st = St([heap EXCEPT ![Spare[3]] = v], Spare[3], <<>>)
    BY <2>1 DEF St
  <2>3. QED BY <1>1, <2>2, FirstOutcome
<1>3. CASE it # Nil
  <2>1. Spare[3] # Nil
    BY <1>1, SpareFacts, NilAssumption DEF Inv, Unused
  <2>2. shown' = [board |-> [Pushed.heap EXCEPT ![Spare[3]] = v][Spare[3]],
                  details |-> details']
    BY <1>1, <2>1 DEF print_all, St
  <2>3. details' \in BOOLEAN
    BY <1>1 DEF Inv
  <2>4. QED BY <1>1, <1>3, <2>2, <2>3, ReplaceOutcome
<1>4. QED BY <1>2, <1>3

\* No board, and steps that change nothing.
LEMMA StutterOutcome ==
  ASSUME Inv, NoBoard \/ UNCHANGED vars
  PROVE  Outcome
<1>1. heap' = heap /\ it' = it /\ history' = history /\ details' = details
  BY DEF NoBoard, vars
<1>2. DisplayCurrent'
  <2>1. CASE NoBoard
    BY <2>1, <1>1 DEF NoBoard, print_all, Here, DisplayCurrent
  <2>2. CASE UNCHANGED vars
    BY <2>2, <1>1 DEF vars, Inv, DisplayCurrent
  <2>3. QED BY <2>1, <2>2
<1>3. QED
  BY <1>1, <1>2 DEF Outcome, Inv, UndoStep

\* Every step of a session keeps the invariant and is a step of UndoStack.
LEMMA StepOutcome ==
  ASSUME Inv, [Next]_vars
  PROVE  Outcome
<1>1. ASSUME NEW v \in Positions, Rule(v) PROVE Outcome
  BY <1>1, RuleOutcome
<1>2. ASSUME NEW v \in Positions, Load(v) PROVE Outcome
  BY <1>2, LoadOutcome
<1>3. ASSUME NEW v \in Positions, Edit(v) PROVE Outcome
  BY <1>3, EditOutcome
<1>4. CASE BackCommand
  BY <1>4, BackOutcome
<1>5. CASE SwapCommand
  BY <1>5, SwapOutcome
<1>6. CASE NewCommand
  BY <1>6, NewOutcome
<1>7. CASE SetDetails(TRUE) \/ SetDetails(FALSE)
  BY <1>7, SetDetailsOutcome
<1>8. CASE NoBoard \/ UNCHANGED vars
  BY <1>8, StutterOutcome
<1>9. CASE EditRejected
  BY <1>9, EditRejectedOutcome
<1>10. QED
  BY <1>1, <1>2, <1>3, <1>4, <1>5, <1>6, <1>7, <1>8, <1>9 DEF Next

-----------------------------------------------------------------------------
(***************************************************************************)
(* The theorems.                                                           *)
(***************************************************************************)

\* The inductive invariant holds in every state of a session.
THEOREM Invariance == Spec => []Inv
<1>1. Init => Inv
  <2> SUFFICES ASSUME Init PROVE Inv
    OBVIOUS
  <2>1. history \in Seq(Refs) /\ Len(history) = 0
    BY EmptySeq DEF Init
  <2>2. Good(heap, it, history)
    BY <2>1 DEF Init, Good, Apart, NoRepeat
  <2>3. DisplayCurrent
    BY DEF Init, DisplayCurrent
  <2>4. QED
    <3>1. details \in BOOLEAN
      BY DEF Init
    <3>2. Len(history) <= MaxHistory
      BY <2>1, MaxHistoryAssumption
    <3>3. QED BY <2>2, <2>3, <3>1, <3>2 DEF Inv
<1>2. Inv /\ [Next]_vars => Inv'
  BY StepOutcome DEF Outcome
<1>3. QED
  BY <1>1, <1>2, PTL DEF Spec

\* Type correctness: the current board and the entries of the history are
\* board objects that hold boards.
THEOREM TypeCorrect == Spec => []TypeOK
<1>1. Inv => TypeOK
  <2> SUFFICES ASSUME Inv PROVE TypeOK
    OBVIOUS
  <2>1. /\ heap \in [Refs -> Positions \cup {Nil}] /\ it \in Refs \cup {Nil}
        /\ history \in Seq(Refs) /\ DOMAIN history = 1..Len(history)
        /\ it # Nil => heap[it] \in Positions
        /\ \A j \in 1..Len(history) : heap[history[j]] \in Positions
    BY DEF Inv, Good
  <2>2. shown \in [board : Positions, details : BOOLEAN] \cup {Nil}
    BY <2>1 DEF Inv, DisplayCurrent
  <2>3. \A o \in Live(Here) \ {Nil} : heap[o] \in Positions
    BY <2>1 DEF Live, Here
  <2>4. QED BY <2>1, <2>2, <2>3 DEF TypeOK, Inv
<1>2. QED
  BY <1>1, Invariance, PTL

\* The rules change the current board in place, and that never reaches an
\* entry of the history: push clones, and back and swap move references.
THEOREM Unshared == Spec => []NoSharing
<1>1. Inv => NoSharing
  <2> SUFFICES ASSUME Inv PROVE NoSharing
    OBVIOUS
  <2>1. DOMAIN history = 1..Len(history) /\ Apart(it, history)
    BY DEF Inv, Good
  <2>2. QED BY <2>1 DEF Apart, NoSharing
<1>2. QED
  BY <1>1, Invariance, PTL

\* The widget displays the current board in the current view.
THEOREM Displayed == Spec => []DisplayCurrent
BY Invariance, PTL DEF Inv

\* eval always has a board to print after a command.
THEOREM BoardKept == Spec => KeepsBoard
<1>1. Inv /\ [Next]_vars => [it # Nil => it' # Nil]_vars
  BY StepOutcome DEF Outcome
<1>2. QED
  BY <1>1, Invariance, PTL DEF Spec, KeepsBoard

\* The state of UndoStack that a session stands for.
LEMMA PastIs ==
  ASSUME NEW H, NEW i, NEW h, Good(H, i, h)
  PROVE  LET q == IF i # Nil /\ OnTop(H, i, h) THEN Front(h) ELSE h
         IN  [j \in DOMAIN q |-> H[q[j]]] = PastOf(H, i, h)
<1> DEFINE q == IF i # Nil /\ OnTop(H, i, h) THEN Front(h) ELSE h
<1>1. q \in Seq(Refs)
  BY FrontFacts DEF Good, OnTop
<1>2. PastOf(H, i, h) = Vals(H, q)
  BY DEF PastOf
<1> HIDE DEF q
<1>3. DOMAIN q = 1..Len(q)
  BY <1>1
<1>4. [j \in DOMAIN q |-> H[q[j]]] = Vals(H, q)
  BY <1>3 DEF Vals
<1>5. QED BY <1>2, <1>4 DEF q

\* The history, with its objects, its duplicates and the pushes of eval, does
\* what UndoStack promises.
THEOREM Refinement == Spec => UndoSpec
<1>1. Init => Undo!Init
  <2> SUFFICES ASSUME Init PROVE Undo!Init
    OBVIOUS
  <2>1. it = Nil /\ history = <<>>
    BY DEF Init
  <2>2. Now = Nil
    BY <2>1 DEF Now
  <2>3. Past = [j \in DOMAIN history |-> heap[history[j]]]
    BY <2>1 DEF Past
  <2>4. Past = <<>>
    BY <2>1, <2>3
  <2>5. QED BY <2>2, <2>4 DEF Undo!Init
<1>2. Inv /\ [Next]_vars => [Undo!Next]_(Undo!undoVars)
  <2> SUFFICES ASSUME Inv, [Next]_vars
               PROVE  Undo!Next \/ (Now' = Now /\ Past' = Past)
    BY DEF Undo!undoVars
  <2>1. /\ Good(heap, it, history) /\ Good(heap', it', history')
        /\ UndoStep(NowOf(heap, it), PastOf(heap, it, history),
                    NowOf(heap', it'), PastOf(heap', it', history'))
    BY StepOutcome DEF Outcome, Inv
  <2>2. Now = NowOf(heap, it) /\ Now' = NowOf(heap', it')
    BY DEF Now, NowOf
  <2>3. Past = PastOf(heap, it, history)
    BY <2>1, PastIs DEF Past, SameAsTop, Here, OnTop
  <2>4. Past' = PastOf(heap', it', history')
    BY <2>1, PastIs DEF Past, SameAsTop, Here, OnTop
  <2>5. UndoStep(Now, Past, Now', Past')
    BY <2>1, <2>2, <2>3, <2>4
  <2>6. \A q : Remembered(q, Now) = Undo!Remember(q, Now)
    BY DEF Remembered, Kept, Undo!Remember, Undo!Last, Last
  <2>7. \A q : Undo!Last(q) = Last(q) /\ Undo!Front(q) = Front(q)
    BY DEF Undo!Last, Last, Undo!Front, Front
  <2>8. QED
    BY <2>5, <2>6, <2>7
       DEF UndoStep, Undo!Next, Undo!Change, Undo!Load, Undo!Back, Undo!Swap
<1>3. QED
  BY <1>1, <1>2, Invariance, PTL DEF Spec, UndoSpec, Undo!Spec
=============================================================================
