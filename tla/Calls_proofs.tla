----------------------------- MODULE Calls_proofs -----------------------------
(***************************************************************************)
(* Errors jump to where they should and put back what they should, for     *)
(* every number of coroutines and every limit on frames and C calls.       *)
(***************************************************************************)
EXTENDS Calls, FiniteSetTheorems, SequenceTheorems, TLAPS

Kinds == {"cfun", "call", "handler", "pcall", "resume"}

ThreadType ==
  [ci : Nat, size_ci : Nat, nCcalls : Nat, baseCcalls : Nat, errfunc : BOOLEAN,
   jmp : Nat, status : {"ok", "yield", "error"}, fresh : BOOLEAN]

ActivationType ==
  [kind : Kinds, t : Threads, what : Kinds \cup CFunctions \cup {"yield"}, done : BOOLEAN,
   ci : Nat, nCcalls : Nat, errfunc : BOOLEAN, jmp : Nat]

States == [cstack : Seq(ActivationType), th : [Threads -> ThreadType], raised : BOOLEAN]

-----------------------------------------------------------------------------
(***************************************************************************)
(* The C stack s alone.  Everything that is said of place i is about it    *)
(* and the places below it, so that it stays true when the stack is cut.   *)
(***************************************************************************)
\* The number of counted calls in the first n places.
Depth(s, n) == Cardinality({i \in 1..n : s[i].kind \in Counted})

Guards(s, i, L) == s[i].t = L /\ s[i].kind \in Protected

\* Of the first n places, j is the innermost that protects calls of thread L; 0
\* if there is none.
Lands(s, n, L, j) ==
  /\ j \in 0..n
  /\ j # 0 => Guards(s, j, L)
  /\ \A i \in (j + 1)..n : ~Guards(s, i, L)

\* How many frames there are when b begins on top of a in the same thread.
Follows(a, b) ==
  /\ a.kind = "cfun" => b.ci = a.ci + 1
  /\ a.kind = "pcall" => b.ci = a.ci /\ b.kind = "call"
  /\ a.kind \in Counted /\ b.kind # "handler" => b.ci > a.ci

\* Place i is in order.
Placed(s, i) ==
  /\ i = 1 => s[i].kind = "pcall" /\ s[i].t = Main
  /\ i > 1 /\ s[i].kind # "resume" => s[i].t = s[i - 1].t /\ Follows(s[i - 1], s[i])
  /\ i > 1 /\ s[i].kind \in Protected => s[i - 1].kind = "cfun"
  /\ s[i].kind = "resume" =>
       s[i].t \in Coroutines /\ s[i].ci = 0 /\ \A j \in 1..(i - 1) : s[j].t # s[i].t
  /\ s[i].kind \in Protected => Lands(s, i - 1, s[i].t, s[i].jmp)
  /\ s[i].kind = "pcall" => s[i].nCcalls = Depth(s, i - 1)
  /\ \A j \in 1..i : s[j].t = s[i].t =>
       s[j].ci <= s[i].ci /\ \A l \in j..i : s[l].t = s[i].t
  /\ \E j \in 1..i : s[j].t = s[i].t /\ s[j].kind = IF s[i].t = Main THEN "pcall" ELSE "resume"

Chained(s) == s \in Seq(ActivationType) /\ \A i \in 1..Len(s) : Placed(s, i)

-----------------------------------------------------------------------------
(***************************************************************************)
(* The threads h and the stack s.                                          *)
(***************************************************************************)
\* Place i is the innermost of its thread.
Ends(s, i) == i = Len(s) \/ s[i + 1].kind = "resume"

\* What a thread with place i on the stack is like.
Matches(s, h, i) ==
  LET l == h[s[i].t]
  IN  /\ s[i].ci <= l.ci
      /\ l.status = "ok"
      /\ s[i].t \in Coroutines => ~l.fresh
      /\ s[i].kind = "resume" => l.baseCcalls = Depth(s, i)
      /\ Ends(s, i) => l.nCcalls = Depth(s, i)
      /\ Ends(s, i) /\ s[i].kind = "cfun" => l.ci = s[i].ci + 1

\* What every thread is like.
Kept(s, h, L) ==
  /\ Lands(s, Len(s), L, h[L].jmp)
  /\ h[L].size_ci \in BasicCI..(2 * MaxCalls) /\ h[L].ci + 1 <= h[L].size_ci
  /\ L = Main => h[L].status = "ok" /\ h[L].baseCcalls = 0 /\ (s = <<>> => h[L].nCcalls = 0)
  /\ L \in Coroutines /\ h[L].status = "ok" /\ h[L].ci > 0 => \E i \in 1..Len(s) : s[i].t = L
  /\ h[L].status = "yield" => h[L].ci > 1

Held(s, h) ==
  /\ h \in [Threads -> ThreadType]
  /\ \A i \in 1..Len(s) : Matches(s, h, i)
  /\ \A L \in Threads : Kept(s, h, L)

Loose(x) == x \in States /\ Chained(x.cstack) /\ Held(x.cstack, x.th)

Orderly(x) == Loose(x) /\ (x.cstack # <<>> => Last(x.cstack).kind # "pcall")

\* The interpreter on top has a frame.
Entered(x) ==
  x.cstack # <<>> /\ Last(x.cstack).kind \in Counted =>
    x.th[Last(x.cstack).t].ci > Last(x.cstack).ci

Bounded(x) == Depth(x.cstack, Len(x.cstack)) < MaxCCalls + ExtraCCalls

\* The invariant.
Good(x) ==
  /\ Orderly(x) /\ Bounded(x)
  /\ IF x.raised THEN x.cstack # <<>> ELSE Entered(x)

Now == [cstack |-> cstack, th |-> th, raised |-> raised]
Inv == Good(Now)

-----------------------------------------------------------------------------
(***************************************************************************)
(* Counting.                                                               *)
(***************************************************************************)
\* s and z are the same in the first n places, but for what has been done.
Same(s, z, n) ==
  \A i \in 1..n :
    /\ z[i].kind = s[i].kind /\ z[i].t = s[i].t /\ z[i].ci = s[i].ci
    /\ z[i].nCcalls = s[i].nCcalls /\ z[i].errfunc = s[i].errfunc /\ z[i].jmp = s[i].jmp

LEMMA DepthType ==
  ASSUME NEW s, NEW n \in Nat
  PROVE  /\ Depth(s, n) \in Nat
         /\ IsFiniteSet({i \in 1..n : s[i].kind \in Counted})
<1>1. IsFiniteSet(1..n)
  BY FS_Interval
<1>2. IsFiniteSet({i \in 1..n : s[i].kind \in Counted})
  BY <1>1, FS_Subset
<1>3. QED
  BY <1>2, FS_CardinalityType DEF Depth

LEMMA DepthNone ==
  ASSUME NEW s
  PROVE  Depth(s, 0) = 0
<1>1. {i \in 1..0 : s[i].kind \in Counted} = {}
  OBVIOUS
<1>2. QED
  BY <1>1, FS_EmptySet DEF Depth

\* One place more counts for one call more, or none.
LEMMA DepthStep ==
  ASSUME NEW s, NEW n \in Nat
  PROVE  Depth(s, n + 1) = Depth(s, n) + IF s[n + 1].kind \in Counted THEN 1 ELSE 0
<1> DEFINE A == {i \in 1..n : s[i].kind \in Counted}
           B == {i \in 1..(n + 1) : s[i].kind \in Counted}
<1>1. IsFiniteSet(A) /\ Cardinality(A) \in Nat /\ n + 1 \notin A
  BY DepthType DEF Depth
<1>2. CASE s[n + 1].kind \in Counted
  <2>1. B = A \cup {n + 1}
    BY <1>2
  <2> HIDE DEF A, B
  <2>2. Cardinality(B) = Cardinality(A) + 1
    BY <1>1, <2>1, FS_AddElement
  <2>3. QED
    BY <1>2, <2>2 DEF Depth, A, B
<1>3. CASE s[n + 1].kind \notin Counted
  <2>1. B = A
    BY <1>3
  <2>2. Depth(s, n + 1) = Cardinality(B) /\ Depth(s, n) = Cardinality(A)
    BY DEF Depth
  <2> HIDE DEF A, B
  <2>3. QED
    BY <1>1, <1>3, <2>1, <2>2
<1>4. QED
  BY <1>2, <1>3

LEMMA DepthGrows ==
  ASSUME NEW s, NEW n \in Nat, NEW k \in 0..n
  PROVE  Depth(s, k) <= Depth(s, n)
<1> DEFINE A == {i \in 1..k : s[i].kind \in Counted}
           B == {i \in 1..n : s[i].kind \in Counted}
<1>1. A \subseteq B /\ IsFiniteSet(B)
  BY DepthType
<1> HIDE DEF A, B
<1>2. Cardinality(A) <= Cardinality(B)
  BY <1>1, FS_Subset
<1>3. QED
  BY <1>2 DEF Depth, A, B

LEMMA DepthSame ==
  ASSUME NEW s, NEW z, NEW n \in Nat, Same(s, z, n), NEW k \in 0..n
  PROVE  Depth(z, k) = Depth(s, k)
<1>1. {i \in 1..k : z[i].kind \in Counted} = {i \in 1..k : s[i].kind \in Counted}
  <2>1. \A i \in 1..k : z[i].kind = s[i].kind
    BY DEF Same
  <2>2. QED BY <2>1
<1>2. QED
  BY <1>1 DEF Depth

\* So are the places that protect.
LEMMA LandsSame ==
  ASSUME NEW s, NEW z, NEW n \in Nat, Same(s, z, n), NEW k \in 0..n, NEW L, NEW j,
         Lands(s, k, L, j)
  PROVE  Lands(z, k, L, j)
<1>1. \A i \in 1..n : Guards(z, i, L) <=> Guards(s, i, L)
  BY DEF Same, Guards
<1>2. QED
  BY <1>1 DEF Lands

\* What is in order stays so, whatever is above it.
LEMMA PlacedSame ==
  ASSUME NEW s, NEW z, NEW n \in Nat, Same(s, z, n), NEW k \in 1..n, Placed(s, k)
  PROVE  Placed(z, k)
<1>1. \A i \in 1..n : /\ z[i].kind = s[i].kind /\ z[i].t = s[i].t /\ z[i].ci = s[i].ci
                      /\ z[i].nCcalls = s[i].nCcalls /\ z[i].jmp = s[i].jmp
  BY DEF Same
<1>2. k \in Nat /\ k \in 1..n /\ (k > 1 => k - 1 \in 1..n) /\ k - 1 \in 0..n
  OBVIOUS
<1>3. Depth(z, k - 1) = Depth(s, k - 1)
  BY <1>2, DepthSame
<1>4. s[k].kind \in Protected => Lands(z, k - 1, s[k].t, s[k].jmp)
  BY <1>2, LandsSame DEF Placed
<1>5. k > 1 /\ s[k].kind # "resume" => Follows(z[k - 1], z[k])
  BY <1>1, <1>2 DEF Placed, Follows
<1>6. \A j \in 1..k : s[j].t = s[k].t =>
        z[j].ci <= z[k].ci /\ \A l \in j..k : z[l].t = z[k].t
  BY <1>1, <1>2 DEF Placed
<1>7. \E j \in 1..k : z[j].t = z[k].t /\ z[j].kind = IF z[k].t = Main THEN "pcall" ELSE "resume"
  BY <1>1, <1>2 DEF Placed
<1>8. QED
  BY <1>1, <1>2, <1>3, <1>4, <1>5, <1>6, <1>7 DEF Placed

-----------------------------------------------------------------------------
(***************************************************************************)
(* Jumps.                                                                  *)
(***************************************************************************)
\* z is s, cut to n places.
Cut(s, z, n) == z \in Seq(ActivationType) /\ Len(z) = n /\ Same(s, z, n)

LEMMA Cutting ==
  ASSUME NEW s, Chained(s), NEW n \in 0..Len(s), NEW z, Cut(s, z, n)
  PROVE  Chained(z)
<1>1. Len(s) \in Nat /\ n \in Nat
  BY DEF Chained
<1>2. \A i \in 1..n : Placed(z, i)
  <2> TAKE i \in 1..n
  <2>1. Placed(s, i)
    BY <1>1 DEF Chained
  <2>2. QED
    BY <1>1, <2>1, PlacedSame DEF Cut
<1>3. QED
  BY <1>2 DEF Chained, Cut

\* Where an error of the thread on top jumps to, and what is above that place.
LEMMA Innermost ==
  ASSUME NEW s, NEW h, Chained(s), Held(s, h), s # <<>>,
         NEW L, L = Last(s).t, NEW k, k = h[L].jmp
  PROVE  /\ L \in Threads /\ k \in 1..Len(s)
         /\ s[k].t = L /\ s[k].kind \in Protected
         /\ \A i \in k..Len(s) : s[i].t = L
         /\ \A i \in (k + 1)..Len(s) : s[i].kind \notin Protected
         /\ Len(s) \in Nat \ {0}
<1>1. Len(s) \in Nat \ {0} /\ s[Len(s)] \in ActivationType /\ Last(s) = s[Len(s)]
  BY DEF Chained, Last
<1>2. L \in Threads
  BY <1>1 DEF ActivationType
<1>3. Lands(s, Len(s), L, k)
  BY <1>2 DEF Held, Kept
<1>4. Placed(s, Len(s))
  BY <1>1 DEF Chained
<1>5. PICK j \in 1..Len(s) : s[j].t = L /\ s[j].kind \in Protected
  BY <1>1, <1>4 DEF Placed, Protected
<1>6. k \in 1..Len(s) /\ Guards(s, k, L)
  BY <1>1, <1>3, <1>5 DEF Lands, Guards
<1>7. \A i \in k..Len(s) : s[i].t = L
  BY <1>1, <1>4, <1>6 DEF Placed, Guards
<1>8. \A i \in (k + 1)..Len(s) : s[i].kind \notin Protected
  <2> TAKE i \in (k + 1)..Len(s)
  <2>1. s[i].t = L /\ ~Guards(s, i, L)
    BY <1>3, <1>6, <1>7 DEF Lands
  <2>2. QED BY <2>1 DEF Guards
<1>9. QED
  BY <1>1, <1>2, <1>6, <1>7, <1>8 DEF Guards

\* What the thread is like when the protected call at place k is over, by an
\* error, a return or (a coroutine) by a yield.
Over(r, l, g) ==
  /\ g.jmp = r.jmp /\ g.baseCcalls = l.baseCcalls
  /\ g.size_ci \in BasicCI..(2 * MaxCalls) /\ g.ci + 1 <= g.size_ci
  /\ r.kind = "pcall" => /\ g.ci = r.ci /\ g.nCcalls = r.nCcalls
                         /\ g.status = l.status /\ g.fresh = l.fresh
  /\ r.kind = "resume" => /\ g.status # "ok" \/ g.ci = 0
                          /\ g.status = "yield" => g.ci > 1

\* g is h but for thread L.
Only(h, g, L) == g \in [Threads -> ThreadType] /\ \A K \in Threads \ {L} : g[K] = h[K]

\* The rest of the stack, and the threads, are in order then.
LEMMA Unwinding ==
  ASSUME NEW s, NEW h, Chained(s), Held(s, h), s # <<>>,
         NEW L, L = Last(s).t, NEW k, k = h[L].jmp, NEW z, Cut(s, z, k - 1),
         NEW g, Only(h, g, L), Over(s[k], h[L], g[L])
  PROVE  /\ Chained(z) /\ Held(z, g)
         /\ z # <<>> => Last(z).kind = "cfun"
         /\ Depth(z, Len(z)) <= Depth(s, Len(s) - 1)
<1>1. /\ L \in Threads /\ k \in 1..Len(s)
      /\ s[k].t = L /\ s[k].kind \in Protected
      /\ \A i \in k..Len(s) : s[i].t = L
      /\ \A i \in (k + 1)..Len(s) : s[i].kind \notin Protected
      /\ Len(s) \in Nat \ {0}
  BY Innermost
<1>2. /\ k \in Nat /\ k - 1 \in 0..Len(s) /\ Len(s) \in Nat /\ k <= Len(s)
      /\ Len(z) = k - 1 /\ z \in Seq(ActivationType)
  BY <1>1 DEF Cut
<1>3. Chained(z)
  BY <1>2, Cutting
<1>4. \A i \in 1..(k - 1) : z[i].kind = s[i].kind /\ z[i].t = s[i].t /\ z[i].ci = s[i].ci
  BY DEF Cut, Same
<1>5. \A i \in 1..Len(s) : Placed(s, i) /\ Matches(s, h, i) /\ s[i] \in ActivationType
  BY DEF Chained, Held
<1>6. \A i \in 0..(k - 1) : Depth(z, i) = Depth(s, i)
  BY <1>2, DepthSame DEF Cut
<1>7. k > 1 => s[k - 1].kind = "cfun"
  BY <1>1, <1>5 DEF Placed
<1>8. ASSUME NEW i \in 1..Len(z) PROVE Matches(z, g, i)
  <2>1. i \in 1..Len(s) /\ i \in 1..(k - 1) /\ i < k
    BY <1>1, <1>2
  <2>2. Matches(s, h, i) /\ Placed(s, k) /\ z[i].kind = s[i].kind /\ z[i].t = s[i].t /\ z[i].ci = s[i].ci
    BY <1>1, <1>4, <1>5, <2>1
  <2>3. Depth(z, i) = Depth(s, i)
    BY <1>6, <2>1
  <2>4. CASE s[i].t # L
    <3>1. g[s[i].t] = h[s[i].t]
      BY <1>5, <2>1, <2>4 DEF ActivationType, Only
    <3>2. Ends(z, i) => Ends(s, i)
      <4>1. CASE i # k - 1
        <5>1. i + 1 \in 1..(k - 1)
          BY <1>2, <2>1, <4>1
        <5>2. QED BY <1>2, <1>4, <4>1, <5>1 DEF Ends
      <4>2. CASE i = k - 1
        <5>1. k > 1 /\ s[k].t # s[k - 1].t /\ i + 1 = k
          BY <1>1, <1>2, <2>1, <2>4, <4>2
        <5>2. s[k].kind = "resume"
          BY <2>2, <5>1 DEF Placed
        <5>3. QED BY <5>1, <5>2 DEF Ends
      <4>3. QED BY <4>1, <4>2
    <3>3. QED BY <2>2, <2>3, <3>1, <3>2 DEF Matches
  <2>5. CASE s[i].t = L
    <3>1. s[k].kind = "pcall"
      BY <1>1, <2>1, <2>2, <2>5 DEF Placed, Protected
    <3>2. s[i].ci <= s[k].ci /\ \A l \in i..k : s[l].t = L
      BY <1>1, <2>1, <2>2, <2>5, SMTT(30) DEF Placed
    <3>3. /\ g[L].ci = s[k].ci /\ g[L].nCcalls = s[k].nCcalls
          /\ g[L].status = h[L].status /\ g[L].fresh = h[L].fresh
          /\ g[L].baseCcalls = h[L].baseCcalls
      BY <3>1 DEF Over
    <3>4. ASSUME Ends(z, i) PROVE i = k - 1
      <4>1. SUFFICES ASSUME i # k - 1 PROVE FALSE
        OBVIOUS
      <4>2. i + 1 \in 1..(k - 1) /\ i + 1 \in 1..Len(s) /\ i + 1 \in i..k /\ i \in 1..(i + 1 - 1)
        BY <1>2, <2>1, <4>1
      <4>3. s[i + 1].kind = "resume"
        BY <1>2, <1>4, <3>4, <4>1, <4>2 DEF Ends
      <4>4. s[i].t # s[i + 1].t
        BY <1>5, <4>2, <4>3 DEF Placed
      <4>5. QED BY <2>5, <3>2, <4>2, <4>4
    <3>5. s[k].nCcalls = Depth(s, k - 1)
      BY <2>2, <3>1 DEF Placed
    <3>6. k > 1 => Follows(s[k - 1], s[k])
      BY <2>2, <3>1 DEF Placed
    <3>7. Ends(z, i) => /\ g[L].nCcalls = Depth(z, i)
                        /\ z[i].kind = "cfun" => g[L].ci = z[i].ci + 1
      BY <1>1, <2>1, <2>2, <2>3, <3>3, <3>4, <3>5, <3>6, SMTT(30) DEF Follows
    <3>8. QED BY <2>2, <2>3, <2>5, <3>2, <3>3, <3>7 DEF Matches
  <2>6. QED BY <2>4, <2>5
<1>9. ASSUME NEW K \in Threads PROVE Kept(z, g, K)
  <2>1. Kept(s, h, K) /\ Placed(s, k)
    BY <1>1, <1>5 DEF Held
  <2>2. CASE K # L
    <3>1. g[K] = h[K]
      BY <2>2 DEF Only
    <3>2. Lands(s, Len(s), K, h[K].jmp)
      BY <2>1 DEF Kept
    <3>3. Lands(s, k - 1, K, h[K].jmp)
      <4>1. h[K].jmp \in 0..Len(s) /\ (h[K].jmp # 0 => s[h[K].jmp].t = K)
        BY <3>2 DEF Lands, Guards
      <4>2. h[K].jmp \in 0..(k - 1)
        BY <1>1, <2>2, <4>1
      <4>3. QED BY <1>1, <3>2, <4>2 DEF Lands
    <3>4. Lands(z, Len(z), K, g[K].jmp)
      BY <1>2, <3>1, <3>3, LandsSame DEF Cut
    <3>5. \A i \in 1..Len(s) : s[i].t = K => i \in 1..Len(z) /\ z[i].t = K
      <4> TAKE i \in 1..Len(s)
      <4>1. CASE i \in k..Len(s)
        BY <1>1, <2>2, <4>1
      <4>2. CASE i \notin k..Len(s)
        <5>1. i \in 1..(k - 1)
          BY <1>2, <4>2
        <5>2. QED BY <1>2, <1>4, <5>1
      <4>3. QED BY <4>1, <4>2
    <3>6. K = Main => z # <<>>
      <4>1. s[1].t = Main
        BY <1>1, <1>5 DEF Placed
      <4>2. K = Main => k # 1
        BY <1>1, <2>2, <4>1
      <4>3. QED BY <1>2, <4>2
    <3>7. QED BY <2>1, <3>1, <3>4, <3>5, <3>6 DEF Kept
  <2>3. CASE K = L
    <3>1. Lands(s, k - 1, L, s[k].jmp)
      BY <1>1, <2>1 DEF Placed
    <3>2. Lands(z, Len(z), L, g[L].jmp)
      BY <1>2, <3>1, LandsSame DEF Cut, Over
    <3>3. L = Main => /\ g[L].status = "ok" /\ g[L].baseCcalls = 0
                      /\ z = <<>> => g[L].nCcalls = 0
      <4> SUFFICES ASSUME L = Main
                   PROVE  /\ g[L].status = "ok" /\ g[L].baseCcalls = 0
                          /\ z = <<>> => g[L].nCcalls = 0
        OBVIOUS
      <4>1. s[k].kind = "pcall"
        BY <1>1, <2>1, CallsAssumption DEF Placed, Protected
      <4>2. g[L].nCcalls = Depth(s, k - 1)
        BY <2>1, <4>1 DEF Placed, Over
      <4>3. z = <<>> => k - 1 = 0
        BY <1>2
      <4>4. Depth(s, 0) = 0
        BY DepthNone
      <4>5. QED BY <2>1, <2>3, <4>1, <4>2, <4>3, <4>4 DEF Kept, Over
    <3>4. CASE s[k].kind = "resume"
      BY <2>3, <3>2, <3>3, <3>4 DEF Kept, Over
    <3>5. CASE s[k].kind = "pcall"
      <4>1. h[L].status = "ok" /\ g[L].status = "ok"
        BY <1>1, <1>5, <3>5 DEF Matches, Over
      <4>2. ASSUME L \in Coroutines PROVE \E i \in 1..Len(z) : z[i].t = L
        <5>1. L # Main
          BY <4>2, CallsAssumption
        <5>2. PICK j \in 1..k : s[j].t = L /\ s[j].kind = "resume"
          BY <1>1, <2>1, <5>1, SMTT(30) DEF Placed
        <5>3. j \in 1..(k - 1)
          BY <1>1, <3>5, <5>2
        <5>4. QED BY <1>2, <1>4, <5>2, <5>3
      <4>3. QED BY <2>3, <3>2, <3>3, <4>1, <4>2 DEF Kept, Over
    <3>6. QED BY <1>1, <3>4, <3>5 DEF Protected
  <2>4. QED BY <2>2, <2>3
<1>10. z # <<>> => Last(z).kind = "cfun"
  <2> SUFFICES ASSUME z # <<>> PROVE Last(z).kind = "cfun"
    OBVIOUS
  <2>1. Len(z) > 0 /\ Last(z) = z[Len(z)]
    BY <1>2 DEF Last
  <2>2. k > 1 /\ k - 1 \in 1..(k - 1)
    BY <1>1, <1>2, <2>1
  <2>3. QED BY <1>2, <1>4, <1>7, <2>1, <2>2
<1>11. Depth(z, Len(z)) <= Depth(s, Len(s) - 1)
  <2>1. Depth(z, Len(z)) = Depth(s, k - 1)
    BY <1>1, <1>2, <1>6
  <2>2. Len(s) - 1 \in Nat /\ k - 1 \in 0..(Len(s) - 1)
    BY <1>1, <1>2
  <2>3. QED BY <2>1, <2>2, DepthGrows
<1>12. QED
  BY <1>3, <1>8, <1>9, <1>10, <1>11 DEF Held, Only
-----------------------------------------------------------------------------
(***************************************************************************)
(* Places that go by a return.                                             *)
(***************************************************************************)
\* A thread is the same but for its frames and counts.
Alike(l, g) ==
  /\ g.baseCcalls = l.baseCcalls /\ g.status = l.status /\ g.fresh = l.fresh
  /\ g.size_ci \in BasicCI..(2 * MaxCalls) /\ g.ci + 1 <= g.size_ci

\* A thread that has another one above it has no place above that.
LEMMA NoReturn ==
  ASSUME NEW s, Chained(s), NEW i \in 1..(Len(s) - 1), s[i].t = s[Len(s)].t
  PROVE  s[i + 1].kind # "resume"
<1>1. Len(s) \in Nat /\ Len(s) \in 1..Len(s) /\ i \in 1..Len(s) /\ i + 1 \in 1..Len(s)
      /\ i + 1 \in i..Len(s) /\ i \in 1..(i + 1 - 1)
  BY DEF Chained
<1>2. Placed(s, Len(s)) /\ Placed(s, i + 1)
  BY <1>1 DEF Chained
<1>3. s[i + 1].t = s[i].t
  BY <1>1, <1>2 DEF Placed
<1>4. QED
  BY <1>1, <1>2, <1>3 DEF Placed

\* The call on top of the stack is over.
LEMMA Popping ==
  ASSUME NEW s, NEW h, Chained(s), Held(s, h), NEW n \in Nat \ {0}, n = Len(s),
         NEW L, L = s[n].t, s[n].kind \in {"cfun", "call", "handler"},
         NEW z, Cut(s, z, n - 1), NEW g, Only(h, g, L), Alike(h[L], g[L]),
         g[L].ci = s[n].ci, g[L].nCcalls = Depth(s, n - 1), g[L].jmp = h[L].jmp
  PROVE  /\ Chained(z) /\ Held(z, g) /\ n > 1 /\ Len(z) = n - 1
         /\ Last(z).t = L /\ Last(z).kind = s[n - 1].kind /\ Follows(Last(z), s[n])
         /\ Depth(z, Len(z)) <= Depth(s, n)
<1>1. /\ n \in 1..n /\ n - 1 \in 0..n /\ Len(z) = n - 1 /\ z \in Seq(ActivationType)
      /\ L \in Threads
  <2>1. s[n] \in ActivationType
    BY DEF Chained
  <2>2. L \in Threads
    BY <2>1 DEF ActivationType
  <2>3. QED BY <2>2 DEF Cut
<1>2. \A i \in 1..n : Placed(s, i) /\ Matches(s, h, i) /\ s[i] \in ActivationType
  BY DEF Chained, Held
<1>3. n > 1 /\ s[n - 1].t = L /\ Follows(s[n - 1], s[n])
  BY <1>1, <1>2 DEF Placed
<1>4. \A i \in 1..(n - 1) : z[i].kind = s[i].kind /\ z[i].t = s[i].t /\ z[i].ci = s[i].ci
  BY DEF Cut, Same
<1>5. \A i \in 0..(n - 1) : Depth(z, i) = Depth(s, i)
  BY <1>1, DepthSame DEF Cut
<1>6. Chained(z)
  BY <1>1, Cutting
<1>7. n - 1 \in 1..(n - 1) /\ Last(z) = z[n - 1]
  BY <1>1, <1>3 DEF Last
<1>8. ASSUME NEW i \in 1..Len(z) PROVE Matches(z, g, i)
  <2>1. i \in 1..n /\ i \in 1..(n - 1) /\ i < n
    BY <1>1
  <2>2. Matches(s, h, i) /\ z[i].kind = s[i].kind /\ z[i].t = s[i].t /\ z[i].ci = s[i].ci
    BY <1>2, <1>4, <2>1
  <2>3. Depth(z, i) = Depth(s, i)
    BY <1>5, <2>1
  <2>4. CASE s[i].t # L
    <3>1. g[s[i].t] = h[s[i].t]
      BY <1>2, <2>1, <2>4 DEF ActivationType, Only
    <3>2. i # n - 1 /\ i + 1 \in 1..(n - 1)
      BY <1>3, <2>1, <2>4
    <3>3. Ends(z, i) => Ends(s, i)
      BY <1>1, <1>4, <3>2 DEF Ends
    <3>4. QED BY <2>2, <2>3, <3>1, <3>3 DEF Matches
  <2>5. CASE s[i].t = L
    <3>1. s[i].ci <= s[n].ci
      BY <1>1, <1>2, <2>1, <2>5 DEF Placed
    <3>2. ASSUME Ends(z, i) PROVE i = n - 1
      <4>1. SUFFICES ASSUME i # n - 1 PROVE FALSE
        OBVIOUS
      <4>2. i + 1 \in 1..(n - 1) /\ i \in 1..(Len(s) - 1)
        BY <2>1, <4>1
      <4>3. s[i + 1].kind = "resume"
        BY <1>1, <1>4, <3>2, <4>1, <4>2 DEF Ends
      <4>4. QED BY <2>5, <4>2, <4>3, NoReturn
    <3>3. Ends(z, i) => /\ g[L].nCcalls = Depth(z, i)
                        /\ z[i].kind = "cfun" => g[L].ci = z[i].ci + 1
      BY <1>3, <2>2, <2>3, <3>2 DEF Follows
    <3>4. QED BY <2>2, <2>3, <2>5, <3>1, <3>3 DEF Matches, Alike
  <2>6. QED BY <2>4, <2>5
<1>9. ASSUME NEW K \in Threads PROVE Kept(z, g, K)
  <2>1. Kept(s, h, K)
    BY DEF Held
  <2>2. Lands(s, n, K, h[K].jmp)
    BY <2>1 DEF Kept
  <2>3. Lands(s, n - 1, K, h[K].jmp)
    <3>1. ~Guards(s, n, K)
      BY DEF Guards, Protected
    <3>2. h[K].jmp \in 0..n /\ h[K].jmp # n
      BY <2>2, <3>1 DEF Lands
    <3>3. h[K].jmp \in 0..(n - 1)
      BY <3>2
    <3>4. QED BY <2>2, <3>3 DEF Lands
  <2>4. g[K].jmp = h[K].jmp
    BY DEF Only
  <2>5. Lands(z, Len(z), K, g[K].jmp)
    BY <1>1, <2>3, <2>4, LandsSame DEF Cut
  <2>6. z # <<>>
    BY <1>1, <1>3
  <2>7. CASE K # L
    <3>1. g[K] = h[K]
      BY <2>7 DEF Only
    <3>2. \A i \in 1..Len(s) : s[i].t = K => i \in 1..Len(z) /\ z[i].t = K
      <4> TAKE i \in 1..Len(s)
      <4>1. i = n \/ i \in 1..(n - 1)
        OBVIOUS
      <4>2. QED BY <1>1, <1>4, <2>7, <4>1
    <3>3. QED BY <2>1, <2>5, <2>6, <3>1, <3>2 DEF Kept
  <2>8. CASE K = L
    <3>1. h[L].status = "ok"
      BY <1>1, <1>2 DEF Matches
    <3>2. \E i \in 1..Len(z) : z[i].t = L
      BY <1>1, <1>3, <1>4, <1>7
    <3>3. QED BY <2>1, <2>5, <2>6, <2>8, <3>1, <3>2 DEF Kept, Alike
  <2>9. QED BY <2>7, <2>8
<1>10. Depth(z, Len(z)) <= Depth(s, n)
  <2>1. Depth(z, n - 1) = Depth(s, n - 1)
    BY <1>1, <1>3, <1>5, <1>7
  <2>2. QED BY <1>1, <2>1, DepthGrows
<1>11. Last(z).t = L /\ Last(z).kind = s[n - 1].kind /\ Follows(Last(z), s[n])
  BY <1>3, <1>4, <1>7 DEF Follows
<1>12. g \in [Threads -> ThreadType]
  BY DEF Only
<1>13. QED
  BY <1>1, <1>3, <1>6, <1>8, <1>9, <1>10, <1>11, <1>12 DEF Held
-----------------------------------------------------------------------------
(***************************************************************************)
(* Places that come with a call.                                           *)
(***************************************************************************)
\* z is s, a stack of n places, with a on top.
Topped(s, z, a, n) ==
  /\ z \in Seq(ActivationType) /\ Len(z) = n + 1 /\ z[n + 1] = a /\ Last(z) = a
  /\ Same(s, z, n) /\ \A i \in 1..n : z[i] = s[i]
  /\ Depth(z, n + 1) = Depth(s, n) + IF a.kind \in Counted THEN 1 ELSE 0
  /\ Placed(z, n + 1) => Chained(z)

LEMMA Appended ==
  ASSUME NEW s, Chained(s), NEW a \in ActivationType, NEW n \in Nat, n = Len(s), NEW z, z = Append(s, a)
  PROVE  Topped(s, z, a, n)
<1>1. /\ z \in Seq(ActivationType) /\ Len(z) = n + 1 /\ z[n + 1] = a
      /\ \A i \in 1..n : z[i] = s[i]
  BY DEF Chained
<1>2. Same(s, z, n)
  BY <1>1 DEF Same
<1>3. Depth(z, n) = Depth(s, n)
  BY <1>2, DepthSame
<1>4. Depth(z, n + 1) = Depth(z, n) + IF a.kind \in Counted THEN 1 ELSE 0
  BY <1>1, DepthStep
<1>5. ASSUME Placed(z, n + 1) PROVE Chained(z)
  <2>1. ASSUME NEW i \in 1..n PROVE Placed(z, i)
    BY <1>2, PlacedSame DEF Chained
  <2>2. \A i \in 1..(n + 1) : i \in 1..n \/ i = n + 1
    OBVIOUS
  <2>3. QED BY <1>1, <1>5, <2>1, <2>2 DEF Chained
<1>6. QED
  BY <1>1, <1>2, <1>3, <1>4, <1>5 DEF Last, Topped

\* A C function, or a call of one or of an interpreter, begins in the running
\* thread, whose counts and guard change accordingly.
PushOn(s, h, n, a, L, z, g) ==
  /\ n \in Nat /\ n = Len(s) /\ a \in ActivationType /\ a.kind # "resume" /\ L = a.t
  /\ IF n = 0 THEN a.kind = "pcall" /\ L = Main
     ELSE /\ L = s[n].t /\ Follows(s[n], a)
          /\ a.kind = "pcall" => s[n].kind = "cfun"
  /\ a.ci = h[L].ci /\ a.nCcalls = h[L].nCcalls /\ a.jmp = h[L].jmp
  /\ z = Append(s, a) /\ Only(h, g, L) /\ Alike(h[L], g[L])
  /\ g[L].ci = h[L].ci + IF a.kind = "cfun" THEN 1 ELSE 0
  /\ g[L].nCcalls = h[L].nCcalls + IF a.kind \in Counted THEN 1 ELSE 0
  /\ g[L].jmp = IF a.kind = "pcall" THEN n + 1 ELSE h[L].jmp

LEMMA Pushing ==
  ASSUME NEW s, NEW h, Chained(s), Held(s, h), NEW n, NEW a, NEW L, NEW z, NEW g,
         PushOn(s, h, n, a, L, z, g)
  PROVE  /\ Chained(z) /\ Held(z, g)
         /\ Depth(z, n + 1) = Depth(s, n) + IF a.kind \in Counted THEN 1 ELSE 0
<1> SUFFICES ASSUME n \in Nat, n = Len(s), a \in ActivationType, a.kind # "resume", L = a.t,
                    IF n = 0 THEN a.kind = "pcall" /\ L = Main
                    ELSE /\ L = s[n].t /\ Follows(s[n], a)
                         /\ a.kind = "pcall" => s[n].kind = "cfun",
                    a.ci = h[L].ci, a.nCcalls = h[L].nCcalls, a.jmp = h[L].jmp,
                    z = Append(s, a), Only(h, g, L), Alike(h[L], g[L]),
                    g[L].ci = h[L].ci + IF a.kind = "cfun" THEN 1 ELSE 0,
                    g[L].nCcalls = h[L].nCcalls + IF a.kind \in Counted THEN 1 ELSE 0,
                    g[L].jmp = IF a.kind = "pcall" THEN n + 1 ELSE h[L].jmp
             PROVE  /\ Chained(z) /\ Held(z, g)
                    /\ Depth(z, n + 1) = Depth(s, n) + IF a.kind \in Counted THEN 1 ELSE 0
  BY DEF PushOn
<1>1. /\ z \in Seq(ActivationType) /\ Len(z) = n + 1 /\ z[n + 1] = a
      /\ Same(s, z, n) /\ \A i \in 1..n : z[i] = s[i]
      /\ Depth(z, n + 1) = Depth(s, n) + IF a.kind \in Counted THEN 1 ELSE 0
      /\ Placed(z, n + 1) => Chained(z)
  <2>1. Topped(s, z, a, n)
    BY Appended
  <2>2. QED BY <2>1 DEF Topped
<1>2. L \in Threads /\ h[L] \in ThreadType /\ Kept(s, h, L) /\ (L = Main => L \notin Coroutines)
  BY CallsAssumption DEF ActivationType, Held
<1>3. \A i \in 1..n : Placed(s, i) /\ Matches(s, h, i) /\ s[i] \in ActivationType
  BY DEF Chained, Held
<1>4. n > 0 => n \in 1..n /\ s[n].t = L /\ Follows(s[n], a)
  OBVIOUS
<1>5. n = 0 => a.kind = "pcall" /\ L = Main /\ s = <<>>
  <2>1. s \in Seq(ActivationType) /\ (Len(s) = 0 => s = <<>>)
    BY DEF Chained
  <2>2. QED BY <2>1
<1>6. h[L].status = "ok" /\ h[L].nCcalls = Depth(s, n)
  <2>1. CASE n = 0
    BY <1>2, <1>5, <2>1, DepthNone DEF Kept
  <2>2. CASE n > 0
    BY <1>3, <1>4, <2>2 DEF Matches, Ends
  <2>3. QED BY <2>1, <2>2
<1>7. \A i \in 0..n : Depth(z, i) = Depth(s, i)
  BY <1>1, DepthSame
<1>8. Placed(z, n + 1)
  <2>1. n + 1 > 1 => z[n + 1].t = z[n + 1 - 1].t /\ Follows(z[n + 1 - 1], z[n + 1])
    BY <1>1, <1>4
  <2>2. n + 1 > 1 /\ a.kind \in Protected => z[n + 1 - 1].kind = "cfun"
    BY <1>1, <1>4 DEF Protected
  <2>3. Lands(z, n + 1 - 1, L, a.jmp)
    BY <1>1, <1>2, LandsSame DEF Kept
  <2>4. a.nCcalls = Depth(z, n + 1 - 1)
    BY <1>6, <1>7
  <2>5. ASSUME NEW j \in 1..(n + 1), z[j].t = L
        PROVE  z[j].ci <= a.ci /\ \A l \in j..(n + 1) : z[l].t = L
    <3>1. CASE j = n + 1
      BY <1>1, <1>2, <3>1 DEF ActivationType
    <3>2. CASE j # n + 1
      <4>1. j \in 1..n /\ n > 0 /\ s[j].t = L
        BY <1>1, <2>5, <3>2
      <4>2. s[j].ci <= h[L].ci
        BY <1>3, <4>1 DEF Matches
      <4>3. \A l \in j..n : s[l].t = L
        BY <1>3, <1>4, <4>1 DEF Placed
      <4>4. \A l \in j..(n + 1) : l = n + 1 \/ (l \in j..n /\ l \in 1..n)
        BY <4>1
      <4>5. QED BY <1>1, <4>1, <4>2, <4>3, <4>4
    <3>3. QED BY <3>1, <3>2
  <2>6. \E j \in 1..(n + 1) : z[j].t = L /\ z[j].kind = IF L = Main THEN "pcall" ELSE "resume"
    <3>1. CASE n = 0
      BY <1>1, <1>5, <3>1
    <3>2. CASE n > 0
      <4>1. PICK j \in 1..n : s[j].t = L /\ s[j].kind = IF L = Main THEN "pcall" ELSE "resume"
        BY <1>3, <1>4, <3>2 DEF Placed
      <4>2. j \in 1..(n + 1)
        OBVIOUS
      <4>3. QED BY <1>1, <4>1, <4>2
    <3>3. QED BY <3>1, <3>2
  <2>7. n + 1 = 1 => a.kind = "pcall" /\ L = Main
    BY <1>5
  <2>8. QED BY <1>1, <2>1, <2>2, <2>3, <2>4, <2>5, <2>6, <2>7 DEF Placed
<1>9. ASSUME NEW i \in 1..Len(z) PROVE Matches(z, g, i)
  <2>1. CASE i = n + 1
    <3>1. Ends(z, i) /\ z[i] = a /\ a.t = L
      BY <1>1, <2>1 DEF Ends
    <3>2. g[L].nCcalls = Depth(z, n + 1)
      BY <1>1, <1>6
    <3>3. g[L].status = "ok" /\ (L \in Coroutines => ~g[L].fresh)
      BY <1>2, <1>3, <1>4, <1>5, <1>6 DEF Alike, Matches
    <3>4. a.ci <= g[L].ci /\ (a.kind = "cfun" => g[L].ci = a.ci + 1)
      BY <1>2 DEF ThreadType
    <3>5. QED BY <2>1, <3>1, <3>2, <3>3, <3>4 DEF Matches
  <2>2. CASE i # n + 1
    <3>1. i \in 1..n /\ z[i] = s[i] /\ Matches(s, h, i) /\ n > 0 /\ i \in 0..n
      BY <1>1, <1>3, <2>2
    <3>2. Depth(z, i) = Depth(s, i)
      BY <1>7, <3>1
    <3>3. i < n => i + 1 \in 1..n /\ z[i + 1] = s[i + 1] /\ i \in 1..(Len(s) - 1)
      BY <1>1, <3>1
    <3>4. ~Ends(z, n)
      BY <1>1 DEF Ends
    <3>5. CASE s[i].t # L
      <4>1. g[s[i].t] = h[s[i].t]
        BY <1>3, <3>1, <3>5 DEF ActivationType, Only
      <4>2. i < n
        BY <1>4, <3>1, <3>5
      <4>3. Ends(z, i) => Ends(s, i)
        BY <1>1, <3>3, <4>2 DEF Ends
      <4>4. QED BY <3>1, <3>2, <4>1, <4>3 DEF Matches
    <3>6. CASE s[i].t = L
      <4>1. ~Ends(z, i)
        <5>1. CASE i < n
          <6>1. s[i + 1].kind # "resume"
            BY <1>4, <3>1, <3>3, <3>6, <5>1, NoReturn
          <6>2. QED BY <1>1, <3>3, <5>1, <6>1 DEF Ends
        <5>2. QED BY <3>1, <3>4, <5>1
      <4>2. g[L].ci >= h[L].ci /\ g[L].ci \in Nat /\ h[L].ci \in Nat /\ s[i].ci \in Nat
        <5>1. h[L] \in ThreadType /\ g[L] \in ThreadType /\ s[i] \in ActivationType
          BY <1>2, <1>3, <3>1 DEF Only
        <5>2. h[L].ci \in Nat /\ g[L].ci \in Nat /\ s[i].ci \in Nat
          BY <5>1 DEF ThreadType, ActivationType
        <5>3. g[L].ci = h[L].ci \/ g[L].ci = h[L].ci + 1
          BY <5>2
        <5>4. QED BY <5>2, <5>3
      <4>3. QED BY <3>1, <3>2, <3>6, <4>1, <4>2, SMTT(30) DEF Matches, Alike
    <3>7. QED BY <3>5, <3>6
  <2>3. QED BY <2>1, <2>2
<1>10. ASSUME NEW K \in Threads PROVE Kept(z, g, K)
  <2>1. Kept(s, h, K) /\ z # <<>>
    BY <1>1 DEF Held
  <2>2. Lands(z, n, K, h[K].jmp)
    BY <1>1, <2>1, LandsSame DEF Kept
  <2>3. Guards(z, n + 1, K) <=> (K = L /\ a.kind = "pcall")
    BY <1>1 DEF Guards, Protected
  <2>4. \A i \in 1..n : s[i].t = K => i \in 1..Len(z) /\ z[i].t = K
    BY <1>1
  <2>5. CASE K # L
    <3>1. g[K] = h[K]
      BY <2>5 DEF Only
    <3>2. Lands(z, n + 1, K, h[K].jmp)
      BY <2>2, <2>3, <2>5 DEF Lands
    <3>3. QED BY <1>1, <2>1, <2>4, <3>1, <3>2 DEF Kept
  <2>6. CASE K = L
    <3>1. Lands(z, n + 1, L, g[L].jmp)
      <4>1. CASE a.kind = "pcall"
        BY <2>3, <2>6, <4>1 DEF Lands
      <4>2. CASE a.kind # "pcall"
        BY <2>2, <2>3, <2>6, <4>2 DEF Lands
      <4>3. QED BY <4>1, <4>2
    <3>2. \E i \in 1..Len(z) : z[i].t = L
      BY <1>1
    <3>3. QED BY <1>1, <1>6, <2>1, <2>6, <3>1, <3>2 DEF Kept, Alike
  <2>7. QED BY <2>5, <2>6
<1>11. QED
  BY <1>1, <1>8, <1>9, <1>10 DEF Held, Only
\* A coroutine begins, or goes on, above a C function of another thread.
Resumes(s, h, n, L, a, z, g) ==
  /\ n \in Nat \ {0} /\ n = Len(s) /\ s[n].kind = "cfun"
  /\ L \in Coroutines /\ \A i \in 1..n : s[i].t # L
  /\ a \in ActivationType /\ a.kind = "resume" /\ a.t = L /\ a.ci = 0 /\ a.jmp = h[L].jmp
  /\ z = Append(s, a) /\ Only(h, g, L)
  /\ g[L].size_ci \in BasicCI..(2 * MaxCalls) /\ g[L].ci + 1 <= g[L].size_ci
  /\ g[L].status = "ok" /\ ~g[L].fresh /\ g[L].jmp = n + 1
  /\ g[L].nCcalls = Depth(s, n) + 1 /\ g[L].baseCcalls = Depth(s, n) + 1

LEMMA Resuming ==
  ASSUME NEW s, NEW h, Chained(s), Held(s, h), NEW n, NEW L, NEW a, NEW z, NEW g,
         Resumes(s, h, n, L, a, z, g)
  PROVE  /\ Chained(z) /\ Held(z, g)
         /\ Depth(z, n + 1) = Depth(s, n) + 1
<1> SUFFICES ASSUME n \in Nat \ {0}, n = Len(s), s[n].kind = "cfun",
                    L \in Coroutines, \A i \in 1..n : s[i].t # L,
                    a \in ActivationType, a.kind = "resume", a.t = L, a.ci = 0, a.jmp = h[L].jmp,
                    z = Append(s, a), Only(h, g, L),
                    g[L].size_ci \in BasicCI..(2 * MaxCalls), g[L].ci + 1 <= g[L].size_ci,
                    g[L].status = "ok", ~g[L].fresh, g[L].jmp = n + 1,
                    g[L].nCcalls = Depth(s, n) + 1, g[L].baseCcalls = Depth(s, n) + 1
             PROVE  /\ Chained(z) /\ Held(z, g)
                    /\ Depth(z, n + 1) = Depth(s, n) + 1
  BY DEF Resumes
<1>1. /\ z \in Seq(ActivationType) /\ Len(z) = n + 1 /\ z[n + 1] = a
      /\ Same(s, z, n) /\ \A i \in 1..n : z[i] = s[i]
      /\ Depth(z, n + 1) = Depth(s, n) + 1
      /\ Placed(z, n + 1) => Chained(z)
  <2>1. Topped(s, z, a, n)
    BY Appended
  <2>2. QED BY <2>1 DEF Topped, Counted
<1>2. L \in Threads /\ Kept(s, h, L) /\ L # Main /\ g[L] \in ThreadType
  BY CallsAssumption DEF Threads, Held, Only
<1>3. \A i \in 1..n : Placed(s, i) /\ Matches(s, h, i) /\ s[i] \in ActivationType
  BY DEF Chained, Held
<1>4. \A i \in 0..n : Depth(z, i) = Depth(s, i)
  BY <1>1, DepthSame
<1>5. Placed(z, n + 1)
  <2>1. Lands(z, n + 1 - 1, L, a.jmp)
    BY <1>1, <1>2, LandsSame DEF Kept
  <2>2. \A j \in 1..(n + 1 - 1) : z[j].t # L
    BY <1>1
  <2>3. ASSUME NEW j \in 1..(n + 1), z[j].t = L
        PROVE  z[j].ci <= a.ci /\ \A l \in j..(n + 1) : z[l].t = L
    <3>1. j = n + 1
      BY <2>2, <2>3
    <3>2. QED BY <1>1, <3>1
  <2>4. \E j \in 1..(n + 1) : z[j].t = L /\ z[j].kind = IF L = Main THEN "pcall" ELSE "resume"
    BY <1>1, <1>2
  <2>5. z[n + 1 - 1].kind = "cfun"
    BY <1>1
  <2>6. QED BY <1>1, <2>1, <2>2, <2>3, <2>4, <2>5 DEF Placed
<1>6. ASSUME NEW i \in 1..Len(z) PROVE Matches(z, g, i)
  <2>1. CASE i = n + 1
    <3>1. z[i] = a /\ g[L].nCcalls = Depth(z, i) /\ g[L].baseCcalls = Depth(z, i)
      BY <1>1, <2>1
    <3>2. a.ci <= g[L].ci
      BY <1>2 DEF ThreadType
    <3>3. QED BY <3>1, <3>2 DEF Matches
  <2>2. CASE i # n + 1
    <3>1. i \in 1..n /\ z[i] = s[i] /\ Matches(s, h, i) /\ i \in 0..n
      BY <1>1, <1>3, <2>2
    <3>2. g[s[i].t] = h[s[i].t] /\ Depth(z, i) = Depth(s, i)
      BY <1>3, <1>4, <3>1 DEF ActivationType, Only
    <3>3. Ends(z, i) => Ends(s, i)
      BY <1>1, <3>1 DEF Ends
    <3>4. QED BY <3>1, <3>2, <3>3 DEF Matches
  <2>3. QED BY <2>1, <2>2
<1>7. ASSUME NEW K \in Threads PROVE Kept(z, g, K)
  <2>1. Kept(s, h, K) /\ z # <<>>
    BY <1>1 DEF Held
  <2>2. Lands(z, n, K, h[K].jmp)
    BY <1>1, <2>1, LandsSame DEF Kept
  <2>3. Guards(z, n + 1, K) <=> K = L
    BY <1>1 DEF Guards, Protected
  <2>4. \A i \in 1..n : s[i].t = K => i \in 1..Len(z) /\ z[i].t = K
    BY <1>1
  <2>5. CASE K # L
    <3>1. g[K] = h[K]
      BY <2>5 DEF Only
    <3>2. Lands(z, n + 1, K, h[K].jmp)
      BY <2>2, <2>3, <2>5 DEF Lands
    <3>3. QED BY <1>1, <2>1, <2>4, <3>1, <3>2 DEF Kept
  <2>6. CASE K = L
    <3>1. Lands(z, n + 1, L, g[L].jmp)
      BY <2>3, <2>6 DEF Lands
    <3>2. \E i \in 1..Len(z) : z[i].t = L
      BY <1>1
    <3>3. QED BY <1>1, <1>2, <2>6, <3>1, <3>2 DEF Kept
  <2>7. QED BY <2>5, <2>6
<1>8. QED
  BY <1>1, <1>5, <1>6, <1>7 DEF Held, Only

\* Frames are made or left, or their array gets another size.
LEMMA Adjusting ==
  ASSUME NEW s, NEW h, Chained(s), Held(s, h), NEW L \in Threads, NEW g, Only(h, g, L),
         Alike(h[L], g[L]), g[L].nCcalls = h[L].nCcalls, g[L].jmp = h[L].jmp,
         \/ g[L].ci = h[L].ci
         \/ /\ s # <<>> /\ L = Last(s).t /\ Last(s).kind \in Counted
            /\ g[L].ci >= Last(s).ci
  PROVE  Held(s, g)
<1>1. \A i \in 1..Len(s) : Placed(s, i) /\ Matches(s, h, i) /\ s[i] \in ActivationType
  BY DEF Chained, Held
<1>2. Len(s) \in Nat /\ (s # <<>> => Len(s) \in 1..Len(s) /\ Last(s) = s[Len(s)])
  BY DEF Chained, Last
<1>3. \A K \in Threads : Kept(s, h, K)
  BY DEF Held
<1>4. g[L] \in ThreadType /\ g[L].ci \in Nat
  BY DEF Only, ThreadType
<1>5. ASSUME NEW i \in 1..Len(s) PROVE Matches(s, g, i)
  <2>1. CASE s[i].t # L
    <3>1. g[s[i].t] = h[s[i].t]
      BY <1>1, <2>1 DEF ActivationType, Only
    <3>2. QED BY <1>1, <3>1 DEF Matches
  <2>2. CASE s[i].t = L /\ g[L].ci = h[L].ci
    BY <1>1, <2>2 DEF Matches, Alike
  <2>3. CASE s[i].t = L /\ g[L].ci # h[L].ci
    <3>1. s[Len(s)].t = L /\ s[Len(s)].kind \in Counted /\ g[L].ci >= s[Len(s)].ci
          /\ Len(s) \in 1..Len(s)
      BY <1>2, <2>3
    <3>2. s[i].ci <= s[Len(s)].ci
      BY <1>1, <2>3, <3>1 DEF Placed
    <3>3. s[i].ci <= g[L].ci
      <4>1. s[i].ci \in Nat /\ s[Len(s)].ci \in Nat
        BY <1>1, <3>1 DEF ActivationType
      <4>2. QED BY <1>4, <3>1, <3>2, <4>1
    <3>4. ~(Ends(s, i) /\ s[i].kind = "cfun")
      <4>1. CASE i = Len(s)
        BY <3>1, <4>1 DEF Counted
      <4>2. CASE i # Len(s)
        <5>1. i \in 1..(Len(s) - 1)
          BY <1>2, <4>2
        <5>2. s[i + 1].kind # "resume"
          BY <2>3, <3>1, <5>1, NoReturn
        <5>3. QED BY <4>2, <5>2 DEF Ends
      <4>3. QED BY <4>1, <4>2
    <3>5. QED BY <1>1, <2>3, <3>3, <3>4 DEF Matches, Alike
  <2>4. QED BY <2>1, <2>2, <2>3
<1>6. ASSUME NEW K \in Threads PROVE Kept(s, g, K)
  <2>1. CASE K # L
    <3>1. g[K] = h[K]
      BY <2>1 DEF Only
    <3>2. QED BY <1>3, <3>1 DEF Kept
  <2>2. CASE K = L /\ g[L].ci = h[L].ci
    BY <1>3, <2>2 DEF Kept, Alike
  <2>3. CASE K = L /\ g[L].ci # h[L].ci
    <3>1. s[Len(s)].t = L /\ Len(s) \in 1..Len(s)
      BY <1>2, <2>3
    <3>2. h[L].status = "ok"
      BY <1>1, <3>1 DEF Matches
    <3>3. QED BY <1>3, <2>3, <3>1, <3>2 DEF Kept, Alike
  <2>4. QED BY <2>1, <2>2, <2>3
<1>7. QED
  BY <1>5, <1>6 DEF Held, Only

\* What happens to a coroutine that has nothing on the stack.
LEMMA Outside ==
  ASSUME NEW s, NEW h, Chained(s), Held(s, h), NEW L \in Coroutines,
         \A i \in 1..Len(s) : s[i].t # L, NEW g, Only(h, g, L),
         g[L].size_ci \in BasicCI..(2 * MaxCalls), g[L].ci + 1 <= g[L].size_ci,
         g[L].jmp = 0, g[L].status # "ok" \/ g[L].ci = 0, g[L].status = "yield" => g[L].ci > 1
  PROVE  Held(s, g)
<1>1. \A i \in 1..Len(s) : Matches(s, h, i) /\ s[i] \in ActivationType
  BY DEF Chained, Held
<1>2. Len(s) \in Nat
  BY DEF Chained
<1>3. ASSUME NEW i \in 1..Len(s) PROVE Matches(s, g, i)
  <2>1. g[s[i].t] = h[s[i].t]
    BY <1>1 DEF ActivationType, Only
  <2>2. QED BY <1>1, <2>1 DEF Matches
<1>4. ASSUME NEW K \in Threads PROVE Kept(s, g, K)
  <2>1. CASE K # L
    <3>1. g[K] = h[K] /\ Kept(s, h, K)
      BY <2>1 DEF Only, Held
    <3>2. QED BY <3>1 DEF Kept
  <2>2. CASE K = L
    <3>1. Lands(s, Len(s), L, 0)
      BY <1>2 DEF Lands, Guards
    <3>2. L # Main
      BY CallsAssumption
    <3>3. g[L].ci \in Nat
      BY <2>2 DEF Only, ThreadType
    <3>4. QED BY <2>2, <3>1, <3>2, <3>3 DEF Kept
  <2>3. QED BY <2>1, <2>2
<1>5. QED
  BY <1>3, <1>4 DEF Held, Only
-----------------------------------------------------------------------------
(***************************************************************************)
(* The functions of the model, on states as records.                       *)
(***************************************************************************)
LEMMA StateFacts ==
  ASSUME NEW x \in States
  PROVE  /\ x.cstack \in Seq(ActivationType) /\ x.th \in [Threads -> ThreadType]
         /\ x.raised \in BOOLEAN
  BY DEF States

LEMMA ThreadFacts ==
  ASSUME NEW l \in ThreadType
  PROVE  /\ l.ci \in Nat /\ l.size_ci \in Nat /\ l.nCcalls \in Nat /\ l.baseCcalls \in Nat
         /\ l.errfunc \in BOOLEAN /\ l.jmp \in Nat /\ l.status \in {"ok", "yield", "error"}
         /\ l.fresh \in BOOLEAN
  BY DEF ThreadType

LEMMA PlaceFacts ==
  ASSUME NEW a \in ActivationType
  PROVE  /\ a.kind \in Kinds /\ a.t \in Threads /\ a.ci \in Nat /\ a.nCcalls \in Nat
         /\ a.errfunc \in BOOLEAN /\ a.jmp \in Nat
  BY DEF ActivationType

LEMMA Changed ==
  ASSUME NEW h \in [Threads -> ThreadType], NEW L \in Threads, NEW l \in ThreadType
  PROVE  Only(h, [h EXCEPT ![L] = l], L) /\ [h EXCEPT ![L] = l][L] = l
  BY DEF Only

LEMMA ActivationFacts ==
  ASSUME NEW x \in States, NEW L \in Threads, NEW kind \in Kinds,
         NEW what \in Kinds \cup CFunctions \cup {"yield"}
  PROVE  /\ Activation(kind, L, x) \in ActivationType
         /\ [Activation(kind, L, x) EXCEPT !.what = what] \in ActivationType
  <1>1. x.th[L] \in ThreadType
    BY StateFacts
  <1>2. QED BY <1>1 DEF Activation, ActivationType, ThreadType

LEMMA BackToFacts ==
  ASSUME NEW x \in States, NEW k \in 1..(Len(x.cstack) + 1)
  PROVE  /\ BackTo(x, k) \in States
         /\ BackTo(x, k).th = x.th /\ BackTo(x, k).raised = x.raised
         /\ Cut(x.cstack, BackTo(x, k).cstack, k - 1)
<1> DEFINE s == x.cstack
           e(i) == IF i = k - 1 /\ s[i].kind = "cfun" THEN [s[i] EXCEPT !.done = TRUE] ELSE s[i]
           z == [i \in 1..(k - 1) |-> e(i)]
<1>1. s \in Seq(ActivationType) /\ Len(s) \in Nat /\ k \in Nat /\ k - 1 \in Nat /\ k - 1 <= Len(s)
  BY StateFacts
<1>2. ASSUME NEW i \in 1..(k - 1)
      PROVE  /\ e(i) \in ActivationType /\ e(i).kind = s[i].kind /\ e(i).t = s[i].t
             /\ e(i).ci = s[i].ci /\ e(i).nCcalls = s[i].nCcalls
             /\ e(i).errfunc = s[i].errfunc /\ e(i).jmp = s[i].jmp
  <2>1. s[i] \in ActivationType
    BY <1>1
  <2> HIDE DEF s
  <2>2. QED BY <2>1 DEF ActivationType
<1>3. BackTo(x, k) = [x EXCEPT !.cstack = z]
  BY DEF BackTo
<1> HIDE DEF e, s
<1>4. z \in Seq(ActivationType) /\ Len(z) = k - 1 /\ \A i \in 1..(k - 1) : z[i] = e(i)
  <2>1. \A i \in 1..(k - 1) : e(i) \in ActivationType
    BY <1>2
  <2>2. QED BY <1>1, <2>1
<1>5. Same(s, z, k - 1)
  BY <1>2, <1>4 DEF Same
<1> HIDE DEF z
<1>6. BackTo(x, k).cstack = z /\ BackTo(x, k).th = x.th /\ BackTo(x, k).raised = x.raised
  BY <1>3 DEF States
<1>7. BackTo(x, k) \in States
  BY <1>3, <1>4 DEF States
<1>8. QED
  BY <1>4, <1>5, <1>6, <1>7 DEF Cut, s

-----------------------------------------------------------------------------
(***************************************************************************)
(* Changes of one thread, and of the stack.                                *)
(***************************************************************************)
\* Thread g is l but for what fields are in f.
Apart(l, g, f) ==
  /\ g \in ThreadType
  /\ "ci" \notin f => g.ci = l.ci
  /\ "size_ci" \notin f => g.size_ci = l.size_ci
  /\ "nCcalls" \notin f => g.nCcalls = l.nCcalls
  /\ "baseCcalls" \notin f => g.baseCcalls = l.baseCcalls
  /\ "errfunc" \notin f => g.errfunc = l.errfunc
  /\ "jmp" \notin f => g.jmp = l.jmp
  /\ "status" \notin f => g.status = l.status
  /\ "fresh" \notin f => g.fresh = l.fresh

LEMMA Fields ==
  ASSUME NEW l \in ThreadType, NEW n \in Nat, NEW e \in BOOLEAN, NEW c \in {"ok", "yield", "error"}
  PROVE  /\ Apart(l, [l EXCEPT !.ci = n], {"ci"}) /\ [l EXCEPT !.ci = n].ci = n
         /\ Apart(l, [l EXCEPT !.size_ci = n], {"size_ci"}) /\ [l EXCEPT !.size_ci = n].size_ci = n
         /\ Apart(l, [l EXCEPT !.nCcalls = n], {"nCcalls"}) /\ [l EXCEPT !.nCcalls = n].nCcalls = n
         /\ Apart(l, [l EXCEPT !.baseCcalls = n], {"baseCcalls"})
         /\ [l EXCEPT !.baseCcalls = n].baseCcalls = n
         /\ Apart(l, [l EXCEPT !.errfunc = e], {"errfunc"}) /\ [l EXCEPT !.errfunc = e].errfunc = e
         /\ Apart(l, [l EXCEPT !.jmp = n], {"jmp"}) /\ [l EXCEPT !.jmp = n].jmp = n
         /\ Apart(l, [l EXCEPT !.status = c], {"status"}) /\ [l EXCEPT !.status = c].status = c
         /\ Apart(l, [l EXCEPT !.fresh = e], {"fresh"}) /\ [l EXCEPT !.fresh = e].fresh = e
  BY DEF Apart, ThreadType

\* State x with thread L as l, and stack z.
Update(x, L, l, z) == [x EXCEPT !.th[L] = l, !.cstack = z]

LEMMA Updating ==
  ASSUME NEW x \in States, NEW L \in Threads, NEW l \in ThreadType,
         NEW z \in Seq(ActivationType), NEW y, y = Update(x, L, l, z)
  PROVE  /\ y \in States /\ y.cstack = z /\ y.raised = x.raised
         /\ Only(x.th, y.th, L) /\ y.th[L] = l
<1> DEFINE h == x.th
           g == [h EXCEPT ![L] = l]
<1>1. h \in [Threads -> ThreadType]
  BY StateFacts
<1>2. Only(h, g, L) /\ g[L] = l
  <2> HIDE DEF h
  <2>1. QED BY <1>1, Changed
<1>3. y = [x EXCEPT !.th = g, !.cstack = z]
  BY DEF Update
<1>4. g \in [Threads -> ThreadType]
  BY <1>2 DEF Only
<1> HIDE DEF g
<1>5. y \in States /\ y.cstack = z /\ y.th = g /\ y.raised = x.raised
  BY <1>3, <1>4 DEF States
<1>6. QED
  BY <1>2, <1>5

\* Protected calls of stack s that are not in stack z any more have left their
\* threads as they were.
Restored(s, z, g) ==
  \A i \in 1..Len(s) : s[i].kind = "pcall" /\ Len(z) < i =>
    /\ g[s[i].t].ci = s[i].ci /\ g[s[i].t].nCcalls = s[i].nCcalls
    /\ g[s[i].t].errfunc = s[i].errfunc /\ g[s[i].t].jmp = s[i].jmp

\* What a protected call and a resume do with an error leaves the thread in order.
LEMMA Catching ==
  ASSUME NEW r \in ActivationType, r.kind \in Protected, NEW l \in ThreadType,
         l.size_ci \in BasicCI..(2 * MaxCalls), l.ci + 1 <= l.size_ci, r.ci <= l.ci,
         r.kind = "resume" => l.nCcalls > 0
  PROVE  /\ caught(r, l) \in ThreadType /\ Over(r, l, caught(r, l))
         /\ r.kind = "pcall" => /\ caught(r, l).ci = r.ci /\ caught(r, l).nCcalls = r.nCcalls
                                /\ caught(r, l).errfunc = r.errfunc /\ caught(r, l).jmp = r.jmp
<1>1. /\ r.ci \in Nat /\ r.nCcalls \in Nat /\ r.errfunc \in BOOLEAN /\ r.jmp \in Nat
      /\ l.ci \in Nat /\ l.size_ci \in Nat /\ l.nCcalls \in Nat
  BY DEF ActivationType, ThreadType
<1>2. MaxCalls \in Nat \ {0} /\ BasicCI \in 1..MaxCalls
  BY CallsAssumption
<1>3. CASE r.kind = "pcall"
  <2> DEFINE size == restore_stack_limit(l.size_ci, r.ci)
  <2>1. size \in BasicCI..(2 * MaxCalls) /\ r.ci + 1 <= size /\ size \in Nat
    BY <1>1, <1>2 DEF restore_stack_limit
  <2> HIDE DEF size
  <2>2. caught(r, l) = [l EXCEPT !.ci = r.ci, !.nCcalls = r.nCcalls, !.errfunc = r.errfunc,
                                 !.jmp = r.jmp, !.size_ci = size]
    BY <1>3 DEF caught, size
  <2>3. caught(r, l) \in ThreadType
    BY <1>1, <2>1, <2>2 DEF ThreadType
  <2>4. /\ caught(r, l).ci = r.ci /\ caught(r, l).nCcalls = r.nCcalls
        /\ caught(r, l).errfunc = r.errfunc /\ caught(r, l).jmp = r.jmp
        /\ caught(r, l).size_ci = size /\ caught(r, l).baseCcalls = l.baseCcalls
        /\ caught(r, l).status = l.status /\ caught(r, l).fresh = l.fresh
    BY <2>2 DEF ThreadType
  <2>5. QED BY <1>3, <2>1, <2>3, <2>4 DEF Over
<1>4. CASE r.kind = "resume"
  <2>1. caught(r, l) = [l EXCEPT !.status = "error", !.nCcalls = l.nCcalls - 1, !.jmp = r.jmp]
    BY <1>4 DEF caught
  <2>2. l.nCcalls - 1 \in Nat
    BY <1>1, <1>4
  <2>3. caught(r, l) \in ThreadType
    BY <1>1, <2>1, <2>2 DEF ThreadType
  <2>4. /\ caught(r, l).ci = l.ci /\ caught(r, l).jmp = r.jmp /\ caught(r, l).size_ci = l.size_ci
        /\ caught(r, l).baseCcalls = l.baseCcalls /\ caught(r, l).status = "error"
    BY <2>1 DEF ThreadType
  <2>5. QED BY <1>4, <2>3, <2>4 DEF Over
<1>5. QED
  BY <1>3, <1>4 DEF Protected
\* The thread that runs: its place on top, its counts.
LEMMA Running ==
  ASSUME NEW x, Loose(x), x.cstack # <<>>, NEW L, L = Last(x.cstack).t
  PROVE  /\ L \in Threads /\ x \in States /\ Len(x.cstack) \in Nat \ {0}
         /\ Last(x.cstack) = x.cstack[Len(x.cstack)] /\ Last(x.cstack) \in ActivationType
         /\ x.th \in [Threads -> ThreadType] /\ x.th[L] \in ThreadType
         /\ x.th[L].nCcalls = Depth(x.cstack, Len(x.cstack)) /\ x.th[L].status = "ok"
         /\ Last(x.cstack).ci <= x.th[L].ci
         /\ Last(x.cstack).kind = "cfun" => x.th[L].ci = Last(x.cstack).ci + 1
         /\ x.th[L].size_ci \in BasicCI..(2 * MaxCalls) /\ x.th[L].ci + 1 <= x.th[L].size_ci
<1>1. x \in States /\ x.cstack \in Seq(ActivationType) /\ x.th \in [Threads -> ThreadType]
  BY StateFacts DEF Loose
<1>2. /\ Len(x.cstack) \in Nat \ {0} /\ Last(x.cstack) = x.cstack[Len(x.cstack)]
      /\ Last(x.cstack) \in ActivationType /\ Len(x.cstack) \in 1..Len(x.cstack)
  BY <1>1 DEF Last
<1>3. L \in Threads
  BY <1>2 DEF ActivationType
<1>4. Matches(x.cstack, x.th, Len(x.cstack)) /\ Kept(x.cstack, x.th, L)
  BY <1>2, <1>3 DEF Loose, Held
<1>5. /\ x.th[L].nCcalls = Depth(x.cstack, Len(x.cstack)) /\ x.th[L].status = "ok"
      /\ Last(x.cstack).ci <= x.th[L].ci
      /\ Last(x.cstack).kind = "cfun" => x.th[L].ci = Last(x.cstack).ci + 1
  BY <1>2, <1>4 DEF Matches, Ends
<1>6. x.th[L].size_ci \in BasicCI..(2 * MaxCalls) /\ x.th[L].ci + 1 <= x.th[L].size_ci
  BY <1>4 DEF Kept
<1>7. QED
  BY <1>1, <1>2, <1>3, <1>5, <1>6

\* The state when functions of thread L may be called: it is the one that runs.
Runs(x, L) == Loose(x) /\ x.raised = FALSE /\ x.cstack # <<>> /\ L = Last(x.cstack).t

\* A protected call, or a resume, is over: the stack is in order without it.
Settles(x, L, k, l) ==
  /\ k = x.th[L].jmp /\ l \in ThreadType /\ Over(x.cstack[k], x.th[L], l)
  /\ x.cstack[k].kind = "pcall" => l.errfunc = x.cstack[k].errfunc

LEMMA Settling ==
  ASSUME NEW x, NEW L, Runs(x, L), NEW k, NEW l, Settles(x, L, k, l),
         NEW y, y = BackTo(Update(x, L, l, x.cstack), k)
  PROVE  /\ Orderly(y) /\ Entered(y) /\ y.raised = FALSE
         /\ Depth(y.cstack, Len(y.cstack)) <= Depth(x.cstack, Len(x.cstack) - 1)
         /\ Restored(x.cstack, y.cstack, y.th)
<1> DEFINE s == x.cstack
           h == x.th
           w == Update(x, L, l, s)
<1>1. /\ L \in Threads /\ x \in States /\ Len(s) \in Nat \ {0} /\ s \in Seq(ActivationType)
      /\ x.raised = FALSE /\ s # <<>> /\ L = Last(s).t
  BY Running, StateFacts DEF Runs
<1>2. Chained(s) /\ Held(s, h)
  BY DEF Runs, Loose
<1>3. k = h[L].jmp /\ l \in ThreadType
  BY DEF Settles
<1>4. /\ k \in 1..Len(s) /\ s[k].t = L /\ s[k].kind \in Protected
      /\ \A i \in (k + 1)..Len(s) : s[i].kind \notin Protected
  <2> HIDE DEF s, h
  <2>1. QED BY <1>1, <1>2, <1>3, Innermost
<1>5. k \in Nat /\ 1 <= k /\ k <= Len(s) /\ Len(s) \in Nat /\ k \in 1..(Len(s) + 1)
  <2> HIDE DEF s
  <2>1. k \in 1..Len(s) /\ Len(s) \in Nat
    BY <1>1, <1>4
  <2>2. QED BY <2>1
<1>6. /\ w \in States /\ w.cstack = s /\ w.raised = FALSE
      /\ Only(h, w.th, L) /\ w.th[L] = l
  BY <1>1, <1>3, Updating
<1>7. /\ y \in States /\ y.th = w.th /\ y.raised = FALSE /\ Cut(s, y.cstack, k - 1)
  <2>1. y = BackTo(w, k)
    OBVIOUS
  <2> HIDE DEF w, s
  <2>2. k \in 1..(Len(w.cstack) + 1)
    BY <1>5, <1>6
  <2>3. QED BY <1>6, <2>1, <2>2, BackToFacts
<1> HIDE DEF w
<1>8. /\ Chained(y.cstack) /\ Held(y.cstack, y.th)
      /\ y.cstack # <<>> => Last(y.cstack).kind = "cfun"
      /\ Depth(y.cstack, Len(y.cstack)) <= Depth(s, Len(s) - 1)
  <2>1. Over(s[k], h[L], y.th[L]) /\ Only(h, y.th, L)
    BY <1>6, <1>7 DEF Settles
  <2> HIDE DEF s, h
  <2>2. QED BY <1>1, <1>2, <1>3, <1>7, <2>1, Unwinding
<1>9. Restored(s, y.cstack, y.th)
  <2> SUFFICES ASSUME NEW i \in 1..Len(s), s[i].kind = "pcall", Len(y.cstack) < i
               PROVE  /\ y.th[s[i].t].ci = s[i].ci /\ y.th[s[i].t].nCcalls = s[i].nCcalls
                      /\ y.th[s[i].t].errfunc = s[i].errfunc /\ y.th[s[i].t].jmp = s[i].jmp
    BY DEF Restored
  <2>1. Len(y.cstack) = k - 1 /\ s[i].kind \in Protected
    BY <1>7 DEF Cut, Protected
  <2>2. i \notin (k + 1)..Len(s)
    BY <1>4, <2>1
  <2>3. i = k
    <3> HIDE DEF s
    <3>1. QED BY <1>5, <2>1, <2>2
  <2>4. y.th[L] = l /\ s[k].t = L
    BY <1>4, <1>6, <1>7
  <2>5. QED BY <2>3, <2>4 DEF Over, Settles
<1>10. QED
  BY <1>7, <1>8, <1>9 DEF Orderly, Loose, Entered, Counted

\* An error jumps.
LEMMA Throwing ==
  ASSUME NEW x, Loose(x), x.raised = FALSE, x.cstack # <<>>, NEW L, L = Last(x.cstack).t,
         NEW y, y = luaD_throw(x, L)
  PROVE  /\ Orderly(y) /\ Entered(y) /\ y.raised = FALSE
         /\ Depth(y.cstack, Len(y.cstack)) <= Depth(x.cstack, Len(x.cstack) - 1)
         /\ Restored(x.cstack, y.cstack, y.th)
<1> DEFINE s == x.cstack
           h == x.th
           k == h[L].jmp
           l == caught(s[k], h[L])
<1>1. /\ L \in Threads /\ x \in States /\ Len(s) \in Nat \ {0}
      /\ h[L] \in ThreadType /\ h[L].nCcalls = Depth(s, Len(s))
      /\ h[L].size_ci \in BasicCI..(2 * MaxCalls) /\ h[L].ci + 1 <= h[L].size_ci
  BY Running
<1>2. Chained(s) /\ Held(s, h)
  BY DEF Loose
<1>3. k \in 1..Len(s) /\ s[k].t = L /\ s[k].kind \in Protected
  <2> HIDE DEF s, h, k
  <2>1. L = Last(s).t /\ k = h[L].jmp /\ s # <<>>
    BY DEF s, h, k
  <2>2. QED BY <1>2, <2>1, Innermost
<1>4. s[k] \in ActivationType /\ s[k].ci <= h[L].ci
  <2> HIDE DEF s, h, k
  <2>1. s[k] \in ActivationType /\ Matches(s, h, k)
    BY <1>2, <1>3 DEF Chained, Held
  <2>2. QED BY <1>3, <2>1 DEF Matches
<1>5. s[k].kind = "resume" => h[L].nCcalls > 0
  <2> SUFFICES ASSUME s[k].kind = "resume" PROVE h[L].nCcalls > 0
    OBVIOUS
  <2>1. k - 1 \in Nat /\ k - 1 + 1 = k /\ k \in 0..Len(s) /\ Len(s) \in Nat
    BY <1>1, <1>3
  <2> HIDE DEF s, h, k
  <2>2. Depth(s, k - 1) \in Nat /\ Depth(s, Len(s)) \in Nat /\ Depth(s, k) <= Depth(s, Len(s))
    BY <2>1, DepthType, DepthGrows
  <2>3. Depth(s, k - 1 + 1) = Depth(s, k - 1) + 1
    BY <2>1, DepthStep DEF Counted
  <2>4. QED BY <1>1, <2>1, <2>2, <2>3
<1>6. /\ l \in ThreadType /\ Over(s[k], h[L], l)
      /\ s[k].kind = "pcall" => l.errfunc = s[k].errfunc
  <2> HIDE DEF s, h, k
  <2>1. QED BY <1>1, <1>3, <1>4, <1>5, Catching
<1>7. y = BackTo(Update(x, L, l, s), k)
  <2>1. k # 0
    BY <1>1, <1>3
  <2>2. [x EXCEPT !.th[L] = caught(x.cstack[k], @)] = Update(x, L, l, s)
    BY <1>1 DEF Update, States
  <2>3. QED BY <2>1, <2>2 DEF luaD_throw
<1>8. QED
  <2>1. Settles(x, L, k, l)
    BY <1>6 DEF Settles
  <2> HIDE DEF k, l
  <2>2. Runs(x, L)
    BY DEF Runs
  <2>3. QED BY <1>7, <2>1, <2>2, Settling

-----------------------------------------------------------------------------
(***************************************************************************)
(* Outcomes.                                                               *)
(***************************************************************************)

\* What each function is shown to achieve, called with stack s.
Outcome(s, y) == Good(y) /\ Restored(s, y.cstack, y.th)

\* No protected call is over when the stack has not become smaller.
LEMMA NoneOver ==
  ASSUME NEW s, Len(s) \in Nat, NEW z, Len(z) \in Nat, Len(s) <= Len(z), NEW g
  PROVE  Restored(s, z, g)
  BY DEF Restored

\* An error raised when nothing is in the way of the jump but the stack itself.
LEMMA ThrowRight ==
  ASSUME NEW x, Loose(x), x.raised = FALSE, x.cstack # <<>>, NEW L, L = Last(x.cstack).t,
         Depth(x.cstack, Len(x.cstack) - 1) < MaxCCalls + ExtraCCalls
  PROVE  Outcome(x.cstack, luaD_throw(x, L))
<1> DEFINE y == luaD_throw(x, L)
<1>1. /\ Orderly(y) /\ Entered(y) /\ y.raised = FALSE
      /\ Depth(y.cstack, Len(y.cstack)) <= Depth(x.cstack, Len(x.cstack) - 1)
      /\ Restored(x.cstack, y.cstack, y.th)
  BY Throwing
<1>2. Len(x.cstack) \in Nat \ {0} /\ Len(y.cstack) \in Nat
  BY <1>1, Running, StateFacts DEF Orderly, Loose
<1> HIDE DEF y
<1>3. Depth(y.cstack, Len(y.cstack)) \in Nat /\ Depth(x.cstack, Len(x.cstack) - 1) \in Nat
  <2>1. Len(x.cstack) - 1 \in Nat
    BY <1>2
  <2>2. QED BY <1>2, <2>1, DepthType
<1>4. Bounded(y)
  BY <1>1, <1>3, CallsAssumption DEF Bounded
<1>5. QED
  BY <1>1, <1>4 DEF Outcome, Good, y

-----------------------------------------------------------------------------
(***************************************************************************)
(* Changes of the thread that runs, and of the stack.                      *)
(***************************************************************************)
\* Frames are made or left, or their array gets another size.
Adjusts(x, L, l) ==
  /\ L \in Threads /\ Apart(x.th[L], l, {"ci", "size_ci", "errfunc"}) /\ Alike(x.th[L], l)
  /\ \/ l.ci = x.th[L].ci
     \/ /\ x.cstack # <<>> /\ L = Last(x.cstack).t /\ Last(x.cstack).kind \in Counted
        /\ l.ci >= Last(x.cstack).ci

LEMMA AdjustRight ==
  ASSUME NEW x, Loose(x), NEW L, NEW l, Adjusts(x, L, l), NEW y, y = Update(x, L, l, x.cstack)
  PROVE  Loose(y) /\ y.cstack = x.cstack /\ y.raised = x.raised /\ y.th[L] = l
<1>1. x \in States /\ L \in Threads /\ l \in ThreadType /\ x.cstack \in Seq(ActivationType)
  BY StateFacts DEF Loose, Adjusts, Apart
<1>2. /\ y \in States /\ y.cstack = x.cstack /\ y.raised = x.raised
      /\ Only(x.th, y.th, L) /\ y.th[L] = l
  BY <1>1, Updating
<1>3. /\ l.nCcalls = x.th[L].nCcalls /\ l.jmp = x.th[L].jmp /\ Alike(x.th[L], l)
      /\ \/ l.ci = x.th[L].ci
         \/ /\ x.cstack # <<>> /\ L = Last(x.cstack).t /\ Last(x.cstack).kind \in Counted
            /\ l.ci >= Last(x.cstack).ci
  BY DEF Adjusts, Apart
<1>4. Chained(x.cstack) /\ Held(x.cstack, x.th)
  BY DEF Loose
<1>5. Held(x.cstack, y.th)
  BY <1>1, <1>2, <1>3, <1>4, Adjusting
<1>6. QED
  BY <1>2, <1>4, <1>5 DEF Loose

\* A call is put on the stack.
Pushes(x, a, l) ==
  LET h == x.th
      n == Len(x.cstack)
  IN  /\ a \in ActivationType /\ a.kind # "resume" /\ l \in ThreadType
      /\ IF n = 0 THEN a.kind = "pcall" /\ a.t = Main
         ELSE /\ a.t = x.cstack[n].t /\ Follows(x.cstack[n], a)
              /\ a.kind = "pcall" => x.cstack[n].kind = "cfun"
      /\ a.ci = h[a.t].ci /\ a.nCcalls = h[a.t].nCcalls /\ a.jmp = h[a.t].jmp
      /\ Alike(h[a.t], l)
      /\ l.ci = h[a.t].ci + IF a.kind = "cfun" THEN 1 ELSE 0
      /\ l.nCcalls = h[a.t].nCcalls + IF a.kind \in Counted THEN 1 ELSE 0
      /\ l.jmp = IF a.kind = "pcall" THEN n + 1 ELSE h[a.t].jmp

LEMMA PushRight ==
  ASSUME NEW x, Loose(x), NEW a, NEW l, Pushes(x, a, l),
         NEW y, y = Update(x, a.t, l, Append(x.cstack, a))
  PROVE  /\ Loose(y) /\ y.cstack = Append(x.cstack, a) /\ y.raised = x.raised /\ y.th[a.t] = l
         /\ Len(x.cstack) \in Nat /\ Len(y.cstack) = Len(x.cstack) + 1
         /\ Last(y.cstack) = a /\ y.cstack # <<>>
         /\ \A i \in 1..Len(x.cstack) : y.cstack[i] = x.cstack[i]
         /\ \A i \in 0..Len(x.cstack) : Depth(y.cstack, i) = Depth(x.cstack, i)
         /\ Depth(y.cstack, Len(y.cstack)) =
              Depth(x.cstack, Len(x.cstack)) + IF a.kind \in Counted THEN 1 ELSE 0
<1> DEFINE s == x.cstack
           z == Append(s, a)
           n == Len(s)
           h == x.th
           g == y.th
           L == a.t
<1>1. x \in States /\ s \in Seq(ActivationType) /\ n \in Nat /\ n = Len(s) /\ Chained(s) /\ Held(s, h)
  BY StateFacts DEF Loose
<1>2. a \in ActivationType /\ a.kind # "resume" /\ l \in ThreadType /\ L \in Threads
  BY DEF Pushes, ActivationType
<1>3. z \in Seq(ActivationType) /\ Len(z) = n + 1 /\ z[n + 1] = a /\ \A i \in 1..n : z[i] = s[i]
  <2> HIDE DEF n, s
  <2>1. QED BY <1>1, <1>2
<1>4. y \in States /\ y.cstack = z /\ y.raised = x.raised /\ Only(h, g, L) /\ g[L] = l
  <2> HIDE DEF z
  <2>1. y = Update(x, L, l, z)
    BY DEF z
  <2>2. QED BY <1>1, <1>2, <1>3, <2>1, Updating
<1>5. /\ IF n = 0 THEN a.kind = "pcall" /\ L = Main
         ELSE L = s[n].t /\ Follows(s[n], a) /\ (a.kind = "pcall" => s[n].kind = "cfun")
      /\ a.ci = h[L].ci /\ a.nCcalls = h[L].nCcalls /\ a.jmp = h[L].jmp
      /\ Alike(h[L], g[L])
      /\ g[L].ci = h[L].ci + IF a.kind = "cfun" THEN 1 ELSE 0
      /\ g[L].nCcalls = h[L].nCcalls + IF a.kind \in Counted THEN 1 ELSE 0
      /\ g[L].jmp = IF a.kind = "pcall" THEN n + 1 ELSE h[L].jmp
  BY <1>4 DEF Pushes
<1>6. /\ Chained(z) /\ Held(z, g)
      /\ Depth(z, n + 1) = Depth(s, n) + IF a.kind \in Counted THEN 1 ELSE 0
  <2>1. z = Append(s, a) /\ L = a.t
    OBVIOUS
  <2> HIDE DEF n, s, z, h, g, L
  <2>2. PushOn(s, h, n, a, L, z, g)
    BY <1>1, <1>2, <1>4, <1>5, <2>1 DEF PushOn
  <2>3. QED BY <1>1, <2>2, Pushing
<1>7. Last(z) = a /\ z # <<>>
  <2> HIDE DEF n, s, z
  <2>1. QED BY <1>1, <1>3 DEF Last
<1>8. \A i \in 0..n : Depth(z, i) = Depth(s, i)
  <2> HIDE DEF n, s, z
  <2>1. Same(s, z, n)
    BY <1>3 DEF Same
  <2>2. QED BY <1>1, <2>1, DepthSame
<1>9. QED
  <2> HIDE DEF z
  <2>1. QED BY <1>1, <1>3, <1>4, <1>6, <1>7, <1>8 DEF Loose, z
-----------------------------------------------------------------------------
(***************************************************************************)
(* Calls.                                                                  *)
(***************************************************************************)
\* What a call adds to the stack: nothing, or the C function.
Adds(x, L, act) ==
  \/ act = <<>>
  \/ /\ Entered(x)
     /\ \E a \in ActivationType :
          /\ act = <<a>> /\ a.kind = "cfun" /\ a.t = L
          /\ a.ci = x.th[L].ci /\ a.nCcalls = x.th[L].nCcalls /\ a.jmp = x.th[L].jmp

\* The interpreter on top enters another function.
LEMMA EnterRight ==
  ASSUME NEW x, NEW L, Runs(x, L), Last(x.cstack).kind \in Counted, Bounded(x),
         x.th[L].ci + 1 < x.th[L].size_ci, NEW act, Adds(x, L, act)
  PROVE  Outcome(x.cstack, Enter(x, L, act))
<1> DEFINE r == x.th[L]
           l == [r EXCEPT !.ci = r.ci + 1]
           y == Enter(x, L, act)
<1>1. /\ L \in Threads /\ x \in States /\ r \in ThreadType /\ Len(x.cstack) \in Nat \ {0}
      /\ r.size_ci \in BasicCI..(2 * MaxCalls) /\ Last(x.cstack).ci <= r.ci
      /\ Last(x.cstack) \in ActivationType /\ Last(x.cstack) = x.cstack[Len(x.cstack)]
      /\ x.cstack \in Seq(ActivationType) /\ Loose(x)
  BY Running, StateFacts DEF Runs
<1>2. r.size_ci \in Nat /\ r.ci \in Nat /\ r.ci + 1 \in Nat /\ Last(x.cstack).ci \in Nat
  <2> HIDE DEF r
  <2>1. r.size_ci \in Nat /\ r.ci \in Nat /\ Last(x.cstack).ci \in Nat
    BY <1>1, ThreadFacts, PlaceFacts
  <2>2. QED BY <2>1
<1>3. Apart(r, l, {"ci"}) /\ l.ci = r.ci + 1
  <2> HIDE DEF r
  <2>1. QED BY <1>1, <1>2, Fields
<1>4. y = Update(x, L, l, x.cstack \o act)
  BY DEF Enter, Update
<1> HIDE DEF l, y
<1>5. Alike(r, l) /\ l.ci > Last(x.cstack).ci
  <2>1. l.baseCcalls = r.baseCcalls /\ l.status = r.status /\ l.fresh = r.fresh /\ l.size_ci = r.size_ci
    BY <1>3 DEF Apart
  <2>2. r.ci + 1 < r.size_ci
    OBVIOUS
  <2> HIDE DEF r
  <2>3. QED BY <1>1, <1>2, <1>3, <2>1, <2>2 DEF Alike
<1>6. CASE act = <<>>
  <2>1. y = Update(x, L, l, x.cstack)
    BY <1>1, <1>4, <1>6
  <2>2. Adjusts(x, L, l)
    <3>1. Apart(r, l, {"ci", "size_ci", "errfunc"})
      BY <1>3 DEF Apart
    <3>2. x.cstack # <<>> /\ L = Last(x.cstack).t
      BY DEF Runs
    <3>3. l.ci \in Nat /\ l.ci >= Last(x.cstack).ci
      BY <1>2, <1>3, <1>5
    <3>4. QED BY <1>1, <1>5, <3>1, <3>2, <3>3 DEF Adjusts
  <2>3. Loose(y) /\ y.cstack = x.cstack /\ y.raised = x.raised /\ y.th[L] = l
    BY <1>1, <2>1, <2>2, AdjustRight
  <2>4. Restored(x.cstack, y.cstack, y.th)
    BY <1>1, <2>3 DEF Restored
  <2>5. y.raised = FALSE /\ L = Last(x.cstack).t
    BY <2>3 DEF Runs
  <2>6. Entered(y) /\ Bounded(y)
    BY <1>5, <2>3, <2>5 DEF Entered, Bounded
  <2>7. Orderly(y)
    BY <2>3 DEF Orderly, Counted
  <2>8. QED BY <2>4, <2>5, <2>6, <2>7 DEF Outcome, Good, y
<1>7. CASE act # <<>>
  <2>1. PICK a \in ActivationType :
          /\ act = <<a>> /\ a.kind = "cfun" /\ a.t = L
          /\ a.ci = r.ci /\ a.nCcalls = r.nCcalls /\ a.jmp = r.jmp
    BY <1>7 DEF Adds
  <2>2. y = Update(x, a.t, l, Append(x.cstack, a))
    <3>1. x.cstack \o <<a>> = Append(x.cstack, a)
      BY <1>1
    <3>2. QED BY <1>4, <2>1, <3>1
  <2>3. Pushes(x, a, l)
    <3>1. r.ci > Last(x.cstack).ci /\ L = Last(x.cstack).t
      BY <1>7 DEF Adds, Entered, Runs
    <3>2. Follows(x.cstack[Len(x.cstack)], a)
      BY <1>1, <2>1, <3>1 DEF Follows, Counted
    <3>3. l \in ThreadType /\ l.nCcalls = r.nCcalls /\ l.jmp = r.jmp /\ r.nCcalls \in Nat
      BY <1>1, <1>3 DEF Apart, ThreadType
    <3>4. a.kind \notin Counted /\ a.kind # "pcall" /\ a.kind # "resume"
      BY <2>1 DEF Counted
    <3>5. l.nCcalls = r.nCcalls + 0
      BY <3>3
    <3>6. Len(x.cstack) # 0 /\ a.t = x.cstack[Len(x.cstack)].t
      BY <1>1, <2>1, <3>1
    <3>7. QED BY <1>3, <1>5, <2>1, <3>2, <3>3, <3>4, <3>5, <3>6 DEF Pushes
  <2>4. /\ Loose(y) /\ y.raised = x.raised
        /\ Len(x.cstack) \in Nat /\ Len(y.cstack) = Len(x.cstack) + 1
        /\ Last(y.cstack) = a /\ y.cstack # <<>>
        /\ Depth(y.cstack, Len(y.cstack)) =
             Depth(x.cstack, Len(x.cstack)) + IF a.kind \in Counted THEN 1 ELSE 0
    BY <1>1, <2>2, <2>3, PushRight
  <2>5. Depth(y.cstack, Len(y.cstack)) = Depth(x.cstack, Len(x.cstack))
    <3>1. Depth(x.cstack, Len(x.cstack)) \in Nat
      BY <1>1, DepthType
    <3>2. QED BY <2>1, <2>4, <3>1 DEF Counted
  <2>6. Restored(x.cstack, y.cstack, y.th)
    BY <2>4, NoneOver
  <2>7. y.raised = FALSE /\ Entered(y) /\ Bounded(y) /\ Orderly(y)
    BY <2>1, <2>4, <2>5 DEF Orderly, Bounded, Entered, Runs, Counted
  <2>8. QED BY <2>6, <2>7 DEF Outcome, Good, y
<1>8. QED
  BY <1>6, <1>7

\* An error is raised: luaG_errormsg is next.
LEMMA RaiseRight ==
  ASSUME NEW x, NEW L, Runs(x, L), Bounded(x), Last(x.cstack).kind # "pcall"
  PROVE  Outcome(x.cstack, runerror(x))
<1>1. x \in States /\ Loose(x) /\ x.cstack # <<>>
  BY DEF Runs, Loose
<1>2. /\ runerror(x) \in States /\ runerror(x).cstack = x.cstack /\ runerror(x).th = x.th
      /\ runerror(x).raised = TRUE
  BY <1>1 DEF runerror, States
<1>3. Restored(x.cstack, runerror(x).cstack, runerror(x).th)
  <2>1. Len(x.cstack) \in Nat
    BY <1>1, StateFacts
  <2>2. QED BY <1>2, <2>1, NoneOver
<1>4. QED
  BY <1>1, <1>2, <1>3 DEF Outcome, Good, Orderly, Bounded, Loose

\* luaD_precall.
LEMMA PrecallRight ==
  ASSUME NEW x, NEW L, Runs(x, L), Last(x.cstack).kind \in Counted, Bounded(x),
         NEW act, Adds(x, L, act)
  PROVE  Outcome(x.cstack, luaD_precall(x, L, act))
<1> DEFINE r == x.th[L]
           l == [r EXCEPT !.size_ci = 2 * r.size_ci]
           w == [x EXCEPT !.th[L].size_ci = 2 * @]
<1>1. /\ L \in Threads /\ x \in States /\ r \in ThreadType /\ Len(x.cstack) \in Nat \ {0}
      /\ r.size_ci \in BasicCI..(2 * MaxCalls) /\ r.ci + 1 <= r.size_ci
      /\ x.cstack \in Seq(ActivationType) /\ Loose(x)
  BY Running, StateFacts DEF Runs
<1>2. /\ r.size_ci \in Nat /\ 2 * r.size_ci \in Nat /\ r.ci \in Nat
      /\ BasicCI \in Nat \ {0} /\ MaxCalls \in Nat
  <2> HIDE DEF r
  <2>1. r.size_ci \in Nat /\ r.ci \in Nat
    BY <1>1, ThreadFacts
  <2>2. QED BY <2>1, CallsAssumption
<1>3. CASE r.ci + 1 < r.size_ci
  BY <1>3, EnterRight DEF luaD_precall
<1>4. CASE r.ci + 1 >= r.size_ci /\ r.size_ci > MaxCalls
  <2>1. Depth(x.cstack, Len(x.cstack) - 1) < MaxCCalls + ExtraCCalls
    <3>1. Len(x.cstack) - 1 \in 0..Len(x.cstack) /\ Len(x.cstack) \in Nat /\ Len(x.cstack) - 1 \in Nat
      BY <1>1
    <3>2. Depth(x.cstack, Len(x.cstack) - 1) <= Depth(x.cstack, Len(x.cstack))
      BY <3>1, DepthGrows
    <3>3. Depth(x.cstack, Len(x.cstack) - 1) \in Nat /\ Depth(x.cstack, Len(x.cstack)) \in Nat
      BY <3>1, DepthType
    <3>4. QED BY <3>2, <3>3, CallsAssumption DEF Bounded
  <2>2. Outcome(x.cstack, luaD_throw(x, L))
    BY <2>1, ThrowRight DEF Runs
  <2>3. ~(r.ci + 1 < r.size_ci)
    BY <1>2, <1>4
  <2>4. QED BY <1>4, <2>2, <2>3 DEF luaD_precall
<1>5. CASE r.ci + 1 >= r.size_ci /\ ~(r.size_ci > MaxCalls)
  <2>1. Apart(r, l, {"size_ci"}) /\ l.size_ci = 2 * r.size_ci
    <3> HIDE DEF r
    <3>1. QED BY <1>1, <1>2, Fields
  <2>2. w = Update(x, L, l, x.cstack)
    BY <1>1 DEF Update, States
  <2>3. Alike(r, l) /\ l.ci = r.ci
    <3>1. /\ l.baseCcalls = r.baseCcalls /\ l.status = r.status /\ l.fresh = r.fresh /\ l.ci = r.ci
      BY <2>1 DEF Apart
    <3> HIDE DEF r, l
    <3>2. QED BY <1>1, <1>2, <1>5, <2>1, <3>1 DEF Alike
  <2> HIDE DEF l, w
  <2>4. Adjusts(x, L, l)
    <3>1. Apart(r, l, {"ci", "size_ci", "errfunc"})
      BY <2>1 DEF Apart
    <3>2. QED BY <1>1, <2>3, <3>1 DEF Adjusts
  <2>5. Loose(w) /\ w.cstack = x.cstack /\ w.raised = x.raised /\ w.th[L] = l
    BY <1>1, <2>2, <2>4, AdjustRight
  <2>6. Runs(w, L) /\ Bounded(w) /\ Last(w.cstack).kind \in Counted
    BY <2>5 DEF Runs, Bounded
  <2>7. luaD_precall(x, L, act) = IF 2 * r.size_ci > MaxCalls THEN runerror(w) ELSE Enter(w, L, act)
    <3>1. ~(r.ci + 1 < r.size_ci)
      BY <1>2, <1>5
    <3>2. QED BY <1>5, <3>1 DEF luaD_precall, w
  <2>8. CASE 2 * r.size_ci > MaxCalls
    <3>1. Outcome(w.cstack, runerror(w))
      BY <2>6, RaiseRight DEF Counted
    <3>2. QED BY <2>5, <2>7, <2>8, <3>1
  <2>9. CASE ~(2 * r.size_ci > MaxCalls)
    <3>1. Adds(w, L, act)
      <4>1. l.nCcalls = r.nCcalls /\ l.jmp = r.jmp
        BY <2>1 DEF Apart
      <4>2. Entered(x) => Entered(w)
        BY <2>3, <2>5 DEF Entered, Runs
      <4>3. QED BY <2>3, <2>5, <4>1, <4>2 DEF Adds
    <3>2. w.th[L].ci + 1 < w.th[L].size_ci
      <4>1. r.ci + 1 < 2 * r.size_ci
        BY <1>1, <1>2, SMTT(30)
      <4>2. QED BY <2>1, <2>3, <2>5, <4>1
    <3>3. Outcome(w.cstack, Enter(w, L, act))
      BY <2>6, <3>1, <3>2, EnterRight
    <3>4. QED BY <2>5, <2>7, <2>9, <3>3
  <2>10. QED BY <2>8, <2>9
<1>6. QED
  BY <1>2, <1>3, <1>4, <1>5
\* What is shown of a longer stack holds for the stack below.
LEMMA Below ==
  ASSUME NEW s, NEW z, Len(s) \in Nat, Len(z) = Len(s) + 1, \A i \in 1..Len(s) : z[i] = s[i],
         NEW y, Outcome(z, y)
  PROVE  Outcome(s, y)
<1>1. Restored(z, y.cstack, y.th)
  BY DEF Outcome
<1>2. Restored(s, y.cstack, y.th)
  <2> SUFFICES ASSUME NEW i \in 1..Len(s), s[i].kind = "pcall", Len(y.cstack) < i
               PROVE  /\ y.th[s[i].t].ci = s[i].ci /\ y.th[s[i].t].nCcalls = s[i].nCcalls
                      /\ y.th[s[i].t].errfunc = s[i].errfunc /\ y.th[s[i].t].jmp = s[i].jmp
    BY DEF Restored
  <2>1. i \in 1..Len(z) /\ z[i] = s[i]
    OBVIOUS
  <2>2. QED BY <1>1, <2>1 DEF Restored
<1>3. QED
  BY <1>2 DEF Outcome

\* luaD_call.
LEMMA CallRight ==
  ASSUME NEW x, NEW L, Runs(x, L), Bounded(x), NEW kind \in {"call", "handler"},
         Follows(Last(x.cstack), Activation(kind, L, x))
  PROVE  Outcome(x.cstack, luaD_call(x, L, kind))
<1> DEFINE r == x.th[L]
           n == r.nCcalls + 1
           l == [r EXCEPT !.nCcalls = n]
           a == Activation(kind, L, x)
           y == [x EXCEPT !.th[L].nCcalls = n, !.cstack = Append(@, Activation(kind, L, x))]
<1>1. /\ L \in Threads /\ x \in States /\ r \in ThreadType /\ Len(x.cstack) \in Nat \ {0}
      /\ r.size_ci \in BasicCI..(2 * MaxCalls) /\ r.ci + 1 <= r.size_ci
      /\ r.nCcalls = Depth(x.cstack, Len(x.cstack))
      /\ Last(x.cstack) = x.cstack[Len(x.cstack)] /\ Loose(x)
  BY Running DEF Runs
<1>2. r.nCcalls \in Nat /\ n \in Nat /\ r.ci \in Nat
  <2> HIDE DEF r
  <2>1. r.nCcalls \in Nat /\ r.ci \in Nat
    BY <1>1, ThreadFacts
  <2>2. QED BY <2>1
<1>3. Apart(r, l, {"nCcalls"}) /\ l.nCcalls = n
  <2> HIDE DEF r, n
  <2>1. QED BY <1>1, <1>2, Fields
<1>4. a \in ActivationType
  BY <1>1, ActivationFacts DEF Kinds
<1>5. /\ a.kind = kind /\ a.t = L /\ a.ci = r.ci /\ a.nCcalls = r.nCcalls
      /\ a.errfunc = r.errfunc /\ a.jmp = r.jmp
  BY DEF Activation
<1>6. y = Update(x, a.t, l, Append(x.cstack, a))
  BY <1>5 DEF Update
<1>7. Follows(Last(x.cstack), a) /\ L = Last(x.cstack).t
  BY DEF Runs
<1>8. luaD_call(x, L, kind) = IF n = MaxCCalls THEN runerror(y)
                              ELSE IF n >= MaxCCalls + ExtraCCalls THEN luaD_throw(y, L)
                              ELSE luaD_precall(y, L, <<>>)
  BY DEF luaD_call
<1> HIDE DEF a, l, y
<1>9. Pushes(x, a, l)
  <2>1. /\ l.baseCcalls = r.baseCcalls /\ l.status = r.status /\ l.fresh = r.fresh
        /\ l.size_ci = r.size_ci /\ l.ci = r.ci /\ l.jmp = r.jmp /\ l \in ThreadType
    BY <1>3 DEF Apart
  <2>2. Alike(r, l)
    BY <1>1, <2>1 DEF Alike
  <2>3. a.kind \in Counted /\ a.kind # "pcall" /\ a.kind # "resume" /\ a.kind # "cfun"
    BY <1>5 DEF Counted
  <2>4. l.ci = r.ci + 0
    BY <1>2, <2>1
  <2>5. Len(x.cstack) # 0 /\ a.t = x.cstack[Len(x.cstack)].t /\ Follows(x.cstack[Len(x.cstack)], a)
    BY <1>1, <1>5, <1>7
  <2>6. QED BY <1>3, <1>4, <1>5, <2>1, <2>2, <2>3, <2>4, <2>5 DEF Pushes
<1>10. /\ Loose(y) /\ y.raised = x.raised
       /\ Len(x.cstack) \in Nat /\ Len(y.cstack) = Len(x.cstack) + 1
       /\ Last(y.cstack) = a /\ y.cstack # <<>>
       /\ \A i \in 1..Len(x.cstack) : y.cstack[i] = x.cstack[i]
       /\ \A i \in 0..Len(x.cstack) : Depth(y.cstack, i) = Depth(x.cstack, i)
       /\ Depth(y.cstack, Len(y.cstack)) =
            Depth(x.cstack, Len(x.cstack)) + IF a.kind \in Counted THEN 1 ELSE 0
  BY <1>1, <1>6, <1>9, PushRight
<1>11. Runs(y, L) /\ Last(y.cstack).kind \in Counted /\ Depth(y.cstack, Len(y.cstack)) = n
  BY <1>1, <1>5, <1>10 DEF Runs, Counted
<1> HIDE DEF n
<1>12. Outcome(y.cstack, luaD_call(x, L, kind))
  <2>1. CASE n = MaxCCalls
    <3>1. Bounded(y)
      BY <1>11, <2>1, CallsAssumption DEF Bounded
    <3>2. Outcome(y.cstack, runerror(y))
      BY <1>11, <3>1, RaiseRight DEF Counted
    <3>3. QED BY <1>8, <2>1, <3>2
  <2>2. CASE n # MaxCCalls /\ n >= MaxCCalls + ExtraCCalls
    <3>1. Len(x.cstack) \in 0..Len(x.cstack) /\ Len(y.cstack) - 1 = Len(x.cstack)
      BY <1>1, <1>10
    <3>2. Depth(y.cstack, Len(y.cstack) - 1) = Depth(x.cstack, Len(x.cstack))
      BY <1>10, <3>1
    <3>3. Depth(y.cstack, Len(y.cstack) - 1) < MaxCCalls + ExtraCCalls
      BY <3>2 DEF Bounded
    <3>4. Outcome(y.cstack, luaD_throw(y, L))
      BY <1>11, <3>3, ThrowRight DEF Runs
    <3>5. QED BY <1>8, <2>2, <3>4
  <2>3. CASE n # MaxCCalls /\ ~(n >= MaxCCalls + ExtraCCalls)
    <3>1. Bounded(y)
      BY <1>2, <1>11, <2>3, CallsAssumption DEF Bounded
    <3>2. Outcome(y.cstack, luaD_precall(y, L, <<>>))
      BY <1>11, <3>1, PrecallRight DEF Adds
    <3>3. QED BY <1>8, <2>3, <3>2
  <2>4. QED BY <2>1, <2>2, <2>3
<1>13. QED
  BY <1>10, <1>12, Below

\* lua_pcall.
LEMMA PcallRight ==
  ASSUME NEW L, Loose(m), Bounded(m), NEW handler \in BOOLEAN,
         IF cstack = <<>> THEN L = Main ELSE L = Top.t /\ Top.kind = "cfun"
  PROVE  Outcome(cstack, lua_pcall(L, handler))
<1> DEFINE r == th[L]
           k == Len(cstack) + 1
           l == [r EXCEPT !.jmp = k, !.errfunc = handler]
           a == Activation("pcall", L, m)
           x == [m EXCEPT !.cstack = Append(@, Activation("pcall", L, m)),
                          !.th[L].jmp = k, !.th[L].errfunc = handler]
<1>1. /\ m \in States /\ m.cstack = cstack /\ m.th = th /\ m.raised = FALSE
      /\ cstack \in Seq(ActivationType) /\ th \in [Threads -> ThreadType] /\ Len(cstack) \in Nat
  BY StateFacts DEF m, Loose
<1>2. /\ L \in Threads
      /\ cstack # <<>> => /\ Len(cstack) # 0 /\ Top = cstack[Len(cstack)]
                          /\ r.ci = Top.ci + 1
  <2>1. CASE cstack = <<>>
    BY <2>1 DEF Threads
  <2>2. CASE cstack # <<>>
    BY <1>1, <2>2, Running DEF Top
  <2>3. QED BY <2>1, <2>2
<1>3. r \in ThreadType /\ r.ci \in Nat /\ r.nCcalls \in Nat /\ k \in Nat
  <2>1. r \in ThreadType /\ k \in Nat
    BY <1>1, <1>2
  <2> HIDE DEF r
  <2>2. QED BY <2>1, ThreadFacts
<1>4. r.size_ci \in BasicCI..(2 * MaxCalls) /\ r.ci + 1 <= r.size_ci
  <2>1. Kept(cstack, th, L)
    BY <1>1, <1>2 DEF Loose, Held
  <2>2. QED BY <2>1 DEF Kept
<1>5. Apart(r, l, {"jmp", "errfunc"}) /\ l.jmp = k /\ l.errfunc = handler
  <2> HIDE DEF r, k
  <2>1. QED BY <1>3 DEF Apart, ThreadType
<1>6. a \in ActivationType
  BY <1>1, <1>2, ActivationFacts DEF Kinds
<1>7. /\ a.kind = "pcall" /\ a.t = L /\ a.ci = r.ci /\ a.nCcalls = r.nCcalls
      /\ a.errfunc = r.errfunc /\ a.jmp = r.jmp
  BY <1>1 DEF Activation
<1>8. x = Update(m, a.t, l, Append(cstack, a))
  BY <1>1, <1>2, <1>7, ZenonT(60) DEF Update, m
<1>9. lua_pcall(L, handler) = luaD_call(x, L, "call")
  BY DEF lua_pcall
<1> HIDE DEF a, l, x
<1>10. Pushes(m, a, l)
  <2>1. /\ l.baseCcalls = r.baseCcalls /\ l.status = r.status /\ l.fresh = r.fresh
        /\ l.size_ci = r.size_ci /\ l.ci = r.ci /\ l.nCcalls = r.nCcalls /\ l \in ThreadType
    BY <1>5 DEF Apart
  <2>2. Alike(r, l)
    BY <1>4, <2>1 DEF Alike
  <2>3. l.ci = r.ci + 0 /\ l.nCcalls = r.nCcalls + 0
    BY <1>3, <2>1
  <2>4. IF Len(cstack) = 0 THEN a.kind = "pcall" /\ a.t = Main
        ELSE /\ a.t = cstack[Len(cstack)].t /\ Follows(cstack[Len(cstack)], a)
             /\ cstack[Len(cstack)].kind = "cfun"
    BY <1>1, <1>2, <1>7 DEF Follows, Counted
  <2>5. QED BY <1>1, <1>5, <1>6, <1>7, <2>1, <2>2, <2>3, <2>4 DEF Pushes, Counted
<1>11. /\ Loose(x) /\ x.raised = FALSE /\ x.th[L] = l
       /\ Len(x.cstack) = Len(cstack) + 1 /\ Last(x.cstack) = a /\ x.cstack # <<>>
       /\ \A i \in 1..Len(cstack) : x.cstack[i] = cstack[i]
       /\ Depth(x.cstack, Len(x.cstack)) =
            Depth(cstack, Len(cstack)) + IF a.kind \in Counted THEN 1 ELSE 0
  BY <1>1, <1>7, <1>8, <1>10, PushRight
<1>12. Bounded(x)
  <2>1. Depth(cstack, Len(cstack)) \in Nat
    BY <1>1, DepthType
  <2>2. QED BY <1>1, <1>7, <1>11, <2>1 DEF Bounded, Counted
<1>13. Follows(Last(x.cstack), Activation("call", L, x))
  <2>1. l.ci = r.ci
    BY <1>5 DEF Apart
  <2>2. QED BY <1>7, <1>11, <2>1 DEF Follows, Activation, Counted
<1>14. Outcome(x.cstack, luaD_call(x, L, "call"))
  BY <1>7, <1>11, <1>12, <1>13, CallRight DEF Runs
<1>15. QED
  BY <1>1, <1>9, <1>11, <1>14, Below
-----------------------------------------------------------------------------
(***************************************************************************)
(* Returns.                                                                *)
(***************************************************************************)
\* The call on top of x is over, and y is what is left.
Pops(x, L, y) ==
  LET n == Len(x.cstack)
      l == y.th[L]
  IN  /\ x.cstack[n].kind \in {"cfun", "call", "handler"}
      /\ y \in States /\ y.raised = FALSE /\ Cut(x.cstack, y.cstack, n - 1)
      /\ Only(x.th, y.th, L) /\ Alike(x.th[L], l) /\ l.jmp = x.th[L].jmp
      /\ l.ci = x.cstack[n].ci
      /\ l.nCcalls = x.th[L].nCcalls - IF x.cstack[n].kind = "cfun" THEN 0 ELSE 1

LEMMA PopRight ==
  ASSUME NEW x, NEW L, Runs(x, L), Bounded(x), NEW y, Pops(x, L, y)
  PROVE  /\ Runs(y, L) /\ Bounded(y) /\ Len(x.cstack) \in Nat /\ Len(x.cstack) > 1
         /\ Len(x.cstack) = Len(y.cstack) + 1
         /\ Last(y.cstack).kind = x.cstack[Len(x.cstack) - 1].kind
         /\ Follows(Last(y.cstack), Last(x.cstack)) /\ y.th[L].ci = Last(x.cstack).ci
         /\ \A w : Outcome(y.cstack, w) => Outcome(x.cstack, w)
<1> DEFINE s == x.cstack
           h == x.th
           n == Len(s)
           z == y.cstack
           g == y.th
<1>1. /\ n \in Nat \ {0} /\ n = Len(s) /\ L = s[n].t /\ Last(s) = s[n] /\ L \in Threads
      /\ h[L].nCcalls = Depth(s, n) /\ Chained(s) /\ Held(s, h)
  BY Running DEF Runs, Loose
<1>2. /\ s[n].kind \in {"cfun", "call", "handler"} /\ Cut(s, z, n - 1) /\ Only(h, g, L)
      /\ Alike(h[L], g[L]) /\ g[L].ci = s[n].ci /\ g[L].jmp = h[L].jmp
      /\ g[L].nCcalls = h[L].nCcalls - IF s[n].kind = "cfun" THEN 0 ELSE 1
      /\ y \in States /\ y.raised = FALSE
  BY DEF Pops
<1> HIDE DEF n, s, h, z, g
<1>3. n - 1 \in Nat /\ n - 1 + 1 = n /\ n \in Nat /\ n - 1 \in 0..n
  BY <1>1
<1>4. g[L].nCcalls = Depth(s, n - 1)
  <2>1. Depth(s, n - 1 + 1) = Depth(s, n - 1) + IF s[n - 1 + 1].kind \in Counted THEN 1 ELSE 0
    BY <1>3, DepthStep
  <2>2. Depth(s, n - 1) \in Nat
    BY <1>3, DepthType
  <2>3. CASE s[n].kind = "cfun"
    BY <1>1, <1>2, <1>3, <2>1, <2>2, <2>3 DEF Counted
  <2>4. CASE s[n].kind \in {"call", "handler"}
    BY <1>1, <1>2, <1>3, <2>1, <2>2, <2>4 DEF Counted
  <2>5. QED BY <1>2, <2>3, <2>4
<1>5. /\ Chained(z) /\ Held(z, g) /\ n > 1 /\ Len(z) = n - 1
      /\ Last(z).t = L /\ Last(z).kind = s[n - 1].kind /\ Follows(Last(z), s[n])
      /\ Depth(z, Len(z)) <= Depth(s, n)
  BY <1>1, <1>2, <1>4, Popping
<1>6. Runs(y, L)
  <2>1. z # <<>>
    BY <1>3, <1>5
  <2>2. QED BY <1>2, <1>5, <2>1 DEF Runs, Loose, z, g
<1>7. Bounded(y)
  <2>1. Depth(z, Len(z)) \in Nat /\ Depth(s, n) \in Nat
    BY <1>3, <1>5, DepthType
  <2>2. Depth(s, n) < MaxCCalls + ExtraCCalls
    BY DEF Bounded, s, n
  <2>3. QED BY <1>5, <2>1, <2>2, CallsAssumption DEF Bounded, z
<1>8. ASSUME NEW w, Outcome(z, w) PROVE Outcome(s, w)
  <2>1. Restored(z, w.cstack, w.th)
    BY <1>8 DEF Outcome
  <2>2. ASSUME NEW i \in 1..n, s[i].kind = "pcall", Len(w.cstack) < i
        PROVE  /\ w.th[s[i].t].ci = s[i].ci /\ w.th[s[i].t].nCcalls = s[i].nCcalls
               /\ w.th[s[i].t].errfunc = s[i].errfunc /\ w.th[s[i].t].jmp = s[i].jmp
    <3>1. i # n
      BY <1>2, <2>2
    <3>2. i \in 1..(n - 1) /\ i \in 1..Len(z)
      BY <1>3, <1>5, <3>1
    <3>3. /\ z[i].kind = s[i].kind /\ z[i].t = s[i].t /\ z[i].ci = s[i].ci
          /\ z[i].nCcalls = s[i].nCcalls /\ z[i].errfunc = s[i].errfunc /\ z[i].jmp = s[i].jmp
      BY <1>2, <3>2 DEF Cut, Same
    <3>4. QED BY <2>1, <2>2, <3>2, <3>3 DEF Restored
  <2>3. Restored(s, w.cstack, w.th)
    BY <1>1, <2>2 DEF Restored
  <2>4. QED BY <1>8, <2>3 DEF Outcome
<1>9. QED
  BY <1>1, <1>2, <1>3, <1>5, <1>6, <1>7, <1>8 DEF n, s, h, z, g

\* The same when the thread goes on.
LEMMA PopOutcome ==
  ASSUME NEW x, NEW L, Runs(x, L), Bounded(x), NEW y, Pops(x, L, y),
         Last(x.cstack).kind \in {"cfun", "call"},
         x.cstack[Len(x.cstack) - 1].kind = "pcall" => Last(x.cstack).kind # "call"
  PROVE  Outcome(x.cstack, y)
<1>1. /\ Runs(y, L) /\ Bounded(y) /\ Len(x.cstack) \in Nat
      /\ Len(x.cstack) = Len(y.cstack) + 1
      /\ Last(y.cstack).kind = x.cstack[Len(x.cstack) - 1].kind
      /\ Follows(Last(y.cstack), Last(x.cstack)) /\ y.th[L].ci = Last(x.cstack).ci
      /\ \A w : Outcome(y.cstack, w) => Outcome(x.cstack, w)
  BY PopRight
<1>2. Last(y.cstack).kind # "pcall"
  BY <1>1 DEF Follows
<1>3. Entered(y)
  BY <1>1 DEF Follows, Entered, Runs
<1>4. Restored(y.cstack, y.cstack, y.th)
  <2>1. y.cstack \in Seq(ActivationType)
    BY <1>1, StateFacts DEF Runs, Loose
  <2>2. QED BY <2>1, NoneOver
<1>5. Outcome(y.cstack, y)
  BY <1>1, <1>2, <1>3, <1>4 DEF Outcome, Good, Orderly, Runs
<1>6. QED
  BY <1>1, <1>5
\* What is no deeper than a place below the top is bounded.
LEMMA SettledBound ==
  ASSUME NEW x, NEW L, Runs(x, L), Bounded(x), NEW v, Orderly(v),
         Depth(v.cstack, Len(v.cstack)) <= Depth(x.cstack, Len(x.cstack) - 1)
  PROVE  Bounded(v)
<1> DEFINE n == Len(x.cstack)
<1>1. n \in Nat \ {0} /\ Len(v.cstack) \in Nat
  BY Running, StateFacts DEF Runs, Orderly, Loose
<1> HIDE DEF n
<1>2. n - 1 \in 0..n /\ n \in Nat /\ n - 1 \in Nat
  BY <1>1
<1>3. Depth(x.cstack, n - 1) <= Depth(x.cstack, n)
  BY <1>2, DepthGrows
<1>4. /\ Depth(x.cstack, n - 1) \in Nat /\ Depth(x.cstack, n) \in Nat
      /\ Depth(v.cstack, Len(v.cstack)) \in Nat
  BY <1>1, <1>2, DepthType
<1>5. /\ Depth(x.cstack, n) < MaxCCalls + ExtraCCalls
      /\ Depth(v.cstack, Len(v.cstack)) <= Depth(x.cstack, n - 1)
  BY DEF Bounded, n
<1>6. QED
  BY <1>3, <1>4, <1>5, CallsAssumption DEF Bounded

\* Where the thread that runs would jump to: the place on top if it protects, or
\* the one below if only that does.
LEMMA JumpsTo ==
  ASSUME NEW x, NEW L, Runs(x, L), NEW n, n = Len(x.cstack)
  PROVE  /\ n \in Nat \ {0} /\ x.cstack[n] \in ActivationType /\ Placed(x.cstack, n)
         /\ x.cstack[n].kind \in Protected => x.th[L].jmp = n
         /\ /\ n > 1 /\ x.cstack[n].kind \notin Protected
            /\ x.cstack[n - 1].kind \in Protected
            => /\ x.th[L].jmp = n - 1 /\ Placed(x.cstack, n - 1)
               /\ x.cstack[n - 1] \in ActivationType
         /\ x.cstack[n].kind \in Counted =>
              /\ Depth(x.cstack, n - 1) \in Nat
              /\ x.th[L].nCcalls = Depth(x.cstack, n - 1) + 1
<1> DEFINE s == x.cstack
           h == x.th
           k == h[L].jmp
<1>1. /\ n \in Nat \ {0} /\ n = Len(s) /\ L = s[n].t /\ Last(s) = s[n] /\ s # <<>>
      /\ h[L].nCcalls = Depth(s, n) /\ Chained(s) /\ Held(s, h) /\ L = Last(s).t
      /\ s[n] \in ActivationType
  BY Running DEF Runs, Loose
<1>2. k = h[L].jmp
  OBVIOUS
<1> HIDE DEF s, h, k
<1>3. /\ k \in 1..n /\ s[k].t = L /\ s[k].kind \in Protected
      /\ \A i \in (k + 1)..n : s[i].kind \notin Protected
  BY <1>1, <1>2, Innermost
<1>4. k \in Nat /\ 1 <= k /\ k <= n /\ n \in Nat /\ n - 1 \in Nat /\ n - 1 + 1 = n
  <2>1. k \in 1..n
    BY <1>3
  <2>2. QED BY <1>1, <2>1
<1>5. \A i \in 1..n : Placed(s, i) /\ s[i] \in ActivationType
  BY <1>1 DEF Chained
<1>6. s[n].kind \in Protected => k = n
  <2> SUFFICES ASSUME s[n].kind \in Protected, k # n PROVE FALSE
    OBVIOUS
  <2>1. n \in (k + 1)..n
    BY <1>4
  <2>2. QED BY <1>3, <2>1
<1>7. ASSUME n > 1, s[n].kind \notin Protected, s[n - 1].kind \in Protected
      PROVE  k = n - 1 /\ Placed(s, n - 1) /\ s[n - 1] \in ActivationType
  <2>1. n - 1 \in 1..n
    BY <1>4, <1>7
  <2>2. k # n
    BY <1>3, <1>7
  <2>3. n - 1 \notin (k + 1)..n
    BY <1>3, <1>7
  <2>4. k = n - 1
    BY <1>4, <1>7, <2>2, <2>3
  <2>5. QED BY <1>5, <2>1, <2>4
<1>8. ASSUME s[n].kind \in Counted
      PROVE  Depth(s, n - 1) \in Nat /\ h[L].nCcalls = Depth(s, n - 1) + 1
  <2>1. Depth(s, n - 1 + 1) = Depth(s, n - 1) + IF s[n - 1 + 1].kind \in Counted THEN 1 ELSE 0
    BY <1>4, DepthStep
  <2>2. QED BY <1>1, <1>4, <1>8, <2>1, DepthType
<1>9. n \in 1..n
  BY <1>4
<1>10. QED
  BY <1>1, <1>5, <1>6, <1>7, <1>8, <1>9 DEF s, h, k

\* lua_resume is over: its thread has returned, or it yields.
LEMMA ResumeOver ==
  ASSUME NEW x, NEW L, Runs(x, L), Bounded(x), Last(x.cstack).kind = "resume",
         NEW l, Apart(x.th[L], l, {"ci", "status"}), l.ci + 1 <= l.size_ci,
         \/ l.status = "ok" /\ l.ci = 0
         \/ l.status = "yield" /\ l.ci > 1,
         NEW w, w = Update(x, L, l, x.cstack)
  PROVE  Outcome(x.cstack, Leave(w))
<1> DEFINE n == Len(x.cstack)
           r == x.cstack[n]
           g == [l EXCEPT !.nCcalls = l.nCcalls - 1, !.jmp = r.jmp]
           v == BackTo(Update(x, L, g, x.cstack), n)
<1>1. /\ L \in Threads /\ x \in States /\ n \in Nat \ {0} /\ Last(x.cstack) = r
      /\ x.cstack \in Seq(ActivationType) /\ x.th[L].size_ci \in BasicCI..(2 * MaxCalls)
      /\ L = r.t /\ r.kind = "resume" /\ x.th[L] \in ThreadType
  BY Running, StateFacts DEF Runs
<1>2. /\ x.th[L].jmp = n /\ r \in ActivationType /\ Depth(x.cstack, n - 1) \in Nat
      /\ x.th[L].nCcalls = Depth(x.cstack, n - 1) + 1
  BY <1>1, JumpsTo, SMTT(60) DEF Protected, Counted
<1>3. /\ l \in ThreadType /\ l.nCcalls = x.th[L].nCcalls /\ l.size_ci = x.th[L].size_ci
      /\ l.baseCcalls = x.th[L].baseCcalls
  BY DEF Apart
<1>4. l.nCcalls - 1 \in Nat /\ r.jmp \in Nat
  BY <1>2, <1>3, PlaceFacts
<1>5. /\ g \in ThreadType /\ g.jmp = r.jmp /\ g.ci = l.ci /\ g.size_ci = l.size_ci
      /\ g.baseCcalls = l.baseCcalls /\ g.status = l.status
  <2> HIDE DEF r
  <2>1. QED BY <1>3, <1>4 DEF ThreadType
<1>6. w.cstack = x.cstack /\ w \in States
  BY <1>1, <1>3, Updating, SMTT(60)
<1>7. Leave(w) = v
  <2>1. [[w EXCEPT !.th[r.t].nCcalls = @ - 1] EXCEPT !.th[r.t].jmp = r.jmp] = Update(x, L, g, x.cstack)
    BY <1>1, ZenonT(60) DEF Update, States
  <2>2. QED BY <1>1, <1>6, <2>1 DEF Leave
<1> HIDE DEF g
<1>8. Over(r, x.th[L], g)
  BY <1>1, <1>3, <1>5 DEF Over
<1>9. Settles(x, L, n, g)
  BY <1>1, <1>2, <1>5, <1>8 DEF Settles
<1>10. /\ Orderly(v) /\ Entered(v) /\ v.raised = FALSE
       /\ Depth(v.cstack, Len(v.cstack)) <= Depth(x.cstack, n - 1)
       /\ Restored(x.cstack, v.cstack, v.th)
  BY <1>9, Settling
<1> HIDE DEF v
<1>11. Bounded(v)
  BY <1>2, <1>10, SettledBound
<1>12. QED
  BY <1>7, <1>10, <1>11 DEF Outcome, Good
LEMMA FrontCut ==
  ASSUME NEW s \in Seq(ActivationType), NEW n \in Nat \ {0}, n = Len(s)
  PROVE  Cut(s, Front(s), n - 1)
<1>1. Front(s) \in Seq(ActivationType) /\ Len(Front(s)) = n - 1
  BY DEF Front
<1>2. \A i \in 1..(n - 1) : Front(s)[i] = s[i]
  BY DEF Front
<1>3. QED
  BY <1>1, <1>2 DEF Cut, Same

\* An error of the thread that runs.
LEMMA ThrowFrom ==
  ASSUME NEW x, NEW L, Runs(x, L), Bounded(x)
  PROVE  Outcome(x.cstack, luaD_throw(x, L))
<1> DEFINE n == Len(x.cstack)
<1>1. n \in Nat \ {0}
  BY Running DEF Runs
<1> HIDE DEF n
<1>2. n - 1 \in 0..n /\ n \in Nat /\ n - 1 \in Nat
  BY <1>1
<1>3. Depth(x.cstack, n - 1) <= Depth(x.cstack, n)
  BY <1>2, DepthGrows
<1>4. Depth(x.cstack, n - 1) \in Nat /\ Depth(x.cstack, n) \in Nat
  BY <1>2, DepthType
<1>5. Depth(x.cstack, n - 1) < MaxCCalls + ExtraCCalls
  BY <1>3, <1>4, CallsAssumption DEF Bounded, n
<1>6. QED
  BY <1>5, ThrowRight DEF Runs, n


\* How Leave changes the thread of a protected call.
Unprotect(x, L, c, e, j) ==
  [[x EXCEPT !.th[L].nCcalls = c] EXCEPT !.th[L].errfunc = e, !.th[L].jmp = j]

Unprotected(l, c, e, j) == [l EXCEPT !.nCcalls = c, !.errfunc = e, !.jmp = j]

LEMMA PcallUpdate ==
  ASSUME NEW x \in States, NEW L \in Threads, NEW e, NEW j, NEW c
  PROVE  Unprotect(x, L, c, e, j) = Update(x, L, Unprotected(x.th[L], c, e, j), x.cstack)
<1>1. x.th \in [Threads -> ThreadType] /\ x.th[L] \in ThreadType
  BY StateFacts
<1>2. Unprotect(x, L, c, e, j) =
        [x EXCEPT !.th = [[[x.th EXCEPT ![L].nCcalls = c] EXCEPT ![L].errfunc = e] EXCEPT ![L].jmp = j]]
  BY DEF Unprotect
<1>3. [[[x.th EXCEPT ![L].nCcalls = c] EXCEPT ![L].errfunc = e] EXCEPT ![L].jmp = j] =
        [x.th EXCEPT ![L] = Unprotected(x.th[L], c, e, j)]
  BY <1>1 DEF Unprotected
<1>4. QED
  BY <1>2, <1>3 DEF Update, States

\* A call that luaD_pcall made is over, and with it luaD_pcall.
LEMMA PcallOver ==
  ASSUME NEW x, NEW L, Runs(x, L), Bounded(x), NEW n, n = Len(x.cstack), n > 1,
         x.cstack[n].kind = "call", x.cstack[n - 1].kind = "pcall",
         x.th[L].ci = x.cstack[n].ci
  PROVE  Outcome(x.cstack, Leave(x))
<1> DEFINE r == x.cstack[n]
           p == x.cstack[n - 1]
           l == x.th[L]
           g == [l EXCEPT !.nCcalls = l.nCcalls - 1, !.errfunc = p.errfunc, !.jmp = p.jmp]
           v == BackTo(Update(x, L, g, x.cstack), n - 1)
<1>1. /\ L \in Threads /\ x \in States /\ n \in Nat \ {0} /\ Last(x.cstack) = r
      /\ x.cstack \in Seq(ActivationType) /\ l.size_ci \in BasicCI..(2 * MaxCalls)
      /\ L = r.t /\ l \in ThreadType /\ l.ci + 1 <= l.size_ci
  BY Running, StateFacts DEF Runs
<1>2. /\ l.jmp = n - 1 /\ p \in ActivationType /\ Depth(x.cstack, n - 1) \in Nat
      /\ l.nCcalls = Depth(x.cstack, n - 1) + 1 /\ Placed(x.cstack, n - 1) /\ Placed(x.cstack, n)
  BY JumpsTo DEF Protected, Counted
<1>3. n - 2 \in Nat /\ n - 2 + 1 = n - 1 /\ n - 1 - 1 = n - 2
  BY <1>1
<1>4. Depth(x.cstack, n - 1) = Depth(x.cstack, n - 2)
  <2>1. Depth(x.cstack, n - 2 + 1) = Depth(x.cstack, n - 2) + IF x.cstack[n - 2 + 1].kind \in Counted THEN 1 ELSE 0
    BY <1>3, DepthStep
  <2>2. Depth(x.cstack, n - 2) \in Nat
    BY <1>3, DepthType
  <2>3. QED BY <1>3, <2>1, <2>2 DEF Counted
<1>5. p.nCcalls = Depth(x.cstack, n - 2)
  BY <1>2, <1>3 DEF Placed
<1>6. r.ci = p.ci
  BY <1>2 DEF Placed, Follows
<1>7. l.nCcalls - 1 \in Nat /\ l.nCcalls - 1 = p.nCcalls /\ p.jmp \in Nat /\ p.errfunc \in BOOLEAN
  BY <1>2, <1>4, <1>5, PlaceFacts, SMTT(30)
<1>8. /\ g \in ThreadType /\ g.jmp = p.jmp /\ g.ci = l.ci /\ g.size_ci = l.size_ci
      /\ g.baseCcalls = l.baseCcalls /\ g.status = l.status /\ g.fresh = l.fresh
      /\ g.nCcalls = p.nCcalls /\ g.errfunc = p.errfunc
  <2> HIDE DEF p, l
  <2>1. QED BY <1>1, <1>7 DEF ThreadType
<1>9. Leave(x) = v
  <2> DEFINE u == Unprotect(x, L, l.nCcalls - 1, p.errfunc, p.jmp)
  <2>1. Leave(x) = BackTo(u, n - 1)
    BY <1>1 DEF Leave, Unprotect
  <2>2. g = Unprotected(x.th[L], l.nCcalls - 1, p.errfunc, p.jmp)
    BY DEF Unprotected
  <2>3. u = Update(x, L, Unprotected(x.th[L], l.nCcalls - 1, p.errfunc, p.jmp), x.cstack)
    BY <1>1, PcallUpdate
  <2> HIDE DEF g, u
  <2>4. QED BY <2>1, <2>2, <2>3
<1> HIDE DEF g
<1>10. Over(p, l, g)
  BY <1>1, <1>6, <1>8 DEF Over
<1>11. Settles(x, L, n - 1, g)
  BY <1>2, <1>8, <1>10 DEF Settles
<1>12. /\ Orderly(v) /\ Entered(v) /\ v.raised = FALSE
       /\ Depth(v.cstack, Len(v.cstack)) <= Depth(x.cstack, Len(x.cstack) - 1)
       /\ Restored(x.cstack, v.cstack, v.th)
  BY <1>11, Settling
<1> HIDE DEF v
<1>13. Bounded(v)
  BY <1>12, SettledBound
<1>14. QED
  BY <1>9, <1>12, <1>13 DEF Outcome, Good

\* The last function of an interpreter has returned.
LEMMA LeaveRight ==
  ASSUME NEW x, NEW L, Runs(x, L), Bounded(x), Last(x.cstack).kind \in Counted,
         x.th[L].ci = Last(x.cstack).ci
  PROVE  Outcome(x.cstack, Leave(x))
<1> DEFINE n == Len(x.cstack)
           r == x.cstack[n]
           l == x.th[L]
           g == [l EXCEPT !.nCcalls = l.nCcalls - 1]
           y == [x EXCEPT !.th[r.t].nCcalls = @ - 1]
<1>1. /\ L \in Threads /\ x \in States /\ n \in Nat \ {0} /\ Last(x.cstack) = r
      /\ x.cstack \in Seq(ActivationType) /\ l.size_ci \in BasicCI..(2 * MaxCalls)
      /\ L = r.t /\ l \in ThreadType /\ l.ci + 1 <= l.size_ci /\ l.status = "ok"
      /\ x.th \in [Threads -> ThreadType]
  BY Running, StateFacts DEF Runs
<1>2. /\ Depth(x.cstack, n - 1) \in Nat /\ Placed(x.cstack, n)
      /\ l.nCcalls = Depth(x.cstack, n - 1) + 1
  BY <1>1, JumpsTo, SMTT(60)
<1>3. CASE r.kind = "resume"
  <2>1. l.ci = 0
    BY <1>1, <1>2, <1>3 DEF Placed
  <2>2. x = Update(x, L, l, x.cstack)
    BY <1>1 DEF Update, States
  <2>3. Apart(x.th[L], l, {"ci", "status"})
    BY <1>1 DEF Apart
  <2> HIDE DEF l
  <2>4. QED BY <1>1, <1>3, <2>1, <2>2, <2>3, ResumeOver
<1>4. y = Update(x, L, g, x.cstack)
  BY <1>1 DEF Update, States
<1>5. Apart(l, g, {"nCcalls"}) /\ g.nCcalls = l.nCcalls - 1
  <2>1. l.nCcalls - 1 \in Nat
    BY <1>2
  <2> HIDE DEF l
  <2>2. QED BY <1>1, <2>1, Fields
<1> HIDE DEF g, y
<1>6. /\ y \in States /\ y.cstack = x.cstack /\ y.raised = x.raised
      /\ Only(x.th, y.th, L) /\ y.th[L] = g
  BY <1>1, <1>4, <1>5, Updating, SMTT(60) DEF Apart
<1>7. Alike(l, g) /\ g.ci = r.ci /\ g.jmp = l.jmp
  BY <1>1, <1>5 DEF Alike, Apart
<1>8. CASE r.kind = "handler"
  <2> DEFINE v == [y EXCEPT !.cstack = Front(@)]
  <2>1. Leave(x) = luaD_throw(v, L)
    BY <1>1, <1>8 DEF Leave, y
  <2>2. Cut(x.cstack, Front(x.cstack), n - 1)
    BY <1>1, FrontCut
  <2>3. v \in States /\ v.cstack = Front(x.cstack) /\ v.th = y.th /\ v.raised = FALSE
    <3>1. Front(x.cstack) \in Seq(ActivationType) /\ x.raised = FALSE
      BY <2>2 DEF Cut, Runs
    <3>2. QED BY <1>6, <3>1 DEF States
  <2> HIDE DEF v
  <2>4. Pops(x, L, v)
    BY <1>5, <1>6, <1>7, <1>8, <2>2, <2>3 DEF Pops
  <2>5. Runs(v, L) /\ Bounded(v) /\ \A w : Outcome(v.cstack, w) => Outcome(x.cstack, w)
    BY <2>4, PopRight
  <2>6. Outcome(v.cstack, luaD_throw(v, L))
    BY <2>5, ThrowFrom
  <2>7. QED BY <2>1, <2>5, <2>6
<1>9. CASE r.kind = "call"
  <2>1. CASE n > 1 /\ x.cstack[n - 1].kind = "pcall"
    BY <1>1, <1>9, <2>1, PcallOver
  <2>2. CASE ~(n > 1 /\ x.cstack[n - 1].kind = "pcall")
    <3>1. Leave(x) = BackTo(y, n)
      BY <1>9, <2>2 DEF Leave, y
    <3>2. n \in 1..(Len(y.cstack) + 1)
      BY <1>1, <1>6
    <3>3. /\ BackTo(y, n) \in States /\ BackTo(y, n).th = y.th /\ BackTo(y, n).raised = y.raised
          /\ Cut(y.cstack, BackTo(y, n).cstack, n - 1)
      BY <1>6, <3>2, BackToFacts
    <3> DEFINE v == BackTo(y, n)
    <3> HIDE DEF v
    <3>4. x.raised = FALSE
      BY DEF Runs
    <3>5. Pops(x, L, v)
      BY <1>5, <1>6, <1>7, <1>9, <3>3, <3>4 DEF Pops, v
    <3>6. n > 1
      BY <3>5, PopRight
    <3>7. Outcome(x.cstack, v)
      BY <1>1, <1>9, <2>2, <3>5, <3>6, PopOutcome
    <3>8. QED BY <3>1, <3>7 DEF v
  <2>3. QED BY <2>1, <2>2
<1>10. QED
  BY <1>1, <1>3, <1>8, <1>9 DEF Counted
-----------------------------------------------------------------------------
(***************************************************************************)
(* Steps.                                                                  *)
(***************************************************************************)
LEMMA Becoming ==
  ASSUME NEW x, Become(x), Outcome(cstack, x)
  PROVE  Inv' /\ Restored(cstack, cstack', th')
<1>1. x \in States /\ Good(x)
  BY DEF Outcome, Good, Orderly, Loose
<1>2. Now' = x
  BY <1>1 DEF Now, Become, States
<1>3. Inv'
  BY <1>1, <1>2 DEF Inv
<1>4. QED
  BY <1>3 DEF Become, Outcome

\* The state a step begins in.
LEMMA Begin ==
  ASSUME Inv
  PROVE  /\ Loose(m) /\ Bounded(m) /\ m \in States
         /\ m.cstack = cstack /\ m.th = th /\ m.raised = FALSE
         /\ cstack \in Seq(ActivationType) /\ Len(cstack) \in Nat
         /\ th \in [Threads -> ThreadType]
         /\ ~raised => Entered(m)
         /\ cstack # <<>> =>
              /\ Runs(m, t) /\ Top.kind # "pcall" /\ Top = cstack[Len(cstack)]
              /\ Top = Last(m.cstack)
         /\ raised => cstack # <<>>
<1>1. /\ Now.cstack = cstack /\ Now.th = th /\ Now.raised = raised
      /\ m.cstack = cstack /\ m.th = th /\ m.raised = FALSE
  BY DEF Now, m
<1>2. Now \in States /\ Chained(cstack) /\ Held(cstack, th)
  BY <1>1 DEF Inv, Good, Orderly, Loose
<1>3. cstack \in Seq(ActivationType) /\ th \in [Threads -> ThreadType] /\ Len(cstack) \in Nat
  BY <1>1, <1>2, StateFacts
<1>4. m \in States
  BY <1>3 DEF m, States
<1>5. Loose(m)
  BY <1>1, <1>2, <1>4 DEF Loose
<1>6. Bounded(m) /\ (raised => cstack # <<>>) /\ (cstack # <<>> => Top.kind # "pcall")
  BY <1>1 DEF Inv, Good, Bounded, Orderly, Top
<1>7. ~raised => Entered(m)
  BY <1>1 DEF Inv, Good, Entered
<1>8. cstack # <<>> => Runs(m, t) /\ Top = cstack[Len(cstack)] /\ Top = Last(m.cstack)
  <2>1. Top = Last(m.cstack) /\ t = Top.t
    BY <1>1 DEF Top, t
  <2>2. cstack # <<>> => Top = cstack[Len(cstack)]
    BY <1>3 DEF Top, Last
  <2>3. QED BY <1>1, <1>5, <2>1, <2>2 DEF Runs
<1>9. QED
  BY <1>1, <1>3, <1>4, <1>5, <1>6, <1>7, <1>8

\* The interpreter runs.
LEMMA BeginLua ==
  ASSUME Inv, InLua
  PROVE  /\ Runs(m, t) /\ Bounded(m) /\ Entered(m) /\ m.cstack = cstack /\ m.th = th
         /\ m \in States /\ t \in Threads /\ th[t] \in ThreadType
         /\ Top = Last(m.cstack) /\ Top.kind \in Counted /\ Top \in ActivationType
         /\ Top.ci < th[t].ci /\ Top.ci \in Nat /\ th[t].ci \in Nat /\ th[t].size_ci \in Nat
         /\ th[t].size_ci \in BasicCI..(2 * MaxCalls) /\ th[t].ci + 1 <= th[t].size_ci
<1>1. cstack # <<>> /\ ~raised /\ Top.kind \in Counted
  BY DEF InLua, Counted
<1>2. /\ Runs(m, t) /\ Bounded(m) /\ Entered(m) /\ m.cstack = cstack /\ m.th = th
      /\ m \in States /\ Top = Last(m.cstack)
  BY <1>1, Begin
<1>3. t \in Threads /\ th[t] \in ThreadType /\ Top \in ActivationType
      /\ th[t].size_ci \in BasicCI..(2 * MaxCalls) /\ th[t].ci + 1 <= th[t].size_ci
  BY <1>2, Running DEF Runs
<1>4. Top.ci \in Nat /\ th[t].ci \in Nat /\ th[t].size_ci \in Nat
  BY <1>3, PlaceFacts, ThreadFacts
<1>5. Top.ci < th[t].ci
  <2>1. th[t].ci > Top.ci
    BY <1>1, <1>2 DEF Entered, t
  <2>2. QED BY <1>4, <2>1
<1>6. QED
  BY <1>1, <1>2, <1>3, <1>4, <1>5

LEMMA EvalStep ==
  ASSUME Inv, Eval
  PROVE  Inv' /\ Restored(cstack, cstack', th')
<1>1. Outcome(cstack, lua_pcall(Main, FALSE))
  BY Begin, PcallRight DEF Eval
<1>2. QED
  BY <1>1, Becoming DEF Eval

LEMMA CallLuaStep ==
  ASSUME Inv, CallLua
  PROVE  Inv' /\ Restored(cstack, cstack', th')
<1>1. /\ Runs(m, t) /\ Bounded(m) /\ m.cstack = cstack
      /\ Top = Last(m.cstack) /\ Top.kind \in Counted
  BY BeginLua DEF CallLua
<1>2. Outcome(m.cstack, luaD_precall(m, t, <<>>))
  BY <1>1, PrecallRight DEF Adds
<1>3. QED
  BY <1>1, <1>2, Becoming DEF CallLua

LEMMA CallCStep ==
  ASSUME Inv, NEW what \in CFunctions, CallC(what)
  PROVE  Inv' /\ Restored(cstack, cstack', th')
<1> DEFINE a == [Activation("cfun", t, m) EXCEPT !.what = what]
<1>1. /\ Runs(m, t) /\ Bounded(m) /\ m.cstack = cstack /\ Entered(m) /\ m \in States
      /\ Top = Last(m.cstack) /\ Top.kind \in Counted /\ t \in Threads
  BY BeginLua DEF CallC
<1>2. a \in ActivationType
  BY <1>1, ActivationFacts DEF Kinds
<1>3. /\ a.kind = "cfun" /\ a.t = t /\ a.ci = m.th[t].ci /\ a.nCcalls = m.th[t].nCcalls
      /\ a.jmp = m.th[t].jmp
  BY DEF Activation
<1> HIDE DEF a
<1>4. Adds(m, t, <<a>>)
  BY <1>1, <1>2, <1>3 DEF Adds
<1>5. Outcome(m.cstack, luaD_precall(m, t, <<a>>))
  BY <1>1, <1>4, PrecallRight
<1>6. QED
  BY <1>1, <1>5, Becoming DEF CallC, a

LEMMA MetamethodStep ==
  ASSUME Inv, Metamethod
  PROVE  Inv' /\ Restored(cstack, cstack', th')
<1>1. /\ Runs(m, t) /\ Bounded(m) /\ m.cstack = cstack /\ m.th = th
      /\ Top = Last(m.cstack) /\ Top.kind \in Counted /\ Top.ci < th[t].ci
      /\ Top.ci \in Nat /\ th[t].ci \in Nat
  BY BeginLua DEF Metamethod
<1>2. Follows(Last(m.cstack), Activation("call", t, m))
  BY <1>1 DEF Follows, Activation, Counted
<1>3. Outcome(m.cstack, luaD_call(m, t, "call"))
  BY <1>1, <1>2, CallRight
<1>4. QED
  BY <1>1, <1>3, Becoming DEF Metamethod

\* A C function runs.
LEMMA BeginC ==
  ASSUME Inv, cstack # <<>>, ~raised, Top.kind = "cfun"
  PROVE  /\ Runs(m, t) /\ Bounded(m) /\ m.cstack = cstack /\ m.th = th /\ m \in States
         /\ Top = Last(m.cstack) /\ Loose(m)
         /\ th[t].ci = Top.ci + 1 /\ t \in Threads /\ th[t] \in ThreadType
         /\ Top.ci \in Nat /\ Top = cstack[Len(cstack)] /\ Len(cstack) \in Nat \ {0}
<1>1. /\ Runs(m, t) /\ Bounded(m) /\ m.cstack = cstack /\ m.th = th /\ m \in States
      /\ Top = Last(m.cstack) /\ Loose(m) /\ Top = cstack[Len(cstack)]
  BY Begin
<1>2. /\ th[t].ci = Top.ci + 1 /\ t \in Threads /\ th[t] \in ThreadType /\ Top \in ActivationType
      /\ Len(cstack) \in Nat \ {0}
  BY <1>1, Running DEF Runs
<1>3. Top.ci \in Nat
  BY <1>2, PlaceFacts
<1>4. QED
  BY <1>1, <1>2, <1>3

LEMMA CallBackStep ==
  ASSUME Inv, CallBack
  PROVE  Inv' /\ Restored(cstack, cstack', th')
<1>1. cstack # <<>> /\ ~raised /\ Top.kind = "cfun"
  BY DEF CallBack, InC
<1>2. /\ Runs(m, t) /\ Bounded(m) /\ m.cstack = cstack /\ m.th = th
      /\ Top = Last(m.cstack) /\ th[t].ci = Top.ci + 1
  BY <1>1, BeginC
<1>3. Follows(Last(m.cstack), Activation("call", t, m))
  BY <1>1, <1>2 DEF Follows, Activation, Counted
<1>4. Outcome(m.cstack, luaD_call(m, t, "call"))
  BY <1>2, <1>3, CallRight
<1>5. QED
  BY <1>2, <1>4, Becoming DEF CallBack

LEMMA PcallStep ==
  ASSUME Inv, Pcall \/ Xpcall
  PROVE  Inv' /\ Restored(cstack, cstack', th')
<1>1. cstack # <<>> /\ ~raised /\ Top.kind = "cfun"
  BY DEF Pcall, Xpcall, InC
<1>2. Bounded(m) /\ Loose(m)
  BY <1>1, BeginC
<1>3. t = Top.t
  BY DEF t
<1>4. Outcome(cstack, lua_pcall(t, FALSE)) /\ Outcome(cstack, lua_pcall(t, TRUE))
  BY <1>1, <1>2, <1>3, PcallRight
<1>5. CASE Pcall
  BY <1>4, <1>5, Becoming DEF Pcall
<1>6. CASE Xpcall
  BY <1>4, <1>6, Becoming DEF Xpcall
<1>7. QED
  BY <1>5, <1>6

LEMMA ReturnStep ==
  ASSUME Inv, Return
  PROVE  Inv' /\ Restored(cstack, cstack', th')
<1> DEFINE r == th[t]
           l == [r EXCEPT !.ci = r.ci - 1]
           x == [m EXCEPT !.th[t].ci = @ - 1]
<1>1. /\ Runs(m, t) /\ Bounded(m) /\ m.cstack = cstack /\ m.th = th
      /\ m \in States /\ t \in Threads /\ r \in ThreadType
      /\ Top = Last(m.cstack) /\ Top.kind \in Counted
      /\ Top.ci < r.ci /\ Top.ci \in Nat /\ r.ci \in Nat /\ r.size_ci \in Nat
      /\ r.size_ci \in BasicCI..(2 * MaxCalls) /\ r.ci + 1 <= r.size_ci
  BY BeginLua DEF Return
<1>2. x = Update(m, t, l, m.cstack)
  BY <1>1 DEF Update, States
<1>3. Apart(r, l, {"ci"}) /\ l.ci = r.ci - 1
  <2> HIDE DEF r
  <2>1. r.ci - 1 \in Nat
    BY <1>1
  <2>2. QED BY <1>1, <2>1, Fields
<1>4. Become(IF r.ci - 1 > Top.ci THEN x ELSE Leave(x))
  BY DEF Return
<1> HIDE DEF r, l, x
<1>5. Adjusts(m, t, l)
  <2>1. Apart(r, l, {"ci", "size_ci", "errfunc"})
    BY <1>3 DEF Apart
  <2>2. /\ l.baseCcalls = r.baseCcalls /\ l.status = r.status /\ l.fresh = r.fresh
        /\ l.size_ci = r.size_ci
    BY <1>3 DEF Apart
  <2>3. Alike(r, l) /\ l.ci >= Top.ci
    BY <1>1, <1>3, <2>2 DEF Alike
  <2>4. m.cstack # <<>> /\ t = Last(m.cstack).t
    BY <1>1 DEF Runs
  <2>5. QED BY <1>1, <2>1, <2>3, <2>4 DEF Adjusts, r
<1>6. Loose(x) /\ x.cstack = cstack /\ x.raised = m.raised /\ x.th[t] = l
  BY <1>1, <1>2, <1>5, AdjustRight DEF Runs
<1>7. Runs(x, t) /\ Bounded(x)
  BY <1>1, <1>6 DEF Runs, Bounded
<1>8. CASE r.ci - 1 > Top.ci
  <2>1. Restored(cstack, x.cstack, x.th)
    BY <1>6, Begin, NoneOver
  <2>2. Entered(x) /\ Orderly(x)
    BY <1>1, <1>3, <1>6, <1>7, <1>8 DEF Entered, Orderly, Runs, Counted
  <2>3. Outcome(cstack, x)
    BY <1>7, <2>1, <2>2 DEF Outcome, Good, Runs
  <2>4. QED BY <1>4, <1>8, <2>3, Becoming
<1>9. CASE ~(r.ci - 1 > Top.ci)
  <2>1. l.ci = Top.ci
    BY <1>1, <1>3, <1>9
  <2>2. Outcome(x.cstack, Leave(x))
    BY <1>1, <1>6, <1>7, <2>1, LeaveRight
  <2>3. QED BY <1>4, <1>6, <1>9, <2>2, Becoming
<1>10. QED
  BY <1>8, <1>9

LEMMA CReturnStep ==
  ASSUME Inv, CReturn
  PROVE  Inv' /\ Restored(cstack, cstack', th')
<1> DEFINE r == th[t]
           l == [r EXCEPT !.ci = r.ci - 1]
           n == Len(cstack)
           x == [m EXCEPT !.th[t].ci = @ - 1, !.cstack = Front(@)]
<1>1. cstack # <<>> /\ ~raised /\ Top.kind = "cfun" /\ Become(x)
  BY DEF CReturn
<1>2. /\ Runs(m, t) /\ Bounded(m) /\ m.cstack = cstack /\ m.th = th /\ m \in States
      /\ Top = Last(m.cstack) /\ r.ci = Top.ci + 1 /\ t \in Threads /\ r \in ThreadType
      /\ Top.ci \in Nat /\ Top = cstack[n] /\ n \in Nat \ {0} /\ m.raised = FALSE
  BY <1>1, BeginC DEF Runs
<1>3. /\ Cut(cstack, Front(cstack), n - 1) /\ Front(cstack) \in Seq(ActivationType)
  <2>1. cstack \in Seq(ActivationType)
    BY Begin
  <2>2. QED BY <1>2, <2>1, FrontCut DEF Cut
<1>4. x = Update(m, t, l, Front(cstack))
  BY <1>2 DEF Update, States
<1>5. Apart(r, l, {"ci"}) /\ l.ci = Top.ci
  <2> HIDE DEF r
  <2>1. r.ci - 1 \in Nat /\ r.ci - 1 = Top.ci
    BY <1>2
  <2>2. QED BY <1>2, <2>1, Fields
<1> HIDE DEF l, x
<1>6. /\ x \in States /\ x.cstack = Front(cstack) /\ x.raised = FALSE
      /\ Only(th, x.th, t) /\ x.th[t] = l
  BY <1>2, <1>3, <1>4, <1>5, Updating DEF Apart
<1>7. Alike(r, l) /\ l.jmp = r.jmp /\ l.nCcalls = r.nCcalls - 0
  <2>1. r.size_ci \in BasicCI..(2 * MaxCalls) /\ r.ci + 1 <= r.size_ci
    BY <1>2, Running DEF Runs
  <2>2. /\ l.baseCcalls = r.baseCcalls /\ l.status = r.status /\ l.fresh = r.fresh
        /\ l.size_ci = r.size_ci /\ l.nCcalls = r.nCcalls /\ l.jmp = r.jmp
    BY <1>5 DEF Apart
  <2> HIDE DEF r
  <2>3. r.nCcalls \in Nat /\ r.size_ci \in Nat
    BY <1>2, ThreadFacts
  <2>4. QED BY <1>2, <1>5, <2>1, <2>2, <2>3 DEF Alike
<1>8. Pops(m, t, x)
  BY <1>1, <1>2, <1>3, <1>5, <1>6, <1>7 DEF Pops
<1>9. Outcome(cstack, x)
  BY <1>1, <1>2, <1>8, PopOutcome
<1>10. QED
  BY <1>1, <1>9, Becoming

LEMMA RunErrorStep ==
  ASSUME Inv, RunError
  PROVE  Inv' /\ Restored(cstack, cstack', th')
<1>1. cstack # <<>>
  BY DEF RunError, InLua
<1>2. /\ Runs(m, t) /\ Bounded(m) /\ m.cstack = cstack /\ Last(m.cstack).kind # "pcall"
  BY <1>1, Begin
<1>3. Outcome(cstack, runerror(m))
  BY <1>2, RaiseRight
<1>4. QED
  BY <1>3, Becoming DEF RunError

LEMMA RaiseErrorStep ==
  ASSUME Inv, RaiseError
  PROVE  Inv' /\ Restored(cstack, cstack', th')
<1>1. /\ Runs(m, t) /\ Bounded(m) /\ m.cstack = cstack /\ m.th = th
      /\ Last(m.cstack).kind # "pcall"
  BY Begin DEF RaiseError
<1>2. CASE th[t].errfunc
  <2>1. Last(m.cstack).kind = "cfun" => th[t].ci = Last(m.cstack).ci + 1
    BY <1>1, Running DEF Runs
  <2>2. Follows(Last(m.cstack), Activation("handler", t, m))
    BY <1>1, <2>1 DEF Follows, Activation, Counted
  <2>3. Outcome(m.cstack, luaD_call(m, t, "handler"))
    BY <1>1, <2>2, CallRight
  <2>4. QED BY <1>1, <1>2, <2>3, Becoming DEF RaiseError
<1>3. CASE ~th[t].errfunc
  <2>1. Outcome(m.cstack, luaD_throw(m, t))
    BY <1>1, ThrowFrom
  <2>2. QED BY <1>1, <1>3, <2>1, Becoming DEF RaiseError
<1>4. QED
  BY <1>2, <1>3

\* A step that leaves the stack alone, and of the thread that runs its frames.
LEMMA Aside ==
  ASSUME Inv, ~raised, NEW g, Held(cstack, g),
         cstack # <<>> => g[t].ci = th[t].ci,
         th' = g, UNCHANGED <<cstack, raised>>
  PROVE  Inv' /\ Restored(cstack, cstack', th')
<1> DEFINE x == [cstack |-> cstack, th |-> g, raised |-> FALSE]
<1>1. /\ Loose(m) /\ Bounded(m) /\ m \in States /\ m.cstack = cstack /\ m.th = th
      /\ cstack \in Seq(ActivationType) /\ Len(cstack) \in Nat /\ Entered(m)
      /\ cstack # <<>> => Top.kind # "pcall" /\ Top = Last(m.cstack)
  BY Begin
<1>2. x \in States /\ x.cstack = cstack /\ x.th = g /\ x.raised = FALSE
  BY <1>1 DEF States, Held
<1> HIDE DEF x
<1>3. Orderly(x) /\ Bounded(x)
  BY <1>1, <1>2 DEF Orderly, Loose, Bounded
<1>4. Entered(x)
  BY <1>1, <1>2 DEF Entered, t
<1>5. Restored(cstack, cstack, g)
  BY <1>1, NoneOver
<1>6. Outcome(cstack, x)
  BY <1>2, <1>3, <1>4, <1>5 DEF Outcome, Good
<1>7. Become(x)
  <2>1. raised' = FALSE
    BY Begin DEF Inv, Good, Orderly, Loose, States, Now
  <2>2. QED BY <1>2, <2>1 DEF Become
<1>8. QED
  BY <1>6, <1>7, Becoming

LEMMA CreateStep ==
  ASSUME Inv, NEW co \in Coroutines, Create(co)
  PROVE  Inv' /\ Restored(cstack, cstack', th')
<1> DEFINE g == [th EXCEPT ![co] = NewThread]
<1>1. /\ Loose(m) /\ m.cstack = cstack /\ m.th = th /\ th \in [Threads -> ThreadType]
      /\ cstack \in Seq(ActivationType) /\ Len(cstack) \in Nat
      /\ cstack # <<>> => Top = cstack[Len(cstack)]
  BY Begin
<1>2. Chained(cstack) /\ Held(cstack, th)
  BY <1>1 DEF Loose
<1>3. co \in Threads /\ ~raised /\ \A i \in 1..Len(cstack) : cstack[i].t # co
  BY <1>1 DEF Threads, Create
<1>4. /\ NewThread \in ThreadType /\ NewThread.jmp = 0 /\ NewThread.ci = 0
      /\ NewThread.status = "ok" /\ NewThread.size_ci \in BasicCI..(2 * MaxCalls)
      /\ NewThread.ci + 1 <= NewThread.size_ci
  BY CallsAssumption DEF NewThread, ThreadType
<1>5. Only(th, g, co) /\ g[co] = NewThread
  BY <1>1, <1>3, <1>4, Changed
<1>6. th' = g /\ UNCHANGED <<cstack, raised>>
  BY DEF Create
<1> HIDE DEF g
<1>7. Held(cstack, g)
  BY <1>2, <1>3, <1>4, <1>5, Outside
<1>8. cstack # <<>> => g[t].ci = th[t].ci
  <2> SUFFICES ASSUME cstack # <<>> PROVE g[t].ci = th[t].ci
    OBVIOUS
  <2>1. Len(cstack) \in 1..Len(cstack) /\ cstack[Len(cstack)] \in ActivationType
    BY <1>1
  <2>2. t # co /\ t \in Threads
    BY <1>1, <1>3, <2>1 DEF t, ActivationType
  <2>3. QED BY <1>5, <2>2 DEF Only
<1>9. QED
  BY <1>3, <1>6, <1>7, <1>8, Aside

LEMMA Halves ==
  ASSUME NEW c \in Nat, NEW n \in Nat, NEW b \in Nat \ {0}, 4 * c < n, 2 * b < n
  PROVE  n \div 2 \in Nat /\ b <= n \div 2 /\ c + 1 <= n \div 2 /\ n \div 2 <= n
  OBVIOUS

LEMMA ReallocStep ==
  ASSUME Inv, NEW L \in Threads, reallocCI(L)
  PROVE  Inv' /\ Restored(cstack, cstack', th')
<1> DEFINE r == th[L]
           l == [r EXCEPT !.size_ci = r.size_ci \div 2]
           g == [th EXCEPT ![L] = l]
<1>1. /\ Loose(m) /\ m.cstack = cstack /\ m.th = th /\ th \in [Threads -> ThreadType]
      /\ r \in ThreadType
  BY Begin
<1>2. Chained(cstack) /\ Held(cstack, th)
  BY <1>1 DEF Loose
<1>3. /\ ~raised /\ 4 * r.ci < r.size_ci /\ 2 * BasicCI < r.size_ci
      /\ th' = g /\ UNCHANGED <<cstack, raised>> /\ r.size_ci <= MaxCalls
  BY DEF reallocCI
<1>4. r.ci \in Nat /\ r.size_ci \in Nat /\ BasicCI \in Nat \ {0} /\ MaxCalls \in Nat
  <2> HIDE DEF r
  <2>1. QED BY <1>1, ThreadFacts, CallsAssumption
<1>5. /\ r.size_ci \div 2 \in Nat /\ BasicCI <= r.size_ci \div 2 /\ r.ci + 1 <= r.size_ci \div 2
      /\ r.size_ci \div 2 <= r.size_ci
  <2> HIDE DEF r
  <2>1. QED BY <1>3, <1>4, Halves
<1>6. Apart(r, l, {"size_ci"}) /\ l.size_ci = r.size_ci \div 2
  <2> HIDE DEF r
  <2>1. QED BY <1>1, <1>5, Fields
<1>7. Only(th, g, L) /\ g[L] = l
  BY <1>1, <1>6, Changed DEF Apart
<1> HIDE DEF l, g
<1>8. /\ l.baseCcalls = r.baseCcalls /\ l.status = r.status /\ l.fresh = r.fresh /\ l.ci = r.ci
      /\ l.nCcalls = r.nCcalls /\ l.jmp = r.jmp
  BY <1>6 DEF Apart
<1>9. Alike(r, l)
  <2> HIDE DEF r
  <2>1. l.size_ci \in BasicCI..(2 * MaxCalls)
    BY <1>3, <1>4, <1>5, <1>6
  <2>2. QED BY <1>5, <1>6, <1>8, <2>1 DEF Alike
<1>10. Held(cstack, g)
  BY <1>2, <1>7, <1>8, <1>9, Adjusting
<1>11. cstack # <<>> => g[t].ci = th[t].ci
  <2> SUFFICES ASSUME cstack # <<>> PROVE g[t].ci = th[t].ci
    OBVIOUS
  <2>1. t \in Threads
    BY Begin, Running DEF Runs
  <2>2. QED BY <1>7, <1>8, <2>1 DEF Only
<1>12. QED
  BY <1>3, <1>10, <1>11, Aside
-----------------------------------------------------------------------------
(***************************************************************************)
(* Coroutines.                                                             *)
(***************************************************************************)
\* A thread that has no C call between it and its resume.
LEMMA AtResume ==
  ASSUME NEW x, NEW L, Runs(x, L), Last(x.cstack).kind \in Counted,
         ~(x.th[L].nCcalls > x.th[L].baseCcalls)
  PROVE  Last(x.cstack).kind = "resume" /\ Last(x.cstack).ci = 0
<1> DEFINE s == x.cstack
           h == x.th
           n == Len(s)
<1>1. /\ n \in Nat \ {0} /\ n = Len(s) /\ L = s[n].t /\ Last(s) = s[n] /\ L \in Threads
      /\ h[L] \in ThreadType /\ Chained(s) /\ Held(s, h)
  BY Running DEF Runs, Loose
<1>2. /\ Depth(s, n - 1) \in Nat /\ Placed(s, n) /\ h[L].nCcalls = Depth(s, n - 1) + 1
  BY <1>1, JumpsTo
<1>3. ~(h[L].nCcalls > h[L].baseCcalls)
  OBVIOUS
<1> HIDE DEF s, h, n
<1>4. h[L].baseCcalls \in Nat /\ h[L].baseCcalls > Depth(s, n - 1)
  <2>1. h[L].baseCcalls \in Nat
    BY <1>1, ThreadFacts
  <2>2. QED BY <1>2, <1>3, <2>1
<1>5. L # Main
  <2> SUFFICES ASSUME L = Main PROVE FALSE
    OBVIOUS
  <2>1. h[L].baseCcalls = 0
    BY <1>1 DEF Held, Kept
  <2>2. QED BY <1>2, <1>4, <2>1
<1>6. PICK j \in 1..n : s[j].t = L /\ s[j].kind = "resume"
  BY <1>1, <1>2, <1>5 DEF Placed
<1>7. h[L].baseCcalls = Depth(s, j)
  <2>1. Matches(s, h, j)
    BY <1>1, <1>6 DEF Held
  <2>2. QED BY <1>6, <2>1 DEF Matches
<1>8. j = n
  <2> SUFFICES ASSUME j # n PROVE FALSE
    OBVIOUS
  <2>1. n - 1 \in Nat /\ j \in 0..(n - 1) /\ j \in Nat
    BY <1>1, <1>6
  <2>2. Depth(s, j) <= Depth(s, n - 1)
    BY <2>1, DepthGrows
  <2>3. QED BY <1>2, <1>4, <1>7, <2>2
<1>9. s[n].kind = "resume" /\ s[n].ci = 0
  BY <1>2, <1>6, <1>8 DEF Placed
<1>10. QED
  BY <1>1, <1>9 DEF s

LEMMA YieldStep ==
  ASSUME Inv, Yield
  PROVE  Inv' /\ Restored(cstack, cstack', th')
<1> DEFINE r == th[t]
           x == [m EXCEPT !.th[t].ci = @ + 1]
<1>1. /\ Runs(m, t) /\ Bounded(m) /\ Entered(m) /\ m.cstack = cstack /\ m.th = th
      /\ m \in States /\ t \in Threads /\ r \in ThreadType
      /\ Top = Last(m.cstack) /\ Top.kind \in Counted
      /\ Top.ci < r.ci /\ Top.ci \in Nat /\ r.ci \in Nat /\ r.size_ci \in Nat
      /\ cstack \in Seq(ActivationType) /\ Len(cstack) \in Nat
  BY Begin, BeginLua DEF Yield
<1>2. r.ci + 1 < r.size_ci /\ Become(lua_yield(x, t))
  BY DEF Yield
<1>3. /\ x.th[t].nCcalls = r.nCcalls /\ x.th[t].baseCcalls = r.baseCcalls
      /\ x = Update(m, t, [r EXCEPT !.ci = r.ci + 1], m.cstack)
  BY <1>1 DEF Update, States, ThreadType
<1>4. CASE r.nCcalls > r.baseCcalls
  <2> DEFINE a == [Activation("cfun", t, m) EXCEPT !.what = "yield"]
             w == Enter(m, t, <<a>>)
  <2>1. a \in ActivationType
    BY <1>1, ActivationFacts DEF Kinds
  <2>2. /\ a.kind = "cfun" /\ a.t = t /\ a.ci = m.th[t].ci /\ a.nCcalls = m.th[t].nCcalls
        /\ a.jmp = m.th[t].jmp
    BY DEF Activation
  <2>3. lua_yield(x, t) = runerror([x EXCEPT !.cstack = Append(@, a)])
    BY <1>3, <1>4 DEF lua_yield
  <2> HIDE DEF a
  <2>4. w = [x EXCEPT !.cstack = Append(@, a)] /\ w.cstack = Append(cstack, a)
    <3>1. m.cstack \o <<a>> = Append(m.cstack, a)
      BY <1>1
    <3>2. QED BY <1>1, <3>1 DEF Enter, States
  <2> HIDE DEF w, x
  <2>5. Adds(m, t, <<a>>)
    BY <1>1, <2>1, <2>2 DEF Adds
  <2>6. Outcome(m.cstack, w)
    BY <1>1, <1>2, <2>5, EnterRight DEF w
  <2>7. /\ w.cstack # <<>> /\ Last(w.cstack) = a /\ Len(w.cstack) = Len(cstack) + 1
        /\ \A i \in 1..Len(cstack) : w.cstack[i] = cstack[i]
    <3> DEFINE z == Append(cstack, a)
    <3>1. /\ Len(z) = Len(cstack) + 1 /\ z[Len(cstack) + 1] = a
          /\ \A i \in 1..Len(cstack) : z[i] = cstack[i]
      BY <1>1, <2>1
    <3>2. w.cstack = z
      BY <2>4
    <3> HIDE DEF z
    <3>3. z # <<>> /\ Last(z) = a
      BY <1>1, <3>1 DEF Last
    <3>4. QED BY <3>1, <3>2, <3>3
  <2>8. w.raised = FALSE
    <3>1. m.raised = FALSE
      BY DEF m
    <3>2. QED BY <1>1, <3>1 DEF w, Enter, States
  <2>9. Runs(w, t) /\ Bounded(w) /\ Last(w.cstack).kind # "pcall"
    BY <2>2, <2>6, <2>7, <2>8 DEF Runs, Outcome, Good, Orderly
  <2>10. Outcome(w.cstack, runerror(w))
    BY <2>9, RaiseRight
  <2>11. Outcome(cstack, runerror(w))
    BY <1>1, <2>7, <2>10, Below
  <2>12. QED BY <1>2, <2>3, <2>4, <2>11, Becoming
<1>5. CASE ~(r.nCcalls > r.baseCcalls)
  <2> DEFINE l == [r EXCEPT !.ci = r.ci + 1, !.status = "yield"]
             w == [x EXCEPT !.th[t].status = "yield"]
  <2>1. lua_yield(x, t) = Leave(w)
    BY <1>3, <1>5 DEF lua_yield
  <2>2. Top.kind = "resume" /\ Top.ci = 0
    BY <1>1, <1>5, AtResume
  <2>3. w = Update(m, t, l, m.cstack)
    BY <1>1 DEF Update, States
  <2>4. Apart(r, l, {"ci", "status"}) /\ l.ci = r.ci + 1 /\ l.status = "yield" /\ l.size_ci = r.size_ci
    <3> HIDE DEF r, x
    <3>1. r \in ThreadType /\ r.ci + 1 \in Nat
      BY <1>1
    <3>2. QED BY <3>1 DEF Apart, ThreadType
  <2> HIDE DEF l, w, x
  <2>5. l.ci + 1 <= l.size_ci /\ l.ci > 1
    BY <1>1, <1>2, <2>2, <2>4
  <2>6. Outcome(m.cstack, Leave(w))
    BY <1>1, <2>2, <2>3, <2>4, <2>5, ResumeOver
  <2>7. QED BY <1>1, <1>2, <2>1, <2>6, Becoming
<1>6. QED
  BY <1>4, <1>5

\* A coroutine that is suspended has nothing on the stack.
LEMMA SuspendedFacts ==
  ASSUME Inv, NEW co \in Coroutines, costatus(co) = "suspended"
  PROVE  /\ \A i \in 1..Len(cstack) : cstack[i].t # co
         /\ th[co] \in ThreadType /\ co \in Threads /\ th[co].jmp = 0
         /\ th[co].size_ci \in BasicCI..(2 * MaxCalls) /\ th[co].ci + 1 <= th[co].size_ci
         /\ \/ th[co].status = "yield" /\ th[co].ci > 1
            \/ th[co].status = "ok" /\ th[co].ci = 0
<1>1. /\ Loose(m) /\ m.cstack = cstack /\ m.th = th /\ th \in [Threads -> ThreadType]
      /\ cstack \in Seq(ActivationType) /\ Len(cstack) \in Nat
  BY Begin
<1>2. Chained(cstack) /\ Held(cstack, th)
  BY <1>1 DEF Loose
<1>3. co \in Threads /\ th[co] \in ThreadType
  BY <1>1 DEF Threads
<1>4. \/ th[co].status = "yield"
      \/ th[co].status = "ok" /\ th[co].ci = 0 /\ th[co].fresh
  BY DEF costatus
<1>5. \A i \in 1..Len(cstack) : cstack[i].t # co
  <2> SUFFICES ASSUME NEW i \in 1..Len(cstack), cstack[i].t = co PROVE FALSE
    OBVIOUS
  <2>1. Matches(cstack, th, i)
    BY <1>2 DEF Held
  <2>2. QED BY <1>4, <2>1 DEF Matches
<1>6. Kept(cstack, th, co)
  BY <1>2, <1>3 DEF Held
<1>7. th[co].jmp = 0
  <2>1. Lands(cstack, Len(cstack), co, th[co].jmp)
    BY <1>6 DEF Kept
  <2>2. th[co].jmp \in 0..Len(cstack) /\ (th[co].jmp # 0 => cstack[th[co].jmp].t = co)
    BY <2>1 DEF Lands, Guards
  <2>3. QED BY <1>1, <1>5, <2>2
<1>8. QED
  BY <1>3, <1>4, <1>5, <1>6, <1>7 DEF Kept

\* What has been done makes no difference.
LEMMA HeldSame ==
  ASSUME NEW s \in Seq(ActivationType), NEW h, Held(s, h), NEW n \in Nat, n = Len(s),
         NEW z, Cut(s, z, n)
  PROVE  Held(z, h)
<1>1. /\ Len(z) = n /\ Same(s, z, n) /\ n \in 0..n
      /\ \A i \in 1..n : z[i].kind = s[i].kind /\ z[i].t = s[i].t /\ z[i].ci = s[i].ci
  BY DEF Cut, Same
<1>2. ASSUME NEW i \in 1..Len(z) PROVE Matches(z, h, i)
  <2>1. i \in 1..n /\ Matches(s, h, i) /\ i \in 0..n
    BY <1>1 DEF Held
  <2>2. Depth(z, i) = Depth(s, i)
    BY <1>1, <2>1, DepthSame
  <2>3. Ends(z, i) => Ends(s, i)
    <3>1. i # n => i + 1 \in 1..n
      BY <2>1
    <3>2. QED BY <1>1, <3>1 DEF Ends
  <2>4. z[i].kind = s[i].kind /\ z[i].t = s[i].t /\ z[i].ci = s[i].ci
    BY <1>1, <2>1
  <2>5. QED BY <2>1, <2>2, <2>3, <2>4 DEF Matches
<1>3. ASSUME NEW K \in Threads PROVE Kept(z, h, K)
  <2>1. Kept(s, h, K)
    BY DEF Held
  <2>2. Lands(s, n, K, h[K].jmp)
    BY <2>1 DEF Kept
  <2>3. Lands(z, Len(z), K, h[K].jmp)
    BY <1>1, <2>2, LandsSame
  <2>4. z = <<>> => s = <<>>
    <3> SUFFICES ASSUME z = <<>> PROVE s = <<>>
      OBVIOUS
    <3>1. n = 0
      BY <1>1
    <3>2. QED BY <3>1, EmptySeq
  <2>5. \A i \in 1..Len(s) : s[i].t = K => i \in 1..Len(z) /\ z[i].t = K
    BY <1>1
  <2>6. QED BY <2>1, <2>3, <2>4, <2>5 DEF Kept
<1>4. QED
  BY <1>2, <1>3 DEF Held

\* The C function on top goes on, with the same stack.
LEMMA GoesOn ==
  ASSUME Inv, cstack # <<>>, ~raised, Top.kind = "cfun", NEW y, y \in States, y.raised = FALSE,
         Cut(cstack, y.cstack, Len(cstack)), NEW g, Held(cstack, g), y.th = g
  PROVE  Outcome(cstack, y)
<1> DEFINE n == Len(cstack)
           z == y.cstack
<1>1. /\ Loose(m) /\ Bounded(m) /\ m.cstack = cstack /\ n \in Nat \ {0} /\ n = Len(cstack)
      /\ Top = cstack[n]
  BY BeginC
<1>2. Chained(cstack)
  BY <1>1 DEF Loose
<1>3. /\ Cut(cstack, z, n) /\ z \in Seq(ActivationType) /\ Len(z) = n /\ Same(cstack, z, n)
      /\ n \in 0..n /\ n \in Nat /\ n \in 1..n
  BY <1>1 DEF Cut
<1> HIDE DEF n, z
<1>4. Chained(z)
  BY <1>1, <1>2, <1>3, Cutting
<1>5. Held(z, g)
  BY <1>1, <1>2, <1>3, HeldSame DEF Chained
<1>6. z # <<>> /\ Last(z).kind = "cfun"
  <2>1. z # <<>> /\ Last(z) = z[n]
    BY <1>1, <1>3 DEF Last
  <2>2. QED BY <1>1, <1>3, <2>1 DEF Same
<1>7. Depth(z, n) = Depth(cstack, n)
  BY <1>3, DepthSame
<1>8. Bounded(y)
  BY <1>1, <1>3, <1>7 DEF Bounded, z, n
<1>9. Restored(cstack, z, g)
  BY <1>1, <1>3, NoneOver
<1>10. Orderly(y) /\ Entered(y)
  BY <1>4, <1>5, <1>6 DEF Orderly, Loose, Entered, Counted, z
<1>11. QED
  BY <1>8, <1>9, <1>10 DEF Outcome, Good, z

\* The C function on top is resume, which has refused.
LEMMA RefusedRight ==
  ASSUME Inv, cstack # <<>>, ~raised, Top.kind = "cfun"
  PROVE  /\ Outcome(cstack, BackTo(m, Len(cstack) + 1))
         /\ \A co \in Coroutines : costatus(co) = "suspended" => Outcome(cstack, Refused(co))
<1> DEFINE n == Len(cstack)
           b == BackTo(m, n + 1)
<1>1. /\ Loose(m) /\ Bounded(m) /\ m.cstack = cstack /\ m.th = th /\ m \in States
      /\ n \in Nat \ {0} /\ m.raised = FALSE /\ t \in Threads /\ th[t] \in ThreadType
      /\ th \in [Threads -> ThreadType]
  BY Begin, BeginC
<1>2. Chained(cstack) /\ Held(cstack, th)
  BY <1>1 DEF Loose
<1>3. b \in States /\ b.th = th /\ b.raised = FALSE /\ Cut(cstack, b.cstack, n)
  <2>1. n + 1 \in 1..(Len(m.cstack) + 1) /\ n + 1 - 1 = n
    BY <1>1
  <2>2. QED BY <1>1, <2>1, BackToFacts
<1> HIDE DEF b
<1>4. Outcome(cstack, b)
  BY <1>2, <1>3, GoesOn
<1>5. ASSUME NEW co \in Coroutines, costatus(co) = "suspended"
      PROVE  Outcome(cstack, Refused(co))
  <2> DEFINE r == th[co]
             c == th[t].nCcalls
             l == [r EXCEPT !.fresh = FALSE, !.nCcalls = c]
             y == Refused(co)
  <2>1. /\ \A i \in 1..n : cstack[i].t # co
        /\ r \in ThreadType /\ co \in Threads /\ r.jmp = 0
        /\ r.size_ci \in BasicCI..(2 * MaxCalls) /\ r.ci + 1 <= r.size_ci
        /\ \/ r.status = "yield" /\ r.ci > 1
           \/ r.status = "ok" /\ r.ci = 0
    BY <1>5, SuspendedFacts
  <2>2. c \in Nat
    BY <1>1, ThreadFacts
  <2>3. y = Update(b, co, l, b.cstack)
    BY <1>3, <2>1 DEF Refused, Update, States, b
  <2>4. /\ l \in ThreadType /\ l.jmp = r.jmp /\ l.size_ci = r.size_ci /\ l.ci = r.ci
        /\ l.status = r.status
    <3> HIDE DEF r, c, y
    <3>1. QED BY <2>1, <2>2 DEF ThreadType
  <2> HIDE DEF l, y
  <2>5. b.cstack \in Seq(ActivationType)
    BY <1>3 DEF Cut
  <2>6. /\ y \in States /\ y.cstack = b.cstack /\ y.raised = FALSE
        /\ Only(th, y.th, co) /\ y.th[co] = l
    BY <1>3, <2>1, <2>3, <2>4, <2>5, Updating
  <2>7. Held(cstack, y.th)
    <3>1. /\ l.size_ci \in BasicCI..(2 * MaxCalls) /\ l.ci + 1 <= l.size_ci
          /\ l.jmp = 0 /\ (l.status # "ok" \/ l.ci = 0) /\ (l.status = "yield" => l.ci > 1)
      BY <2>1, <2>4
    <3>2. QED BY <1>2, <2>1, <2>6, <3>1, Outside
  <2>8. Outcome(cstack, y)
    BY <1>3, <2>6, <2>7, GoesOn
  <2>9. QED BY <2>8 DEF y
<1>6. QED
  BY <1>4, <1>5 DEF b

\* How Resume changes the thread that is resumed, and the stack.
BegunThread(l, c, k) ==
  [l EXCEPT !.nCcalls = c, !.baseCcalls = c, !.jmp = k, !.status = "ok", !.fresh = FALSE]
Begun(x, L, c, k, a) ==
  [x EXCEPT !.th[L].nCcalls = c, !.th[L].baseCcalls = c, !.th[L].jmp = k,
            !.th[L].status = "ok", !.th[L].fresh = FALSE, !.cstack = Append(@, a)]
ResumeAt(x, L) == [Activation("resume", L, x) EXCEPT !.ci = 0]

LEMMA BegunUpdate ==
  ASSUME NEW x \in States, NEW L \in Threads, NEW c, NEW k, NEW a
  PROVE  Begun(x, L, c, k, a) = Update(x, L, BegunThread(x.th[L], c, k), Append(x.cstack, a))
<1> DEFINE h == x.th
           g == [[[[[h EXCEPT ![L].nCcalls = c] EXCEPT ![L].baseCcalls = c] EXCEPT ![L].jmp = k]
                  EXCEPT ![L].status = "ok"] EXCEPT ![L].fresh = FALSE]
<1>1. h \in [Threads -> ThreadType] /\ h[L] \in ThreadType
  BY StateFacts
<1>2. Begun(x, L, c, k, a) = [x EXCEPT !.th = g, !.cstack = Append(x.cstack, a)]
  <2> DEFINE u == [x EXCEPT !.th[L].nCcalls = c, !.th[L].baseCcalls = c, !.th[L].jmp = k,
                            !.th[L].status = "ok", !.th[L].fresh = FALSE]
  <2>1. u = [x EXCEPT !.th = g]
    BY ZenonT(60)
  <2>2. Begun(x, L, c, k, a) = [u EXCEPT !.cstack = Append(@, a)]
    BY DEF Begun
  <2> HIDE DEF u, g
  <2>3. QED BY <2>1, <2>2 DEF States
<1>3. g = [h EXCEPT ![L] = BegunThread(h[L], c, k)]
  <2> HIDE DEF h
  <2>1. QED BY <1>1 DEF BegunThread
<1>4. QED
  <2> HIDE DEF g
  <2>1. QED BY <1>2, <1>3 DEF Update, States

\* The stack with a resume on top.
LEMMA ResumedRight ==
  ASSUME Inv, InC("resume"), NEW co \in Coroutines, costatus(co) = "suspended",
         th[t].nCcalls < MaxCCalls,
         NEW a, a = ResumeAt(m, co), NEW c, c = th[t].nCcalls + 1,
         NEW l, l = BegunThread(th[co], c, Len(cstack) + 1),
         NEW x, x = Update(m, co, l, Append(cstack, a))
  PROVE  /\ Runs(x, co) /\ Bounded(x) /\ Last(x.cstack).kind = "resume" /\ Last(x.cstack).ci = 0
         /\ x.th[co].ci = th[co].ci /\ x.th[co].size_ci = th[co].size_ci /\ x.th[co] = l
         /\ l \in ThreadType /\ co \in Threads /\ x \in States
         /\ Len(cstack) \in Nat /\ Len(x.cstack) = Len(cstack) + 1
         /\ \A i \in 1..Len(cstack) : x.cstack[i] = cstack[i]
<1> DEFINE n == Len(cstack)
           r == th[co]
           z == Append(cstack, a)
<1>1. cstack # <<>> /\ ~raised /\ Top.kind = "cfun"
  BY DEF InC
<1>2. /\ Runs(m, t) /\ Bounded(m) /\ Loose(m) /\ m.cstack = cstack /\ m.th = th /\ m \in States
      /\ n \in Nat \ {0} /\ n = Len(cstack) /\ m.raised = FALSE /\ t \in Threads
      /\ th[t] \in ThreadType /\ Top = cstack[n] /\ cstack \in Seq(ActivationType)
  BY <1>1, Begin, BeginC
<1>3. Chained(cstack) /\ Held(cstack, th)
  BY <1>2 DEF Loose
<1>4. /\ \A i \in 1..n : cstack[i].t # co
      /\ r \in ThreadType /\ co \in Threads /\ r.jmp = 0
      /\ r.size_ci \in BasicCI..(2 * MaxCalls) /\ r.ci + 1 <= r.size_ci
  BY SuspendedFacts
<1>5. th[t].nCcalls = Depth(cstack, n) /\ th[t].nCcalls \in Nat /\ c \in Nat
      /\ c = Depth(cstack, n) + 1 /\ Depth(cstack, n) < MaxCCalls /\ Depth(cstack, n) \in Nat
  <2>1. th[t].nCcalls = Depth(cstack, n)
    BY <1>2, Running DEF Runs
  <2>2. Depth(cstack, n) \in Nat
    BY <1>2, DepthType
  <2> HIDE DEF n
  <2>3. QED BY <2>1, <2>2
<1>6. /\ l \in ThreadType /\ l.ci = r.ci /\ l.size_ci = r.size_ci /\ l.nCcalls = c
      /\ l.baseCcalls = c /\ l.jmp = n + 1 /\ l.status = "ok" /\ l.fresh = FALSE
  <2>1. n + 1 \in Nat
    BY <1>2
  <2>2. l = [r EXCEPT !.nCcalls = c, !.baseCcalls = c, !.jmp = n + 1,
                      !.status = "ok", !.fresh = FALSE]
    BY DEF BegunThread
  <2> HIDE DEF r, n
  <2>3. QED BY <1>4, <1>5, <2>1, <2>2 DEF ThreadType
<1>7. a \in ActivationType /\ a.kind = "resume" /\ a.t = co /\ a.ci = 0 /\ a.jmp = th[co].jmp
  <2>1. Activation("resume", co, m) \in ActivationType
    BY <1>2, <1>4, ActivationFacts DEF Kinds
  <2>2. /\ Activation("resume", co, m).kind = "resume" /\ Activation("resume", co, m).t = co
        /\ Activation("resume", co, m).jmp = th[co].jmp
    BY <1>2 DEF Activation
  <2>3. QED BY <2>1, <2>2 DEF ActivationType, ResumeAt
<1>8. z \in Seq(ActivationType) /\ Len(z) = n + 1 /\ z[n + 1] = a /\ \A i \in 1..n : z[i] = cstack[i]
  BY <1>2, <1>7
<1>9. /\ x \in States /\ x.cstack = z /\ x.raised = FALSE
      /\ Only(th, x.th, co) /\ x.th[co] = l
  <2>1. x = Update(m, co, l, z)
    OBVIOUS
  <2> HIDE DEF z
  <2>2. m \in States /\ co \in Threads /\ l \in ThreadType /\ z \in Seq(ActivationType)
    BY <1>2, <1>4, <1>6, <1>8
  <2>3. /\ x \in States /\ x.cstack = z /\ x.raised = m.raised
        /\ Only(m.th, x.th, co) /\ x.th[co] = l
    BY <2>1, <2>2, Updating
  <2>4. QED BY <1>2, <2>3
<1>10. Chained(z) /\ Held(z, x.th) /\ Depth(z, n + 1) = Depth(cstack, n) + 1
  <2>1. Resumes(cstack, th, n, co, a, z, x.th)
    <3>1. z = Append(cstack, a) /\ cstack[n].kind = "cfun"
      BY <1>1, <1>2
    <3>2. /\ x.th[co].size_ci \in BasicCI..(2 * MaxCalls) /\ x.th[co].ci + 1 <= x.th[co].size_ci
          /\ x.th[co].status = "ok" /\ ~x.th[co].fresh /\ x.th[co].jmp = n + 1
          /\ x.th[co].nCcalls = Depth(cstack, n) + 1 /\ x.th[co].baseCcalls = Depth(cstack, n) + 1
      BY <1>4, <1>5, <1>6, <1>9
    <3> HIDE DEF z, n
    <3>3. QED BY <1>2, <1>4, <1>7, <1>9, <3>1, <3>2 DEF Resumes
  <2> HIDE DEF z, n
  <2>2. QED BY <1>3, <2>1, Resuming
<1> HIDE DEF z
<1>11. z # <<>> /\ Last(z) = a
  BY <1>2, <1>8 DEF Last
<1>12. Runs(x, co)
  BY <1>7, <1>9, <1>10, <1>11 DEF Runs, Loose
<1>13. Bounded(x)
  BY <1>5, <1>8, <1>9, <1>10, CallsAssumption DEF Bounded
<1>14. /\ Last(x.cstack).kind = "resume" /\ Last(x.cstack).ci = 0
       /\ x.th[co].ci = th[co].ci /\ x.th[co].size_ci = th[co].size_ci /\ x.th[co] = l
       /\ l \in ThreadType /\ co \in Threads /\ x \in States
  BY <1>4, <1>6, <1>7, <1>9, <1>11
<1>15. /\ Len(cstack) \in Nat /\ Len(x.cstack) = Len(cstack) + 1
       /\ \A i \in 1..Len(cstack) : x.cstack[i] = cstack[i]
  BY <1>2, <1>8, <1>9
<1>16. QED
  BY <1>12, <1>13, <1>14, <1>15

LEMMA ResumeStep ==
  ASSUME Inv, NEW co \in Coroutines, Resume(co)
  PROVE  Inv' /\ Restored(cstack, cstack', th')
<1> DEFINE k == Len(cstack) + 1
           c == th[t].nCcalls + 1
           a == ResumeAt(m, co)
           l == BegunThread(th[co], c, k)
           x == Begun(m, co, c, k, a)
           y == IF th[co].status = "yield" THEN [x EXCEPT !.th[co].ci = @ - 1]
                ELSE luaD_precall(x, co, <<>>)
<1>1. /\ InC("resume")
      /\ Become(CASE costatus(co) # "suspended" -> BackTo(m, k)
                  [] costatus(co) = "suspended" /\ (~Resumable(co) \/ th[t].nCcalls >= MaxCCalls) ->
                       Refused(co)
                  [] OTHER -> y)
  BY DEF Resume, Begun, ResumeAt
<1>2. cstack # <<>> /\ ~raised /\ Top.kind = "cfun"
  BY <1>1 DEF InC
<1>3. /\ m.cstack = cstack /\ m.th = th /\ m \in States /\ t \in Threads /\ th[t] \in ThreadType
      /\ th \in [Threads -> ThreadType]
  BY <1>2, Begin, BeginC
<1>4. CASE costatus(co) # "suspended"
  <2>1. Outcome(cstack, BackTo(m, k))
    BY <1>2, RefusedRight
  <2> HIDE DEF y, k
  <2>2. Become(BackTo(m, k))
    BY <1>1, <1>4
  <2>3. QED BY <2>1, <2>2, Becoming
<1>5. CASE costatus(co) = "suspended" /\ (~Resumable(co) \/ th[t].nCcalls >= MaxCCalls)
  <2>1. Outcome(cstack, Refused(co))
    BY <1>2, <1>5, RefusedRight
  <2> HIDE DEF y, k
  <2>2. Become(Refused(co))
    BY <1>1, <1>5
  <2>3. QED BY <2>1, <2>2, Becoming
<1>6. CASE costatus(co) = "suspended" /\ Resumable(co) /\ ~(th[t].nCcalls >= MaxCCalls)
  <2>1. Become(y)
    <3> HIDE DEF y, k
    <3>1. QED BY <1>1, <1>6
  <2>2. th[t].nCcalls < MaxCCalls
    <3>1. th[t].nCcalls \in Nat
      BY <1>3, ThreadFacts
    <3>2. QED BY <1>6, <3>1, CallsAssumption
  <2>3. /\ th[co] \in ThreadType /\ co \in Threads
        /\ th[co].size_ci \in BasicCI..(2 * MaxCalls) /\ th[co].ci + 1 <= th[co].size_ci
        /\ \/ th[co].status = "yield" /\ th[co].ci > 1
           \/ th[co].status = "ok" /\ th[co].ci = 0
    BY <1>6, SuspendedFacts
  <2>4. x = Update(m, co, l, Append(cstack, a))
    BY <1>3, <2>3, BegunUpdate
  <2> HIDE DEF x, l, a, c
  <2>5. /\ Runs(x, co) /\ Bounded(x) /\ Last(x.cstack).kind = "resume" /\ Last(x.cstack).ci = 0
        /\ x.th[co].ci = th[co].ci /\ x.th[co].size_ci = th[co].size_ci /\ x.th[co] = l
        /\ l \in ThreadType /\ x \in States
        /\ Len(cstack) \in Nat /\ Len(x.cstack) = Len(cstack) + 1
        /\ \A i \in 1..Len(cstack) : x.cstack[i] = cstack[i]
    <3>1. a = ResumeAt(m, co) /\ c = th[t].nCcalls + 1 /\ l = BegunThread(th[co], c, Len(cstack) + 1)
      BY DEF a, c, l
    <3>2. QED BY <1>1, <1>6, <2>2, <2>4, <3>1, ResumedRight, SMTT(30)
  <2>6. Outcome(x.cstack, y)
    <3>1. CASE th[co].status = "yield"
      <4> DEFINE g == [l EXCEPT !.ci = l.ci - 1]
                 v == [x EXCEPT !.th[co].ci = @ - 1]
      <4>1. y = v
        BY <3>1
      <4>2. v = Update(x, co, g, x.cstack)
        BY <2>3, <2>5 DEF Update, States
      <4>3. l.ci \in Nat /\ l.ci - 1 \in Nat /\ l.ci - 1 > 0 /\ l.size_ci \in Nat
        <5>1. l.ci \in Nat /\ l.size_ci \in Nat
          BY <2>5, ThreadFacts
        <5>2. QED BY <2>3, <2>5, <3>1, <5>1
      <4>4. Apart(l, g, {"ci"}) /\ g.ci = l.ci - 1
        BY <2>5, <4>3, Fields
      <4> HIDE DEF g, v, y
      <4>5. Adjusts(x, co, g)
        <5>1. Apart(l, g, {"ci", "size_ci", "errfunc"})
          BY <4>4 DEF Apart
        <5>2. /\ g.baseCcalls = l.baseCcalls /\ g.status = l.status /\ g.fresh = l.fresh
              /\ g.size_ci = l.size_ci
          BY <4>4 DEF Apart
        <5>3. l.size_ci \in BasicCI..(2 * MaxCalls) /\ l.ci + 1 <= l.size_ci
          BY <2>3, <2>5
        <5>4. Alike(l, g) /\ g.ci >= 0
          BY <4>3, <4>4, <5>2, <5>3 DEF Alike
        <5>5. x.cstack # <<>> /\ co = Last(x.cstack).t
          BY <2>5 DEF Runs
        <5>6. QED BY <2>3, <2>5, <5>1, <5>4, <5>5 DEF Adjusts, Counted
      <4>6. Loose(v) /\ v.cstack = x.cstack /\ v.raised = x.raised /\ v.th[co] = g
        BY <2>5, <4>2, <4>5, AdjustRight DEF Runs
      <4>7. v.raised = FALSE /\ Bounded(v) /\ Orderly(v)
        BY <2>5, <4>6 DEF Runs, Bounded, Orderly
      <4>8. Entered(v)
        BY <2>5, <4>3, <4>4, <4>6 DEF Entered, Runs
      <4>9. Restored(x.cstack, v.cstack, v.th)
        <5>1. Len(x.cstack) \in Nat
          BY <2>5
        <5>2. QED BY <4>6, <5>1, NoneOver
      <4>10. QED BY <4>1, <4>7, <4>8, <4>9 DEF Outcome, Good
    <3>2. CASE th[co].status # "yield"
      <4>1. Outcome(x.cstack, luaD_precall(x, co, <<>>))
        BY <2>5, PrecallRight DEF Adds, Counted
      <4>2. QED BY <3>2, <4>1
    <3>3. QED BY <3>1, <3>2
  <2> HIDE DEF y
  <2>7. Outcome(cstack, y)
    BY <2>5, <2>6, Below
  <2>8. QED BY <2>1, <2>7, Becoming
<1>7. QED
  BY <1>4, <1>5, <1>6
-----------------------------------------------------------------------------
(***************************************************************************)
(* The theorems.                                                           *)
(***************************************************************************)
LEMMA InitInv ==
  ASSUME Init
  PROVE  Inv
<1>1. cstack = <<>> /\ raised = FALSE /\ th = [L \in Threads |-> NewThread]
  BY DEF Init
<1>2. /\ NewThread \in ThreadType /\ NewThread.jmp = 0 /\ NewThread.ci = 0 /\ NewThread.nCcalls = 0
      /\ NewThread.baseCcalls = 0 /\ NewThread.status = "ok"
      /\ NewThread.size_ci \in BasicCI..(2 * MaxCalls) /\ NewThread.ci + 1 <= NewThread.size_ci
  BY CallsAssumption DEF NewThread, ThreadType
<1>3. cstack \in Seq(ActivationType) /\ Len(cstack) = 0
  BY <1>1
<1>4. th \in [Threads -> ThreadType] /\ \A L \in Threads : th[L] = NewThread
  BY <1>1, <1>2
<1>5. Chained(cstack)
  BY <1>3 DEF Chained
<1>6. ASSUME NEW L \in Threads PROVE Kept(cstack, th, L)
  <2>1. Lands(cstack, 0, L, 0)
    BY DEF Lands
  <2>2. th[L] = NewThread
    BY <1>4
  <2>3. QED BY <1>2, <1>3, <2>1, <2>2 DEF Kept
<1>7. Held(cstack, th)
  BY <1>3, <1>4, <1>6 DEF Held
<1>8. Depth(cstack, 0) = 0
  BY DepthNone
<1>9. Now \in States /\ Now.cstack = <<>> /\ Now.th = th /\ Now.raised = FALSE
  BY <1>1, <1>3, <1>4 DEF Now, States
<1>10. Bounded(Now)
  BY <1>1, <1>3, <1>8, <1>9, CallsAssumption DEF Bounded
<1>11. QED
  BY <1>1, <1>5, <1>7, <1>9, <1>10 DEF Inv, Good, Orderly, Loose, Entered

LEMMA StepRight ==
  ASSUME Inv, Next
  PROVE  Inv' /\ Restored(cstack, cstack', th')
<1>1. CASE Eval \/ CallLua \/ Metamethod \/ CallBack
  BY <1>1, EvalStep, CallLuaStep, MetamethodStep, CallBackStep
<1>2. CASE Pcall \/ Xpcall
  BY <1>2, PcallStep
<1>3. CASE \E what \in CFunctions : CallC(what)
  BY <1>3, CallCStep
<1>4. CASE Return \/ CReturn \/ RunError \/ RaiseError
  BY <1>4, ReturnStep, CReturnStep, RunErrorStep, RaiseErrorStep
<1>5. CASE Yield
  BY <1>5, YieldStep
<1>6. CASE \E co \in Coroutines : Resume(co) \/ Create(co)
  BY <1>6, ResumeStep, CreateStep
<1>7. CASE \E L \in Threads : reallocCI(L)
  BY <1>7, ReallocStep
<1>8. QED
  BY <1>1, <1>2, <1>3, <1>4, <1>5, <1>6, <1>7 DEF Next

\* The invariant holds in every state the runtime reaches.
THEOREM Invariance == Spec => []Inv
<1>1. Init => Inv
  BY InitInv
<1>2. Inv /\ [Next]_vars => Inv'
  <2> SUFFICES ASSUME Inv, [Next]_vars PROVE Inv'
    OBVIOUS
  <2>1. CASE Next
    BY <2>1, StepRight
  <2>2. CASE UNCHANGED vars
    BY <2>2 DEF vars, Inv, Now
  <2>3. QED BY <2>1, <2>2
<1>3. QED
  BY <1>1, <1>2, PTL DEF Spec

\* Errors jump to the innermost protected call of their thread, which is still on
\* the C stack, and a coroutine that is suspended or dead has nothing on it
\* (luaD_rawrunprotected, luaD_throw, lua_resume, lua_yield), for any number of
\* coroutines and any limits.
THEOREM StackInOrder == Spec => []CStackSound
<1>1. ASSUME Inv PROVE CStackSound
  <2> DEFINE n == Len(cstack)
  <2>1. /\ Loose(m) /\ m.cstack = cstack /\ m.th = th /\ th \in [Threads -> ThreadType]
        /\ cstack \in Seq(ActivationType) /\ n \in Nat /\ DOMAIN cstack = 1..n
        /\ cstack # <<>> => Runs(m, t)
    BY <1>1, Begin
  <2>2. Chained(cstack) /\ Held(cstack, th)
    BY <2>1 DEF Loose
  <2>3. \A i \in 1..n : /\ Placed(cstack, i) /\ Matches(cstack, th, i)
                        /\ cstack[i] \in ActivationType
    BY <2>1, <2>2 DEF Chained, Held
  <2>4. \A L \in Threads : Kept(cstack, th, L) /\ th[L] \in ThreadType
    BY <2>1, <2>2 DEF Held
  <2>5. TypeOK
    <3> SUFFICES ASSUME NEW L \in Threads
                 PROVE  /\ th[L].ci \in Nat /\ th[L].nCcalls \in Nat
                        /\ th[L].size_ci \in BasicCI..(2 * MaxCalls)
                        /\ th[L].status \in {"ok", "yield", "error"}
      BY DEF TypeOK
    <3>1. th[L] \in ThreadType /\ Kept(cstack, th, L)
      BY <2>4
    <3>2. QED BY <3>1, ThreadFacts DEF Kept
  <2>6. JumpsLand
    <3>1. ASSUME NEW L \in Threads
          PROVE  IF Of(L, Protected) = {} THEN th[L].jmp = 0
                 ELSE th[L].jmp \in Of(L, Protected) /\ \A i \in Of(L, Protected) : i <= th[L].jmp
      <4>1. Lands(cstack, n, L, th[L].jmp)
        BY <2>4 DEF Kept
      <4>2. \A i \in 1..n : i \in Of(L, Protected) <=> Guards(cstack, i, L)
        BY <2>1 DEF Of, Guards
      <4>3. Of(L, Protected) \subseteq 1..n
        BY <2>1 DEF Of
      <4> DEFINE P == Of(L, Protected)
                 j == th[L].jmp
      <4>4. j \in 0..n /\ (j # 0 => Guards(cstack, j, L)) /\ \A i \in (j + 1)..n : ~Guards(cstack, i, L)
        BY <4>1 DEF Lands
      <4> HIDE DEF P, j, n
      <4>5. j # 0 => j \in P
        BY <2>1, <4>2, <4>4 DEF P
      <4>6. \A i \in P : i <= j
        <5> SUFFICES ASSUME NEW i \in P PROVE i <= j
          OBVIOUS
        <5>1. i \in 1..n /\ Guards(cstack, i, L)
          BY <4>2, <4>3 DEF P
        <5>2. i \notin (j + 1)..n
          BY <4>4, <5>1
        <5>3. j \in Nat /\ i \in Nat
          BY <2>1, <4>4, <5>1
        <5>4. QED BY <2>1, <5>1, <5>2, <5>3
      <4>7. P # {} => j \in P
        <5> SUFFICES ASSUME NEW i \in P PROVE j # 0
          BY <4>5
        <5>1. i \in 1..n /\ i <= j
          BY <4>3, <4>6 DEF P
        <5>2. QED BY <2>1, <4>4, <5>1
      <4>8. QED BY <4>5, <4>6, <4>7 DEF P, j
    <3>2. cstack # <<>> => th[t].jmp # 0
      <4> SUFFICES ASSUME cstack # <<>> PROVE th[t].jmp # 0
        OBVIOUS
      <4>1. th[t].jmp \in 1..n
        <5>1. t = Last(cstack).t
          BY DEF t, Top
        <5>2. QED BY <2>2, <5>1, Innermost
      <4>2. QED BY <2>1, <4>1
    <3>3. QED BY <3>1, <3>2 DEF JumpsLand
  <2>7. NothingLeftBehind
    <3> SUFFICES ASSUME NEW co \in Coroutines
                 PROVE  /\ th[co].status # "ok" =>
                             Of(co, {"cfun", "call", "handler", "pcall", "resume"}) = {}
                        /\ Cardinality(Of(co, {"resume"})) <= 1
                        /\ th[co].status = "ok" /\ th[co].ci > 0 => Of(co, {"resume"}) # {}
      BY DEF NothingLeftBehind
    <3>1. co \in Threads /\ co # Main
      BY CallsAssumption DEF Threads
    <3>2. \A i \in 1..n : cstack[i].t = co => th[co].status = "ok"
      BY <2>3 DEF Matches
    <3>3. th[co].status # "ok" => Of(co, {"cfun", "call", "handler", "pcall", "resume"}) = {}
      BY <2>1, <3>2 DEF Of
    <3>4. Cardinality(Of(co, {"resume"})) <= 1
      <4> DEFINE R == Of(co, {"resume"})
      <4>1. \A i \in R, j \in R : i = j
        <5> SUFFICES ASSUME NEW i \in R, NEW j \in R, i # j PROVE FALSE
          OBVIOUS
        <5>1. /\ i \in 1..n /\ j \in 1..n /\ cstack[i].t = co /\ cstack[i].kind = "resume"
              /\ cstack[j].t = co /\ cstack[j].kind = "resume"
          BY <2>1 DEF Of
        <5>2. Placed(cstack, i) /\ Placed(cstack, j)
          BY <2>3, <5>1
        <5>3. i \in 1..(j - 1) \/ j \in 1..(i - 1)
          BY <5>1
        <5>4. (\A l \in 1..(j - 1) : cstack[l].t # co) /\ (\A l \in 1..(i - 1) : cstack[l].t # co)
          BY <5>1, <5>2 DEF Placed
        <5>5. QED BY <5>1, <5>3, <5>4
      <4> HIDE DEF R
      <4>2. CASE R = {}
        BY <4>2, FS_EmptySet DEF R
      <4>3. CASE R # {}
        <5>1. PICK i : R = {i}
          BY <4>1, <4>3
        <5>2. QED BY <5>1, FS_Singleton DEF R
      <4>4. QED BY <4>2, <4>3
    <3>5. ASSUME th[co].status = "ok", th[co].ci > 0 PROVE Of(co, {"resume"}) # {}
      <4>1. PICK i \in 1..n : cstack[i].t = co
        BY <2>4, <3>1, <3>5 DEF Kept
      <4>2. PICK j \in 1..i : cstack[j].t = co /\ cstack[j].kind = "resume"
        BY <2>3, <3>1, <4>1 DEF Placed
      <4>3. j \in 1..n
        BY <2>1, <4>1, <4>2
      <4>4. QED BY <2>1, <4>2, <4>3 DEF Of
    <3>6. QED BY <3>3, <3>4, <3>5
  <2>8. QED BY <2>5, <2>6, <2>7 DEF CStackSound
<1>2. QED
  BY <1>1, Invariance, PTL

\* The C stack never holds more than the limit allows, because the count that
\* luaD_call tests is the number of calls on it, whatever coroutines and error
\* handlers do; and the frames of a thread fit in their array (growCI).
THEOREM Limits == Spec => []LimitsHold
<1>1. ASSUME Inv PROVE LimitsHold
  <2> DEFINE n == Len(cstack)
             calls == {i \in DOMAIN cstack : cstack[i].kind \in Counted}
  <2>1. /\ Loose(m) /\ Bounded(m) /\ m.cstack = cstack /\ m.th = th
        /\ cstack \in Seq(ActivationType) /\ n \in Nat /\ DOMAIN cstack = 1..n
        /\ cstack # <<>> => Runs(m, t) /\ Top = cstack[n]
    BY <1>1, Begin
  <2>2. Held(cstack, th)
    BY <2>1 DEF Loose
  <2>3. Cardinality(calls) = Depth(cstack, n)
    BY <2>1 DEF Depth
  <2> HIDE DEF calls
  <2>4. Cardinality(calls) < MaxCCalls + ExtraCCalls
    BY <2>1, <2>3 DEF Bounded
  <2>5. ASSUME cstack # <<>> PROVE th[t].nCcalls = Cardinality(calls)
    BY <2>1, <2>3, <2>5, Running DEF Runs
  <2>6. ASSUME InLua, Top.kind = "resume" PROVE th[t].nCcalls = th[t].baseCcalls
    <3>1. cstack # <<>>
      BY <2>6 DEF InLua
    <3>2. n \in 1..n
      BY <2>1, <3>1
    <3>3. Matches(cstack, th, n)
      BY <2>2, <3>2 DEF Held
    <3>4. QED BY <2>1, <2>6, <3>1, <3>3 DEF Matches, Ends, t
  <2>7. CStackBounded
    BY <2>4, <2>5, <2>6 DEF CStackBounded, calls
  <2>8. FramesFit
    BY <2>2 DEF FramesFit, Held, Kept
  <2>9. QED BY <2>7, <2>8 DEF LimitsHold
<1>2. QED
  BY <1>1, Invariance, PTL

\* When a protected call ends, by a return or by an error raised anywhere inside
\* it, its thread has the frames, the count of C calls, the error handler and the
\* place to jump to that it had when the call began (luaD_pcall).
THEOREM PcallsRestore == Spec => PcallRestores
<1>1. Inv /\ [Next]_vars => [PutsBack]_vars
  <2> SUFFICES ASSUME Inv, Next PROVE PutsBack
    OBVIOUS
  <2>1. Restored(cstack, cstack', th')
    BY StepRight
  <2>2. DOMAIN cstack = 1..Len(cstack)
    BY Begin
  <2>3. QED BY <2>1, <2>2 DEF PutsBack, Restored
<1>2. QED
  BY <1>1, Invariance, PTL DEF Spec, PcallRestores
=============================================================================
