---------------------------- MODULE Window_proofs ----------------------------
(***************************************************************************)
(* What is proved about CommandLine and Window, for every line a user may  *)
(* type, every width of an int and every set of commands and files.  That  *)
(* interp_eval cuts a line into its words is shown by induction over the   *)
(* line, from its end: a counterexample at the latest position would have  *)
(* a later one (Least, ItemsRight).                                        *)
(***************************************************************************)
EXTENDS Window, FiniteSetTheorems, WellFoundedInduction, TLAPS

\* A set of natural numbers has a least element.
LEMMA Least ==
  ASSUME NEW S \in SUBSET Nat, S # {}
  PROVE  \E n \in S : \A m \in S : n <= m
<1> DEFINE R == OpToRel(<, Nat)
<1>1. PICK n \in S : \A m \in S : <<m, n>> \notin R
  BY NatLessThanWellFounded, WFMin
<1>2. ASSUME NEW m \in S, m < n PROVE FALSE
  <2>1. <<m, n>> \in R
    BY <1>2 DEF OpToRel
  <2>2. QED BY <1>1, <2>1
<1>3. \A m \in S : n <= m
  BY <1>2
<1>4. QED BY <1>3

\* Skip stops at the first character that is not a space, or past the end.
LEMMA SkipRight ==
  ASSUME NEW X, NEW s \in Seq(X), NEW i \in 1..Len(s) + 1
  PROVE  /\ Skip(s, i) \in i..Len(s) + 1
         /\ \A k \in i..Skip(s, i) - 1 : s[k] = Space
         /\ Skip(s, i) <= Len(s) => s[Skip(s, i)] # Space
<1> DEFINE n == Len(s)
           S == {j \in i..n + 1 : j <= n => s[j] # Space}
<1>1. n \in Nat /\ i \in Nat
  OBVIOUS
<1>2. S \in SUBSET Nat /\ n + 1 \in S
  BY <1>1
<1>3. PICK j \in S : \A k \in S : j <= k
  BY <1>2, Least
<1>4. \A k \in i..j - 1 : s[k] = Space
  <2> SUFFICES ASSUME NEW k \in i..j - 1, s[k] # Space PROVE FALSE
    OBVIOUS
  <2>1. k \in S /\ k < j
    BY <1>1
  <2>2. QED BY <1>1, <1>2, <1>3, <2>1
<1>5. \E j1 \in i..Len(s) + 1 :
         /\ \A k \in i..j1 - 1 : s[k] = Space
         /\ j1 <= Len(s) => s[j1] # Space
  BY <1>3, <1>4
<1>6. QED
  BY <1>5 DEF Skip

\* strchr finds the first space.
LEMMA StrchrRight ==
  ASSUME NEW X, NEW s \in Seq(X), NEW i \in 1..Len(s)
  PROVE  \/ /\ Strchr(s, i) = 0
            /\ \A k \in i..Len(s) : s[k] # Space
         \/ /\ Strchr(s, i) \in i..Len(s)
            /\ s[Strchr(s, i)] = Space
            /\ \A k \in i..Strchr(s, i) - 1 : s[k] # Space
<1> DEFINE S == {j \in i..Len(s) : s[j] = Space}
<1>1. Len(s) \in Nat /\ i \in Nat
  OBVIOUS
<1>2. CASE S = {}
  BY <1>2 DEF Strchr
<1>3. CASE S # {}
  <2>1. S \in SUBSET Nat
    BY <1>1
  <2>2. PICK j \in S : \A k \in S : j <= k
    BY <1>3, <2>1, Least
  <2>3. \A k \in i..j - 1 : s[k] # Space
    <3> SUFFICES ASSUME NEW k \in i..j - 1, s[k] = Space PROVE FALSE
      OBVIOUS
    <3>1. k \in S /\ k < j
      BY <1>1
    <3>2. QED BY <1>1, <2>1, <2>2, <3>1
  <2>4. \E j1 \in i..Len(s) : s[j1] = Space /\ \A k \in i..j1 - 1 : s[k] # Space
    BY <2>2, <2>3
  <2>5. QED
    BY <2>4 DEF Strchr
<1>4. QED BY <1>2, <1>3

-----------------------------------------------------------------------------
(***************************************************************************)
(* The loop of interp_eval, one turn at a time.                            *)
(***************************************************************************)
\* Where the item after the one at position k begins.
Next_(s, k) == Skip(s, Strchr(s, k) + 1)

\* The items from position k on, where g has those from later positions on.
Body(s, g, k) ==
  IF Strchr(s, k) = 0 THEN <<SubSeq(s, k, Len(s))>>
  ELSE <<SubSeq(s, k, Strchr(s, k) - 1)>>
         \o (IF Next_(s, k) > Len(s) THEN <<>> ELSE g[Next_(s, k)])

\* The recursive function that Items is defined by.
From(s) == CHOOSE g : g = [k \in 1..Len(s) |-> Body(s, g, k)]

\* Items has the values of From.
LEMMA ItemsFrom ==
  ASSUME NEW s, NEW i
  PROVE  Items(s, i) = From(s)[i]
BY DEF Items, From, Body, Next_

\* Where the next item begins.
LEMMA NextLater ==
  ASSUME NEW X, NEW s \in Seq(X), NEW k \in 1..Len(s), Strchr(s, k) # 0
  PROVE  /\ Strchr(s, k) \in k..Len(s)
         /\ Next_(s, k) \in Strchr(s, k) + 1..Len(s) + 1
         /\ \A j \in Strchr(s, k) + 1..Next_(s, k) - 1 : s[j] = Space
         /\ Next_(s, k) <= Len(s) => s[Next_(s, k)] # Space
<1>1. Strchr(s, k) \in k..Len(s)
  BY StrchrRight
<1>2. Strchr(s, k) + 1 \in 1..Len(s) + 1
  BY <1>1
<1>3. QED
  BY <1>1, <1>2, SkipRight DEF Next_

\* From is the function that its equation describes: an item depends on later
\* ones only.
LEMMA FromRight ==
  ASSUME NEW X, NEW s \in Seq(X)
  PROVE  From(s) = [k \in 1..Len(s) |-> Body(s, From(s), k)]
<1> DEFINE n == Len(s)
           Solves(g, j) == g = [k \in j..n |-> Body(s, g, k)]
           Bad == {m \in 0..n : ~ \E g : Solves(g, n - m + 1)}
<1>1. n \in Nat
  OBVIOUS
<1>2. Bad = {}
  <2> SUFFICES ASSUME Bad # {} PROVE FALSE
    OBVIOUS
  <2>1. Bad \in SUBSET Nat
    BY <1>1
  <2>2. PICK b \in Bad : \A m \in Bad : b <= m
    BY <2>1, Least
  <2>3. b # 0
    <3>1. Solves([k \in n + 1..n |-> 0], n - 0 + 1)
      BY <1>1
    <3>2. QED BY <1>1, <3>1
  <2>4. b - 1 \in 0..n /\ b - 1 \notin Bad /\ b \in 1..n
    <3>1. b \in 0..n
      OBVIOUS
    <3>2. b \in 1..n /\ b - 1 \in 0..n /\ ~ (b <= b - 1)
      BY <1>1, <2>3, <3>1
    <3> HIDE DEF Bad
    <3>3. QED BY <2>2, <3>2
  <2> DEFINE j == n - b + 1
  <2>5. j \in 1..n /\ n - (b - 1) + 1 = j + 1
    BY <1>1, <2>4
  <2>6. PICK g : Solves(g, j + 1)
    BY <2>4, <2>5
  <2> DEFINE h == [k \in j..n |-> IF k = j THEN Body(s, g, j) ELSE g[k]]
  <2>7. \A k \in j + 1..n : h[k] = g[k]
    BY <1>1, <2>5
  <2>8. h[j] = Body(s, g, j) /\ DOMAIN h = j..n
    BY <1>1, <2>5
  <2>9. \A k \in j + 1..n : g[k] = Body(s, g, k)
    BY <2>6
  <2> HIDE DEF h
  <2>10. \A k \in j..n : Body(s, g, k) = Body(s, h, k)
    <3> SUFFICES ASSUME NEW k \in j..n PROVE Body(s, g, k) = Body(s, h, k)
      OBVIOUS
    <3>1. k \in 1..n
      BY <1>1, <2>5
    <3>2. CASE Strchr(s, k) = 0
      BY <3>2 DEF Body
    <3>3. CASE Strchr(s, k) # 0
      <4>1. Strchr(s, k) \in k..n /\ Next_(s, k) \in Strchr(s, k) + 1..n + 1
        BY <3>1, <3>3, NextLater
      <4>2. Next_(s, k) \in j + 1..n + 1
        BY <1>1, <2>5, <3>1, <4>1
      <4>3. CASE Next_(s, k) > n
        BY <4>3 DEF Body
      <4>4. CASE Next_(s, k) <= n
        <5>1. h[Next_(s, k)] = g[Next_(s, k)]
          BY <1>1, <2>5, <2>7, <4>2, <4>4
        <5>2. QED BY <5>1 DEF Body
      <4>5. QED BY <1>1, <4>2, <4>3, <4>4
    <3>4. QED BY <3>2, <3>3
  <2>11. \A k \in j..n : h[k] = Body(s, h, k)
    <3> SUFFICES ASSUME NEW k \in j..n PROVE h[k] = Body(s, h, k)
      OBVIOUS
    <3>1. CASE k = j
      BY <2>8, <2>10, <3>1
    <3>2. CASE k # j
      <4>1. k \in j + 1..n
        BY <1>1, <2>5, <3>2
      <4>2. QED BY <2>7, <2>9, <2>10, <4>1
    <3>3. QED BY <3>1, <3>2
  <2>12. h = [k \in j..n |-> h[k]]
    BY <2>8 DEF h
  <2>13. Solves(h, j)
    BY <2>11, <2>12
  <2>14. QED
    BY <2>2, <2>13
<1>3. \E g : Solves(g, 1)
  <2>1. n \in 0..n /\ n \notin Bad
    BY <1>1, <1>2
  <2>2. n - n + 1 = 1
    BY <1>1
  <2>3. QED BY <2>1, <2>2
<1>4. \E g : g = [k \in 1..Len(s) |-> Body(s, g, k)]
  BY <1>3
<1>5. QED
  BY <1>4 DEF From

\* The words of a line from position k on, and those of them up to p.
After(s, k) == {q \in Runs(s) : q[1] >= k}
Upto(s, k, p) == {q \in After(s, k) : q[1] <= p}

\* A word begins at position k.
Begins(s, k) == k \in 1..Len(s) /\ s[k] # Space /\ (k > 1 => s[k - 1] = Space)

\* A line has finitely many words, and where they begin and end.
LEMMA RunsType ==
  ASSUME NEW X, NEW s \in Seq(X)
  PROVE  /\ IsFiniteSet(Runs(s))
         /\ \A q \in Runs(s) :
              /\ q = <<q[1], q[2]>>
              /\ q[1] \in 1..Len(s) /\ q[2] \in q[1]..Len(s)
              /\ \A k \in q[1]..q[2] : s[k] # Space
              /\ q[1] > 1 => s[q[1] - 1] = Space
              /\ q[2] < Len(s) => s[q[2] + 1] = Space
<1>1. Len(s) \in Nat /\ DOMAIN s = 1..Len(s)
  OBVIOUS
<1>2. IsFiniteSet((DOMAIN s) \X (DOMAIN s))
  <2>1. IsFiniteSet(DOMAIN s)
    BY <1>1, FS_Interval
  <2>2. QED BY <2>1, FS_Product
<1>3. Runs(s) \in SUBSET ((DOMAIN s) \X (DOMAIN s))
  BY DEF Runs
<1>4. IsFiniteSet(Runs(s))
  BY <1>2, <1>3, FS_Subset
<1>5. ASSUME NEW q \in Runs(s)
      PROVE  /\ q = <<q[1], q[2]>>
             /\ q[1] \in 1..Len(s) /\ q[2] \in q[1]..Len(s)
             /\ \A k \in q[1]..q[2] : s[k] # Space
             /\ q[1] > 1 => s[q[1] - 1] = Space
             /\ q[2] < Len(s) => s[q[2] + 1] = Space
  <2>1. /\ q \in (DOMAIN s) \X (DOMAIN s) /\ q[1] <= q[2]
        /\ \A k \in q[1]..q[2] : s[k] # Space
        /\ q[1] > 1 => s[q[1] - 1] = Space
        /\ q[2] < Len(s) => s[q[2] + 1] = Space
    BY DEF Runs
  <2>2. QED BY <1>1, <2>1
<1>6. QED BY <1>4, <1>5

\* The last word of a line.
LEMMA LastWord ==
  ASSUME NEW X, NEW s \in Seq(X), NEW k, Begins(s, k), Strchr(s, k) = 0
  PROVE  After(s, k) = {<<k, Len(s)>>}
<1> DEFINE n == Len(s)
<1>1. /\ n \in Nat /\ DOMAIN s = 1..n /\ k \in 1..n
      /\ k > 1 => s[k - 1] = Space
      /\ \A j \in k..n : s[j] # Space
  <2>1. k \in 1..Len(s) /\ (k > 1 => s[k - 1] = Space)
    BY DEF Begins
  <2>2. \A j \in k..n : s[j] # Space
    BY <2>1, StrchrRight
  <2>3. QED BY <2>1, <2>2
<1>2. <<k, n>> \in Runs(s)
  BY <1>1 DEF Runs
<1>3. ASSUME NEW q \in After(s, k) PROVE q = <<k, n>>
  <2>1. q \in Runs(s) /\ q[1] >= k
    BY DEF After
  <2>2. /\ q = <<q[1], q[2]>> /\ q[1] \in 1..n /\ q[2] \in q[1]..n
        /\ q[1] > 1 => s[q[1] - 1] = Space
        /\ q[2] < n => s[q[2] + 1] = Space
    BY <2>1, RunsType
  <2>3. q[1] = k
    <3>1. q[1] > k => q[1] - 1 \in k..n /\ q[1] > 1
      BY <1>1, <2>2
    <3>2. QED BY <1>1, <2>1, <2>2, <3>1
  <2>4. q[2] = n
    <3>1. q[2] < n => q[2] + 1 \in k..n
      BY <1>1, <2>2, <2>3
    <3>2. QED BY <1>1, <2>2, <3>1
  <2>5. QED BY <2>2, <2>3, <2>4
<1>4. <<k, n>>[1] = k /\ k >= k
  BY <1>1
<1>5. QED
  BY <1>2, <1>3, <1>4 DEF After

\* A word that others may follow: the next one begins at Next_.
LEMMA FirstWord ==
  ASSUME NEW X, NEW s \in Seq(X), NEW k, Begins(s, k), Strchr(s, k) # 0
  PROVE  LET w == <<k, Strchr(s, k) - 1>>
         IN  /\ After(s, k) = {w} \cup After(s, Next_(s, k))
             /\ w \notin After(s, Next_(s, k))
             /\ Next_(s, k) > Len(s) => After(s, Next_(s, k)) = {}
             /\ Next_(s, k) <= Len(s) => Begins(s, Next_(s, k))
             /\ Next_(s, k) > k /\ Next_(s, k) \in Nat
<1> DEFINE n == Len(s)
           t == Strchr(s, k)
           x == Next_(s, k)
           w == <<k, t - 1>>
<1>1. /\ n \in Nat /\ DOMAIN s = 1..n /\ k \in 1..n /\ s[k] # Space
      /\ k > 1 => s[k - 1] = Space
  BY DEF Begins
<1>2. /\ t \in k..n /\ s[t] = Space /\ \A j \in k..t - 1 : s[j] # Space
  BY <1>1, StrchrRight
<1>3. /\ x \in t + 1..n + 1
      /\ \A j \in t + 1..x - 1 : s[j] = Space
      /\ x <= n => s[x] # Space
  BY <1>1, NextLater
<1> HIDE DEF t, x
<1>4. t > k /\ x > t
  BY <1>1, <1>2, <1>3
<1>5. \A j \in t..x - 1 : s[j] = Space
  BY <1>1, <1>2, <1>3, <1>4
<1>6. w \in Runs(s)
  BY <1>1, <1>2, <1>4 DEF Runs
<1>7. ASSUME NEW q \in After(s, k) PROVE q = w \/ q \in After(s, x)
  <2>1. q \in Runs(s) /\ q[1] >= k
    BY DEF After
  <2>2. /\ q = <<q[1], q[2]>> /\ q[1] \in 1..n /\ q[2] \in q[1]..n
        /\ \A j \in q[1]..q[2] : s[j] # Space
        /\ q[1] > 1 => s[q[1] - 1] = Space
        /\ q[2] < n => s[q[2] + 1] = Space
    BY <2>1, RunsType
  <2>3. CASE q[1] = k
    <3>1. ~ (t \in q[1]..q[2])
      BY <1>2, <2>2
    <3>2. q[2] < t
      BY <1>1, <1>2, <2>2, <2>3, <3>1
    <3>3. q[2] < t - 1 => q[2] + 1 \in k..t - 1 /\ q[2] < n
      BY <1>1, <1>2, <2>2, <2>3
    <3>4. q[2] = t - 1
      BY <1>1, <1>2, <2>2, <3>2, <3>3
    <3>5. QED BY <2>2, <2>3, <3>4
  <2>4. CASE q[1] > k
    <3>1. s[q[1]] # Space /\ s[q[1] - 1] = Space
      BY <1>1, <2>2, <2>4
    <3>2. ~ (q[1] - 1 \in k..t - 1) /\ ~ (q[1] \in t..x - 1)
      BY <1>2, <1>5, <3>1
    <3>3. q[1] >= x
      BY <1>1, <1>2, <1>3, <2>2, <2>4, <3>2
    <3>4. QED BY <2>1, <3>3 DEF After
  <2>5. QED BY <1>1, <2>1, <2>2, <2>3, <2>4
<1>8. After(s, x) \subseteq After(s, k)
  <2> SUFFICES ASSUME NEW q \in After(s, x) PROVE q \in After(s, k)
    OBVIOUS
  <2>1. q \in Runs(s) /\ q[1] >= x
    BY DEF After
  <2>2. q[1] \in 1..n
    BY <2>1, RunsType
  <2>3. q[1] >= k
    BY <1>1, <1>2, <1>3, <1>4, <2>1, <2>2
  <2>4. QED BY <2>1, <2>3 DEF After
<1>9. w[1] = k /\ k >= k /\ ~ (k >= x)
  BY <1>1, <1>2, <1>3, <1>4
<1>10. w \in After(s, k) /\ w \notin After(s, x)
  BY <1>6, <1>9 DEF After
<1>11. x > n => After(s, x) = {}
  <2> SUFFICES ASSUME x > n, NEW q \in After(s, x) PROVE FALSE
    OBVIOUS
  <2>1. q \in Runs(s) /\ q[1] >= x
    BY DEF After
  <2>2. q[1] \in 1..n
    BY <2>1, RunsType
  <2>3. QED BY <1>1, <1>2, <1>3, <2>1, <2>2
<1>12. x <= n => Begins(s, x)
  <2>1. x - 1 \in t..x - 1 /\ x \in 1..n + 1
    BY <1>1, <1>2, <1>3, <1>4
  <2>2. QED BY <1>1, <1>3, <1>5, <2>1 DEF Begins
<1>13. x > k /\ x \in Nat
  BY <1>1, <1>2, <1>3, <1>4
<1>14. After(s, k) = {w} \cup After(s, x)
  BY <1>7, <1>8, <1>10
<1> HIDE DEF w
<1>15. QED
  BY <1>10, <1>11, <1>12, <1>13, <1>14 DEF w, t, x

\* T has the words of s from position k on, in order.
Lists(X, s, k, T) ==
  /\ T \in Seq(Seq(X))
  /\ Len(T) = Cardinality(After(s, k))
  /\ \A r \in After(s, k) : T[Cardinality(Upto(s, k, r[1]))] = Word(s, r)

\* A word is the first of those from position k on, or a later one.
LEMMA UptoType ==
  ASSUME NEW X, NEW s \in Seq(X), NEW k, NEW r \in After(s, k)
  PROVE  /\ IsFiniteSet(After(s, k)) /\ IsFiniteSet(Upto(s, k, r[1]))
         /\ Cardinality(After(s, k)) \in Nat
         /\ Cardinality(Upto(s, k, r[1])) \in 1..Cardinality(After(s, k))
<1>1. /\ After(s, k) \in SUBSET Runs(s) /\ Upto(s, k, r[1]) \in SUBSET After(s, k)
      /\ r \in Runs(s)
  BY DEF After, Upto
<1>2. IsFiniteSet(After(s, k))
  BY <1>1, RunsType, FS_Subset
<1>3. /\ IsFiniteSet(Upto(s, k, r[1]))
      /\ Cardinality(Upto(s, k, r[1])) <= Cardinality(After(s, k))
  BY <1>1, <1>2, FS_Subset
<1>4. Upto(s, k, r[1]) # {}
  <2>1. r[1] \in 1..Len(s)
    BY <1>1, RunsType
  <2>2. r[1] <= r[1]
    BY <2>1
  <2>3. QED BY <2>2 DEF Upto
<1>5. /\ Cardinality(After(s, k)) \in Nat /\ Cardinality(Upto(s, k, r[1])) \in Nat
      /\ Cardinality(Upto(s, k, r[1])) # 0
  BY <1>2, <1>3, <1>4, FS_CardinalityType, FS_EmptySet
<1>6. QED BY <1>2, <1>3, <1>5

\* The item pushed when no space is left is the last word.
LEMMA ListsLast ==
  ASSUME NEW X, NEW s \in Seq(X), NEW k, Begins(s, k), Strchr(s, k) = 0
  PROVE  Lists(X, s, k, Body(s, From(s), k))
<1> DEFINE w == <<k, Len(s)>>
<1>1. k \in 1..Len(s) /\ Len(s) \in Nat
  BY DEF Begins
<1>2. Body(s, From(s), k) = <<Word(s, w)>>
  BY DEF Body, Word
<1>3. Word(s, w) \in Seq(X)
  BY <1>1 DEF Word
<1>4. After(s, k) = {w}
  BY LastWord
<1>5. w[1] = k /\ k <= k
  BY <1>1
<1>6. Upto(s, k, k) = {w}
  BY <1>4, <1>5 DEF Upto
<1>7. Cardinality({w}) = 1
  BY FS_Singleton
<1> HIDE DEF w
<1> DEFINE T == <<Word(s, w)>>
<1>8. T \in Seq(Seq(X)) /\ Len(T) = 1 /\ T[1] = Word(s, w)
  BY <1>3
<1> HIDE DEF T
<1>9. Len(T) = Cardinality(After(s, k))
  BY <1>4, <1>7, <1>8
<1>10. \A r \in After(s, k) : T[Cardinality(Upto(s, k, r[1]))] = Word(s, r)
  BY <1>4, <1>5, <1>6, <1>7, <1>8
<1>11. Lists(X, s, k, T)
  BY <1>8, <1>9, <1>10 DEF Lists
<1>12. QED BY <1>2, <1>11 DEF T

\* The item pushed when a space is found is the next word.
LEMMA ListsMore ==
  ASSUME NEW X, NEW s \in Seq(X), NEW k, Begins(s, k), Strchr(s, k) # 0,
         NEW T, Lists(X, s, Next_(s, k), T)
  PROVE  Lists(X, s, k, <<Word(s, <<k, Strchr(s, k) - 1>>)>> \o T)
<1> DEFINE w == <<k, Strchr(s, k) - 1>>
           x == Next_(s, k)
           A == After(s, x)
           W == Word(s, w)
<1>1. /\ After(s, k) = {w} \cup A /\ w \notin A
      /\ x > k /\ x \in Nat
  BY FirstWord
<1>2. k \in 1..Len(s) /\ Len(s) \in Nat
  BY DEF Begins
<1>3. Strchr(s, k) \in k..Len(s)
  BY <1>2, NextLater
<1>4. w[1] = k /\ W \in Seq(X)
  BY <1>2, <1>3 DEF Word
<1>5. IsFiniteSet(A) /\ Cardinality(A) \in Nat
  <2>1. A \in SUBSET Runs(s)
    BY DEF After
  <2>2. QED BY <2>1, RunsType, FS_Subset, FS_CardinalityType
<1>6. Cardinality(After(s, k)) = Cardinality(A) + 1
  <2>1. After(s, k) = A \cup {w}
    BY <1>1
  <2> HIDE DEF A, w
  <2>2. Cardinality(A \cup {w}) = Cardinality(A) + 1
    BY <1>1, <1>5, FS_AddElement
  <2>3. QED BY <2>1, <2>2
<1>7. T \in Seq(Seq(X)) /\ Len(T) = Cardinality(A)
  BY DEF Lists
<1> HIDE DEF w, x, W
<1>8. /\ <<W>> \o T \in Seq(Seq(X)) /\ Len(<<W>> \o T) = Cardinality(A) + 1
      /\ (<<W>> \o T)[1] = W
      /\ \A i \in 1..Cardinality(A) : (<<W>> \o T)[i + 1] = T[i]
  BY <1>4, <1>5, <1>7
<1>9. ASSUME NEW r \in After(s, k)
      PROVE  (<<W>> \o T)[Cardinality(Upto(s, k, r[1]))] = Word(s, r)
  <2>1. CASE r = w
    <3>1. \A q \in A : q[1] >= x /\ q[1] \in Nat
      <4> SUFFICES ASSUME NEW q \in A PROVE q[1] >= x /\ q[1] \in Nat
        OBVIOUS
      <4>1. q \in Runs(s) /\ q[1] >= x
        BY DEF After
      <4>2. QED BY <4>1, RunsType
    <3>2. \A q \in A : ~ (q[1] <= k)
      BY <1>1, <1>2, <3>1
    <3>3. k <= k
      BY <1>2
    <3> HIDE DEF A
    <3>4. Upto(s, k, r[1]) = {w}
      BY <1>1, <1>4, <2>1, <3>2, <3>3 DEF Upto
    <3>5. Cardinality({w}) = 1
      BY FS_Singleton
    <3>6. QED BY <1>8, <2>1, <3>4, <3>5 DEF W
  <2>2. CASE r # w
    <3>1. r \in A
      BY <1>1, <2>2
    <3>2. r \in Runs(s) /\ r[1] >= x
      BY <3>1 DEF After
    <3>3. r[1] \in Nat
      BY <3>2, RunsType
    <3>4. k <= r[1]
      BY <1>1, <1>2, <3>2, <3>3
    <3>5. Upto(s, k, r[1]) = {w} \cup Upto(s, x, r[1])
      BY <1>1, <1>4, <3>4 DEF Upto
    <3>6. w \notin Upto(s, x, r[1])
      BY <1>1 DEF Upto
    <3>7. /\ IsFiniteSet(Upto(s, x, r[1]))
          /\ Cardinality(Upto(s, x, r[1])) \in 1..Cardinality(A)
      BY <3>1, UptoType
    <3>8. Cardinality(Upto(s, k, r[1])) = Cardinality(Upto(s, x, r[1])) + 1
      <4> DEFINE U == Upto(s, x, r[1])
      <4> HIDE DEF U
      <4>1. IsFiniteSet(U) /\ w \notin U /\ Upto(s, k, r[1]) = U \cup {w}
        BY <3>5, <3>6, <3>7 DEF U
      <4>2. Cardinality(U \cup {w}) = Cardinality(U) + 1
        BY <4>1, FS_AddElement
      <4>3. QED BY <4>1, <4>2 DEF U
    <3>9. T[Cardinality(Upto(s, x, r[1]))] = Word(s, r)
      BY <3>1 DEF Lists, x
    <3>10. QED BY <1>8, <3>7, <3>8, <3>9
  <2>3. QED BY <2>1, <2>2
<1>10. QED
  BY <1>6, <1>8, <1>9 DEF Lists, W, w

\* The items from the beginning of a word on are the words from there on.
LEMMA ItemsRight ==
  ASSUME NEW X, NEW s \in Seq(X), NEW i, Begins(s, i)
  PROVE  Lists(X, s, i, From(s)[i])
<1> DEFINE n == Len(s)
           Bad == {m \in 0..n : \E k \in 1..n : /\ m = n - k /\ Begins(s, k)
                                                /\ ~ Lists(X, s, k, From(s)[k])}
<1>1. n \in Nat /\ i \in 1..n
  BY DEF Begins
<1>2. Bad = {}
  <2> SUFFICES ASSUME Bad # {} PROVE FALSE
    OBVIOUS
  <2>1. Bad \in SUBSET Nat
    BY <1>1
  <2>2. PICK b \in Bad : \A m \in Bad : b <= m
    BY <2>1, Least
  <2>3. PICK k \in 1..n : b = n - k /\ Begins(s, k) /\ ~ Lists(X, s, k, From(s)[k])
    OBVIOUS
  <2>4. From(s)[k] = Body(s, From(s), k)
    BY <2>3, FromRight
  <2>5. CASE Strchr(s, k) = 0
    BY <2>3, <2>4, <2>5, ListsLast
  <2>6. CASE Strchr(s, k) # 0
    <3> DEFINE x == Next_(s, k)
               T == IF x > n THEN <<>> ELSE From(s)[x]
    <3>1. From(s)[k] = <<Word(s, <<k, Strchr(s, k) - 1>>)>> \o T
      BY <2>4, <2>6 DEF Body, Word
    <3>2. /\ x > n => After(s, x) = {}
          /\ x <= n => Begins(s, x)
          /\ x > k /\ x \in Nat
      BY <2>3, <2>6, FirstWord
    <3> HIDE DEF x
    <3>3. Lists(X, s, x, T)
      <4>1. CASE x > n
        <5>1. T = <<>> /\ After(s, x) = {} /\ Cardinality({}) = 0
          BY <3>2, <4>1, FS_EmptySet
        <5>2. T \in Seq(Seq(X)) /\ Len(T) = 0
          <6>1. <<>> \in Seq(Seq(X)) /\ Len(<<>>) = 0
            OBVIOUS
          <6>2. QED BY <5>1, <6>1
        <5> HIDE DEF T
        <5>3. QED BY <5>1, <5>2 DEF Lists
      <4>2. CASE ~ (x > n)
        <5>1. x \in 1..n /\ Begins(s, x) /\ n - x \in 0..n /\ ~ (b <= n - x)
          BY <1>1, <2>3, <3>2, <4>2
        <5>2. n - x \notin Bad
          BY <2>2, <5>1
        <5>3. Lists(X, s, x, From(s)[x])
          BY <5>1, <5>2
        <5>4. QED BY <4>2, <5>3
      <4>3. QED BY <4>1, <4>2
    <3> HIDE DEF T
    <3>4. Lists(X, s, k, From(s)[k])
      BY <2>3, <2>6, <3>1, <3>3, ListsMore DEF x
    <3>5. QED BY <2>3, <3>4
  <2>7. QED BY <2>5, <2>6
<1>3. n - i \in 0..n
  BY <1>1
<1>4. n - i \notin Bad
  BY <1>2
<1>5. QED
  BY <1>1, <1>3, <1>4

\* interp_eval pushes the words of the line, in order.
LEMMA TokensRight ==
  ASSUME NEW X, NEW s \in Seq(X)
  PROVE  /\ Tokens(s) \in Seq(Seq(X))
         /\ Len(Tokens(s)) = Cardinality(Runs(s))
         /\ \A r \in Runs(s) : /\ NumberOf(s, r) \in 1..Len(Tokens(s))
                               /\ Tokens(s)[NumberOf(s, r)] = Word(s, r)
<1> DEFINE i == Skip(s, 1)
<1>1. /\ Len(s) \in Nat /\ i \in 1..Len(s) + 1
      /\ \A k \in 1..i - 1 : s[k] = Space
      /\ i <= Len(s) => s[i] # Space
  BY SkipRight
<1> HIDE DEF i
<1>2. After(s, i) = Runs(s)
  <2>1. ASSUME NEW q \in Runs(s) PROVE q[1] >= i
    <3>1. q[1] \in 1..Len(s) /\ q[2] \in q[1]..Len(s) /\ \A k \in q[1]..q[2] : s[k] # Space
      BY RunsType
    <3>2. s[q[1]] # Space
      BY <1>1, <3>1
    <3>3. QED BY <1>1, <3>1, <3>2
  <2>2. QED BY <2>1 DEF After
<1>3. \A r : Upto(s, i, r[1]) = {q \in Runs(s) : q[1] <= r[1]}
  BY <1>2 DEF Upto
<1>4. CASE i > Len(s)
  <2>1. Runs(s) = {}
    <3> SUFFICES ASSUME NEW q \in Runs(s) PROVE FALSE
      OBVIOUS
    <3>1. q[1] \in 1..Len(s) /\ q[1] >= i
      BY <1>2, RunsType DEF After
    <3>2. QED BY <1>1, <1>4, <3>1
  <2>2. Tokens(s) = <<>>
    BY <1>4 DEF Tokens, i
  <2>3. QED BY <2>1, <2>2, FS_EmptySet
<1>5. CASE ~ (i > Len(s))
  <2>1. Begins(s, i)
    BY <1>1, <1>5 DEF Begins
  <2>2. Tokens(s) = From(s)[i]
    BY <1>5, ItemsFrom DEF Tokens, i
  <2>3. Lists(X, s, i, Tokens(s))
    BY <2>1, <2>2, ItemsRight
  <2>4. ASSUME NEW r \in Runs(s)
        PROVE  /\ NumberOf(s, r) = Cardinality(Upto(s, i, r[1]))
               /\ NumberOf(s, r) \in 1..Cardinality(Runs(s))
    BY <1>2, <1>3, UptoType DEF NumberOf
  <2>5. QED BY <1>2, <2>3, <2>4 DEF Lists
<1>6. QED BY <1>4, <1>5

\* What the user means by the words of a line s, and eval's arguments a.
AsTyped(s, a) ==
  /\ Len(a) = Cardinality(Runs(s))
  /\ \A r \in Runs(s) :
       LET word == Word(s, r)
           arg  == a[NumberOf(s, r)]
       IN  IF \E k \in DOMAIN word : ~IsDigit(word[k])
           THEN arg = String(word)
           ELSE arg.type = "number"
                /\ (Decimal(word) <= IntMax => arg.value = Decimal(word))

\* What becomes of one word.
LEMMA ItemRight ==
  ASSUME NEW word, NEW arg \in push_item(word)
  PROVE  IF \E k \in DOMAIN word : ~IsDigit(word[k])
         THEN arg = String(word)
         ELSE arg.type = "number"
              /\ (Decimal(word) <= IntMax => arg.value = Decimal(word))
<1>1. CASE \E k \in DOMAIN word : ~IsDigit(word[k])
  BY <1>1 DEF push_item
<1>2. CASE ~ \E k \in DOMAIN word : ~IsDigit(word[k])
  <2>1. PICK n \in atoi(word) : arg = Number(n)
    BY <1>2 DEF push_item
  <2>2. arg.type = "number" /\ arg.value = n
    BY <2>1 DEF Number
  <2>3. Decimal(word) <= IntMax => n = Decimal(word)
    BY <2>1 DEF atoi
  <2>4. QED BY <1>2, <2>2, <2>3
<1>3. QED BY <1>1, <1>2

\* The arguments pushed for a line are those the user typed.
LEMMA ArgumentsRight ==
  ASSUME NEW X, NEW s \in Seq(X), NEW a \in Arguments(s)
  PROVE  AsTyped(s, a)
<1> DEFINE T == Tokens(s)
           P == UNION {push_item(T[i]) : i \in DOMAIN T}
<1>1. /\ T \in Seq(Seq(X)) /\ Len(T) = Cardinality(Runs(s))
      /\ \A r \in Runs(s) : NumberOf(s, r) \in 1..Len(T) /\ T[NumberOf(s, r)] = Word(s, r)
  BY TokensRight
<1>2. a \in [DOMAIN T -> P] /\ \A i \in DOMAIN a : a[i] \in push_item(T[i])
  BY DEF Arguments
<1> HIDE DEF T, P
<1>3. DOMAIN T = 1..Len(T) /\ Len(T) \in Nat
  BY <1>1
<1>4. a \in Seq(P) /\ Len(a) = Len(T) /\ DOMAIN a = 1..Len(T)
  <2>1. a \in [1..Len(T) -> P]
    BY <1>2, <1>3
  <2>2. QED BY <1>3, <2>1
<1>5. \A r \in Runs(s) : a[NumberOf(s, r)] \in push_item(Word(s, r))
  BY <1>1, <1>2, <1>4
<1>6. QED
  BY <1>1, <1>4, <1>5, ItemRight DEF AsTyped

\* No words, no arguments.
LEMMA NoWords ==
  ASSUME NEW X, NEW s \in Seq(X), Tokens(s) = <<>>
  PROVE  AsTyped(s, <<>>)
<1>1. Len(<<>>) = Cardinality(Runs(s)) /\ Len(<<>>) = 0
  BY TokensRight
<1>2. \A r \in Runs(s) : NumberOf(s, r) \in 1..Len(<<>>)
  BY TokensRight
<1>3. QED
  BY <1>1, <1>2 DEF AsTyped

\* What load_file and save_file tell the user: nothing if they did what they
\* are for, else a message.
Told(op) ==
  /\ phase' = "running"
  /\ outcome'.op = op
  /\ \/ status' = "" /\ outcome'.ok = TRUE
     \/ status' # "" /\ outcome'.ok = FALSE

\* What Did leaves.
LEMMA DidRight ==
  ASSUME NEW op, NEW ok, NEW text, Did(op, ok, text)
  PROVE  outcome'.op = op /\ outcome'.ok = ok
BY DEF Did

\* load_file ends with a message, or with the file loaded.
LEMMA LoadTells ==
  ASSUME NEW f, NEW fault, load_file(f, fault)
  PROVE  Told("load")
<1>1. phase = "running" /\ phase' = phase
  BY DEF load_file
<1>2. ASSUME NEW s, interp_load(s) PROVE Told("load")
  <2>1. PICK msg : msg \in {"", "inconsistent", "bad input"} /\ set_status(msg)
                   /\ Did("load", msg = "", s)
    BY <1>2 DEF interp_load
  <2>2. outcome'.op = "load" /\ outcome'.ok = (msg = "") /\ status' = msg
    BY <2>1, DidRight DEF set_status
  <2>3. CASE msg = ""
    BY <1>1, <2>2, <2>3 DEF Told
  <2>4. CASE msg # ""
    BY <1>1, <2>2, <2>4 DEF Told
  <2>5. QED BY <2>3, <2>4
<1>3. ASSUME NEW msg \in {"failed to open file", "failed to read file"}, set_status(msg),
             Did("load", FALSE, Nil)
      PROVE  Told("load")
  BY <1>1, <1>3, DidRight DEF Told, set_status
<1>4. CASE files[f] = Nil \/ fault = "open"
  BY <1>3, <1>4 DEF load_file
<1>5. CASE ~ (files[f] = Nil \/ fault = "open") /\ fault = "read"
  BY <1>3, <1>5 DEF load_file
<1>6. CASE ~ (files[f] = Nil \/ fault = "open") /\ fault # "read"
  BY <1>2, <1>6 DEF load_file
<1>7. QED BY <1>4, <1>5, <1>6

\* save_file ends with a message, or with the file saved, or crashes.
LEMMA SaveTells ==
  ASSUME NEW f, NEW fault, fault # "write", save_file(f, fault)
  PROVE  \/ Told("save") /\ it # Nil
         \/ it = Nil /\ phase' = "crashed" /\ UNCHANGED <<status, outcome, line, args>>
<1>1. CASE it = Nil
  BY <1>1 DEF save_file
<1>2. CASE it # Nil
  <2>1. phase = "running" /\ phase' = phase
    BY <1>2 DEF save_file
  <2>2. CASE fault = "open"
    <3>1. set_status("failed to open file") /\ Did("save", FALSE, Nil)
      BY <1>2, <2>2 DEF save_file
    <3>2. outcome'.op = "save" /\ outcome'.ok = FALSE
      BY <3>1, DidRight
    <3>3. QED BY <1>2, <2>1, <3>1, <3>2 DEF Told, set_status
  <2>3. CASE fault # "open"
    <3>1. set_status("") /\ Did("save", fault # "write", files'[f])
      BY <1>2, <2>3 DEF save_file
    <3>2. outcome'.op = "save" /\ outcome'.ok = TRUE
      BY <3>1, DidRight
    <3>3. QED BY <1>2, <2>1, <3>1, <3>2 DEF Told, set_status
  <2>4. QED BY <2>2, <2>3
<1>3. QED BY <1>1, <1>2

\* Nothing of a command line is lost or misread: whatever the user types, and
\* wherever the spaces are, eval receives its words in order, and a number that
\* an int can hold as that number (interp_eval and push_item).
THEOREM LinesReadRight == Spec => []ArgsAsTyped
<1>1. ArgsAsTyped <=> (outcome.op = "eval" => AsTyped(line, args))
  BY DEF ArgsAsTyped, AsTyped
<1>2. Init => ArgsAsTyped
  <2> SUFFICES ASSUME Init PROVE ArgsAsTyped
    OBVIOUS
  <2>1. outcome.op = "none"
    BY DEF Init
  <2>2. QED BY <1>1, <2>1
<1>3. ArgsAsTyped /\ [Next]_vars => ArgsAsTyped'
  <2> SUFFICES ASSUME ArgsAsTyped, [Next]_vars, outcome'.op = "eval"
               PROVE  AsTyped(line', args')
    BY DEF ArgsAsTyped, AsTyped
  <2>1. ASSUME NEW s \in Lines, entry_callback(s)
        PROVE  AsTyped(line', args')
    <3>1. line' = s /\ s \in Seq(Range(s))
      BY <2>1, LinesAssumption DEF entry_callback
    <3>2. CASE Tokens(s) = <<>>
      BY <2>1, <3>1, <3>2, NoWords DEF entry_callback
    <3>3. CASE Tokens(s) # <<>>
      <4>1. args' \in Arguments(s)
        BY <2>1, <3>3 DEF entry_callback
      <4>2. QED BY <3>1, <4>1, ArgumentsRight
    <3>4. QED BY <3>2, <3>3
  <2>2. CASE UNCHANGED <<line, args, outcome>>
    BY <1>1, <2>2 DEF AsTyped
  <2>3. CASE interp_init
    BY <2>2, <2>3 DEF interp_init
  <2>4. ASSUME NEW f \in FileNames, NEW fault, load_file(f, fault)
        PROVE  FALSE
    BY <2>4, LoadTells DEF Told
  <2>5. ASSUME NEW f \in FileNames, NEW fault, save_file(f, fault)
        PROVE  AsTyped(line', args')
    <3>1. outcome'.op = "save" \/ UNCHANGED <<outcome, line, args>>
      <4>1. CASE it = Nil
        BY <2>5, <4>1 DEF save_file
      <4>2. CASE it # Nil
        <5>1. PICK ok, text : Did("save", ok, text)
          BY <2>5, <4>2 DEF save_file
        <5>2. QED BY <5>1, DidRight
      <4>3. QED BY <4>1, <4>2
    <3>2. QED BY <2>2, <3>1
  <2>6. QED
    BY <2>1, <2>2, <2>3, <2>4, <2>5 DEF Next, vars
<1>4. QED
  BY <1>2, <1>3, PTL DEF Spec

-----------------------------------------------------------------------------
\* The status line tells the truth about the last load or save, if no write
\* fails (save_file does not look at what fputs and fclose return), whatever
\* else goes wrong with a file, and whatever was shown before.
THEOREM StatusTellsTruth ==
  ASSUME "write" \notin Faults
  PROVE  Spec => []StatusCurrent
<1> DEFINE StatusInv == /\ phase = "starting" => outcome.op = "none"
                        /\ StatusCurrent
<1>1. Init => StatusInv
  <2> SUFFICES ASSUME Init PROVE StatusInv
    OBVIOUS
  <2>1. phase = "starting" /\ outcome.op = "none"
    BY DEF Init
  <2>2. QED BY <2>1 DEF StatusCurrent
<1>2. StatusInv /\ [Next]_vars => StatusInv'
  <2> SUFFICES ASSUME StatusInv, [Next]_vars PROVE StatusInv'
    OBVIOUS
  <2>1. ASSUME NEW s \in Lines, entry_callback(s) PROVE StatusInv'
    <3>1. phase' = "running" /\ outcome'.op = "eval"
      BY <2>1 DEF entry_callback
    <3>2. QED BY <3>1 DEF StatusCurrent
  <2>2. CASE UNCHANGED <<status, outcome>> /\ (phase' = phase \/ phase' = "crashed")
    BY <2>2 DEF StatusCurrent
  <2>3. CASE interp_init
    <3>1. outcome'.op = "none" /\ phase' # "starting"
      BY <2>3 DEF interp_init
    <3>2. QED BY <3>1 DEF StatusCurrent
  <2>4. ASSUME NEW f \in FileNames, NEW fault, load_file(f, fault)
        PROVE  StatusInv'
    <3>1. Told("load")
      BY <2>4, LoadTells
    <3>2. QED BY <3>1 DEF Told, StatusCurrent
  <2>5. ASSUME NEW f \in FileNames, NEW fault, fault # "write", save_file(f, fault)
        PROVE  StatusInv'
    <3>1. \/ Told("save")
          \/ phase' = "crashed" /\ UNCHANGED <<status, outcome>>
      BY <2>5, SaveTells
    <3>2. QED BY <2>2, <3>1 DEF Told, StatusCurrent
  <2>6. CASE UNCHANGED vars
    BY <2>2, <2>6 DEF vars
  <2>7. QED
    BY <2>1, <2>3, <2>4, <2>5, <2>6 DEF Next
<1>3. QED
  BY <1>1, <1>2, PTL DEF Spec
=============================================================================
