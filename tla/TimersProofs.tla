---------------------------- MODULE TimersProofs ----------------------------
(***************************************************************************)
(* Theorems about Timers, for any timers, connections and calls, and any   *)
(* room in the heap.  The functions of the heap are recursive; what they   *)
(* do to the array is proved from the turn that each of them begins with,  *)
(* by the existence of a least counterexample.                             *)
(***************************************************************************)
EXTENDS Timers, SequenceTheorems, FiniteSetTheorems, WellFoundedInduction, TLAPS

\* Induction over the natural numbers, as the existence of a least element.
LEMMA Least ==
    ASSUME NEW S \in SUBSET Nat, S # {}
    PROVE  \E k \in S : \A l \in S : k <= l
<1> DEFINE R == OpToRel(<, Nat)
<1>1. IsWellFoundedOn(R, Nat)
  BY NatLessThanWellFounded
<1>2. R = {ss \in Nat \X Nat : ss[1] < ss[2]}
  BY DEF OpToRel
<1> HIDE DEF R
<1>3. PICK k \in S : \A l \in S : ~ (<<l, k>> \in R)
  BY <1>1, WFMin
<1>4. ASSUME NEW l \in S PROVE k <= l
  <2>1. <<l, k>> \in Nat \X Nat /\ ~ (<<l, k>> \in R)
    BY <1>3
  <2>2. ~ (l < k)
    BY <1>2, <2>1
  <2> QED BY <2>2
<1> QED BY <1>4

\* f answers for an argument x in go as for next[x], and last[x] for the others.
Solves(f, D, go, next, last) ==
    \A x \in D : f[x] = IF x \in go THEN f[next[x]] ELSE last[x]

\* Each next argument has a smaller measure.
Shrinks(D, go, next, meas, top) ==
    /\ meas \in [D -> 0 .. top]
    /\ next \in [D -> D]
    /\ \A x \in go : x \in D /\ meas[next[x]] < meas[x]

\* A function that calls itself at most once, and then with an argument of a
\* lesser measure m, exists: of the numbers n for which there is none for the
\* arguments of measures up to n, there is no least one.
LEMMA Recursion ==
    ASSUME NEW D, NEW go, NEW top \in Nat, NEW meas, NEW next, NEW last,
           Shrinks(D, go, next, meas, top)
    PROVE  \E f : f = [x \in D |-> f[x]] /\ Solves(f, D, go, next, last)
<1>a. /\ meas \in [D -> 0 .. top]
      /\ next \in [D -> D]
      /\ \A x \in go : x \in D /\ meas[next[x]] < meas[x]
  BY DEF Shrinks
<1> DEFINE Upto(k) == \E f : \A x \in D :
                          meas[x] <= k => f[x] = IF x \in go THEN f[next[x]] ELSE last[x]
<1>1. Upto(0)
  <2>1. \A x \in D : meas[x] <= 0 => x \notin go
    <3>1. ASSUME NEW x \in D, meas[x] <= 0, x \in go PROVE FALSE
      <4>1. meas[next[x]] \in 0 .. top /\ meas[x] \in 0 .. top /\ meas[next[x]] < meas[x]
        BY <1>a, <3>1
      <4> QED BY <3>1, <4>1
    <3> QED BY <3>1
  <2> QED BY <2>1
<1>2. ASSUME NEW k \in Nat, Upto(k) PROVE Upto(k + 1)
  <2>1. PICK f : \A x \in D : meas[x] <= k => f[x] = IF x \in go THEN f[next[x]] ELSE last[x]
    BY <1>2
  <2> DEFINE g == [x \in D |-> IF x \in go THEN f[next[x]] ELSE last[x]]
  <2>2. ASSUME NEW x \in D, meas[x] <= k + 1
        PROVE  g[x] = IF x \in go THEN g[next[x]] ELSE last[x]
    <3>1. CASE x \in go
      <4>1. next[x] \in D /\ meas[next[x]] <= k
        <5>1. next[x] \in D /\ meas[next[x]] < meas[x] /\ meas[next[x]] \in 0 .. top /\ meas[x] \in 0 .. top
          BY <1>a, <3>1
        <5> QED BY <2>2, <5>1
      <4>2. f[next[x]] = g[next[x]]
        BY <2>1, <4>1
      <4> QED BY <3>1, <4>2
    <3>2. CASE x \notin go
      BY <3>2
    <3> QED BY <3>1, <3>2
  <2> HIDE DEF g
  <2> QED BY <2>2
<1> HIDE DEF Upto
<1>3. Upto(top)
  <2> SUFFICES ASSUME ~ Upto(top) PROVE FALSE
    OBVIOUS
  <2> DEFINE S == {k \in Nat : ~ Upto(k)}
  <2>1. PICK k \in S : \A l \in S : k <= l
    BY Least
  <2>2. k \in Nat /\ ~ Upto(k) /\ k # 0
    BY <1>1
  <2>3. k - 1 \in Nat /\ (k - 1) + 1 = k /\ ~ (k <= k - 1)
    BY <2>2
  <2>4. Upto(k - 1)
    BY <2>1, <2>3
  <2> QED BY <1>2, <2>2, <2>3, <2>4
<1>4. PICK f : \A x \in D : f[x] = IF x \in go THEN f[next[x]] ELSE last[x]
  <2>1. \A x \in D : meas[x] <= top
    BY <1>a
  <2> QED BY <1>3, <2>1 DEF Upto
<1> DEFINE g == [x \in D |-> f[x]]
<1>5. \A x \in D : g[x] = f[x]
  OBVIOUS
<1>b. g = [x \in D |-> g[x]]
  OBVIOUS
<1>6. \A x \in go : next[x] \in D
  BY <1>a
<1> HIDE DEF g
<1>7. \A x \in D : g[x] = IF x \in go THEN g[next[x]] ELSE last[x]
  BY <1>4, <1>5, <1>6
<1> QED BY <1>b, <1>7 DEF Solves


-----------------------------------------------------------------------------
(* The functions of the heap.                                              *)

\* The arrays that heapify_up and heapify_down come through.
Arrays(n, R) == [1 .. n -> R]

LEMMA ArrayFacts ==
    ASSUME NEW S, NEW h \in Seq(S)
    PROVE  /\ Len(h) \in Nat
           /\ h \in Arrays(Len(h), Nodes(h))
           /\ \A g \in Arrays(Len(h), Nodes(h)) : g \in Seq(S) /\ Len(g) = Len(h)
<1>1. Len(h) \in Nat /\ h \in [1 .. Len(h) -> S]
  BY LenProperties
<1>2. h \in Arrays(Len(h), Nodes(h))
  BY <1>1 DEF Arrays, Nodes
<1>3. Nodes(h) \subseteq S
  BY <1>1 DEF Nodes
<1>4. ASSUME NEW g \in Arrays(Len(h), Nodes(h)) PROVE g \in Seq(S) /\ Len(g) = Len(h)
  <2>1. g \in [1 .. Len(h) -> S]
    BY <1>3 DEF Arrays
  <2>2. g \in Seq(S)
    BY <1>1, <2>1, IsASeq
  <2>3. DOMAIN g = 1 .. Len(h)
    BY <2>1
  <2> QED BY <1>1, <2>2, <2>3, LenProperties
<1> QED BY <1>1, <1>2, <1>4

LEMMA NodesOf == \A h, x : x \in Nodes(h) <=> \E c \in 1 .. Len(h) : x = h[c]
BY DEF Nodes

LEMMA SwapFacts ==
    ASSUME NEW S, NEW h \in Seq(S), NEW a \in 1 .. Len(h), NEW b \in 1 .. Len(h)
    PROVE  /\ Swap(h, a, b) \in Seq(S)
           /\ Len(Swap(h, a, b)) = Len(h)
           /\ Nodes(Swap(h, a, b)) = Nodes(h)
           /\ \A c \in 1 .. Len(h) :
                Swap(h, a, b)[c] = h[IF c = a THEN b ELSE IF c = b THEN a ELSE c]
<1>1. Len(h) \in Nat /\ h \in [1 .. Len(h) -> S]
  BY LenProperties
<1> DEFINE g == Swap(h, a, b)
           p(c) == IF c = a THEN b ELSE IF c = b THEN a ELSE c
<1>2. g \in [1 .. Len(h) -> S] /\ \A c \in 1 .. Len(h) : g[c] = h[p(c)]
  BY <1>1 DEF Swap
<1>3. g \in Seq(S)
  BY <1>1, <1>2, IsASeq
<1>4. Len(g) = Len(h)
  <2>1. DOMAIN g = 1 .. Len(h)
    BY <1>2
  <2> HIDE DEF g
  <2> QED BY <1>1, <1>3, <2>1, LenProperties
<1>5. Nodes(g) = Nodes(h)
  <2>1. \A c \in 1 .. Len(h) : \E d \in 1 .. Len(h) : h[c] = g[d]
    <3>1. \A c \in 1 .. Len(h) : p(c) \in 1 .. Len(h) /\ h[c] = g[p(c)]
      BY <1>2
    <3> HIDE DEF g, p
    <3> QED BY <3>1
  <2>2. \A c \in 1 .. Len(h) : \E d \in 1 .. Len(h) : g[c] = h[d]
    <3>1. \A c \in 1 .. Len(h) : p(c) \in 1 .. Len(h)
      OBVIOUS
    <3> HIDE DEF g, p
    <3> QED BY <1>2, <3>1
  <2> HIDE DEF g
  <2>3. 1 .. Len(g) = 1 .. Len(h)
    BY <1>4
  <2>4. Nodes(g) \subseteq Nodes(h)
    <3>1. ASSUME NEW x \in Nodes(g) PROVE x \in Nodes(h)
      <4>1. PICK c \in 1 .. Len(g) : x = g[c]
        BY NodesOf
      <4>2. PICK d \in 1 .. Len(h) : x = h[d]
        BY <2>2, <2>3, <4>1
      <4> QED BY <4>2, NodesOf
    <3> QED BY <3>1
  <2>5. Nodes(h) \subseteq Nodes(g)
    <3>1. ASSUME NEW x \in Nodes(h) PROVE x \in Nodes(g)
      <4>1. PICK c \in 1 .. Len(h) : x = h[c]
        BY NodesOf
      <4>2. PICK d \in 1 .. Len(g) : x = g[d]
        BY <2>1, <2>3, <4>1
      <4> QED BY <4>2, NodesOf
    <3> QED BY <3>1
  <2> QED BY <2>4, <2>5
<1> HIDE DEF g
<1> QED BY <1>2, <1>3, <1>4, <1>5 DEF g

\* heapify_up is its first turn and heapify_up from there.
UpTurn(up, key, x) ==
    IF x[2] > 1 /\ Less(key, x[1], x[2], Parent(x[2]))
      THEN up[<<Swap(x[1], x[2], Parent(x[2])), Parent(x[2])>>]
      ELSE x[1]

UpFunction(n, R, key) ==
    CHOOSE up : up = [x \in Arrays(n, R) \X (0 .. n) |-> UpTurn(up, key, x)]

LEMMA UpIsFunction ==
    \A h, key, j : HeapifyUp(h, key, j) = UpFunction(Len(h), Nodes(h), key)[<<h, j>>]
BY DEF HeapifyUp, UpFunction, UpTurn, Arrays

LEMMA UpRecursion ==
    ASSUME NEW n \in Nat, NEW R, NEW key
    PROVE  \A x \in Arrays(n, R) \X (0 .. n) :
               UpFunction(n, R, key)[x] = UpTurn(UpFunction(n, R, key), key, x)
<1> DEFINE D == Arrays(n, R) \X (0 .. n)
           Go(x) == x[2] > 1 /\ Less(key, x[1], x[2], Parent(x[2]))
           Then(x) == <<Swap(x[1], x[2], Parent(x[2])), Parent(x[2])>>
           go == {x \in D : Go(x)}
           next == [x \in D |-> IF x \in go THEN Then(x) ELSE x]
           m == [x \in D |-> x[2]]
           last == [x \in D |-> x[1]]
<1>1. \A x \in D : x[1] \in [1 .. n -> R] /\ x[2] \in 0 .. n
  BY DEF Arrays
<1>2. m \in [D -> 0 .. n]
  BY <1>1
<1>3. ASSUME NEW x \in D, Go(x) PROVE Then(x) \in D /\ Parent(x[2]) < x[2] 
  <2>1. x[2] \in 1 .. n /\ Parent(x[2]) \in 1 .. n /\ Parent(x[2]) < x[2]
    BY <1>1, <1>3 DEF Parent
  <2>2. Swap(x[1], x[2], Parent(x[2])) \in [1 .. n -> R]
    BY <1>1, <2>1 DEF Swap
  <2> QED BY <2>1, <2>2 DEF Arrays
<1> HIDE DEF D, Go, Then
<1>4. next \in [D -> D]
  BY <1>3
<1>5. \A x \in go : m[next[x]] < m[x]
  BY <1>3 DEF Then
<1>6. PICK f : f = [x \in D |-> f[x]] /\ Solves(f, D, go, next, last)
  <2>1. Shrinks(D, go, next, m, n)
    BY <1>2, <1>4, <1>5 DEF Shrinks
  <2> HIDE DEF next, m, last, go
  <2> QED BY <2>1, Recursion
<1>7. f = [x \in D |-> UpTurn(f, key, x)]
  <2>1. \A x \in D : f[x] = UpTurn(f, key, x)
    BY <1>6 DEF Solves, UpTurn, Go, Then
  <2>2. f = [x \in D |-> f[x]]
    BY <1>6
  <2> HIDE DEF go, next, m, last
  <2> QED BY <2>1, <2>2
<1>8. \E g : g = [x \in D |-> UpTurn(g, key, x)]
  BY <1>7
<1> DEFINE F == UpFunction(n, R, key)
<1>9. F = [x \in D |-> UpTurn(F, key, x)]
  BY <1>8 DEF UpFunction, D
<1> HIDE DEF F
<1>10. \A x \in D : F[x] = UpTurn(F, key, x)
  BY <1>9
<1> QED BY <1>10 DEF F, D

LEMMA LeastOfFacts ==
    ASSUME NEW S, NEW h \in Seq(S), NEW key, NEW a \in 1 .. Len(h) + 1, LeastOf(h, key, a) # a
    PROVE  LeastOf(h, key, a) \in 1 .. Len(h) /\ a < LeastOf(h, key, a) /\ a \in 1 .. Len(h)
<1>1. Len(h) \in Nat /\ a \in Nat /\ a >= 1
  BY LenProperties
<1> DEFINE n == Len(h)
           l == IF Left(a) <= n /\ Less(key, h, Left(a), a) THEN Left(a) ELSE a
<1>2. LeastOf(h, key, a) = IF Right(a) <= n /\ Less(key, h, Right(a), l) THEN Right(a) ELSE l
  BY DEF LeastOf
<1>3. LeastOf(h, key, a) \in {a, Left(a), Right(a)}
      /\ (LeastOf(h, key, a) # a => LeastOf(h, key, a) <= n)
  BY <1>2
<1> HIDE DEF n, l
<1>4. \/ LeastOf(h, key, a) = 2 * a /\ 2 * a <= Len(h)
      \/ LeastOf(h, key, a) = 2 * a + 1 /\ 2 * a + 1 <= Len(h)
  BY <1>3 DEF n, Left, Right
<1> QED BY <1>1, <1>4

\* heapify_down is its first call and heapify_down from there.
DownTurn(down, key, x) ==
    IF LeastOf(x[1], key, x[2]) # x[2]
      THEN down[<<Swap(x[1], x[2], LeastOf(x[1], key, x[2])), LeastOf(x[1], key, x[2])>>]
      ELSE x[1]

DownFunction(n, R, key) ==
    CHOOSE down : down = [x \in Arrays(n, R) \X (1 .. n + 1) |-> DownTurn(down, key, x)]

LEMMA DownIsFunction ==
    \A h, key, j : HeapifyDown(h, key, j) = DownFunction(Len(h), Nodes(h), key)[<<h, j>>]
BY DEF HeapifyDown, DownFunction, DownTurn, Arrays

LEMMA DownRecursion ==
    ASSUME NEW n \in Nat, NEW R, NEW key
    PROVE  \A x \in Arrays(n, R) \X (1 .. n + 1) :
               DownFunction(n, R, key)[x] = DownTurn(DownFunction(n, R, key), key, x)
<1> DEFINE D == Arrays(n, R) \X (1 .. n + 1)
           Go(x) == LeastOf(x[1], key, x[2]) # x[2]
           Then(x) == <<Swap(x[1], x[2], LeastOf(x[1], key, x[2])), LeastOf(x[1], key, x[2])>>
           go == {x \in D : Go(x)}
           next == [x \in D |-> IF x \in go THEN Then(x) ELSE x]
           m == [x \in D |-> n + 1 - x[2]]
           last == [x \in D |-> x[1]]
<1>1. \A x \in D : x[1] \in [1 .. n -> R] /\ x[2] \in 1 .. n + 1
  BY DEF Arrays
<1>2. m \in [D -> 0 .. n]
  <2>1. \A x \in D : n + 1 - x[2] \in 0 .. n
    BY <1>1
  <2> HIDE DEF D
  <2> QED BY <2>1
<1>3. ASSUME NEW x \in D, Go(x)
      PROVE  Then(x) \in D /\ Then(x)[2] = LeastOf(x[1], key, x[2])
             /\ LeastOf(x[1], key, x[2]) \in 1 .. n /\ x[2] < LeastOf(x[1], key, x[2])
  <2> DEFINE g == x[1]
             a == x[2]
             b == LeastOf(g, key, a)
  <2>1. g \in [1 .. n -> R] /\ a \in 1 .. n + 1
    BY <1>1
  <2>2. g \in Seq(R) /\ Len(g) = n
    <3> HIDE DEF g
    <3>1. g \in Seq(R)
      BY <2>1, IsASeq
    <3>2. DOMAIN g = 1 .. n
      BY <2>1
    <3> QED BY <3>1, <3>2, LenProperties
  <2>3. b # a
    BY <1>3
  <2>4. b \in 1 .. n /\ a < b /\ a \in 1 .. n
    <3> HIDE DEF g, a
    <3> QED BY <2>1, <2>2, <2>3, LeastOfFacts
  <2>5. Swap(g, a, b) \in [1 .. n -> R]
    <3> HIDE DEF g, a, b
    <3> QED BY <2>1, <2>4 DEF Swap
  <2>6. Then(x) = <<Swap(g, a, b), b>>
    OBVIOUS
  <2> HIDE DEF g, a, b, Then
  <2>7. <<Swap(g, a, b), b>> \in D
    BY <2>4, <2>5 DEF Arrays
  <2> QED BY <2>4, <2>6, <2>7 DEF g, a, b
<1>4. next \in [D -> D]
  <2>1. \A x \in go : Then(x) \in D
    BY <1>3
  <2> HIDE DEF D, Then
  <2> QED BY <2>1
<1>5. \A x \in go : m[next[x]] < m[x]
  <2>1. ASSUME NEW x \in go PROVE m[next[x]] < m[x]
    <3>1. x \in D /\ Go(x)
      OBVIOUS
    <3>2. next[x] \in D /\ next[x] = Then(x)
      BY <1>4, <3>1
    <3>3. m[next[x]] = n + 1 - Then(x)[2] /\ m[x] = n + 1 - x[2]
      <4> HIDE DEF D, Then, next
      <4> QED BY <3>1, <3>2
    <3>4. Then(x)[2] \in 1 .. n /\ x[2] < Then(x)[2] /\ x[2] \in 1 .. n + 1
      <4> HIDE DEF D, Then, Go
      <4> QED BY <1>1, <1>3, <3>1
    <3> HIDE DEF Then, m, next, D, Go
    <3> QED BY <3>3, <3>4
  <2> QED BY <2>1
<1> HIDE DEF D, Go, Then
<1>6. PICK f : f = [x \in D |-> f[x]] /\ Solves(f, D, go, next, last)
  <2>1. Shrinks(D, go, next, m, n)
    BY <1>2, <1>4, <1>5 DEF Shrinks
  <2> HIDE DEF next, m, last, go
  <2> QED BY <2>1, Recursion
<1>7. f = [x \in D |-> DownTurn(f, key, x)]
  <2>1. \A x \in D : f[x] = DownTurn(f, key, x)
    BY <1>6 DEF Solves, DownTurn, Go, Then
  <2>2. f = [x \in D |-> f[x]]
    BY <1>6
  <2> HIDE DEF go, next, m, last
  <2> QED BY <2>1, <2>2
<1>8. \E g : g = [x \in D |-> DownTurn(g, key, x)]
  BY <1>7
<1> DEFINE F == DownFunction(n, R, key)
<1>9. F = [x \in D |-> DownTurn(F, key, x)]
  BY <1>8 DEF DownFunction, D
<1> HIDE DEF F
<1>10. \A x \in D : F[x] = DownTurn(F, key, x)
  BY <1>9
<1> QED BY <1>10 DEF F, D

LEMMA UpUnfolds ==
    ASSUME NEW S, NEW h \in Seq(S), NEW key, NEW j \in 0 .. Len(h)
    PROVE  HeapifyUp(h, key, j) =
               IF j > 1 /\ Less(key, h, j, Parent(j))
                 THEN HeapifyUp(Swap(h, j, Parent(j)), key, Parent(j))
                 ELSE h
<1> DEFINE F == UpFunction(Len(h), Nodes(h), key)
           g == Swap(h, j, Parent(j))
<1>1. Len(h) \in Nat /\ h \in Arrays(Len(h), Nodes(h))
  BY ArrayFacts
<1>2. <<h, j>> \in Arrays(Len(h), Nodes(h)) \X (0 .. Len(h))
  BY <1>1
<1>3. F[<<h, j>>] = IF j > 1 /\ Less(key, h, j, Parent(j)) THEN F[<<g, Parent(j)>>] ELSE h
  <2>1. F[<<h, j>>] = UpTurn(F, key, <<h, j>>)
    BY <1>1, <1>2, UpRecursion
  <2>2. UpTurn(F, key, <<h, j>>) = IF j > 1 /\ Less(key, h, j, Parent(j)) THEN F[<<g, Parent(j)>>] ELSE h
    BY DEF UpTurn
  <2> QED BY <2>1, <2>2
<1>4. HeapifyUp(h, key, j) = F[<<h, j>>]
  BY UpIsFunction
<1>5. ASSUME j > 1 PROVE HeapifyUp(g, key, Parent(j)) = F[<<g, Parent(j)>>]
  <2>1. j \in 1 .. Len(h) /\ Parent(j) \in 1 .. Len(h)
    BY <1>1, <1>5 DEF Parent
  <2>2. Len(g) = Len(h) /\ Nodes(g) = Nodes(h)
    BY <2>1, SwapFacts
  <2>3. HeapifyUp(g, key, Parent(j)) = UpFunction(Len(g), Nodes(g), key)[<<g, Parent(j)>>]
    BY UpIsFunction
  <2> QED BY <2>2, <2>3
<1> HIDE DEF F, g
<1>6. HeapifyUp(h, key, j) =
          IF j > 1 /\ Less(key, h, j, Parent(j)) THEN HeapifyUp(g, key, Parent(j)) ELSE h
  BY <1>3, <1>4, <1>5
<1> QED BY <1>6 DEF g

LEMMA DownUnfolds ==
    ASSUME NEW S, NEW h \in Seq(S), NEW key, NEW j \in 1 .. Len(h) + 1
    PROVE  HeapifyDown(h, key, j) =
               IF LeastOf(h, key, j) # j
                 THEN HeapifyDown(Swap(h, j, LeastOf(h, key, j)), key, LeastOf(h, key, j))
                 ELSE h
<1> DEFINE F == DownFunction(Len(h), Nodes(h), key)
           b == LeastOf(h, key, j)
           g == Swap(h, j, b)
<1>1. Len(h) \in Nat /\ h \in Arrays(Len(h), Nodes(h))
  BY ArrayFacts
<1>2. <<h, j>> \in Arrays(Len(h), Nodes(h)) \X (1 .. Len(h) + 1)
  BY <1>1
<1>3. F[<<h, j>>] = IF b # j THEN F[<<g, b>>] ELSE h
  <2>1. F[<<h, j>>] = DownTurn(F, key, <<h, j>>)
    BY <1>1, <1>2, DownRecursion
  <2>2. DownTurn(F, key, <<h, j>>) = IF b # j THEN F[<<g, b>>] ELSE h
    BY DEF DownTurn
  <2> QED BY <2>1, <2>2
<1>4. HeapifyDown(h, key, j) = F[<<h, j>>]
  BY DownIsFunction
<1>5. ASSUME b # j PROVE HeapifyDown(g, key, b) = F[<<g, b>>]
  <2>1. j \in 1 .. Len(h) /\ b \in 1 .. Len(h)
    BY <1>5, LeastOfFacts
  <2>2. Len(g) = Len(h) /\ Nodes(g) = Nodes(h)
    <3> HIDE DEF b
    <3> QED BY <2>1, SwapFacts
  <2>3. HeapifyDown(g, key, b) = DownFunction(Len(g), Nodes(g), key)[<<g, b>>]
    BY DownIsFunction
  <2> QED BY <2>2, <2>3
<1> HIDE DEF F, g, b
<1>6. HeapifyDown(h, key, j) = IF b # j THEN HeapifyDown(g, key, b) ELSE h
  BY <1>3, <1>4, <1>5
<1> QED BY <1>6 DEF g, b

-----------------------------------------------------------------------------
(* What the operations of the heap do to its set of nodes.                 *)

\* n is in the array at most once.
Once(h, n) == \A a, b \in 1 .. Len(h) : h[a] = n /\ h[b] = n => a = b

\* g holds the nodes of h, and one of them twice only if h does.
Reorders(g, h) ==
    /\ Len(g) = Len(h)
    /\ Nodes(g) = Nodes(h)
    /\ \A n : Once(h, n) => Once(g, n)

LEMMA SwapReorders ==
    ASSUME NEW S, NEW h \in Seq(S), NEW a \in 1 .. Len(h), NEW b \in 1 .. Len(h)
    PROVE  Swap(h, a, b) \in Seq(S) /\ Reorders(Swap(h, a, b), h)
<1> DEFINE g == Swap(h, a, b)
           p(c) == IF c = a THEN b ELSE IF c = b THEN a ELSE c
<1>1. /\ g \in Seq(S) /\ Len(g) = Len(h) /\ Nodes(g) = Nodes(h)
      /\ \A c \in 1 .. Len(h) : g[c] = h[p(c)]
  BY SwapFacts
<1>2. \A c, d \in 1 .. Len(h) : p(c) \in 1 .. Len(h) /\ (p(c) = p(d) => c = d)
  OBVIOUS
<1> HIDE DEF g, p
<1>3. ASSUME NEW n, Once(h, n) PROVE Once(g, n)
  <2>1. ASSUME NEW c \in 1 .. Len(h), NEW d \in 1 .. Len(h), g[c] = n, g[d] = n PROVE c = d
    BY <1>1, <1>2, <1>3, <2>1 DEF Once
  <2> QED BY <1>1, <2>1 DEF Once
<1> QED BY <1>1, <1>3 DEF Reorders, g

LEMMA UpReorders ==
    ASSUME NEW S, NEW key
    PROVE  \A h \in Seq(S) : \A j \in 0 .. Len(h) :
               HeapifyUp(h, key, j) \in Seq(S) /\ Reorders(HeapifyUp(h, key, j), h)
<1> DEFINE P(h, j) == HeapifyUp(h, key, j) \in Seq(S) /\ Reorders(HeapifyUp(h, key, j), h)
           Bad == {j \in Nat : \E h \in Seq(S) : j \in 0 .. Len(h) /\ ~ P(h, j)}
<1>1. ASSUME NEW h \in Seq(S), NEW j \in 0 .. Len(h),
             \A g \in Seq(S) : \A i \in 0 .. Len(g) : i < j => P(g, i)
      PROVE  P(h, j)
  <2> DEFINE i == Parent(j)
             g == Swap(h, j, i)
  <2>1. CASE j > 1 /\ Less(key, h, j, i)
    <3>1. Len(h) \in Nat
      BY LenProperties
    <3>2. i \in 1 .. Len(h) /\ i < j /\ j \in 1 .. Len(h)
      BY <2>1, <3>1 DEF Parent
    <3>3. g \in Seq(S) /\ Reorders(g, h)
      <4> HIDE DEF i
      <4> QED BY <3>2, SwapReorders
    <3>4. HeapifyUp(h, key, j) = HeapifyUp(g, key, i)
      BY <2>1, UpUnfolds
    <3> HIDE DEF g, i
    <3>5. P(g, i)
      <4>1. i \in 0 .. Len(g)
        BY <3>2, <3>3 DEF Reorders
      <4> HIDE DEF P
      <4> QED BY <1>1, <3>2, <3>3, <4>1
    <3> QED BY <3>3, <3>4, <3>5 DEF Reorders
  <2>2. CASE ~ (j > 1 /\ Less(key, h, j, i))
    <3>1. HeapifyUp(h, key, j) = h
      BY <2>2, UpUnfolds
    <3> QED BY <3>1 DEF Reorders
  <2> QED BY <2>1, <2>2
<1> HIDE DEF P
<1>2. Bad = {}
  <2> SUFFICES ASSUME Bad # {} PROVE FALSE
    OBVIOUS
  <2>1. PICK j \in Bad : \A i \in Bad : j <= i
    BY Least
  <2>2. PICK h \in Seq(S) : j \in 0 .. Len(h) /\ ~ P(h, j)
    OBVIOUS
  <2>3. \A g \in Seq(S) : \A i \in 0 .. Len(g) : i < j => P(g, i)
    <3>1. ASSUME NEW g \in Seq(S), NEW i \in 0 .. Len(g), i < j, ~ P(g, i) PROVE FALSE
      <4>1. i \in Nat /\ j \in Nat
        BY LenProperties
      <4>2. i \in Bad
        BY <3>1, <4>1
      <4> QED BY <2>1, <3>1, <4>1, <4>2
    <3> QED BY <3>1
  <2> QED BY <1>1, <2>2, <2>3
<1>3. ASSUME NEW h \in Seq(S), NEW j \in 0 .. Len(h) PROVE P(h, j)
  <2>1. j \in Nat
    BY LenProperties
  <2>2. ~ (j \in Bad)
    BY <1>2
  <2> QED BY <2>1, <2>2
<1> QED BY <1>3 DEF P

LEMMA DownReorders ==
    ASSUME NEW S, NEW key
    PROVE  \A h \in Seq(S) : \A j \in 1 .. Len(h) + 1 :
               HeapifyDown(h, key, j) \in Seq(S) /\ Reorders(HeapifyDown(h, key, j), h)
<1> DEFINE P(h, j) == HeapifyDown(h, key, j) \in Seq(S) /\ Reorders(HeapifyDown(h, key, j), h)
           Bad == {k \in Nat : \E h \in Seq(S) : \E j \in 1 .. Len(h) + 1 :
                                   k = Len(h) + 1 - j /\ ~ P(h, j)}
<1>1. ASSUME NEW h \in Seq(S), NEW j \in 1 .. Len(h) + 1,
             \A g \in Seq(S) : \A i \in 1 .. Len(g) + 1 :
                 Len(g) + 1 - i < Len(h) + 1 - j => P(g, i)
      PROVE  P(h, j)
  <2> DEFINE i == LeastOf(h, key, j)
             g == Swap(h, j, i)
  <2>1. CASE i # j
    <3>1. Len(h) \in Nat
      BY LenProperties
    <3>2. i \in 1 .. Len(h) /\ j < i /\ j \in 1 .. Len(h)
      BY <2>1, LeastOfFacts
    <3>3. g \in Seq(S) /\ Reorders(g, h)
      <4> HIDE DEF i
      <4> QED BY <3>2, SwapReorders
    <3>4. HeapifyDown(h, key, j) = HeapifyDown(g, key, i)
      BY <2>1, DownUnfolds
    <3> HIDE DEF g, i
    <3>5. P(g, i)
      <4>1. Len(g) = Len(h)
        BY <3>3 DEF Reorders
      <4>2. i \in 1 .. Len(g) + 1 /\ Len(g) + 1 - i < Len(h) + 1 - j
        BY <3>1, <3>2, <4>1
      <4> HIDE DEF P
      <4> QED BY <1>1, <3>3, <4>2
    <3> QED BY <3>3, <3>4, <3>5 DEF Reorders
  <2>2. CASE i = j
    <3>1. HeapifyDown(h, key, j) = h
      BY <2>2, DownUnfolds
    <3> QED BY <3>1 DEF Reorders
  <2> QED BY <2>1, <2>2
<1> HIDE DEF P
<1>2. Bad = {}
  <2> SUFFICES ASSUME Bad # {} PROVE FALSE
    OBVIOUS
  <2>1. PICK k \in Bad : \A l \in Bad : k <= l
    BY Least
  <2>2. PICK h \in Seq(S) : \E j \in 1 .. Len(h) + 1 : k = Len(h) + 1 - j /\ ~ P(h, j)
    OBVIOUS
  <2>3. PICK j \in 1 .. Len(h) + 1 : k = Len(h) + 1 - j /\ ~ P(h, j)
    BY <2>2
  <2>4. \A g \in Seq(S) : \A i \in 1 .. Len(g) + 1 :
            Len(g) + 1 - i < Len(h) + 1 - j => P(g, i)
    <3>1. ASSUME NEW g \in Seq(S), NEW i \in 1 .. Len(g) + 1,
                 Len(g) + 1 - i < Len(h) + 1 - j, ~ P(g, i)
          PROVE  FALSE
      <4>1. Len(g) \in Nat /\ Len(h) \in Nat
        BY LenProperties
      <4>2. Len(g) + 1 - i \in Nat /\ k \in Nat
        BY <4>1
      <4>3. Len(g) + 1 - i \in Bad
        BY <3>1, <4>2
      <4>4. k <= Len(g) + 1 - i
        <5> HIDE DEF Bad
        <5> QED BY <2>1, <4>3
      <4>5. ~ (Len(g) + 1 - i < k)
        <5> HIDE DEF Bad
        <5> QED BY <4>2, <4>4
      <4> HIDE DEF Bad
      <4> QED BY <2>3, <3>1, <4>5
    <3> QED BY <3>1
  <2> QED BY <1>1, <2>3, <2>4
<1>3. ASSUME NEW h \in Seq(S), NEW j \in 1 .. Len(h) + 1 PROVE P(h, j)
  <2>1. Len(h) + 1 - j \in Nat
    BY LenProperties
  <2>2. ~ (Len(h) + 1 - j \in Bad)
    BY <1>2
  <2> QED BY <2>1, <2>2
<1> QED BY <1>3 DEF P

\* g is h with n, which is there at most once if h did not have it.
Inserted(g, h, n) ==
    /\ Len(g) = Len(h) + 1
    /\ Nodes(g) = Nodes(h) \cup {n}
    /\ \A m : Once(h, m) /\ m # n => Once(g, m)
    /\ n \notin Nodes(h) => Once(g, n)

\* g is h without one n, hence without any if h had it once.
Removed(g, h, n) ==
    /\ Len(g) = Len(h) - 1
    /\ Nodes(g) \subseteq Nodes(h)
    /\ Nodes(h) \ {n} \subseteq Nodes(g)
    /\ \A m : Once(h, m) => Once(g, m)
    /\ Once(h, n) => n \notin Nodes(g)

LEMMA AppendFacts ==
    ASSUME NEW S, NEW h \in Seq(S), NEW n \in S
    PROVE  Append(h, n) \in Seq(S) /\ Inserted(Append(h, n), h, n)
<1> DEFINE g == Append(h, n)
           k == Len(h)
<1>1. k \in Nat /\ g \in Seq(S) /\ Len(g) = k + 1 /\ g[k + 1] = n
      /\ \A c \in 1 .. k : g[c] = h[c]
  BY AppendProperties, LenProperties
<1> HIDE DEF g, k
<1>2. \A c \in 1 .. k + 1 : c \in 1 .. k \/ c = k + 1
  BY <1>1
<1>3. \A c \in 1 .. k : c \in 1 .. k + 1 /\ c # k + 1
  BY <1>1
<1>4. k + 1 \in 1 .. k + 1
  BY <1>1
<1>5. \A x : x \in Nodes(g) <=> \E c \in 1 .. k + 1 : x = g[c]
  BY <1>1, NodesOf
<1>6. \A x : x \in Nodes(h) <=> \E c \in 1 .. k : x = h[c]
  BY NodesOf DEF k
<1>7. Nodes(g) = Nodes(h) \cup {n}
  <2>1. ASSUME NEW x \in Nodes(g) PROVE x \in Nodes(h) \cup {n}
    BY <1>1, <1>2, <1>5, <1>6
  <2>2. ASSUME NEW x \in Nodes(h) PROVE x \in Nodes(g)
    BY <1>1, <1>3, <1>5, <1>6
  <2>3. n \in Nodes(g)
    BY <1>1, <1>4, <1>5
  <2> QED BY <2>1, <2>2, <2>3
<1>8. ASSUME NEW m, Once(h, m), m # n PROVE Once(g, m)
  <2>1. ASSUME NEW a \in 1 .. k + 1, NEW b \in 1 .. k + 1, g[a] = m, g[b] = m PROVE a = b
    <3>1. a \in 1 .. k /\ b \in 1 .. k
      BY <1>1, <1>2, <1>8, <2>1
    <3> QED BY <1>1, <1>8, <2>1, <3>1 DEF Once, k
  <2> QED BY <1>1, <2>1 DEF Once
<1>9. ASSUME n \notin Nodes(h) PROVE Once(g, n)
  <2>1. \A a \in 1 .. k + 1 : g[a] = n => a = k + 1
    BY <1>1, <1>2, <1>6, <1>9
  <2> QED BY <1>1, <2>1 DEF Once
<1> QED BY <1>1, <1>7, <1>8, <1>9 DEF Inserted, g, k

LEMMA FillFacts ==
    ASSUME NEW S, NEW h \in Seq(S), NEW j \in 1 .. Len(h)
    PROVE  FillWithLast(h, j) \in Seq(S) /\ Removed(FillWithLast(h, j), h, h[j])
<1> DEFINE k == Len(h)
           e == [h EXCEPT ![j] = h[k]]
           g == FillWithLast(h, j)
           p(c) == IF c = j THEN k ELSE c
<1>1. k \in Nat /\ k >= 1 /\ j \in 1 .. k /\ h \in [1 .. k -> S]
  BY LenProperties
<1>2. e \in [1 .. k -> S] /\ \A c \in 1 .. k : e[c] = h[p(c)]
  BY <1>1
<1>3. e \in Seq(S) /\ Len(e) = k
  <2> HIDE DEF e, k
  <2>1. e \in Seq(S)
    BY <1>1, <1>2, IsASeq
  <2>2. DOMAIN e = 1 .. k
    BY <1>2
  <2> QED BY <1>1, <2>1, <2>2, LenProperties
<1>4. g = SubSeq(e, 1, k - 1)
  BY DEF FillWithLast
<1> HIDE DEF e, k
<1>5. g \in Seq(S) /\ Len(g) = k - 1 /\ \A c \in 1 .. k - 1 : g[c] = h[p(c)]
  <2>1. 1 \in 1 .. k + 1 /\ k - 1 \in 0 .. k
    BY <1>1
  <2>2. \A c \in 1 .. Len(e) : e[c] \in S
    BY <1>2, <1>3
  <2>3. SubSeq(e, 1, k - 1) \in Seq(S) /\ Len(SubSeq(e, 1, k - 1)) = k - 1
        /\ \A c \in 1 .. k - 1 : SubSeq(e, 1, k - 1)[c] = e[c]
    BY <1>1, <1>3, <2>1
  <2>4. \A c \in 1 .. k - 1 : c \in 1 .. k
    BY <1>1
  <2> HIDE DEF g, p
  <2> QED BY <1>2, <1>4, <2>3, <2>4
<1> HIDE DEF g
<1>6. \A c, d \in 1 .. k - 1 : p(c) \in 1 .. k /\ p(c) # j /\ (p(c) = p(d) => c = d)
  BY <1>1
<1>7. \A c \in 1 .. k : c # j => \E d \in 1 .. k - 1 : p(d) = c
  <2>1. ASSUME NEW c \in 1 .. k, c # j PROVE \E d \in 1 .. k - 1 : p(d) = c
    <3>1. CASE c = k
      <4>1. j \in 1 .. k - 1
        BY <1>1, <2>1, <3>1
      <4> QED BY <3>1, <4>1
    <3>2. CASE c # k
      <4>1. c \in 1 .. k - 1 /\ p(c) = c
        BY <1>1, <2>1, <3>2
      <4> QED BY <4>1
    <3> QED BY <3>1, <3>2
  <2> QED BY <2>1
<1> HIDE DEF p
<1>8. \A x : x \in Nodes(g) <=> \E c \in 1 .. k - 1 : x = g[c]
  BY <1>5, NodesOf
<1>9. \A x : x \in Nodes(h) <=> \E c \in 1 .. k : x = h[c]
  BY NodesOf DEF k
<1>10. Nodes(g) \subseteq Nodes(h)
  BY <1>5, <1>6, <1>8, <1>9
<1>11. ASSUME NEW x \in Nodes(h), x # h[j] PROVE x \in Nodes(g)
  <2>1. PICK c \in 1 .. k : x = h[c]
    BY <1>9
  <2>2. c # j
    BY <1>11, <2>1
  <2>3. PICK d \in 1 .. k - 1 : p(d) = c
    BY <1>7, <2>2
  <2> QED BY <1>5, <1>8, <2>1, <2>3
<1>12. ASSUME NEW m, Once(h, m) PROVE Once(g, m)
  <2>1. ASSUME NEW a \in 1 .. k - 1, NEW b \in 1 .. k - 1, g[a] = m, g[b] = m PROVE a = b
    BY <1>5, <1>6, <1>12, <2>1 DEF Once, k
  <2> QED BY <1>5, <2>1 DEF Once
<1>13. ASSUME Once(h, h[j]), h[j] \in Nodes(g) PROVE FALSE
  <2>1. PICK c \in 1 .. k - 1 : h[j] = g[c]
    BY <1>8, <1>13
  <2>2. h[p(c)] = h[j] /\ p(c) \in 1 .. k /\ p(c) # j
    BY <1>5, <1>6, <2>1
  <2> QED BY <1>1, <1>13, <2>2 DEF Once, k
<1> QED BY <1>5, <1>10, <1>11, <1>12, <1>13 DEF Removed, g, k

LEMMA InsertFacts ==
    ASSUME NEW S, NEW h \in Seq(S), NEW key, NEW n \in S, NEW capacity
    PROVE  /\ HeapInsert(h, key, n, capacity) \in Seq(S)
           /\ Len(h) = capacity => HeapInsert(h, key, n, capacity) = h
           /\ Len(h) # capacity => Inserted(HeapInsert(h, key, n, capacity), h, n)
<1> DEFINE a == Append(h, n)
           g == HeapifyUp(a, key, Len(h) + 1)
<1>1. a \in Seq(S) /\ Inserted(a, h, n)
  BY AppendFacts
<1>2. g \in Seq(S) /\ Reorders(g, a)
  <2>1. Len(h) + 1 \in 0 .. Len(a)
    BY <1>1, LenProperties DEF Inserted
  <2> HIDE DEF a
  <2> QED BY <1>1, <2>1, UpReorders
<1>3. HeapInsert(h, key, n, capacity) = IF Len(h) = capacity THEN h ELSE g
  BY DEF HeapInsert
<1> HIDE DEF a, g
<1>4. Inserted(g, h, n)
  BY <1>1, <1>2 DEF Inserted, Reorders
<1> QED BY <1>2, <1>3, <1>4

LEMMA PopFacts ==
    ASSUME NEW S, NEW h \in Seq(S), NEW key
    PROVE  /\ HeapPop(h, key) \in Seq(S)
           /\ h = <<>> => HeapPop(h, key) = h
           /\ h # <<>> => h[1] \in S /\ Removed(HeapPop(h, key), h, h[1])
<1>1. CASE h = <<>>
  BY <1>1 DEF HeapPop
<1>2. CASE h # <<>>
  <2> DEFINE a == FillWithLast(h, 1)
             g == HeapifyDown(a, key, 1)
  <2>1. Len(h) \in Nat /\ Len(h) >= 1 /\ 1 \in 1 .. Len(h) /\ h[1] \in S
    BY <1>2, LenProperties, EmptySeq
  <2>2. a \in Seq(S) /\ Removed(a, h, h[1])
    BY <2>1, FillFacts
  <2>3. g \in Seq(S) /\ Reorders(g, a)
    <3>1. 1 \in 1 .. Len(a) + 1
      BY <2>1, <2>2, LenProperties DEF Removed
    <3> HIDE DEF a
    <3> QED BY <2>2, <3>1, DownReorders
  <2>4. HeapPop(h, key) = g
    BY <1>2 DEF HeapPop
  <2> HIDE DEF a, g
  <2>5. Removed(g, h, h[1])
    BY <2>2, <2>3 DEF Removed, Reorders
  <2> QED BY <1>2, <2>1, <2>3, <2>4, <2>5
<1> QED BY <1>1, <1>2

LEMMA RemoveFacts ==
    ASSUME NEW S, NEW h \in Seq(S), NEW key, NEW n
    PROVE  LET g == HeapRemove(h, key, n)
           IN  /\ g \in Seq(S)
               /\ Len(g) <= Len(h)
               /\ Nodes(g) \subseteq Nodes(h)
               /\ \A m : Once(h, m) => Once(g, m)
<1>0. Len(h) \in Nat
  BY LenProperties
<1>1. CASE Positions(h, n) = {}
  <2>1. HeapRemove(h, key, n) = h
    BY <1>1 DEF HeapRemove
  <2> QED BY <1>0, <2>1
<1>2. CASE Positions(h, n) # {}
  <2> DEFINE j == IndexOf(h, n)
             a == FillWithLast(h, j)
             d == HeapifyDown(a, key, j)
             u == HeapifyUp(d, key, j)
  <2>1. j \in 1 .. Len(h)
    <3>1. Positions(h, n) \in SUBSET Nat
      BY DEF Positions
    <3>2. \E k \in Positions(h, n) : \A l \in Positions(h, n) : k <= l
      BY <1>2, <3>1, Least
    <3>3. j \in Positions(h, n)
      BY <3>2 DEF IndexOf
    <3> QED BY <3>3 DEF Positions
  <2>2. a \in Seq(S) /\ Removed(a, h, h[j])
    <3> HIDE DEF j
    <3> QED BY <2>1, FillFacts
  <2>3. HeapRemove(h, key, n) = IF j = Len(h) THEN a ELSE u
    BY <1>2 DEF HeapRemove
  <2> HIDE DEF j, a
  <2>4. Len(a) = Len(h) - 1
    BY <2>2 DEF Removed
  <2>5. d \in Seq(S) /\ Reorders(d, a)
    <3>1. j \in 1 .. Len(a) + 1
      BY <1>0, <2>1, <2>4
    <3> QED BY <2>2, <3>1, DownReorders
  <2> HIDE DEF d
  <2>6. ASSUME j # Len(h) PROVE u \in Seq(S) /\ Reorders(u, d)
    <3>1. Len(d) = Len(h) - 1
      BY <2>4, <2>5 DEF Reorders
    <3>2. j \in 0 .. Len(d)
      BY <1>0, <2>1, <2>6, <3>1
    <3> QED BY <2>5, <3>2, UpReorders
  <2> HIDE DEF u
  <2>7. /\ a \in Seq(S) /\ Len(a) <= Len(h) /\ Nodes(a) \subseteq Nodes(h)
        /\ \A m : Once(h, m) => Once(a, m)
    BY <1>0, <2>2, <2>4 DEF Removed
  <2>8. ASSUME j # Len(h)
        PROVE  /\ u \in Seq(S) /\ Len(u) <= Len(h) /\ Nodes(u) \subseteq Nodes(h)
               /\ \A m : Once(h, m) => Once(u, m)
    BY <2>5, <2>6, <2>7, <2>8 DEF Reorders
  <2> QED BY <2>3, <2>7, <2>8
<1> QED BY <1>1, <1>2

-----------------------------------------------------------------------------
(* What the calls do to the heap and to the timers.                        *)

\* g has no more nodes than h, and none twice that h has once.
Fewer(g, h) ==
    /\ Len(g) <= Len(h)
    /\ Nodes(g) \subseteq Nodes(h)
    /\ \A m : Once(h, m) => Once(g, m)

\* The effect of add_timer.
ArmedAs(t, kind, owner, d, r) ==
    /\ t \in Timer /\ tm[t].state = "none"
    /\ tm' \in [Timer -> TimerRecord]
    /\ \A u \in Timer : u # t => tm'[u] = tm[u]
    /\ tm'[t].state = "live" /\ tm'[t].kind = kind /\ tm'[t].owner = owner
    /\ tm'[t].delay = d /\ tm'[t].next = now + d /\ tm'[t].born = now
    /\ tm'[t].repeat \in 1 .. Max32 /\ tm'[t].times = tm'[t].repeat /\ tm'[t].fired = 0
    /\ ~tm'[t].destory /\ ~tm'[t].pending /\ ~tm'[t].deleted
    /\ heap' \in Seq(Timer) /\ Len(heap') <= Capacity
    /\ \/ Len(heap) = Capacity /\ heap' = heap
       \/ Len(heap) < Capacity /\ Inserted(heap', heap, t)
    /\ cur' = now
    /\ num' = Inc(num) /\ num' \in 0 .. Max32

\* The effect of reset_timer.
ResetAs(t, d) ==
    /\ tm' \in [Timer -> TimerRecord]
    /\ \A u \in Timer : u # t => tm'[u] = tm[u]
    /\ tm'[t] = [tm[t] EXCEPT !.next = cur + d, !.destory = FALSE, !.pending = FALSE]
    /\ heap' \in Seq(Timer) /\ Len(heap') <= Capacity
    /\ Nodes(heap') \subseteq Nodes(heap) \cup {t}
    /\ \A m : m # t /\ Once(heap, m) => Once(heap', m)
    /\ Len(heap') <= Len(heap) + 1
    /\ ~tm[t].destory /\ heap # <<>> => Len(heap') <= Len(heap)
    /\ num' = (IF tm[t].destory THEN Inc(num) ELSE num) /\ num' \in 0 .. Max32

LEMMA CountsWrap == \A n \in 0 .. Max32 : Inc(n) \in 0 .. Max32 /\ Dec(n) \in 0 .. Max32
BY Max32IsNatural DEF Inc, Dec

LEMMA NewTimerIsUnused ==
    ASSUME Unused # {}
    PROVE  NewTimer \in Timer /\ tm[NewTimer].state = "none"
<1>1. NewTimer \in Unused
  BY DEF NewTimer
<1> QED BY <1>1 DEF Unused

LEMMA PopIsFewer ==
    ASSUME NEW h \in Seq(Timer), NEW key
    PROVE  /\ HeapPop(h, key) \in Seq(Timer)
           /\ Fewer(HeapPop(h, key), h)
           /\ h # <<>> => Len(HeapPop(h, key)) = Len(h) - 1
<1>1. Len(h) \in Nat
  BY LenProperties
<1>2. HeapPop(h, key) \in Seq(Timer)
  BY PopFacts
<1>3. CASE h = <<>>
  <2>1. HeapPop(h, key) = h
    BY <1>3, PopFacts
  <2> HIDE DEF Once
  <2> QED BY <1>1, <1>2, <1>3, <2>1 DEF Fewer
<1>4. CASE h # <<>>
  <2>1. Removed(HeapPop(h, key), h, h[1])
    BY <1>4, PopFacts
  <2> QED BY <1>1, <1>2, <2>1 DEF Fewer, Removed
<1> QED BY <1>3, <1>4

LEMMA ArmFacts ==
    ASSUME TypeOK, NEW kind \in Kinds \cup {"plain"}, NEW owner \in Io \cup {NoTimer},
           NEW d \in Nat, NEW r \in 0 .. Max32, Arm(NewTimer, kind, owner, d, r)
    PROVE  ArmedAs(NewTimer, kind, owner, d, r)
<1> DEFINE t == NewTimer
           rr == IF r = 0 THEN 1 ELSE r
           rec == [Unallocated EXCEPT !.state = "live", !.kind = kind, !.owner = owner,
                     !.delay = d, !.next = now + d, !.repeat = rr, !.times = rr, !.born = now]
<1>1. t \in Timer /\ tm[t].state = "none"
  BY NewTimerIsUnused DEF Arm
<1>2. rr \in 1 .. Max32
  BY Max32IsNatural
<1>3. now \in Nat /\ tm \in [Timer -> TimerRecord] /\ heap \in Seq(Timer)
      /\ Len(heap) <= Capacity /\ num \in 0 .. Max32
  BY DEF TypeOK
<1>4. Unallocated \in TimerRecord
  BY Max32IsNatural DEF Unallocated, TimerRecord
<1>5. tm' = [tm EXCEPT ![t] = rec]
  BY DEF Arm
<1> HIDE DEF rr
<1>e. ~Unallocated.destory /\ ~Unallocated.pending /\ ~Unallocated.deleted /\ Unallocated.fired = 0
  BY DEF Unallocated
<1>f. rec \in TimerRecord
  <2> DEFINE one == [Unallocated EXCEPT !.state = "live", !.kind = kind, !.owner = owner,
                                        !.delay = d]
             two == [one EXCEPT !.next = now + d, !.repeat = rr, !.times = rr, !.born = now]
  <2>1. one \in TimerRecord
    BY <1>4 DEF TimerRecord
  <2>2. now + d \in Nat /\ rr \in Nat /\ rr \in 0 .. Max32 /\ now \in Nat
    BY <1>2, <1>3
  <2>3. rec = two
    OBVIOUS
  <2> HIDE DEF one
  <2>4. two \in TimerRecord
    BY <2>1, <2>2 DEF TimerRecord
  <2> HIDE DEF two, rec
  <2> QED BY <2>3, <2>4
<1>6. heap' = HeapInsert(heap, Deadlines(tm'), t, Capacity)
  BY DEF Arm
<1>7. cur' = now /\ num' = Inc(num)
  BY DEF Arm
<1>8. /\ rec.state = "live" /\ rec.kind = kind /\ rec.owner = owner /\ rec.delay = d
      /\ rec.next = now + d /\ rec.born = now /\ rec.repeat = rr /\ rec.times = rr
      /\ rec.fired = 0 /\ ~rec.destory /\ ~rec.pending /\ ~rec.deleted
  BY <1>4, <1>e DEF TimerRecord
<1> HIDE DEF t, rec
<1>9. /\ tm' \in [Timer -> TimerRecord] /\ tm'[t] = rec
      /\ \A u \in Timer : u # t => tm'[u] = tm[u]
  BY <1>1, <1>3, <1>5, <1>f
<1>10. /\ heap' \in Seq(Timer)
       /\ Len(heap) = Capacity => heap' = heap
       /\ Len(heap) # Capacity => Inserted(heap', heap, t)
  BY <1>1, <1>3, <1>6, InsertFacts
<1>11. Len(heap) \in Nat /\ Capacity \in Nat
  BY <1>3, LenProperties, CapacityIsPositive
<1>12. Len(heap') <= Capacity
  BY <1>3, <1>10, <1>11 DEF Inserted
<1>13. num' \in 0 .. Max32
  BY <1>3, <1>7, CountsWrap
<1> QED BY <1>1, <1>2, <1>3, <1>7, <1>8, <1>9, <1>10, <1>11, <1>12, <1>13 DEF ArmedAs, t

LEMMA ResetFacts ==
    ASSUME TypeOK, NEW t \in Timer, NEW d \in Nat, ResetTimer(t, d)
    PROVE  ResetAs(t, d)
<1> DEFINE rec == [tm[t] EXCEPT !.next = cur + d, !.destory = FALSE, !.pending = FALSE]
           popped == IF tm[t].destory THEN heap ELSE HeapPop(heap, Deadlines(tm))
<1>1. cur \in Nat /\ tm \in [Timer -> TimerRecord] /\ heap \in Seq(Timer)
      /\ Len(heap) <= Capacity /\ num \in 0 .. Max32 /\ Len(heap) \in Nat /\ Capacity \in Nat
  BY LenProperties, CapacityIsPositive DEF TypeOK
<1>2. tm[t] \in TimerRecord /\ cur + d \in Nat
  BY <1>1
<1>3. rec \in TimerRecord
  BY <1>2 DEF TimerRecord
<1>4. tm' = [tm EXCEPT ![t] = rec]
  BY <1>1 DEF ResetTimer
<1>5. heap' = HeapInsert(popped, Deadlines(tm'), t, Capacity)
  BY DEF ResetTimer
<1>6. num' = IF tm[t].destory THEN Inc(num) ELSE num
  BY DEF ResetTimer
<1>7. /\ popped \in Seq(Timer) /\ Fewer(popped, heap)
      /\ ~tm[t].destory /\ heap # <<>> => Len(popped) = Len(heap) - 1
  BY <1>1, PopIsFewer DEF Fewer
<1> HIDE DEF rec, popped
<1>8. /\ tm' \in [Timer -> TimerRecord] /\ tm'[t] = rec
      /\ \A u \in Timer : u # t => tm'[u] = tm[u]
  BY <1>1, <1>3, <1>4
<1>9. /\ heap' \in Seq(Timer)
      /\ Len(popped) = Capacity => heap' = popped
      /\ Len(popped) # Capacity => Inserted(heap', popped, t)
  BY <1>5, <1>7, InsertFacts
<1>10. Len(popped) \in Nat
  BY <1>7, LenProperties
<1>11. Len(heap') <= Capacity /\ Len(heap') <= Len(popped) + 1
  BY <1>1, <1>7, <1>9, <1>10 DEF Inserted, Fewer
<1>12. Nodes(heap') \subseteq Nodes(heap) \cup {t}
  BY <1>7, <1>9 DEF Inserted, Fewer
<1>13. \A m : m # t /\ Once(heap, m) => Once(heap', m)
  BY <1>7, <1>9 DEF Inserted, Fewer
<1>14. Len(heap') <= Len(heap) + 1 /\ (~tm[t].destory /\ heap # <<>> => Len(heap') <= Len(heap))
  <2>1. Len(heap') \in Nat
    BY <1>9, LenProperties
  <2> QED BY <1>1, <1>7, <1>10, <1>11, <2>1 DEF Fewer
<1>15. num' \in 0 .. Max32
  BY <1>1, <1>6, CountsWrap
<1> QED BY <1>6, <1>8, <1>9, <1>11, <1>12, <1>13, <1>14, <1>15 DEF ResetAs, rec

LEMMA WithoutFacts ==
    ASSUME NEW h \in Seq(Timer), NEW t
    PROVE  Without(h, t) \in Seq(Timer) /\ Fewer(Without(h, t), h)
<1>1. Len(h) \in Nat
  BY LenProperties
<1>2. HeapRemove(h, Deadlines(tm), t) \in Seq(Timer) /\ Fewer(HeapRemove(h, Deadlines(tm), t), h)
  BY RemoveFacts DEF Fewer
<1> QED BY <1>1, <1>2 DEF Without, Fewer

\* The effect of io_close.
ClosedAs(i) ==
    /\ heap' \in Seq(Timer) /\ Fewer(heap', heap) /\ Len(heap') <= Capacity
    /\ io' \in [Io -> IoRecord]
    /\ \A j \in Io : j # i => io'[j] = io[j]
    /\ io'[i].state = "closed" /\ io'[i].read = io[i].read
    /\ \/ io'[i] = io[i]
       \/ \A k \in Kinds : io'[i].timer[k] = NoTimer

LEMMA FewerTransitive ==
    ASSUME NEW f \in Seq(Timer), NEW g \in Seq(Timer), NEW h \in Seq(Timer), Fewer(f, g), Fewer(g, h)
    PROVE  Fewer(f, h)
<1>1. Len(f) \in Nat /\ Len(g) \in Nat /\ Len(h) \in Nat
  BY LenProperties
<1> QED BY <1>1 DEF Fewer

LEMMA CloseFacts ==
    ASSUME TypeOK, NEW i \in Io, IoClose(i)
    PROVE  ClosedAs(i)
<1> DEFINE a == Without(heap, io[i].timer["read"])
           b == Without(a, io[i].timer["write"])
           c == Without(b, io[i].timer["connect"])
           d == Without(c, io[i].timer["close"])
           rec == [Fresh EXCEPT !.state = "closed", !.read = io[i].read, !.write = io[i].write]
<1>1. heap \in Seq(Timer) /\ Len(heap) <= Capacity /\ Len(heap) \in Nat /\ Capacity \in Nat
      /\ io \in [Io -> IoRecord]
  BY LenProperties, CapacityIsPositive DEF TypeOK
<1>2. heap' = IF io[i].state = "closed" THEN heap ELSE d
  BY DEF IoClose
<1>3. io' = IF io[i].state = "closed" THEN io ELSE [io EXCEPT ![i] = rec]
  BY DEF IoClose
<1>4. d \in Seq(Timer) /\ Fewer(d, heap)
  <2>1. a \in Seq(Timer) /\ Fewer(a, heap)
    BY <1>1, WithoutFacts
  <2> HIDE DEF a
  <2>2. b \in Seq(Timer) /\ Fewer(b, a)
    BY <2>1, WithoutFacts
  <2> HIDE DEF b
  <2>3. c \in Seq(Timer) /\ Fewer(c, b)
    BY <2>2, WithoutFacts
  <2> HIDE DEF c
  <2>4. d \in Seq(Timer) /\ Fewer(d, c)
    BY <2>3, WithoutFacts
  <2> HIDE DEF d
  <2>5. Fewer(b, heap)
    BY <1>1, <2>1, <2>2, FewerTransitive
  <2>6. Fewer(c, heap)
    BY <1>1, <2>2, <2>3, <2>5, FewerTransitive
  <2> QED BY <1>1, <2>3, <2>4, <2>6, FewerTransitive
<1>5. heap' \in Seq(Timer) /\ Fewer(heap', heap)
  BY <1>1, <1>2, <1>4 DEF Fewer
<1>6. Len(heap') <= Capacity
  <2>1. Len(heap') \in Nat
    BY <1>5, LenProperties
  <2> QED BY <1>1, <1>5, <2>1 DEF Fewer
<1>7. rec \in IoRecord /\ rec.state = "closed" /\ rec.read = io[i].read
      /\ \A k \in Kinds : rec.timer[k] = NoTimer
  <2>1. io[i] \in IoRecord
    BY <1>1
  <2> QED BY <2>1 DEF IoRecord, Fresh
<1> HIDE DEF rec
<1>8. CASE io[i].state = "closed"
  BY <1>1, <1>3, <1>5, <1>6, <1>8 DEF ClosedAs
<1>9. CASE io[i].state # "closed"
  <2>1. io' \in [Io -> IoRecord] /\ io'[i] = rec /\ \A j \in Io : j # i => io'[j] = io[j]
    BY <1>1, <1>3, <1>7, <1>9
  <2> QED BY <1>5, <1>6, <1>7, <2>1 DEF ClosedAs
<1> QED BY <1>8, <1>9

-----------------------------------------------------------------------------
(* The invariant that holds whatever the program calls.                    *)

InCallback == pc \in {"cb", "return"}

\* While a callback runs, who is its timer: one that has been allocated, and the
\* head of the pending list if it was called from there.
WhoIsCalled ==
    /\ InCallback =>
          /\ who \in Timer /\ tm[who].state # "none"
          /\ from \in {"expire", "pending"}
          /\ from = "pending" => pend # <<>> /\ who = Head(pend)
    /\ pc \notin {"cb", "return", "crashed"} => from = "run"

TimersOfIoAreOwned == \A t \in Timer : tm[t].kind # "plain" => tm[t].owner \in Io

OnlyAllocated == \A t \in Timer : t \in Nodes(heap) \cup Nodes(pend) => tm[t].state # "none"

Typed == TypeOK /\ WhoIsCalled /\ TimersOfIoAreOwned /\ OnlyAllocated

\* The timers of a connection are its own and are not freed, and a closed one
\* has none.
TimersAreLinked ==
    \A i \in Io, k \in Kinds :
        io[i].timer[k] # NoTimer =>
            /\ tm[io[i].timer[k]].state = "live"
            /\ tm[io[i].timer[k]].kind = k
            /\ tm[io[i].timer[k]].owner = i
            /\ io[i].state # "closed"

\* A pending timer is pending once; its count, like that of a timer that was
\* freed, is at its end.
PendingIsOver ==
    \A t \in Timer :
        /\ Once(pend, t)
        /\ t \in Nodes(pend) => tm[t].state = "live" /\ tm[t].repeat \in {0, Max32}
        /\ tm[t].state = "freed" => tm[t].repeat \in {0, Max32}

\* A timer of the program is in the heap once at most, and then it is neither
\* pending nor freed; the timers of connections may be anywhere.
PlainIsInOnePlace ==
    \A t \in Timer :
        tm[t].kind = "plain" =>
            /\ Once(heap, t)
            /\ t \in Nodes(heap) => tm[t].state = "live" /\ t \notin Nodes(pend)

\* A timer that is about to be freed is not a connection's any more.
FreedIsUnlinked ==
    pc = "return" /\ from = "pending" /\ tm[who].destory =>
        \A i \in Io, k \in Kinds : io[i].timer[k] # who

\* A connection with a read timer has last read before the loop's time, unless
\* the loop is with the connections.
ReadsAreNoted ==
    /\ \A i \in Io : io[i].read <= now
    /\ \A t \in Timer :
          tm[t].kind = "read" =>
              /\ io[tm[t].owner].state # "new"
              /\ pc \in {"expire", "pending", "cb", "return"} => io[tm[t].owner].read <= cur

Kept ==
    /\ Typed
    /\ TimersAreLinked
    /\ PendingIsOver
    /\ PlainIsInOnePlace
    /\ FreedIsUnlinked
    /\ ReadsAreNoted

-----------------------------------------------------------------------------
(* The invariant of the count.                                             *)

Allocated == {t \in Timer : tm[t].state # "none"}
Counted == {t \in Timer : tm[t].state = "live" /\ ~tm[t].destory}
Deleted == {t \in Timer : tm[t].deleted}

\* A timer given to del_timer is one of the program that has not been freed and
\* repeats for ever; one that has expired for good has its count at its end.
CountedTimers ==
    \A t \in Timer :
        /\ tm[t].deleted => /\ tm[t].state = "live" /\ tm[t].kind = "plain"
                            /\ ~tm[t].destory /\ tm[t].repeat = Max32
        /\ tm[t].destory => tm[t].state = "live" /\ tm[t].repeat \in {0, Max32}
        /\ tm[t].destory /\ tm[t].kind = "plain" => t \in Nodes(pend)

\* timers_num is the number of timers that are counted and not deleted, above
\* the number it began with.
NumIsBalance ==
    /\ num + Cardinality(Deleted) - Cardinality(Counted) \in InitialNums
    /\ Cardinality(Allocated) <= calls

\* The heap of a connection's timer whose callback process_timer calls is not
\* empty.
HeapOfExpiry ==
    pc = "cb" /\ from = "expire" /\ tm[who].kind # "plain" => heap # <<>>

Balanced == CountedTimers /\ NumIsBalance /\ HeapOfExpiry /\ CountCoversHeap

-----------------------------------------------------------------------------
(* The invariant of the program's own timers.                              *)

BeingCalled(t) == from = "pending" /\ who = t

\* There is room for k timeouts between the making of t and its next time.
HasTimeFor(t, k) == k * tm[t].delay <= tm[t].next - tm[t].born

\* What a timer of the program has done and what is left make what it was asked
\* for, and there was a timeout for each time it ran: while it waits in the heap,
Counting(t) ==
    /\ tm[t].repeat >= 1
    /\ tm[t].times = Max32 => tm[t].repeat = Max32
    /\ tm[t].times # Max32 => tm[t].repeat + tm[t].fired = tm[t].times
    /\ HasTimeFor(t, tm[t].fired + 1)
    /\ tm[t].next <= cur + tm[t].delay

\* while its last expiry is pending, when it runs for the last time,
Ending(t) ==
    /\ tm[t].repeat = 0 /\ tm[t].times # Max32 /\ tm[t].destory
    /\ tm[t].next <= cur
    /\ ~BeingCalled(t) => tm[t].fired + 1 = tm[t].times /\ HasTimeFor(t, tm[t].fired + 1)
    /\ BeingCalled(t) => tm[t].fired = tm[t].times /\ HasTimeFor(t, tm[t].fired)

\* and once it has been freed.
Ended(t) ==
    /\ tm[t].fired * tm[t].delay <= cur - tm[t].born
    /\ tm[t].times # Max32 => tm[t].fired <= tm[t].times

PlainKeepsCount ==
    \A t \in Timer :
        /\ tm[t].state = "none" => tm[t] = Unallocated
        /\ tm[t].kind = "plain" =>
              /\ tm[t].pending => t \in Nodes(pend)
              /\ t \in Nodes(pend) => Ending(t)
              /\ tm[t].state = "live" /\ t \notin Nodes(pend) => Counting(t)
              /\ tm[t].state = "freed" => Ended(t)

-----------------------------------------------------------------------------
(* Types and control.                                                      *)

LEMMA InitTyped == Init => Typed
<1> SUFFICES ASSUME Init PROVE Typed
  OBVIOUS
<1>1. Unallocated \in TimerRecord
  BY Max32IsNatural DEF Unallocated, TimerRecord
<1>2. Fresh \in IoRecord
  BY DEF Fresh, IoRecord
<1>3. heap \in Seq(Timer) /\ Len(heap) = 0 /\ pend \in Seq(Timer)
  BY DEF Init
<1>4. Capacity \in Nat /\ MaxCalls \in Nat /\ Start \in Nat
  BY CapacityIsPositive, CallsAreNatural, StartIsNatural
<1>5. TypeOK
  BY <1>1, <1>2, <1>3, <1>4, NumsFit DEF Init, TypeOK
<1>6. \A t \in Timer : tm[t].kind = "plain"
  BY DEF Init, Unallocated
<1>7. Nodes(heap) = {} /\ Nodes(pend) = {}
  BY DEF Init, Nodes
<1> QED BY <1>5, <1>6, <1>7 DEF Init, Typed, WhoIsCalled, InCallback, TimersOfIoAreOwned, OnlyAllocated

\* The parameters of the actions, and the calls.
LEMMA Parameters ==
    /\ Delays \subseteq Nat /\ Repeats \subseteq 0 .. Max32
    /\ Kinds = {"read", "write", "close", "connect"}
    /\ TypeOK /\ Call => InUserCode /\ calls' \in 0 .. MaxCalls
<1>1. TypeOK /\ Call => InUserCode /\ calls' \in 0 .. MaxCalls
  BY CallsAreNatural DEF TypeOK, Call
<1> QED BY <1>1, DelaysAreNatural, RepeatsFit DEF Kinds

\* A step that arms a timer and links it to a connection, or to none.
LEMMA TypedArm ==
    ASSUME Typed, NEW kind \in Kinds \cup {"plain"}, NEW owner \in Io \cup {NoTimer},
           kind # "plain" => owner \in Io,
           NEW d \in Nat, NEW r \in 0 .. Max32, Arm(NewTimer, kind, owner, d, r),
           io' \in [Io -> IoRecord], calls' \in 0 .. MaxCalls,
           UNCHANGED <<now, pend, pc, who, from>>
    PROVE  Typed' /\ ArmedAs(NewTimer, kind, owner, d, r)
<1>1. ArmedAs(NewTimer, kind, owner, d, r)
  BY ArmFacts DEF Typed
<1> DEFINE t == NewTimer
<1> HIDE DEF t
<1>2. ArmedAs(t, kind, owner, d, r)
  BY <1>1 DEF t
<1>3. TypeOK'
  BY <1>2 DEF Typed, TypeOK, ArmedAs
<1>4. WhoIsCalled'
  <2>1. ASSUME InCallback PROVE tm'[who].state # "none"
    BY <1>2, <2>1 DEF Typed, WhoIsCalled, ArmedAs
  <2> QED BY <2>1 DEF Typed, WhoIsCalled, InCallback
<1>5. TimersOfIoAreOwned'
  BY <1>2 DEF Typed, TimersOfIoAreOwned, ArmedAs
<1>6. OnlyAllocated'
  <2>1. Nodes(heap') \subseteq Nodes(heap) \cup {t}
    BY <1>2 DEF ArmedAs, Inserted
  <2> QED BY <1>2, <2>1 DEF Typed, OnlyAllocated, ArmedAs
<1> QED BY <1>1, <1>3, <1>4, <1>5, <1>6 DEF Typed

\* A step that resets a timer.
LEMMA TypedReset ==
    ASSUME Typed, NEW t \in Timer, NEW d \in Nat, ResetTimer(t, d),
           io' \in [Io -> IoRecord], calls' \in 0 .. MaxCalls,
           \/ UNCHANGED pc
           \/ pc = "cb" /\ pc' = "return",
           UNCHANGED <<now, cur, pend, who, from>>,
           tm[t].state # "none"
    PROVE  Typed' /\ ResetAs(t, d)
<1>1. ResetAs(t, d)
  BY ResetFacts DEF Typed
<1>2. tm \in [Timer -> TimerRecord]
  BY DEF Typed, TypeOK
<1>3. \A u \in Timer : /\ tm'[u].state = tm[u].state /\ tm'[u].kind = tm[u].kind
                       /\ tm'[u].owner = tm[u].owner
  <2>1. tm[t] \in TimerRecord /\ tm'[t] = [tm[t] EXCEPT !.next = cur + d, !.destory = FALSE,
                                                       !.pending = FALSE]
    BY <1>1, <1>2 DEF ResetAs
  <2>2. /\ tm'[t].state = tm[t].state /\ tm'[t].kind = tm[t].kind
        /\ tm'[t].owner = tm[t].owner
    BY <2>1 DEF TimerRecord
  <2> QED BY <1>1, <2>2 DEF ResetAs
<1>4. TypeOK'
  BY <1>1 DEF Typed, TypeOK, ResetAs
<1>5. WhoIsCalled'
  BY <1>3 DEF Typed, WhoIsCalled, InCallback
<1>6. TimersOfIoAreOwned'
  BY <1>3 DEF Typed, TimersOfIoAreOwned
<1>7. OnlyAllocated'
  BY <1>1, <1>3 DEF Typed, OnlyAllocated, ResetAs
<1> QED BY <1>1, <1>4, <1>5, <1>6, <1>7 DEF Typed

\* A step that does not touch the timers and calls no callback.
LEMMA TypedOther ==
    ASSUME Typed,
           now' \in Nat, cur' \in Nat, cur' <= now', heap' \in Seq(Timer),
           Len(heap') <= Capacity, Nodes(heap') \subseteq Nodes(heap),
           io' \in [Io -> IoRecord], calls' \in 0 .. MaxCalls,
           \/ UNCHANGED pc
           \/ pc = "cb" /\ pc' = "return"
           \/ pc' = "crashed"
           \/ pc # "crashed" /\ ~InCallback /\ pc' \in {"top", "poll", "io", "expire", "pending"},
           UNCHANGED <<num, tm, pend, who, from>>
    PROVE  Typed'
<1>1. TypeOK'
  BY DEF Typed, TypeOK
<1>2. WhoIsCalled'
  BY DEF Typed, WhoIsCalled, InCallback
<1>3. TimersOfIoAreOwned'
  BY DEF Typed, TimersOfIoAreOwned
<1>4. OnlyAllocated'
  BY DEF Typed, OnlyAllocated
<1> QED BY <1>1, <1>2, <1>3, <1>4 DEF Typed

\* The effects of the steps that change a timer otherwise.
DeletedAs(t) ==
    /\ tm' \in [Timer -> TimerRecord]
    /\ \A u \in Timer : u # t => tm'[u] = tm[u]
    /\ tm'[t] = [tm[t] EXCEPT !.deleted = TRUE]
    /\ heap' \in Seq(Timer) /\ Fewer(heap', heap)
    /\ heap # <<>> => Len(heap') = Len(heap) - 1
    /\ num' = Dec(num) /\ num' \in 0 .. Max32

LastExpiryAs(t) ==
    /\ t \in Timer /\ heap # <<>> /\ t = heap[1]
    /\ tm[t].next <= cur /\ tm[t].repeat = 1 /\ Max32 # 1
    /\ tm' \in [Timer -> TimerRecord]
    /\ \A u \in Timer : u # t => tm'[u] = tm[u]
    /\ tm'[t] = [tm[t] EXCEPT !.repeat = 0, !.destory = TRUE, !.pending = TRUE]
    /\ pend' = IF tm[t].pending THEN pend ELSE <<t>> \o pend
    /\ heap' \in Seq(Timer) /\ Removed(heap', heap, t)
    /\ num' = Dec(num) /\ num' \in 0 .. Max32

ExpiryAs(t) ==
    /\ t \in Timer /\ heap # <<>> /\ t = heap[1]
    /\ tm[t].next <= cur
    /\ tm[t].repeat # 0 => tm'[t].repeat = IF tm[t].repeat = Max32 THEN Max32 ELSE tm[t].repeat - 1
    /\ tm[t].repeat = 0 => tm'[t].repeat = Max32
    /\ tm'[t].repeat # 0
    /\ tm' \in [Timer -> TimerRecord]
    /\ \A u \in Timer : u # t => tm'[u] = tm[u]
    /\ tm'[t] = [tm[t] EXCEPT !.repeat = tm'[t].repeat, !.next = cur + tm[t].delay,
                              !.fired = @ + 1]
    /\ heap' \in Seq(Timer) /\ Len(heap') = Len(heap)
    /\ Nodes(heap') = Nodes(heap)
    /\ \A m : Once(heap, m) => Once(heap', m)

\* Counting down does not wrap, but from 0.
LEMMA DecFacts ==
    \A n \in 0 .. Max32 : Dec(n) = IF n = 0 THEN Max32 ELSE n - 1
<1>1. ASSUME NEW n \in 0 .. Max32 PROVE Dec(n) = IF n = 0 THEN Max32 ELSE n - 1
  <2>1. Max32 \in Nat /\ Max32 > 0 /\ n \in Nat
    BY Max32IsNatural
  <2>2. CASE n = 0
    <3>1. Max32 % (Max32 + 1) = Max32
      BY <2>1
    <3> QED BY <2>1, <2>2, <3>1 DEF Dec
  <2>3. CASE n # 0
    <3>1. n + Max32 = (n - 1) + (Max32 + 1) /\ n - 1 \in 0 .. Max32
      BY <2>1, <2>3
    <3>2. (n + Max32) % (Max32 + 1) = n - 1
      BY <2>1, <3>1
    <3> QED BY <2>3, <3>2 DEF Dec
  <2> QED BY <2>2, <2>3
<1> QED BY <1>1

LEMMA IncFacts ==
    \A n \in 0 .. Max32 : Inc(n) = IF n = Max32 THEN 0 ELSE n + 1
<1>1. ASSUME NEW n \in 0 .. Max32 PROVE Inc(n) = IF n = Max32 THEN 0 ELSE n + 1
  <2>1. Max32 \in Nat /\ Max32 > 0 /\ n \in Nat
    BY Max32IsNatural
  <2>2. CASE n = Max32
    <3>1. (Max32 + 1) % (Max32 + 1) = 0
      BY <2>1
    <3> QED BY <2>2, <3>1 DEF Inc
  <2>3. CASE n # Max32
    <3>1. n + 1 \in 0 .. Max32
      BY <2>1, <2>3
    <3>2. (n + 1) % (Max32 + 1) = n + 1
      BY <2>1, <3>1
    <3> QED BY <2>3, <3>2 DEF Inc
  <2> QED BY <2>2, <2>3
<1> QED BY <1>1

LEMMA DeleteFacts ==
    ASSUME TypeOK, NEW t \in Timer, DelTimer(t)
    PROVE  DeletedAs(t)
<1>1. /\ tm \in [Timer -> TimerRecord] /\ heap \in Seq(Timer) /\ num \in 0 .. Max32
  BY DEF TypeOK
<1>2. /\ heap' = HeapPop(heap, Deadlines(tm))
      /\ tm' = [tm EXCEPT ![t].deleted = TRUE]
      /\ num' = Dec(num)
  BY DEF DelTimer
<1>3. /\ heap' \in Seq(Timer) /\ Fewer(heap', heap)
      /\ heap # <<>> => Len(heap') = Len(heap) - 1
  BY <1>1, <1>2, PopIsFewer
<1>4. [tm[t] EXCEPT !.deleted = TRUE] \in TimerRecord
  BY <1>1 DEF TimerRecord
<1>5. /\ tm' \in [Timer -> TimerRecord] /\ tm'[t] = [tm[t] EXCEPT !.deleted = TRUE]
      /\ \A u \in Timer : u # t => tm'[u] = tm[u]
  <2>1. tm' = [tm EXCEPT ![t] = [tm[t] EXCEPT !.deleted = TRUE]]
    BY <1>2
  <2> QED BY <1>1, <1>4, <2>1
<1>6. num' \in 0 .. Max32
  BY <1>1, <1>2, CountsWrap
<1> QED BY <1>2, <1>3, <1>5, <1>6 DEF DeletedAs

LEMMA LastExpiryFacts ==
    ASSUME TypeOK, LastExpiry
    PROVE  LastExpiryAs(heap[1])
<1> DEFINE t == heap[1]
           rec == [tm[t] EXCEPT !.repeat = 0, !.destory = TRUE, !.pending = TRUE]
<1>1. /\ tm \in [Timer -> TimerRecord] /\ heap \in Seq(Timer) /\ num \in 0 .. Max32
  BY DEF TypeOK
<1>2. /\ heap # <<>> /\ tm[t].next <= cur
      /\ heap' = HeapPop(heap, Deadlines(tm))
      /\ num' = Dec(num) /\ RepeatAfter(t) = 0
      /\ pend' = IF tm[t].pending THEN pend ELSE <<t>> \o pend
  BY DEF LastExpiry, Due
<1>3. t \in Timer /\ heap' \in Seq(Timer) /\ Removed(heap', heap, t)
  BY <1>1, <1>2, PopFacts
<1>4. tm' = [tm EXCEPT ![t] = rec]
  BY <1>1 DEF LastExpiry
<1>t. t = heap[1]
  OBVIOUS
<1> HIDE DEF t
<1>5. tm[t] \in TimerRecord /\ rec \in TimerRecord
  <2>1. tm[t] \in TimerRecord
    BY <1>1, <1>3
  <2>2. 0 \in 0 .. Max32
    BY Max32IsNatural
  <2> QED BY <2>1, <2>2 DEF TimerRecord
<1>6. tm[t].repeat = 1 /\ Max32 # 1
  <2>1. tm[t].repeat \in 0 .. Max32 /\ Max32 \in Nat /\ Max32 # 0
    BY <1>5, Max32IsNatural DEF TimerRecord
  <2> QED BY <1>2, <2>1, DecFacts DEF RepeatAfter
<1> HIDE DEF rec
<1>7. /\ tm' \in [Timer -> TimerRecord] /\ tm'[t] = rec
      /\ \A u \in Timer : u # t => tm'[u] = tm[u]
  BY <1>1, <1>3, <1>4, <1>5
<1>8. num' \in 0 .. Max32
  BY <1>1, <1>2, CountsWrap
<1> QED BY <1>t, <1>2, <1>3, <1>6, <1>7, <1>8 DEF LastExpiryAs, rec

LEMMA ExpiryFacts ==
    ASSUME TypeOK, Expiry
    PROVE  ExpiryAs(heap[1])
<1> DEFINE t == heap[1]
           rec == [tm[t] EXCEPT !.repeat = RepeatAfter(t), !.next = cur + tm[t].delay,
                                !.fired = @ + 1]
           popped == HeapPop(heap, Deadlines(tm'))
<1>1. /\ tm \in [Timer -> TimerRecord] /\ heap \in Seq(Timer) /\ cur \in Nat
      /\ Len(heap) <= Capacity /\ Len(heap) \in Nat /\ Capacity \in Nat
  BY LenProperties, CapacityIsPositive DEF TypeOK
<1>2. /\ heap # <<>> /\ tm[t].next <= cur
      /\ heap' = HeapInsert(popped, Deadlines(tm'), t, Capacity)
      /\ RepeatAfter(t) # 0
  BY DEF Expiry, Due
<1>3. t \in Timer /\ popped \in Seq(Timer) /\ Removed(popped, heap, t)
  BY <1>1, <1>2, PopFacts
<1>4. tm' = [tm EXCEPT ![t] = rec]
  BY <1>1 DEF Expiry
<1>t. t = heap[1]
  OBVIOUS
<1>n. t \in Nodes(heap)
  <2>1. 1 \in 1 .. Len(heap)
    BY <1>1, <1>2, EmptySeq, LenProperties
  <2> QED BY <2>1, NodesOf
<1> HIDE DEF t, popped
<1>5. tm[t] \in TimerRecord /\ tm[t].repeat \in 0 .. Max32 /\ tm[t].delay \in Nat
      /\ tm[t].fired \in Nat
  BY <1>1, <1>3 DEF TimerRecord
<1>6. /\ tm[t].repeat # 0 =>
           RepeatAfter(t) = IF tm[t].repeat = Max32 THEN Max32 ELSE tm[t].repeat - 1
      /\ tm[t].repeat = 0 => RepeatAfter(t) = Max32
      /\ RepeatAfter(t) \in 0 .. Max32
  BY <1>5, DecFacts, Max32IsNatural DEF RepeatAfter
<1>7. cur + tm[t].delay \in Nat /\ tm[t].fired + 1 \in Nat
  BY <1>1, <1>5
<1>8. rec \in TimerRecord /\ rec.repeat = RepeatAfter(t)
  <2> HIDE DEF RepeatAfter
  <2> QED BY <1>5, <1>6, <1>7 DEF TimerRecord
<1> HIDE DEF rec, RepeatAfter
<1>9. /\ tm' \in [Timer -> TimerRecord] /\ tm'[t] = rec
      /\ \A u \in Timer : u # t => tm'[u] = tm[u]
  BY <1>1, <1>3, <1>4, <1>8
<1>10. Len(popped) = Len(heap) - 1
  BY <1>3 DEF Removed
<1>11. heap' \in Seq(Timer) /\ Inserted(heap', popped, t)
  BY <1>1, <1>2, <1>3, <1>10, InsertFacts
<1>12. Len(heap') = Len(heap)
  BY <1>1, <1>10, <1>11 DEF Inserted
<1>13. Nodes(heap') = Nodes(heap)
  BY <1>3, <1>11, <1>n DEF Inserted, Removed
<1>14. ASSUME NEW m, Once(heap, m) PROVE Once(heap', m)
  BY <1>3, <1>11, <1>14 DEF Inserted, Removed
<1>15. tm'[t] = [tm[t] EXCEPT !.repeat = tm'[t].repeat, !.next = cur + tm[t].delay,
                              !.fired = @ + 1]
  BY <1>8, <1>9 DEF rec
<1> QED BY <1>t, <1>2, <1>3, <1>6, <1>8, <1>9, <1>11, <1>12, <1>13, <1>14, <1>15 DEF ExpiryAs

\* The head of a sequence and the rest of it.
LEMMA TopIsNode == \A h \in Seq(Timer) : h # <<>> => h[1] \in Nodes(h)
<1>1. ASSUME NEW h \in Seq(Timer), h # <<>> PROVE h[1] \in Nodes(h)
  <2>1. 1 \in 1 .. Len(h)
    BY <1>1, EmptySeq, LenProperties
  <2> QED BY <2>1, NodesOf
<1> QED BY <1>1

LEMMA PendingNodes ==
    ASSUME NEW p \in Seq(Timer), NEW t \in Timer
    PROVE  /\ <<t>> \o p \in Seq(Timer)
           /\ Head(<<t>> \o p) = t
           /\ Nodes(<<t>> \o p) = Nodes(p) \cup {t}
           /\ \A m : Once(p, m) /\ (m = t => t \notin Nodes(p)) => Once(<<t>> \o p, m)
<1> DEFINE q == <<t>> \o p
           k == Len(p)
<1>1. k \in Nat /\ <<t>> \in Seq(Timer) /\ Len(<<t>>) = 1 /\ <<t>>[1] = t
  BY LenProperties
<1>2. /\ q \in Seq(Timer) /\ Len(q) = k + 1 /\ q[1] = t
      /\ \A c \in 1 .. k : q[c + 1] = p[c]
  BY <1>1, ConcatProperties
<1> HIDE DEF q, k
<1>3. Head(q) = t
  <2>1. q # <<>>
    BY <1>1, <1>2, EmptySeq
  <2> QED BY <1>2, <2>1, HeadTailProperties
<1>4. \A c \in 1 .. k + 1 : c = 1 \/ (c - 1 \in 1 .. k /\ q[c] = p[c - 1])
  BY <1>1, <1>2
<1>5. \A c \in 1 .. k : c + 1 \in 1 .. k + 1 /\ c + 1 # 1
  BY <1>1
<1>6. 1 \in 1 .. k + 1
  BY <1>1
<1>7. \A x : x \in Nodes(q) <=> \E c \in 1 .. k + 1 : x = q[c]
  BY <1>2, NodesOf
<1>8. \A x : x \in Nodes(p) <=> \E c \in 1 .. k : x = p[c]
  BY NodesOf DEF k
<1>9. Nodes(q) = Nodes(p) \cup {t}
  <2>1. ASSUME NEW x \in Nodes(q) PROVE x \in Nodes(p) \cup {t}
    BY <1>2, <1>4, <1>7, <1>8
  <2>2. ASSUME NEW x \in Nodes(p) PROVE x \in Nodes(q)
    BY <1>2, <1>5, <1>7, <1>8
  <2>3. t \in Nodes(q)
    BY <1>2, <1>6, <1>7
  <2> QED BY <2>1, <2>2, <2>3
<1>10. ASSUME NEW m, Once(p, m), m = t => t \notin Nodes(p) PROVE Once(q, m)
  <2>1. ASSUME NEW a \in 1 .. k + 1, NEW b \in 1 .. k + 1, q[a] = m, q[b] = m PROVE a = b
    <3>1. CASE m = t
      <4>1. \A c \in 1 .. k : p[c] # t
        BY <1>8, <1>10, <3>1
      <4> QED BY <1>4, <2>1, <3>1, <4>1
    <3>2. CASE m # t
      <4>1. a - 1 \in 1 .. k /\ b - 1 \in 1 .. k /\ p[a - 1] = m /\ p[b - 1] = m
        BY <1>2, <1>4, <2>1, <3>2
      <4>2. a - 1 = b - 1
        BY <1>10, <4>1 DEF Once, k
      <4> QED BY <2>1, <4>2
    <3> QED BY <3>1, <3>2
  <2> QED BY <1>2, <2>1 DEF Once
<1> QED BY <1>2, <1>3, <1>9, <1>10 DEF q

LEMMA TailNodes ==
    ASSUME NEW p \in Seq(Timer), p # <<>>
    PROVE  /\ Tail(p) \in Seq(Timer)
           /\ Head(p) \in Timer /\ Head(p) \in Nodes(p)
           /\ Removed(Tail(p), p, Head(p))
<1> DEFINE q == Tail(p)
           k == Len(p)
<1>1. /\ k \in Nat /\ k >= 1 /\ q \in Seq(Timer) /\ Len(q) = k - 1
      /\ \A c \in 1 .. k - 1 : q[c] = p[c + 1]
  BY LenProperties, EmptySeq, HeadTailProperties
<1>2. Head(p) = p[1] /\ p[1] \in Timer
  BY HeadTailProperties
<1> HIDE DEF q, k
<1>3. \A c \in 1 .. k - 1 : c + 1 \in 1 .. k /\ c + 1 # 1
  BY <1>1
<1>4. \A c \in 1 .. k : c # 1 => c - 1 \in 1 .. k - 1 /\ p[c] = q[c - 1]
  BY <1>1
<1>5. 1 \in 1 .. k
  BY <1>1
<1>6. \A x : x \in Nodes(q) <=> \E c \in 1 .. k - 1 : x = q[c]
  BY <1>1, NodesOf
<1>7. \A x : x \in Nodes(p) <=> \E c \in 1 .. k : x = p[c]
  BY NodesOf DEF k
<1>8. Nodes(q) \subseteq Nodes(p)
  <2>1. ASSUME NEW x \in Nodes(q) PROVE x \in Nodes(p)
    <3>1. PICK c \in 1 .. k - 1 : x = q[c]
      BY <1>6
    <3>2. c + 1 \in 1 .. k /\ x = p[c + 1]
      BY <1>1, <1>3, <3>1
    <3> QED BY <1>7, <3>2
  <2> QED BY <2>1
<1>9. Nodes(p) \ {p[1]} \subseteq Nodes(q)
  <2>1. ASSUME NEW x \in Nodes(p), x # p[1] PROVE x \in Nodes(q)
    <3>1. PICK c \in 1 .. k : x = p[c]
      BY <1>7
    <3>2. c - 1 \in 1 .. k - 1 /\ x = q[c - 1]
      BY <1>4, <2>1, <3>1
    <3> QED BY <1>6, <3>2
  <2> QED BY <2>1
<1>10. ASSUME NEW m, Once(p, m) PROVE Once(q, m)
  <2>1. ASSUME NEW a \in 1 .. k - 1, NEW b \in 1 .. k - 1, q[a] = m, q[b] = m PROVE a = b
    <3>1. a + 1 \in 1 .. k /\ b + 1 \in 1 .. k /\ p[a + 1] = m /\ p[b + 1] = m
      BY <1>1, <1>3, <2>1
    <3>2. a + 1 = b + 1
      BY <1>10, <3>1 DEF Once, k
    <3> QED BY <2>1, <3>2
  <2> QED BY <1>1, <2>1 DEF Once
<1>11. ASSUME Once(p, p[1]), p[1] \in Nodes(q) PROVE FALSE
  <2>1. PICK c \in 1 .. k - 1 : p[1] = q[c]
    BY <1>6, <1>11
  <2>2. c + 1 \in 1 .. k /\ p[c + 1] = p[1] /\ c + 1 # 1
    BY <1>1, <1>3, <2>1
  <2> QED BY <1>5, <1>11, <2>2 DEF Once, k
<1>12. Head(p) \in Nodes(p)
  BY <1>2, <1>5, <1>7
<1> QED BY <1>1, <1>2, <1>8, <1>9, <1>10, <1>11, <1>12 DEF Removed, q, k

LEMMA TypedStep == Typed /\ TimersAreLinked /\ [Next]_vars => Typed'
<1> SUFFICES ASSUME Typed, TimersAreLinked, [Next]_vars PROVE Typed'
  OBVIOUS
<1> USE DEF Typed
<1>t. /\ now \in Nat /\ cur \in Nat /\ cur <= now /\ heap \in Seq(Timer)
      /\ Len(heap) <= Capacity /\ num \in 0 .. Max32 /\ tm \in [Timer -> TimerRecord]
      /\ pend \in Seq(Timer) /\ io \in [Io -> IoRecord] /\ calls \in 0 .. MaxCalls
      /\ who \in Timer \cup {NoTimer} /\ Len(heap) \in Nat /\ Capacity \in Nat
  BY LenProperties, CapacityIsPositive DEF TypeOK
<1>k. \A t \in Timer : tm[t] \in TimerRecord
  BY <1>t
<1>i. \A i \in Io : io[i] \in IoRecord
  BY <1>t
<1>p. Delays \subseteq Nat /\ Repeats \subseteq 0 .. Max32 /\ 1 \in 0 .. Max32
  BY Parameters, Max32IsNatural
<1>1. CASE Tick
  BY <1>1, <1>t, TypedOther DEF Tick
<1>2. ASSUME NEW d \in Delays, NEW r \in Repeats, AddTimer(d, r) PROVE Typed'
  BY <1>2, <1>t, <1>p, Parameters, TypedArm DEF AddTimer
<1>3. ASSUME NEW d \in Delays, NEW i \in Io, Connect(i, d) PROVE Typed'
  <2>1. NewTimer \in Timer
    BY <1>3, NewTimerIsUnused DEF Connect, Arm
  <2>2. "connect" \in Kinds /\ d \in Nat
    BY <1>p DEF Kinds
  <2>3. io' \in [Io -> IoRecord]
    <3>1. io' = [io EXCEPT ![i].state = "connecting", ![i].timer["connect"] = NewTimer,
                           ![i].delay["connect"] = d]
      BY <1>3 DEF Connect
    <3> DEFINE rec == [io[i] EXCEPT !.state = "connecting",
                                    !.timer = [io[i].timer EXCEPT !["connect"] = NewTimer],
                                    !.delay = [io[i].delay EXCEPT !["connect"] = d]]
    <3>2. rec \in IoRecord
      BY <1>i, <2>1, <2>2 DEF IoRecord
    <3>3. io' = [io EXCEPT ![i] = rec]
      BY <1>t, <3>1
    <3> HIDE DEF rec
    <3> QED BY <1>t, <3>2, <3>3
  <2> QED BY <1>3, <1>p, <2>2, <2>3, Parameters, TypedArm DEF Connect
<1>4. ASSUME NEW d \in Delays, NEW i \in Io, NEW k \in Kinds \ {"connect"}, SetTimeout(i, k, d)
      PROVE  Typed'
  <2>1. NewTimer \in Timer
    BY <1>4, NewTimerIsUnused DEF SetTimeout, Arm
  <2>2. k \in Kinds /\ k # "plain" /\ d \in Nat
    BY <1>p DEF Kinds
  <2>3. io' \in [Io -> IoRecord]
    <3>1. io' = [io EXCEPT ![i].timer[k] = NewTimer, ![i].delay[k] = d]
      BY <1>4 DEF SetTimeout
    <3> DEFINE rec == [io[i] EXCEPT !.timer = [io[i].timer EXCEPT ![k] = NewTimer],
                                    !.delay = [io[i].delay EXCEPT ![k] = d]]
    <3>2. rec \in IoRecord
      BY <1>i, <2>1, <2>2 DEF IoRecord
    <3>3. io' = [io EXCEPT ![i] = rec]
      BY <1>t, <3>1
    <3> HIDE DEF rec
    <3> QED BY <1>t, <3>2, <3>3
  <2> QED BY <1>4, <1>p, <2>2, <2>3, Parameters, TypedArm DEF SetTimeout
<1>5. ASSUME NEW t \in Timer, DelTimer(t) PROVE Typed'
  <2>1. DeletedAs(t)
    BY <1>5, DeleteFacts
  <2>2. \A u \in Timer : /\ tm'[u].state = tm[u].state /\ tm'[u].kind = tm[u].kind
                         /\ tm'[u].owner = tm[u].owner
    <3>1. tm[t] \in TimerRecord /\ tm'[t] = [tm[t] EXCEPT !.deleted = TRUE]
      BY <1>k, <2>1 DEF DeletedAs
    <3>2. /\ tm'[t].state = tm[t].state /\ tm'[t].kind = tm[t].kind
          /\ tm'[t].owner = tm[t].owner
      BY <3>1 DEF TimerRecord
    <3> QED BY <2>1, <3>2 DEF DeletedAs
  <2>3. UNCHANGED <<now, cur, pend, io, pc, who, from>> /\ calls' \in 0 .. MaxCalls
    BY <1>5, Parameters DEF DelTimer
  <2>4. Len(heap') <= Capacity
    BY <1>t, <2>1, LenProperties DEF DeletedAs, Fewer
  <2>5. TypeOK'
    BY <2>1, <2>3, <2>4 DEF TypeOK, DeletedAs
  <2>6. WhoIsCalled'
    BY <2>2, <2>3 DEF WhoIsCalled, InCallback
  <2>7. TimersOfIoAreOwned'
    BY <2>2 DEF TimersOfIoAreOwned
  <2>8. OnlyAllocated'
    BY <2>1, <2>2, <2>3 DEF OnlyAllocated, DeletedAs, Fewer
  <2> QED BY <2>5, <2>6, <2>7, <2>8
<1>6. ASSUME NEW i \in Io, Close(i) PROVE Typed'
  <2>1. ClosedAs(i)
    BY <1>6, CloseFacts DEF Close
  <2> QED BY <1>6, <1>t, <2>1, Parameters, TypedOther DEF Close, ClosedAs, Fewer
<1>7. ASSUME NEW i \in Io, Send(i) PROVE Typed'
  <2>1. io' \in [Io -> IoRecord]
    BY <1>7, <1>t DEF Send, IoRecord
  <2>2. calls' \in 0 .. MaxCalls
    BY <1>7, <1>t, Parameters DEF Send
  <2>3. UNCHANGED <<now, cur, heap, num, tm, pend, pc, who, from>>
    BY <1>7 DEF Send
  <2>4. Nodes(heap') \subseteq Nodes(heap)
    BY <2>3
  <2> QED BY <1>t, <2>1, <2>2, <2>3, <2>4, TypedOther
<1>8. ASSUME NEW i \in Io, ConnectAtOnce(i) PROVE Typed'
  <2>1. io' \in [Io -> IoRecord]
    BY <1>8, <1>t DEF ConnectAtOnce, IoRecord
  <2> QED BY <1>8, <1>t, <2>1, Parameters, TypedOther DEF ConnectAtOnce
<1>9. ASSUME NEW i \in Io, NEW k \in {"read", "write", "close"}, NEW d \in Delays,
             SetTimeoutAgain(i, k, d)
      PROVE  Typed'
  <2>1. io[i].timer[k] \in Timer /\ d \in Nat
    BY <1>9, <1>i, <1>p, Parameters DEF SetTimeoutAgain, IoRecord
  <2>2. tm[io[i].timer[k]].state # "none"
    BY <1>9, Parameters DEF SetTimeoutAgain, TimersAreLinked
  <2> QED BY <1>9, <1>t, <2>1, <2>2, Parameters, TypedReset DEF SetTimeoutAgain
<1>10. ASSUME NEW i \in Io, NEW k \in {"read", "write", "close"}, SetZeroTimeout(i, k)
       PROVE  Typed'
  BY <1>10, <1>t, Parameters, TypedOther DEF SetZeroTimeout
<1>11. ASSUME NEW i \in Io, NEW k \in {"read", "write", "close"}, RemoveTimeout(i, k)
       PROVE  Typed'
  <2>1. heap' \in Seq(Timer) /\ Fewer(heap', heap)
    BY <1>11, <1>t, WithoutFacts DEF RemoveTimeout
  <2>2. Len(heap') <= Capacity
    BY <1>t, <2>1, LenProperties DEF Fewer
  <2>3. io' \in [Io -> IoRecord]
    <3>1. io' = [io EXCEPT ![i].timer[k] = NoTimer, ![i].delay[k] = 0]
      BY <1>11 DEF RemoveTimeout
    <3> DEFINE rec == [io[i] EXCEPT !.timer = [io[i].timer EXCEPT ![k] = NoTimer],
                                    !.delay = [io[i].delay EXCEPT ![k] = 0]]
    <3>2. rec \in IoRecord
      BY <1>i DEF IoRecord
    <3>3. io' = [io EXCEPT ![i] = rec]
      BY <1>t, <3>1
    <3> HIDE DEF rec
    <3> QED BY <1>t, <3>2, <3>3
  <2> QED BY <1>11, <1>t, <2>1, <2>2, <2>3, Parameters, TypedOther DEF RemoveTimeout, Fewer
<1>12. ASSUME NEW i \in Io, Connected(i) PROVE Typed'
  <2>1. io' \in [Io -> IoRecord]
    BY <1>12, <1>t DEF Connected, IoRecord
  <2>2. UNCHANGED <<now, cur, heap, num, tm, pend, pc, who, from, calls>>
    BY <1>12 DEF Connected
  <2>3. Nodes(heap') \subseteq Nodes(heap)
    BY <2>2
  <2> QED BY <1>t, <2>1, <2>2, <2>3, TypedOther
<1>13. ASSUME NEW i \in Io, Accepted(i) PROVE Typed'
  <2>1. io' \in [Io -> IoRecord]
    BY <1>13, <1>t DEF Accepted, IoRecord
  <2> QED BY <1>13, <1>t, <2>1, TypedOther DEF Accepted
<1>14. ASSUME NEW i \in Io, Receive(i) PROVE Typed'
  <2>1. io' \in [Io -> IoRecord]
    BY <1>14, <1>t DEF Receive, IoRecord
  <2> QED BY <1>14, <1>t, <2>1, TypedOther DEF Receive
<1>15. CASE Turn
  BY <1>15, <1>t, TypedOther DEF Turn, InCallback
<1>16. CASE Poll
  BY <1>16, <1>t, TypedOther DEF Poll, InCallback
<1>17. CASE EndIo
  BY <1>17, <1>t, TypedOther DEF EndIo, InCallback
<1>18. CASE EmptyHeap
  BY <1>18, <1>t, TypedOther DEF EmptyHeap
<1>19. CASE NotDue
  BY <1>19, <1>t, TypedOther DEF NotDue, InCallback
<1>20. CASE LastExpiry
  <2> DEFINE t == heap[1]
  <2>1. LastExpiryAs(t)
    BY <1>20, LastExpiryFacts
  <2>2. UNCHANGED <<now, cur, io, pc, who, from, calls>> /\ pc = "expire"
    BY <1>20 DEF LastExpiry, Due
  <2>n. t \in Nodes(heap)
    BY <2>1, <1>t, TopIsNode DEF LastExpiryAs
  <2> HIDE DEF t
  <2>3. \A u \in Timer : /\ tm'[u].state = tm[u].state /\ tm'[u].kind = tm[u].kind
                         /\ tm'[u].owner = tm[u].owner
    <3>1. t \in Timer /\ tm[t] \in TimerRecord
          /\ tm'[t] = [tm[t] EXCEPT !.repeat = 0, !.destory = TRUE, !.pending = TRUE]
      BY <1>k, <2>1 DEF LastExpiryAs
    <3>2. /\ tm'[t].state = tm[t].state /\ tm'[t].kind = tm[t].kind
          /\ tm'[t].owner = tm[t].owner
      BY <3>1 DEF TimerRecord
    <3> QED BY <2>1, <3>2 DEF LastExpiryAs
  <2>4. pend' \in Seq(Timer)
    <3>1. t \in Timer
      BY <2>1 DEF LastExpiryAs
    <3>2. <<t>> \in Seq(Timer)
      BY <3>1
    <3>3. <<t>> \o pend \in Seq(Timer)
      BY <1>t, <3>2, ConcatProperties
    <3> QED BY <1>t, <2>1, <3>3 DEF LastExpiryAs
  <2>5. Len(heap') <= Capacity
    BY <1>t, <2>1 DEF LastExpiryAs, Removed
  <2>6. TypeOK'
    BY <2>1, <2>2, <2>4, <2>5 DEF TypeOK, LastExpiryAs
  <2>7. WhoIsCalled'
    BY <2>2 DEF WhoIsCalled, InCallback
  <2>8. TimersOfIoAreOwned'
    BY <2>2, <2>3 DEF TimersOfIoAreOwned
  <2>9. OnlyAllocated'
    <3>1. Nodes(heap') \subseteq Nodes(heap) /\ t \in Nodes(heap)
      BY <2>1, <2>n DEF LastExpiryAs, Removed
    <3>2. Nodes(pend') \subseteq Nodes(pend) \cup {t}
      BY <2>1, <1>t, PendingNodes DEF LastExpiryAs
    <3> QED BY <2>3, <3>1, <3>2 DEF OnlyAllocated
  <2> QED BY <2>6, <2>7, <2>8, <2>9
<1>21. CASE Expiry
  <2> DEFINE t == heap[1]
  <2>1. ExpiryAs(t)
    BY <1>21, ExpiryFacts
  <2>2. UNCHANGED <<now, cur, num, pend, io, calls>> /\ pc' = "cb" /\ from' = "expire"
        /\ who' = t /\ t \in Timer
    BY <1>21, <2>1 DEF Expiry, ExpiryAs
  <2>n. t \in Nodes(heap)
    BY <2>1, <1>t, TopIsNode DEF ExpiryAs
  <2> HIDE DEF t
  <2>3. \A u \in Timer : /\ tm'[u].state = tm[u].state /\ tm'[u].kind = tm[u].kind
                         /\ tm'[u].owner = tm[u].owner
    <3>1. tm[t] \in TimerRecord
          /\ tm'[t] = [tm[t] EXCEPT !.repeat = tm'[t].repeat, !.next = cur + tm[t].delay,
                                    !.fired = @ + 1]
      BY <1>k, <2>1, <2>2 DEF ExpiryAs
    <3>2. /\ tm'[t].state = tm[t].state /\ tm'[t].kind = tm[t].kind
          /\ tm'[t].owner = tm[t].owner
      BY <3>1 DEF TimerRecord
    <3> QED BY <2>1, <3>2 DEF ExpiryAs
  <2>6. TypeOK'
    BY <1>t, <2>1, <2>2 DEF TypeOK, ExpiryAs
  <2>7. WhoIsCalled'
    BY <2>2, <2>3, <2>n DEF WhoIsCalled, InCallback, OnlyAllocated
  <2>8. TimersOfIoAreOwned'
    BY <2>2, <2>3 DEF TimersOfIoAreOwned
  <2>9. OnlyAllocated'
    BY <2>1, <2>2, <2>3 DEF OnlyAllocated, ExpiryAs
  <2> QED BY <2>6, <2>7, <2>8, <2>9
<1>22. CASE CallPending
  <2> DEFINE t == Head(pend)
  <2>1. t \in Timer /\ t \in Nodes(pend)
    BY <1>22, <1>t, TailNodes DEF CallPending
  <2>2. /\ UNCHANGED <<now, cur, heap, num, pend, io, calls>> /\ pc' = "cb"
        /\ from' = "pending" /\ who' = t /\ pend # <<>>
        /\ tm' = [tm EXCEPT ![t].fired = @ + 1]
    BY <1>22 DEF CallPending
  <2>t. t = Head(pend)
    OBVIOUS
  <2> HIDE DEF t
  <2>3. tm[t] \in TimerRecord /\ [tm[t] EXCEPT !.fired = @ + 1] \in TimerRecord
    BY <1>k, <2>1 DEF TimerRecord
  <2>4. /\ tm' \in [Timer -> TimerRecord]
        /\ \A u \in Timer : u # t => tm'[u] = tm[u]
        /\ tm'[t] = [tm[t] EXCEPT !.fired = @ + 1]
    BY <1>t, <2>1, <2>2, <2>3
  <2>5. \A u \in Timer : /\ tm'[u].state = tm[u].state /\ tm'[u].kind = tm[u].kind
                         /\ tm'[u].owner = tm[u].owner
    <3>1. /\ tm'[t].state = tm[t].state /\ tm'[t].kind = tm[t].kind
          /\ tm'[t].owner = tm[t].owner
      BY <2>3, <2>4 DEF TimerRecord
    <3> QED BY <2>4, <3>1
  <2>6. TypeOK'
    BY <1>t, <2>1, <2>2, <2>4 DEF TypeOK
  <2>7. WhoIsCalled'
    BY <2>1, <2>2, <2>5, <2>t DEF WhoIsCalled, InCallback, OnlyAllocated
  <2>8. TimersOfIoAreOwned'
    BY <2>5 DEF TimersOfIoAreOwned
  <2>9. OnlyAllocated'
    BY <2>2, <2>5 DEF OnlyAllocated
  <2> QED BY <2>6, <2>7, <2>8, <2>9
<1>23. CASE EndPending
  BY <1>23, <1>t, TypedOther DEF EndPending, InCallback
<1>24. CASE StillActive
  <2> DEFINE i == tm[who].owner
             k == tm[who].kind
  <2>1. /\ k \in {"read", "write"} /\ ResetTimer(who, io[i].delay[k])
        /\ pc = "cb" /\ pc' = "return" /\ UNCHANGED <<now, cur, pend, io, who, from, calls>>
    BY <1>24 DEF StillActive
  <2>2. who \in Timer /\ tm[who].state # "none"
    BY <2>1 DEF WhoIsCalled, InCallback
  <2>3. i \in Io /\ k \in Kinds
    BY <2>1, <2>2 DEF TimersOfIoAreOwned, Kinds
  <2>4. io[i].delay[k] \in Nat
    BY <1>i, <2>3 DEF IoRecord
  <2> HIDE DEF i, k
  <2> QED BY <1>t, <2>1, <2>2, <2>4, TypedReset
<1>25. CASE TimedOut
  <2>1. /\ tm[who].kind # "plain" /\ IoClose(tm[who].owner)
        /\ pc = "cb" /\ pc' = "return"
        /\ UNCHANGED <<now, cur, num, tm, pend, who, from, calls>>
    BY <1>25 DEF TimedOut
  <2>2. tm[who].owner \in Io
    BY <2>1 DEF WhoIsCalled, InCallback, TimersOfIoAreOwned
  <2>3. ClosedAs(tm[who].owner)
    BY <2>1, <2>2, CloseFacts
  <2> QED BY <1>t, <2>1, <2>3, TypedOther DEF ClosedAs, Fewer
<1>26. CASE UserReturn
  BY <1>26, <1>t, TypedOther DEF UserReturn
<1>27. CASE BackToExpire
  <2>1. /\ pc' = "expire" /\ who' = NoTimer /\ from' = "run"
        /\ UNCHANGED <<now, cur, heap, num, tm, pend, io, calls>>
    BY <1>27 DEF BackToExpire
  <2>2. TypeOK'
    BY <2>1 DEF TypeOK
  <2> QED BY <2>1, <2>2 DEF WhoIsCalled, InCallback, TimersOfIoAreOwned, OnlyAllocated
<1>28. CASE BackToPending
  <2>1. /\ pc = "return" /\ from = "pending"
        /\ pc' = "pending" /\ who' = NoTimer /\ from' = "run" /\ pend' = Tail(pend)
        /\ UNCHANGED <<now, cur, heap, num, io, calls>>
        /\ tm' = [tm EXCEPT ![who].pending = FALSE, ![who].destory = FALSE,
                            ![who].state = IF tm[who].destory THEN "freed" ELSE @]
    BY <1>28 DEF BackToPending
  <2>2. who \in Timer /\ tm[who].state # "none" /\ pend # <<>> /\ who = Head(pend)
    BY <2>1 DEF WhoIsCalled, InCallback
  <2> DEFINE rec == [tm[who] EXCEPT !.pending = FALSE, !.destory = FALSE,
                                    !.state = IF tm[who].destory THEN "freed" ELSE @]
  <2>3. tm' = [tm EXCEPT ![who] = rec]
    BY <1>t, <2>1, <2>2
  <2>4. tm[who] \in TimerRecord
    BY <1>k, <2>2
  <2>5. /\ rec \in TimerRecord /\ rec.kind = tm[who].kind /\ rec.owner = tm[who].owner
        /\ rec.state # "none"
    BY <2>2, <2>4 DEF TimerRecord
  <2> HIDE DEF rec
  <2>6. /\ tm' \in [Timer -> TimerRecord] /\ tm'[who] = rec
        /\ \A u \in Timer : u # who => tm'[u] = tm[u]
    BY <1>t, <2>2, <2>3, <2>5
  <2>7. pend' \in Seq(Timer) /\ Nodes(pend') \subseteq Nodes(pend)
    BY <1>t, <2>1, <2>2, TailNodes DEF Removed
  <2>8. TypeOK'
    BY <2>1, <2>6, <2>7 DEF TypeOK
  <2>9. WhoIsCalled'
    BY <2>1 DEF WhoIsCalled, InCallback
  <2>10. TimersOfIoAreOwned'
    BY <2>1, <2>2, <2>5, <2>6 DEF TimersOfIoAreOwned
  <2>11. OnlyAllocated'
    BY <2>1, <2>2, <2>5, <2>6, <2>7 DEF OnlyAllocated
  <2> QED BY <2>8, <2>9, <2>10, <2>11
<1>29. CASE UNCHANGED vars
  BY <1>29 DEF vars, TypeOK, WhoIsCalled, InCallback, TimersOfIoAreOwned, OnlyAllocated
<1> QED
  BY <1>1, <1>2, <1>3, <1>4, <1>5, <1>6, <1>7, <1>8, <1>9, <1>10, <1>11, <1>12, <1>13, <1>14,
     <1>15, <1>16, <1>17, <1>18, <1>19, <1>20, <1>21, <1>22, <1>23, <1>24, <1>25, <1>26, <1>27,
     <1>28, <1>29 DEF Next, ProgramStep, LoopStep

-----------------------------------------------------------------------------
(* The kinds of steps, by what they do to the timers.                      *)

\* A step that arms a timer: one of the program, or one that a connection keeps.
ArmStep ==
    /\ InUserCode /\ calls' = calls + 1
    /\ UNCHANGED <<now, pend, pc, who, from>>
    /\ \E kind \in Kinds \cup {"plain"}, owner \in Io \cup {NoTimer}, d \in Nat, r \in 0 .. Max32 :
          /\ d > 0 /\ ArmedAs(NewTimer, kind, owner, d, r)
          /\ \/ kind = "plain" /\ UNCHANGED io
             \/ /\ kind # "plain" /\ owner \in Io
                /\ \A i \in Io : i # owner => io'[i] = io[i]
                /\ io'[owner].state \in {"connecting", "open"}
                /\ io[owner].state # "closed"
                /\ kind = "read" => io[owner].state # "new"
                /\ io'[owner].read = io[owner].read
                /\ io'[owner].timer = [io[owner].timer EXCEPT ![kind] = NewTimer]

\* A step that resets a timer of a connection, which the program asks for or
\* the timer's own callback.
ResetStep ==
    /\ UNCHANGED <<now, cur, pend, io, who, from>>
    /\ \E t \in Timer, d \in Nat :
          /\ ResetAs(t, d) /\ tm[t].kind # "plain"
          /\ \/ /\ InUserCode /\ calls' = calls + 1 /\ UNCHANGED pc
                /\ tm[t].state = "live"
             \/ /\ pc = "cb" /\ pc' = "return" /\ t = who /\ UNCHANGED calls

DeleteStep ==
    /\ InUserCode /\ calls' = calls + 1 /\ CanDelete
    /\ UNCHANGED <<now, cur, pend, io, pc, who, from>>
    /\ \E t \in Timer :
          /\ DeletedAs(t)
          /\ tm[t].state = "live" /\ tm[t].kind = "plain"
          /\ tm[t].repeat = Max32 /\ ~tm[t].deleted

\* A step of a connection that leaves its timers alone.
IoStep ==
    /\ calls' \in {calls, calls + 1}
    /\ UNCHANGED <<now, cur, heap, num, tm, pend, pc, who, from>>
    /\ \E i \in Io :
          /\ \A j \in Io : j # i => io'[j] = io[j]
          /\ io[i].state # "closed" /\ io'[i].state = "open"
          /\ io'[i].timer = io[i].timer
          /\ io'[i].read \in {io[i].read, cur, now}
          /\ \/ io'[i].read \in {io[i].read, cur}
             \/ pc = "io"
             \/ io[i].state = "new"

\* A step that takes timers of a connection out of the heap.
RemoveStep ==
    /\ UNCHANGED <<now, cur, num, tm, pend, who, from>>
    /\ calls' \in {calls, calls + 1}
    /\ heap' \in Seq(Timer) /\ Fewer(heap', heap)
    /\ \E i \in Io :
          /\ \A j \in Io : j # i => io'[j] = io[j]
          /\ io'[i].read = io[i].read
          /\ io'[i].state \in {io[i].state, "closed"}
          /\ \A k \in Kinds : io'[i].timer[k] \in {io[i].timer[k], NoTimer}
          /\ io'[i].state = "closed" => \/ io'[i] = io[i]
                                        \/ \A k \in Kinds : io'[i].timer[k] = NoTimer
          /\ \/ InUserCode /\ UNCHANGED pc
             \/ /\ pc = "cb" /\ pc' = "return"
                /\ tm[who].owner = i /\ tm[who].kind # "plain" /\ io'[i].state = "closed"

\* A step that only moves the clocks or the control.
ControlStep ==
    /\ UNCHANGED <<heap, num, tm, pend, io>>
    /\ calls' \in {calls, calls + 1}
    /\ now <= now' /\ cur <= cur'
    /\ \/ UNCHANGED <<pc, who, from>>
       \/ pc = "cb" /\ tm[who].kind = "plain" /\ pc' = "return" /\ UNCHANGED <<who, from>>
       \/ pc = "return" /\ from = "expire" /\ pc' = "expire" /\ who' = NoTimer /\ from' = "run"
       \/ pc' = "crashed" /\ ((heap = <<>> /\ pc = "expire") \/ Io # {}) /\ UNCHANGED <<who, from>>
       \/ /\ pc \in {"top", "poll", "io", "expire", "pending"} /\ UNCHANGED <<who, from>>
          /\ \/ pc' = "expire" /\ cur' = now
             \/ pc' \in {"top", "poll", "io"}
             \/ pc = "expire" /\ pc' = "pending"

LastExpiryStep ==
    /\ pc = "expire"
    /\ UNCHANGED <<now, cur, io, pc, who, from, calls>>
    /\ LastExpiryAs(heap[1])

ExpiryStep ==
    /\ pc = "expire" /\ pc' = "cb" /\ from' = "expire" /\ who' = heap[1]
    /\ UNCHANGED <<now, cur, num, pend, io, calls>>
    /\ ExpiryAs(heap[1])

CallStep ==
    /\ pc = "pending" /\ pc' = "cb" /\ from' = "pending"
    /\ pend # <<>> /\ who' = Head(pend)
    /\ UNCHANGED <<now, cur, heap, num, pend, io, calls>>
    /\ tm' \in [Timer -> TimerRecord]
    /\ \A u \in Timer : u # who' => tm'[u] = tm[u]
    /\ tm'[who'] = [tm[who'] EXCEPT !.fired = @ + 1]

BackStep ==
    /\ pc = "return" /\ from = "pending"
    /\ pc' = "pending" /\ who' = NoTimer /\ from' = "run"
    /\ UNCHANGED <<now, cur, heap, num, io, calls>>
    /\ pend' = Tail(pend)
    /\ tm' \in [Timer -> TimerRecord]
    /\ \A u \in Timer : u # who => tm'[u] = tm[u]
    /\ tm'[who] = [tm[who] EXCEPT !.pending = FALSE, !.destory = FALSE,
                                  !.state = IF tm[who].destory THEN "freed" ELSE @]

StepKinds ==
    \/ ArmStep \/ ResetStep \/ DeleteStep \/ IoStep \/ RemoveStep
    \/ ControlStep \/ LastExpiryStep \/ ExpiryStep \/ CallStep \/ BackStep

\* Every step is of one of the kinds.
LEMMA EveryStepHasAKind == Typed /\ TimersAreLinked /\ [Next]_vars => StepKinds
<1> SUFFICES ASSUME Typed, TimersAreLinked, [Next]_vars PROVE StepKinds
  OBVIOUS
<1> USE DEF Typed
<1>t. /\ now \in Nat /\ cur \in Nat /\ cur <= now /\ heap \in Seq(Timer)
      /\ tm \in [Timer -> TimerRecord] /\ pend \in Seq(Timer) /\ io \in [Io -> IoRecord]
      /\ calls \in 0 .. MaxCalls /\ who \in Timer \cup {NoTimer}
  BY DEF TypeOK
<1>i. \A i \in Io : io[i] \in IoRecord
  BY <1>t
<1>p. Delays \subseteq Nat /\ Repeats \subseteq 0 .. Max32 /\ 1 \in 0 .. Max32
      /\ Kinds = {"read", "write", "close", "connect"}
  BY Parameters, Max32IsNatural
<1>c. Call => InUserCode /\ calls' = calls + 1
  BY DEF Call
<1>1. ASSUME Tick PROVE ControlStep
  BY <1>1, <1>t DEF Tick, ControlStep
<1>2. ASSUME NEW d \in Delays, NEW r \in Repeats, AddTimer(d, r) PROVE ArmStep
  <2>1. /\ d \in Nat /\ d > 0 /\ r \in 0 .. Max32 /\ Arm(NewTimer, "plain", NoTimer, d, r)
        /\ InUserCode /\ calls' = calls + 1 /\ UNCHANGED <<now, pend, io, pc, who, from>>
    BY <1>2, <1>p, <1>c DEF AddTimer
  <2>2. ArmedAs(NewTimer, "plain", NoTimer, d, r)
    BY <2>1, ArmFacts
  <2> QED BY <2>1, <2>2 DEF ArmStep
<1>3. ASSUME NEW d \in Delays, NEW i \in Io, Connect(i, d) PROVE ArmStep
  <2>1. /\ d \in Nat /\ d > 0 /\ Arm(NewTimer, "connect", i, d, 1)
        /\ InUserCode /\ calls' = calls + 1 /\ UNCHANGED <<now, pend, pc, who, from>>
        /\ io[i].state = "new"
        /\ io' = [io EXCEPT ![i].state = "connecting", ![i].timer["connect"] = NewTimer,
                            ![i].delay["connect"] = d]
    BY <1>3, <1>p, <1>c DEF Connect
  <2>2. ArmedAs(NewTimer, "connect", i, d, 1) /\ "connect" \in Kinds /\ "connect" # "plain"
    BY <1>p, <2>1, ArmFacts
  <2>3. /\ \A j \in Io : j # i => io'[j] = io[j]
        /\ io'[i].state = "connecting" /\ io'[i].read = io[i].read
        /\ io'[i].timer = [io[i].timer EXCEPT !["connect"] = NewTimer]
    BY <1>t, <1>i, <2>1 DEF IoRecord
  <2> QED BY <1>p, <2>1, <2>2, <2>3 DEF ArmStep
<1>4. ASSUME NEW d \in Delays, NEW i \in Io, NEW k \in Kinds \ {"connect"}, SetTimeout(i, k, d)
      PROVE  ArmStep
  <2>1. /\ d \in Nat /\ d > 0 /\ Arm(NewTimer, k, i, d, 1)
        /\ InUserCode /\ calls' = calls + 1 /\ UNCHANGED <<now, pend, pc, who, from>>
        /\ io[i].state \in {"connecting", "open"}
        /\ io' = [io EXCEPT ![i].timer[k] = NewTimer, ![i].delay[k] = d]
    BY <1>4, <1>p, <1>c DEF SetTimeout
  <2>2. ArmedAs(NewTimer, k, i, d, 1) /\ k \in Kinds /\ k # "plain"
    BY <1>p, <2>1, ArmFacts
  <2>3. /\ \A j \in Io : j # i => io'[j] = io[j]
        /\ io'[i].state = io[i].state /\ io'[i].read = io[i].read
        /\ io'[i].timer = [io[i].timer EXCEPT ![k] = NewTimer]
    BY <1>t, <1>i, <2>1 DEF IoRecord
  <2>4. /\ io'[i].state \in {"connecting", "open"} /\ io[i].state # "closed" /\ io[i].state # "new"
        /\ k \in Kinds \cup {"plain"} /\ i \in Io \cup {NoTimer} /\ 1 \in 0 .. Max32
    BY <1>p, <2>1, <2>2, <2>3
  <2> QED BY <2>1, <2>2, <2>3, <2>4 DEF ArmStep
<1>5. ASSUME NEW t \in Timer, DelTimer(t) PROVE DeleteStep
  <2>1. DeletedAs(t)
    BY <1>5, DeleteFacts
  <2> QED BY <1>5, <1>c, <2>1 DEF DelTimer, DeleteStep
<1>6. ASSUME NEW i \in Io, Close(i) PROVE RemoveStep
  <2>1. ClosedAs(i)
    BY <1>6, CloseFacts DEF Close
  <2> QED BY <1>6, <1>c, <2>1 DEF Close, ClosedAs, RemoveStep
<1>7. ASSUME NEW i \in Io, Send(i) \/ ConnectAtOnce(i) \/ Connected(i) \/ Accepted(i) \/ Receive(i)
      PROVE  IoStep
  <2>1. /\ \A j \in Io : j # i => io'[j] = io[j]
        /\ io[i].state # "closed" /\ io'[i].state = "open"
        /\ io'[i].timer = io[i].timer
        /\ io'[i].read \in {io[i].read, cur, now}
        /\ \/ io'[i].read \in {io[i].read, cur}
           \/ pc = "io"
           \/ io[i].state = "new"
    BY <1>7, <1>t, <1>i DEF Send, ConnectAtOnce, Connected, Accepted, Receive, IoRecord
  <2>2. /\ calls' \in {calls, calls + 1}
        /\ UNCHANGED <<now, cur, heap, num, tm, pend, pc, who, from>>
    BY <1>7, <1>c DEF Send, ConnectAtOnce, Connected, Accepted, Receive
  <2> QED BY <2>1, <2>2 DEF IoStep
<1>9. ASSUME NEW i \in Io, NEW k \in {"read", "write", "close"}, NEW d \in Delays,
             SetTimeoutAgain(i, k, d)
      PROVE  ResetStep
  <2>1. io[i].timer[k] \in Timer /\ d \in Nat
    BY <1>9, <1>i, <1>p DEF SetTimeoutAgain, IoRecord
  <2>2. tm[io[i].timer[k]].state = "live" /\ tm[io[i].timer[k]].kind # "plain"
    <3>1. io[i].timer[k] # NoTimer /\ k \in Kinds /\ k # "plain"
      BY <1>9, <1>p DEF SetTimeoutAgain
    <3>2. tm[io[i].timer[k]].state = "live" /\ tm[io[i].timer[k]].kind = k
      BY <3>1 DEF TimersAreLinked
    <3> QED BY <3>1, <3>2
  <2>3. ResetAs(io[i].timer[k], d)
    BY <1>9, <2>1, ResetFacts DEF SetTimeoutAgain
  <2> QED BY <1>9, <1>c, <2>1, <2>2, <2>3 DEF SetTimeoutAgain, ResetStep
<1>10. ASSUME NEW i \in Io, NEW k \in {"read", "write", "close"}, SetZeroTimeout(i, k)
       PROVE  ControlStep
  BY <1>10, <1>t, <1>c DEF SetZeroTimeout, ControlStep
<1>11. ASSUME NEW i \in Io, NEW k \in {"read", "write", "close"}, RemoveTimeout(i, k)
       PROVE  RemoveStep
  <2>1. heap' \in Seq(Timer) /\ Fewer(heap', heap)
    BY <1>11, <1>t, WithoutFacts DEF RemoveTimeout
  <2>2. io' = [io EXCEPT ![i].timer[k] = NoTimer, ![i].delay[k] = 0]
        /\ io[i].state # "closed"
    BY <1>11 DEF RemoveTimeout
  <2>3. /\ \A j \in Io : j # i => io'[j] = io[j]
        /\ io'[i].state = io[i].state /\ io'[i].read = io[i].read
        /\ \A l \in Kinds : io'[i].timer[l] \in {io[i].timer[l], NoTimer}
    BY <1>t, <1>i, <2>2 DEF IoRecord
  <2> QED BY <1>11, <1>c, <2>1, <2>2, <2>3 DEF RemoveTimeout, RemoveStep
<1>15. ASSUME Turn \/ Poll \/ EndIo \/ EmptyHeap \/ NotDue \/ EndPending \/ UserReturn
              \/ BackToExpire
       PROVE  ControlStep
  BY <1>15, <1>t
  DEF Turn, Poll, EndIo, EmptyHeap, NotDue, EndPending, UserReturn, BackToExpire, ControlStep
<1>20. ASSUME LastExpiry PROVE LastExpiryStep
  BY <1>20, LastExpiryFacts DEF LastExpiry, Due, LastExpiryStep
<1>21. ASSUME Expiry PROVE ExpiryStep
  BY <1>21, ExpiryFacts DEF Expiry, Due, ExpiryStep
<1>22. ASSUME CallPending PROVE CallStep
  <2>1. Head(pend) \in Timer
    BY <1>22, <1>t, TailNodes DEF CallPending
  <2>2. tm[Head(pend)] \in TimerRecord
    BY <1>t, <2>1
  <2>3. [tm[Head(pend)] EXCEPT !.fired = @ + 1] \in TimerRecord
    BY <2>2 DEF TimerRecord
  <2> QED BY <1>22, <1>t, <2>1, <2>3 DEF CallPending, CallStep
<1>24. ASSUME StillActive PROVE ResetStep
  <2> DEFINE i == tm[who].owner
             k == tm[who].kind
  <2>1. /\ k \in {"read", "write"} /\ ResetTimer(who, io[i].delay[k])
        /\ pc = "cb" /\ pc' = "return" /\ UNCHANGED <<now, cur, pend, io, who, from, calls>>
    BY <1>24 DEF StillActive
  <2>2. who \in Timer /\ k # "plain"
    BY <2>1 DEF WhoIsCalled, InCallback
  <2>3. i \in Io /\ k \in Kinds
    BY <2>1, <2>2 DEF TimersOfIoAreOwned, Kinds
  <2>4. io[i].delay[k] \in Nat
    BY <1>i, <2>3 DEF IoRecord
  <2>5. k = tm[who].kind
    OBVIOUS
  <2> HIDE DEF i, k
  <2>6. ResetAs(who, io[i].delay[k])
    BY <2>1, <2>2, <2>4, ResetFacts
  <2> QED BY <2>1, <2>2, <2>4, <2>5, <2>6 DEF ResetStep
<1>25. ASSUME TimedOut PROVE RemoveStep
  <2>1. /\ tm[who].kind # "plain" /\ IoClose(tm[who].owner)
        /\ pc = "cb" /\ pc' = "return"
        /\ UNCHANGED <<now, cur, num, tm, pend, who, from, calls>>
    BY <1>25 DEF TimedOut
  <2>2. tm[who].owner \in Io
    BY <2>1 DEF WhoIsCalled, InCallback, TimersOfIoAreOwned
  <2>3. ClosedAs(tm[who].owner)
    BY <2>1, <2>2, CloseFacts
  <2> QED BY <2>1, <2>2, <2>3 DEF ClosedAs, RemoveStep
<1>28. ASSUME BackToPending PROVE BackStep
  <2>1. tm' = [tm EXCEPT ![who].pending = FALSE, ![who].destory = FALSE,
                         ![who].state = IF tm[who].destory THEN "freed" ELSE @]
        /\ pc = "return"
    BY <1>28 DEF BackToPending
  <2>2. who \in Timer
    BY <2>1 DEF WhoIsCalled, InCallback
  <2> DEFINE rec == [tm[who] EXCEPT !.pending = FALSE, !.destory = FALSE,
                                    !.state = IF tm[who].destory THEN "freed" ELSE @]
  <2>3. tm' = [tm EXCEPT ![who] = rec]
    BY <1>t, <2>1, <2>2
  <2>4. tm[who] \in TimerRecord
    BY <1>t, <2>2
  <2>5. rec \in TimerRecord
    BY <2>4 DEF TimerRecord
  <2>6. /\ tm' \in [Timer -> TimerRecord] /\ tm'[who] = rec
        /\ \A u \in Timer : u # who => tm'[u] = tm[u]
    <3> HIDE DEF rec
    <3> QED BY <1>t, <2>2, <2>3, <2>5
  <2> QED BY <1>28, <2>6 DEF BackToPending, BackStep
<1>29. ASSUME UNCHANGED vars PROVE ControlStep
  BY <1>29, <1>t DEF vars, ControlStep
<1> QED
  BY <1>1, <1>2, <1>3, <1>4, <1>5, <1>6, <1>7, <1>9, <1>10, <1>11, <1>15, <1>20, <1>21, <1>22,
     <1>24, <1>25, <1>28, <1>29 DEF Next, ProgramStep, LoopStep, StepKinds

\* What most kinds of steps leave of a timer.
SameTimer(u) ==
    /\ tm'[u].state = tm[u].state /\ tm'[u].kind = tm[u].kind /\ tm'[u].owner = tm[u].owner
    /\ tm'[u].delay = tm[u].delay /\ tm'[u].born = tm[u].born /\ tm'[u].times = tm[u].times

LEMMA SameTimers ==
    ASSUME Typed, ResetStep \/ DeleteStep \/ LastExpiryStep \/ ExpiryStep \/ CallStep
    PROVE  \A u \in Timer : SameTimer(u)
<1>t. \A u \in Timer : tm[u] \in TimerRecord
  BY DEF Typed, TypeOK
<1>1. CASE ResetStep
  <2>1. PICK t \in Timer, d \in Nat : ResetAs(t, d)
    BY <1>1 DEF ResetStep
  <2>2. SameTimer(t)
    BY <1>t, <2>1 DEF ResetAs, SameTimer, TimerRecord
  <2> QED BY <2>1, <2>2 DEF ResetAs, SameTimer
<1>2. CASE DeleteStep
  <2>1. PICK t \in Timer : DeletedAs(t)
    BY <1>2 DEF DeleteStep
  <2>2. SameTimer(t)
    BY <1>t, <2>1 DEF DeletedAs, SameTimer, TimerRecord
  <2> QED BY <2>1, <2>2 DEF DeletedAs, SameTimer
<1>3. CASE LastExpiryStep
  <2>1. PICK t \in Timer : LastExpiryAs(t)
    BY <1>3 DEF LastExpiryStep, LastExpiryAs
  <2>2. SameTimer(t)
    BY <1>t, <2>1 DEF LastExpiryAs, SameTimer, TimerRecord
  <2> QED BY <2>1, <2>2 DEF LastExpiryAs, SameTimer
<1>4. CASE ExpiryStep
  <2>1. PICK t \in Timer : ExpiryAs(t)
    BY <1>4 DEF ExpiryStep, ExpiryAs
  <2>2. SameTimer(t)
    <3>1. tm[t] \in TimerRecord /\ t \in Timer
      BY <1>t, <2>1 DEF ExpiryAs
    <3>2. tm'[t] = [tm[t] EXCEPT !.repeat = tm'[t].repeat, !.next = cur + tm[t].delay,
                                !.fired = tm[t].fired + 1]
      BY <2>1 DEF ExpiryAs
    <3> QED BY <3>1, <3>2 DEF SameTimer, TimerRecord
  <2> QED BY <2>1, <2>2 DEF ExpiryAs, SameTimer
<1>5. CASE CallStep
  <2>1. who' \in Timer
    BY <1>5, TailNodes DEF CallStep, Typed, TypeOK
  <2>2. SameTimer(who')
    BY <1>t, <1>5, <2>1 DEF CallStep, SameTimer, TimerRecord
  <2> QED BY <1>5, <2>2 DEF CallStep, SameTimer
<1> QED BY <1>1, <1>2, <1>3, <1>4, <1>5

LEMMA WhoReturns ==
    ASSUME Typed, BackStep
    PROVE  /\ who \in Timer /\ pend # <<>> /\ who = Head(pend)
           /\ tm[who] \in TimerRecord
           /\ tm'[who].state = (IF tm[who].destory THEN "freed" ELSE tm[who].state)
           /\ tm'[who].kind = tm[who].kind /\ tm'[who].owner = tm[who].owner
           /\ tm'[who].repeat = tm[who].repeat /\ tm'[who].deleted = tm[who].deleted
           /\ tm'[who].delay = tm[who].delay /\ tm'[who].born = tm[who].born
           /\ tm'[who].times = tm[who].times /\ tm'[who].fired = tm[who].fired
           /\ tm'[who].next = tm[who].next
           /\ ~tm'[who].destory /\ ~tm'[who].pending
           /\ pend' \in Seq(Timer) /\ Removed(pend', pend, who)
<1>1. who \in Timer /\ pend # <<>> /\ who = Head(pend)
  BY DEF BackStep, Typed, WhoIsCalled, InCallback
<1>2. tm[who] \in TimerRecord /\ pend \in Seq(Timer)
  BY <1>1 DEF Typed, TypeOK
<1>3. pend' \in Seq(Timer) /\ Removed(pend', pend, who)
  BY <1>1, <1>2, TailNodes DEF BackStep
<1>4. tm'[who] = [tm[who] EXCEPT !.pending = FALSE, !.destory = FALSE,
                                 !.state = IF tm[who].destory THEN "freed" ELSE @]
  BY DEF BackStep
<1> QED BY <1>1, <1>2, <1>3, <1>4 DEF TimerRecord

LEMMA LinkedStep ==
    ASSUME Typed, TimersAreLinked, FreedIsUnlinked, StepKinds
    PROVE  TimersAreLinked'
<1>t. /\ tm \in [Timer -> TimerRecord] /\ io \in [Io -> IoRecord]
      /\ \A i \in Io, k \in Kinds : io[i].timer[k] # NoTimer => io[i].timer[k] \in Timer
      /\ \A i \in Io : io[i].timer \in [Kinds -> Timer \cup {NoTimer}]
  BY DEF Typed, TypeOK, IoRecord
<1>1. CASE ArmStep
  <2>1. PICK kind \in Kinds \cup {"plain"}, owner \in Io \cup {NoTimer}, d \in Nat, r \in 0 .. Max32 :
          /\ ArmedAs(NewTimer, kind, owner, d, r)
          /\ \/ kind = "plain" /\ UNCHANGED io
             \/ /\ kind # "plain" /\ owner \in Io
                /\ \A i \in Io : i # owner => io'[i] = io[i]
                /\ io'[owner].state \in {"connecting", "open"}
                /\ io'[owner].timer = [io[owner].timer EXCEPT ![kind] = NewTimer]
    BY <1>1 DEF ArmStep
  <2> DEFINE t == NewTimer
  <2> HIDE DEF t
  <2>2. ArmedAs(t, kind, owner, d, r)
    BY <2>1 DEF t
  <2>3. ASSUME NEW i \in Io, NEW k \in Kinds, io'[i].timer[k] # NoTimer,
               io'[i].timer[k] = io[i].timer[k], io[i].state # "closed" => io'[i].state # "closed"
        PROVE  /\ tm'[io'[i].timer[k]].state = "live"
               /\ tm'[io'[i].timer[k]].kind = k
               /\ tm'[io'[i].timer[k]].owner = i
               /\ io'[i].state # "closed"
    <3>1. io[i].timer[k] \in Timer /\ io[i].timer[k] # t
      BY <1>t, <2>2, <2>3 DEF TimersAreLinked, ArmedAs
    <3> QED BY <2>2, <2>3, <3>1 DEF TimersAreLinked, ArmedAs
  <2>4. CASE kind = "plain" /\ UNCHANGED io
    BY <2>3, <2>4 DEF TimersAreLinked
  <2>5. CASE /\ kind # "plain" /\ owner \in Io
             /\ \A i \in Io : i # owner => io'[i] = io[i]
             /\ io'[owner].state \in {"connecting", "open"}
             /\ io'[owner].timer = [io[owner].timer EXCEPT ![kind] = t]
    <3>1. kind \in Kinds /\ io'[owner].timer[kind] = t
          /\ \A k \in Kinds : k # kind => io'[owner].timer[k] = io[owner].timer[k]
      BY <1>t, <2>5
    <3>2. tm'[t].state = "live" /\ tm'[t].kind = kind /\ tm'[t].owner = owner
      BY <2>2 DEF ArmedAs
    <3>3. \A i \in Io, k \in Kinds : (i # owner \/ k # kind) =>
             io'[i].timer[k] = io[i].timer[k] /\ (io[i].state # "closed" => io'[i].state # "closed")
      BY <2>5, <3>1
    <3>4. ASSUME NEW i \in Io, NEW k \in Kinds, io'[i].timer[k] # NoTimer
          PROVE  /\ tm'[io'[i].timer[k]].state = "live"
                 /\ tm'[io'[i].timer[k]].kind = k
                 /\ tm'[io'[i].timer[k]].owner = i
                 /\ io'[i].state # "closed"
      <4>1. CASE i = owner /\ k = kind
        BY <2>5, <3>1, <3>2, <4>1
      <4>2. CASE i # owner \/ k # kind
        BY <2>3, <3>3, <3>4, <4>2
      <4> QED BY <4>1, <4>2
    <3> QED BY <3>4 DEF TimersAreLinked
  <2> QED BY <2>1, <2>4, <2>5 DEF t
<1>2. CASE ResetStep \/ DeleteStep \/ LastExpiryStep \/ ExpiryStep \/ CallStep
  <2>1. \A u \in Timer : SameTimer(u)
    BY <1>2, SameTimers
  <2>2. UNCHANGED io
    BY <1>2 DEF ResetStep, DeleteStep, LastExpiryStep, ExpiryStep, CallStep
  <2> QED BY <1>t, <2>1, <2>2 DEF TimersAreLinked, SameTimer
<1>3. CASE IoStep
  BY <1>t, <1>3 DEF TimersAreLinked, IoStep
<1>4. CASE RemoveStep
  <2>1. PICK i \in Io :
          /\ \A j \in Io : j # i => io'[j] = io[j]
          /\ io'[i].state \in {io[i].state, "closed"}
          /\ \A k \in Kinds : io'[i].timer[k] \in {io[i].timer[k], NoTimer}
          /\ io'[i].state = "closed" => \/ io'[i] = io[i]
                                        \/ \A k \in Kinds : io'[i].timer[k] = NoTimer
    BY <1>4 DEF RemoveStep
  <2> QED BY <1>4, <2>1 DEF TimersAreLinked, RemoveStep
<1>5. CASE ControlStep
  BY <1>5 DEF TimersAreLinked, ControlStep
<1>6. CASE BackStep
  <2>1. UNCHANGED io /\ \A u \in Timer : u # who => tm'[u] = tm[u]
    BY <1>6 DEF BackStep
  <2>2. tm[who].destory => \A i \in Io, k \in Kinds : io[i].timer[k] # who
    BY <1>6 DEF BackStep, FreedIsUnlinked
  <2>3. ~tm[who].destory => /\ tm'[who].state = tm[who].state /\ tm'[who].kind = tm[who].kind
                            /\ tm'[who].owner = tm[who].owner
    BY <1>6, WhoReturns
  <2> QED BY <1>t, <2>1, <2>2, <2>3 DEF TimersAreLinked
<1> QED BY <1>1, <1>2, <1>3, <1>4, <1>5, <1>6 DEF StepKinds

LEMMA PendingStep ==
    ASSUME Typed, PendingIsOver, StepKinds
    PROVE  PendingIsOver'
<1>t. /\ tm \in [Timer -> TimerRecord] /\ pend \in Seq(Timer)
      /\ \A u \in Timer : tm[u] \in TimerRecord
  BY DEF Typed, TypeOK
<1>1. CASE ArmStep
  <2>1. UNCHANGED pend /\ NewTimer \in Timer /\ tm[NewTimer].state = "none"
        /\ \A u \in Timer : u # NewTimer => tm'[u] = tm[u]
    BY <1>1 DEF ArmStep, ArmedAs
  <2>2. NewTimer \notin Nodes(pend)
    BY <2>1 DEF Typed, OnlyAllocated
  <2>n. tm'[NewTimer].state = "live"
    BY <1>1 DEF ArmStep, ArmedAs
  <2> HIDE DEF NewTimer
  <2>3. ASSUME NEW t \in Timer
        PROVE  /\ Once(pend, t)'
               /\ t \in Nodes(pend)' => tm'[t].state = "live" /\ tm'[t].repeat \in {0, Max32}
               /\ tm'[t].state = "freed" => tm'[t].repeat \in {0, Max32}
    BY <2>1, <2>2, <2>n DEF PendingIsOver
  <2> QED BY <2>3 DEF PendingIsOver
<1>2. CASE ResetStep \/ DeleteStep \/ CallStep
  <2>1. UNCHANGED pend /\ \A u \in Timer : SameTimer(u)
    BY <1>2, SameTimers DEF ResetStep, DeleteStep, CallStep
  <2>2. \A u \in Timer : tm'[u].repeat = tm[u].repeat
    <3>1. CASE ResetStep
      <4>1. PICK t \in Timer, d \in Nat : ResetAs(t, d)
        BY <3>1 DEF ResetStep
      <4>2. tm'[t].repeat = tm[t].repeat
        BY <1>t, <4>1 DEF ResetAs, TimerRecord
      <4> QED BY <4>1, <4>2 DEF ResetAs
    <3>2. CASE DeleteStep
      <4>1. PICK t \in Timer : DeletedAs(t)
        BY <3>2 DEF DeleteStep
      <4>2. tm'[t].repeat = tm[t].repeat
        BY <1>t, <4>1 DEF DeletedAs, TimerRecord
      <4> QED BY <4>1, <4>2 DEF DeletedAs
    <3>3. CASE CallStep
      <4>1. who' \in Timer
        BY <1>t, <3>3, TailNodes DEF CallStep
      <4>2. tm'[who'].repeat = tm[who'].repeat
        BY <1>t, <3>3, <4>1 DEF CallStep, TimerRecord
      <4> QED BY <3>3, <4>2 DEF CallStep
    <3> QED BY <1>2, <3>1, <3>2, <3>3
  <2> QED BY <2>1, <2>2 DEF PendingIsOver, SameTimer
<1>3. CASE IoStep \/ RemoveStep \/ ControlStep
  BY <1>3 DEF PendingIsOver, IoStep, RemoveStep, ControlStep
<1>4. CASE LastExpiryStep
  <2>1. PICK t \in Timer : LastExpiryAs(t)
    BY <1>4 DEF LastExpiryStep, LastExpiryAs
  <2>2. \A u \in Timer : SameTimer(u)
    BY <1>4, SameTimers
  <2>3. t \notin Nodes(pend) /\ tm[t].state = "live"
    <3>1. tm[t].repeat = 1 /\ Max32 # 1 /\ t \in Timer
      BY <2>1 DEF LastExpiryAs
    <3>2. t \in Nodes(heap)
      BY <2>1, TopIsNode DEF LastExpiryAs, Typed, TypeOK
    <3>3. tm[t].state \in {"live", "freed"}
      BY <1>t, <3>1, <3>2 DEF Typed, OnlyAllocated, TimerRecord
    <3> QED BY <3>1, <3>3 DEF PendingIsOver
  <2>4. tm'[t].state = "live" /\ tm'[t].repeat = 0
    BY <1>t, <2>1, <2>3 DEF LastExpiryAs, TimerRecord
  <2>5. /\ Nodes(pend') \subseteq Nodes(pend) \cup {t}
        /\ \A m : Once(pend, m) => Once(pend', m)
    <3>1. t \in Timer
      BY <2>1 DEF LastExpiryAs
    <3>2. pend' = pend \/ pend' = <<t>> \o pend
      BY <2>1 DEF LastExpiryAs
    <3> QED BY <1>t, <2>3, <3>1, <3>2, PendingNodes
  <2>6. \A u \in Timer : u # t => tm'[u] = tm[u]
    BY <2>1 DEF LastExpiryAs
  <2>7. ASSUME NEW u \in Timer
        PROVE  /\ Once(pend', u)
               /\ u \in Nodes(pend') => tm'[u].state = "live" /\ tm'[u].repeat \in {0, Max32}
               /\ tm'[u].state = "freed" => tm'[u].repeat \in {0, Max32}
    BY <2>4, <2>5, <2>6 DEF PendingIsOver
  <2> QED BY <2>7 DEF PendingIsOver
<1>5. CASE ExpiryStep
  <2>1. PICK t \in Timer : ExpiryAs(t)
    BY <1>5 DEF ExpiryStep, ExpiryAs
  <2>2. UNCHANGED pend /\ \A u \in Timer : SameTimer(u)
    BY <1>5, SameTimers DEF ExpiryStep
  <2>3. tm[t].repeat \in {0, Max32} => tm'[t].repeat \in {0, Max32}
    BY <2>1, Max32IsNatural DEF ExpiryAs
  <2>4. \A u \in Timer : u # t => tm'[u] = tm[u]
    BY <2>1 DEF ExpiryAs
  <2>5. ASSUME NEW u \in Timer
        PROVE  /\ Once(pend', u)
               /\ u \in Nodes(pend') => tm'[u].state = "live" /\ tm'[u].repeat \in {0, Max32}
               /\ tm'[u].state = "freed" => tm'[u].repeat \in {0, Max32}
    BY <2>2, <2>3, <2>4 DEF PendingIsOver, SameTimer
  <2> QED BY <2>5 DEF PendingIsOver
<1>6. CASE BackStep
  <2>1. /\ who \in Timer /\ pend # <<>> /\ who = Head(pend)
        /\ tm'[who].state \in {"freed", tm[who].state}
        /\ tm'[who].repeat = tm[who].repeat
        /\ Removed(pend', pend, who)
    BY <1>6, WhoReturns
  <2>2. who \in Nodes(pend)
    BY <1>t, <2>1, TailNodes
  <2>3. who \notin Nodes(pend')
    BY <2>1 DEF PendingIsOver, Removed
  <2>4. \A u \in Timer : u # who => tm'[u] = tm[u]
    BY <1>6 DEF BackStep
  <2>5. ASSUME NEW u \in Timer
        PROVE  /\ Once(pend', u)
               /\ u \in Nodes(pend') => tm'[u].state = "live" /\ tm'[u].repeat \in {0, Max32}
               /\ tm'[u].state = "freed" => tm'[u].repeat \in {0, Max32}
    BY <2>1, <2>2, <2>3, <2>4 DEF PendingIsOver, Removed
  <2> QED BY <2>5 DEF PendingIsOver
<1> QED BY <1>1, <1>2, <1>3, <1>4, <1>5, <1>6 DEF StepKinds

LEMMA OnePlaceStep ==
    ASSUME Typed, PendingIsOver, PlainIsInOnePlace, StepKinds
    PROVE  PlainIsInOnePlace'
<1>t. /\ tm \in [Timer -> TimerRecord] /\ pend \in Seq(Timer) /\ heap \in Seq(Timer)
      /\ \A u \in Timer : tm[u] \in TimerRecord
  BY DEF Typed, TypeOK
<1>1. CASE ArmStep
  <2>1. /\ UNCHANGED pend /\ NewTimer \in Timer /\ tm[NewTimer].state = "none"
        /\ \A u \in Timer : u # NewTimer => tm'[u] = tm[u]
        /\ tm'[NewTimer].state = "live"
        /\ heap' = heap \/ Inserted(heap', heap, NewTimer)
    BY <1>1 DEF ArmStep, ArmedAs
  <2>2. NewTimer \notin Nodes(pend) /\ NewTimer \notin Nodes(heap)
    BY <2>1 DEF Typed, OnlyAllocated
  <2> HIDE DEF NewTimer
  <2>3. Once(heap', NewTimer)
    <3>1. Once(heap, NewTimer)
      BY <2>2, NodesOf DEF Once
    <3> QED BY <2>1, <2>2, <3>1 DEF Inserted
  <2>4. ASSUME NEW u \in Timer, tm'[u].kind = "plain"
        PROVE  /\ Once(heap', u)
               /\ u \in Nodes(heap') => tm'[u].state = "live" /\ u \notin Nodes(pend')
    <3>1. CASE u = NewTimer
      BY <2>1, <2>2, <2>3, <3>1
    <3>2. CASE u # NewTimer
      BY <2>1, <2>4, <3>2 DEF PlainIsInOnePlace, Inserted
    <3> QED BY <3>1, <3>2
  <2> QED BY <2>4 DEF PlainIsInOnePlace
<1>2. CASE ResetStep
  <2>1. UNCHANGED pend /\ \A u \in Timer : SameTimer(u)
    BY <1>2, SameTimers DEF ResetStep
  <2>2. PICK t \in Timer, d \in Nat : ResetAs(t, d) /\ tm[t].kind # "plain"
    BY <1>2 DEF ResetStep
  <2>3. /\ Nodes(heap') \subseteq Nodes(heap) \cup {t}
        /\ \A m : m # t /\ Once(heap, m) => Once(heap', m)
    BY <2>2 DEF ResetAs
  <2> QED BY <2>1, <2>2, <2>3 DEF PlainIsInOnePlace, SameTimer
<1>3. CASE DeleteStep \/ CallStep \/ ExpiryStep
  <2>1. UNCHANGED pend /\ \A u \in Timer : SameTimer(u)
    BY <1>3, SameTimers DEF DeleteStep, CallStep, ExpiryStep
  <2>2. Nodes(heap') \subseteq Nodes(heap) /\ \A m : Once(heap, m) => Once(heap', m)
    BY <1>3 DEF DeleteStep, CallStep, ExpiryStep, DeletedAs, ExpiryAs, Fewer
  <2> QED BY <2>1, <2>2 DEF PlainIsInOnePlace, SameTimer
<1>4. CASE IoStep \/ RemoveStep \/ ControlStep
  <2>1. Nodes(heap') \subseteq Nodes(heap) /\ (\A m : Once(heap, m) => Once(heap', m))
        /\ UNCHANGED <<tm, pend>>
    BY <1>4 DEF IoStep, RemoveStep, ControlStep, Fewer
  <2> QED BY <2>1 DEF PlainIsInOnePlace
<1>5. CASE LastExpiryStep
  <2>1. PICK t \in Timer : LastExpiryAs(t)
    BY <1>5 DEF LastExpiryStep, LastExpiryAs
  <2>2. \A u \in Timer : SameTimer(u)
    BY <1>5, SameTimers
  <2>3. Removed(heap', heap, t)
    BY <2>1 DEF LastExpiryAs
  <2>4. Nodes(pend') \subseteq Nodes(pend) \cup {t}
    BY <1>t, <2>1, PendingNodes DEF LastExpiryAs
  <2>5. ASSUME NEW u \in Timer, tm'[u].kind = "plain"
        PROVE  /\ Once(heap', u)
               /\ u \in Nodes(heap') => tm'[u].state = "live" /\ u \notin Nodes(pend')
    <3>1. Once(heap, u) /\ (u \in Nodes(heap) => tm[u].state = "live" /\ u \notin Nodes(pend))
      BY <2>2, <2>5 DEF PlainIsInOnePlace, SameTimer
    <3>2. u = t => u \notin Nodes(heap')
      BY <2>3, <3>1 DEF Removed
    <3> QED BY <2>2, <2>3, <2>4, <3>1, <3>2 DEF Removed, SameTimer
  <2> QED BY <2>5 DEF PlainIsInOnePlace
<1>6. CASE BackStep
  <2>1. /\ who \in Timer /\ who = Head(pend) /\ pend # <<>> /\ tm'[who].kind = tm[who].kind
        /\ Removed(pend', pend, who)
    BY <1>6, WhoReturns
  <2>2. UNCHANGED heap /\ \A u \in Timer : u # who => tm'[u] = tm[u]
    BY <1>6 DEF BackStep
  <2>3. who \in Nodes(pend)
    BY <1>t, <2>1, TailNodes
  <2> QED BY <2>1, <2>2, <2>3 DEF PlainIsInOnePlace, Removed
<1> QED BY <1>1, <1>2, <1>3, <1>4, <1>5, <1>6 DEF StepKinds

LEMMA FreedStep ==
    ASSUME Typed, TimersAreLinked, FreedIsUnlinked, TimersAreLinked', StepKinds
    PROVE  FreedIsUnlinked'
<1> SUFFICES ASSUME pc' = "return", from' = "pending", tm'[who'].destory,
                    NEW i \in Io, NEW k \in Kinds, io'[i].timer[k] = who'
             PROVE  FALSE
  BY DEF FreedIsUnlinked
<1>t. /\ tm \in [Timer -> TimerRecord]
      /\ \A u \in Timer : tm[u] \in TimerRecord
      /\ k # "plain"
  BY Parameters DEF Typed, TypeOK
<1>u. CASE pc = "return" /\ UNCHANGED <<io, tm, who, from>>
  BY <1>u DEF FreedIsUnlinked
<1>1. CASE ArmStep
  BY <1>1 DEF ArmStep, InUserCode
<1>2. CASE ResetStep
  <2>1. PICK t \in Timer, d \in Nat :
           /\ ResetAs(t, d)
           /\ \/ InUserCode /\ UNCHANGED pc
              \/ pc = "cb" /\ pc' = "return" /\ t = who
    BY <1>2 DEF ResetStep
  <2>2. t = who /\ UNCHANGED who
    BY <1>2, <2>1 DEF InUserCode, ResetStep
  <2>3. ~tm'[t].destory
    BY <1>t, <2>1 DEF ResetAs, TimerRecord
  <2> QED BY <2>2, <2>3
<1>3. CASE DeleteStep
  BY <1>3 DEF DeleteStep, InUserCode
<1>4. CASE IoStep
  <2>1. pc = "return" /\ UNCHANGED <<tm, who, from>> /\ io[i].timer[k] = who
    BY <1>4 DEF IoStep
  <2> QED BY <2>1 DEF FreedIsUnlinked
<1>5. CASE RemoveStep
  <2>1. pc = "cb" /\ tm[who].kind # "plain" /\ UNCHANGED <<tm, who, from>>
    BY <1>5 DEF RemoveStep, InUserCode
  <2>2. who \in Timer /\ who # NoTimer
    BY <2>1, NoTimerIsNone DEF Typed, WhoIsCalled, InCallback
  <2>3. io'[i].timer[k] = who /\ tm[who].owner = i
    BY <2>1, <2>2 DEF TimersAreLinked
  <2>4. io'[i].state # "closed"
    BY <2>2, <2>3 DEF TimersAreLinked
  <2>5. io'[tm[who].owner].state = "closed"
    BY <1>5, <2>1 DEF RemoveStep, InUserCode
  <2> QED BY <2>3, <2>4, <2>5
<1>6. CASE ControlStep
  <2>1. /\ UNCHANGED <<io, tm, who, from>>
        /\ pc = "return" \/ (pc = "cb" /\ tm[who].kind = "plain")
    BY <1>6 DEF ControlStep
  <2>2. CASE pc = "cb" /\ tm[who].kind = "plain"
    <3>1. who # NoTimer
      BY <2>2, NoTimerIsNone DEF Typed, WhoIsCalled, InCallback
    <3> QED BY <1>t, <2>1, <2>2, <3>1 DEF TimersAreLinked
  <2> QED BY <1>u, <2>1, <2>2
<1>7. CASE LastExpiryStep \/ ExpiryStep \/ CallStep \/ BackStep
  BY <1>7 DEF LastExpiryStep, ExpiryStep, CallStep, BackStep
<1> QED BY <1>1, <1>2, <1>3, <1>4, <1>5, <1>6, <1>7 DEF StepKinds

LEMMA ReadsStep ==
    ASSUME Typed, Typed', ReadsAreNoted, StepKinds
    PROVE  ReadsAreNoted'
<1>t. /\ now \in Nat /\ cur \in Nat /\ cur <= now /\ now' \in Nat /\ cur' \in Nat
      /\ \A i \in Io : io[i].read \in Nat
      /\ \A t \in Timer : tm[t].kind = "read" => tm[t].owner \in Io
      /\ pc \in {"top", "poll", "io", "expire", "pending", "cb", "return", "crashed"}
  BY Parameters DEF Typed, TypeOK, IoRecord, TimersOfIoAreOwned
<1> DEFINE Past == {"expire", "pending", "cb", "return"}
<1>1. CASE ArmStep
  <2>1. PICK kind \in Kinds \cup {"plain"}, owner \in Io \cup {NoTimer}, d \in Nat, r \in 0 .. Max32 :
          /\ ArmedAs(NewTimer, kind, owner, d, r)
          /\ \/ kind = "plain" /\ UNCHANGED io
             \/ /\ kind # "plain" /\ owner \in Io
                /\ \A i \in Io : i # owner => io'[i] = io[i]
                /\ io'[owner].state \in {"connecting", "open"}
                /\ kind = "read" => io[owner].state # "new"
                /\ io'[owner].read = io[owner].read
    BY <1>1 DEF ArmStep
  <2>2. UNCHANGED <<now, pc>> /\ cur' = now
    BY <1>1, <2>1 DEF ArmStep, ArmedAs
  <2>3. \A i \in Io : io'[i].read = io[i].read
                      /\ (io'[i].state = "new" => io[i].state = "new" /\ (kind # "plain" => i # owner))
    BY <2>1
  <2>4. /\ \A u \in Timer : u # NewTimer => tm'[u] = tm[u]
        /\ tm'[NewTimer].kind = kind /\ tm'[NewTimer].owner = owner
    BY <2>1 DEF ArmedAs
  <2> HIDE DEF NewTimer
  <2>5. ASSUME NEW t \in Timer, tm'[t].kind = "read"
        PROVE  io'[tm'[t].owner].state # "new" /\ io'[tm'[t].owner].read <= cur'
    <3>1. CASE t = NewTimer
      BY <1>t, <2>1, <2>2, <2>3, <2>4, <2>5, <3>1 DEF ReadsAreNoted
    <3>2. CASE t # NewTimer
      BY <1>t, <2>2, <2>3, <2>4, <2>5, <3>2 DEF ReadsAreNoted
    <3> QED BY <3>1, <3>2
  <2> QED BY <2>2, <2>3, <2>5 DEF ReadsAreNoted
<1>2. CASE ResetStep \/ DeleteStep \/ LastExpiryStep \/ CallStep \/ ExpiryStep
  <2>1. \A u \in Timer : SameTimer(u)
    BY <1>2, SameTimers
  <2>2. UNCHANGED <<now, cur, io>> /\ (pc' \in Past => pc \in Past)
    BY <1>2 DEF ResetStep, DeleteStep, LastExpiryStep, CallStep, ExpiryStep
  <2> QED BY <2>1, <2>2 DEF ReadsAreNoted, SameTimer
<1>3. CASE IoStep
  <2>1. PICK i \in Io :
          /\ \A j \in Io : j # i => io'[j] = io[j]
          /\ io'[i].state = "open"
          /\ io'[i].read \in {io[i].read, cur, now}
          /\ \/ io'[i].read \in {io[i].read, cur}
             \/ pc = "io"
             \/ io[i].state = "new"
    BY <1>3 DEF IoStep
  <2>2. UNCHANGED <<now, cur, tm, pc>>
    BY <1>3 DEF IoStep
  <2>3. \A j \in Io : io'[j].read <= now
    BY <1>t, <2>1 DEF ReadsAreNoted
  <2>4. ASSUME NEW t \in Timer, tm[t].kind = "read"
        PROVE  /\ io'[tm[t].owner].state # "new"
               /\ pc \in Past => io'[tm[t].owner].read <= cur
    <3>1. CASE tm[t].owner = i
      BY <1>t, <2>1, <2>4, <3>1 DEF ReadsAreNoted
    <3>2. CASE tm[t].owner # i
      BY <1>t, <2>1, <2>4, <3>2 DEF ReadsAreNoted
    <3> QED BY <3>1, <3>2
  <2> QED BY <2>2, <2>3, <2>4 DEF ReadsAreNoted
<1>4. CASE RemoveStep
  <2>1. /\ UNCHANGED <<now, cur, tm>> /\ (pc' \in Past => pc \in Past)
        /\ \A i \in Io : io'[i].read = io[i].read /\ (io'[i].state = "new" => io[i].state = "new")
    BY <1>4 DEF RemoveStep
  <2> QED BY <1>t, <2>1 DEF ReadsAreNoted
<1>5. CASE ControlStep
  <2>1. UNCHANGED <<tm, io>> /\ now <= now' /\ cur <= cur'
        /\ (pc' \in Past => pc \in Past \/ cur' = now)
    BY <1>5 DEF ControlStep
  <2>2. \A i \in Io : io'[i].read <= now'
    BY <1>t, <2>1 DEF ReadsAreNoted
  <2>3. ASSUME NEW t \in Timer, tm[t].kind = "read", pc' \in Past
        PROVE  io[tm[t].owner].read <= cur'
    BY <1>t, <2>1, <2>3 DEF ReadsAreNoted
  <2> QED BY <2>1, <2>2, <2>3 DEF ReadsAreNoted
<1>6. CASE BackStep
  <2>1. /\ UNCHANGED <<now, cur, io>> /\ pc \in Past
        /\ \A u \in Timer : tm'[u].kind = tm[u].kind /\ tm'[u].owner = tm[u].owner
    BY <1>6, WhoReturns DEF BackStep
  <2> QED BY <2>1 DEF ReadsAreNoted
<1> QED BY <1>1, <1>2, <1>3, <1>4, <1>5, <1>6 DEF StepKinds

LEMMA InitKept == Init => Kept
<1> SUFFICES ASSUME Init PROVE Kept
  OBVIOUS
<1>1. Typed
  BY InitTyped
<1>2. /\ \A t \in Timer : tm[t].state = "none" /\ tm[t].kind = "plain"
      /\ \A i \in Io : io[i].read = 0 /\ \A k \in Kinds : io[i].timer[k] = NoTimer
      /\ heap = <<>> /\ pend = <<>> /\ pc = "io" /\ now \in Nat
  BY StartIsNatural DEF Init, Unallocated, Fresh
<1>3. Nodes(heap) = {} /\ Nodes(pend) = {} /\ \A m : Once(heap, m) /\ Once(pend, m)
  BY <1>2 DEF Nodes, Once
<1> QED
  BY <1>1, <1>2, <1>3
  DEF Kept, TimersAreLinked, PendingIsOver, PlainIsInOnePlace, FreedIsUnlinked, ReadsAreNoted

LEMMA KeptStep == Kept /\ [Next]_vars => Kept' /\ StepKinds
<1> SUFFICES ASSUME Kept, [Next]_vars PROVE Kept' /\ StepKinds
  OBVIOUS
<1>1. Typed' /\ StepKinds
  BY TypedStep, EveryStepHasAKind DEF Kept
<1>2. TimersAreLinked'
  BY <1>1, LinkedStep DEF Kept
<1> QED
  BY <1>1, <1>2, PendingStep, OnePlaceStep, FreedStep, ReadsStep DEF Kept

THEOREM AlwaysKept == Spec => []Kept
<1>1. Kept /\ [Next]_vars => Kept'
  BY KeptStep
<1> QED BY InitKept, <1>1, PTL DEF Spec

\* The variables keep their types, and the heap its room.
THEOREM TypeCorrect == Spec => []TypeOK
<1>1. Kept => TypeOK
  BY DEF Kept, Typed
<1> QED BY AlwaysKept, <1>1, PTL

\* What a timer has of a freed one: nothing in the pending list, in a connection
\* or, of the program's own timers, in the heap.
THEOREM NothingDangles == Spec => []NoDanglingTimer
<1>1. Kept => NoDanglingTimer
  <2> SUFFICES ASSUME Kept PROVE NoDanglingTimer
    OBVIOUS
  <2>1. heap \in Seq(Timer) /\ pend \in Seq(Timer)
    BY DEF Kept, Typed, TypeOK
  <2>2. \A t \in Members : t \in Timer
    BY <2>1, LenProperties DEF Members, Nodes
  <2>3. \A a \in 1 .. Len(pend) : pend[a] \in Timer /\ pend[a] \in Nodes(pend)
    BY <2>1, LenProperties DEF Nodes
  <2> QED
    BY <2>2, <2>3
    DEF Kept, NoDanglingTimer, Members, TimersAreLinked, PendingIsOver, PlainIsInOnePlace
<1> QED BY AlwaysKept, <1>1, PTL

\* When a read timer's callback looks, its connection has last read before the
\* loop's time.
THEOREM ReadsDoNotWrap == Spec => []ReadClockIsBehind
<1>1. Kept => ReadClockIsBehind
  BY DEF Kept, Typed, WhoIsCalled, InCallback, ReadsAreNoted, ReadClockIsBehind
<1> QED BY AlwaysKept, <1>1, PTL

-----------------------------------------------------------------------------
(* The times a timer of the program runs.                                  *)

PlainCount(t) ==
    /\ tm[t].state = "none" => tm[t] = Unallocated
    /\ tm[t].kind = "plain" =>
          /\ tm[t].pending => t \in Nodes(pend)
          /\ t \in Nodes(pend) => Ending(t)
          /\ tm[t].state = "live" /\ t \notin Nodes(pend) => Counting(t)
          /\ tm[t].state = "freed" => Ended(t)

LEMMA Products == \A f, d \in Nat : f * d \in Nat /\ (f + 1) * d = f * d + d
OBVIOUS

\* A timer that a step leaves alone keeps its count, while the loop's time goes on.
LEMMA Undisturbed ==
    ASSUME Typed, Typed', NEW u \in Timer, PlainCount(u), tm'[u] = tm[u], cur <= cur',
           u \in Nodes(pend') <=> u \in Nodes(pend), BeingCalled(u)' <=> BeingCalled(u)
    PROVE  PlainCount(u)'
<1>1. cur \in Nat /\ cur' \in Nat /\ tm[u] \in TimerRecord
  BY DEF Typed, TypeOK
<1>2. /\ tm[u].next \in Nat /\ tm[u].delay \in Nat /\ tm[u].born \in Nat
      /\ tm[u].fired * tm[u].delay \in Nat
  BY <1>1, Products DEF TimerRecord
<1>3. Ending(u) => Ending(u)'
  <2>1. \A k : HasTimeFor(u, k)' <=> HasTimeFor(u, k)
    BY DEF HasTimeFor
  <2>2. tm[u].next <= cur => tm[u].next <= cur'
    BY <1>1, <1>2
  <2> QED BY <2>1, <2>2 DEF Ending
<1>4. Counting(u) => Counting(u)'
  <2>1. tm[u].next <= cur + tm[u].delay => tm[u].next <= cur' + tm[u].delay
    BY <1>1, <1>2
  <2> QED BY <2>1 DEF Counting, HasTimeFor
<1>5. Ended(u) => Ended(u)'
  <2>1. tm[u].fired * tm[u].delay <= cur - tm[u].born =>
           tm[u].fired * tm[u].delay <= cur' - tm[u].born
    BY <1>1, <1>2
  <2> QED BY <2>1 DEF Ended
<1> QED BY <1>3, <1>4, <1>5 DEF PlainCount

LEMMA CountStep ==
    ASSUME Kept, Kept', PlainKeepsCount, StepKinds
    PROVE  PlainKeepsCount'
<1>t. /\ tm \in [Timer -> TimerRecord] /\ tm' \in [Timer -> TimerRecord]
      /\ pend \in Seq(Timer) /\ heap \in Seq(Timer)
      /\ \A u \in Timer : tm[u] \in TimerRecord
      /\ cur \in Nat /\ cur' \in Nat /\ now \in Nat /\ cur <= now
      /\ Typed /\ Typed'
  BY DEF Kept, Typed, TypeOK
<1>p. \A u \in Timer : PlainCount(u)
  BY DEF PlainKeepsCount, PlainCount
<1>q. SUFFICES \A u \in Timer : PlainCount(u)'
  BY DEF PlainKeepsCount, PlainCount
<1>1. CASE ArmStep
  <2>1. PICK kind \in Kinds \cup {"plain"}, owner \in Io \cup {NoTimer}, d \in Nat, r \in 0 .. Max32 :
          ArmedAs(NewTimer, kind, owner, d, r)
    BY <1>1 DEF ArmStep
  <2>t. PICK t \in Timer : t = NewTimer
    BY <2>1 DEF ArmedAs
  <2>2. ArmedAs(t, kind, owner, d, r) /\ UNCHANGED <<pend, who, from>> /\ cur <= cur'
    BY <1>1, <1>t, <2>1, <2>t DEF ArmStep, ArmedAs
  <2>3. ASSUME NEW u \in Timer, u # t PROVE PlainCount(u)'
    BY <1>t, <1>p, <2>2, <2>3, Undisturbed DEF ArmedAs, BeingCalled
  <2>4. /\ t \in Timer /\ t \notin Nodes(pend')
        /\ ~tm'[t].pending /\ tm'[t].state = "live"
    BY <2>2 DEF ArmedAs, Kept, Typed, OnlyAllocated
  <2>5. Counting(t)'
    <3>1. /\ tm'[t].repeat \in 1 .. Max32 /\ tm'[t].times = tm'[t].repeat /\ tm'[t].fired = 0
          /\ tm'[t].next = now + d /\ tm'[t].born = now /\ cur' = now /\ tm'[t].delay = d
      BY <2>2 DEF ArmedAs
    <3>2. (tm'[t].fired + 1) * tm'[t].delay <= tm'[t].next - tm'[t].born
      BY <1>t, <3>1
    <3>3. /\ tm'[t].repeat >= 1
          /\ tm'[t].repeat + tm'[t].fired = tm'[t].times
          /\ tm'[t].next <= cur' + tm'[t].delay
      BY <1>t, <3>1, Max32IsNatural
    <3> QED BY <3>1, <3>2, <3>3 DEF Counting, HasTimeFor
  <2> QED BY <2>3, <2>4, <2>5 DEF PlainCount
<1>2. CASE ResetStep
  <2>1. PICK t \in Timer, d \in Nat : ResetAs(t, d) /\ tm[t].kind # "plain" /\ tm[t].state # "none"
    BY <1>2 DEF ResetStep, Kept, Typed, WhoIsCalled, InCallback
  <2>2. ASSUME NEW u \in Timer, u # t PROVE PlainCount(u)'
    BY <1>2, <1>t, <1>p, <2>1, <2>2, Undisturbed DEF ResetStep, ResetAs, BeingCalled
  <2>3. PlainCount(t)'
    <3>1. SameTimer(t)
      BY <1>2, <1>t, SameTimers
    <3> QED BY <2>1, <3>1 DEF SameTimer, PlainCount
  <2> QED BY <2>2, <2>3
<1>3. CASE DeleteStep
  <2>1. PICK t \in Timer : DeletedAs(t) /\ tm[t].state = "live"
    BY <1>3 DEF DeleteStep
  <2>2. UNCHANGED <<cur, pend, who, from>>
    BY <1>3 DEF DeleteStep
  <2>3. ASSUME NEW u \in Timer, u # t PROVE PlainCount(u)'
    BY <1>t, <1>p, <2>1, <2>2, <2>3, Undisturbed DEF DeletedAs, BeingCalled
  <2>4. PlainCount(t)'
    <3>1. /\ SameTimer(t) /\ tm'[t].pending = tm[t].pending /\ tm'[t].fired = tm[t].fired
          /\ tm'[t].repeat = tm[t].repeat /\ tm'[t].next = tm[t].next
          /\ tm'[t].destory = tm[t].destory
      BY <1>t, <2>1 DEF DeletedAs, SameTimer, TimerRecord
    <3>2. (Counting(t)' <=> Counting(t)) /\ (Ending(t)' <=> Ending(t)) /\ (Ended(t)' <=> Ended(t))
      BY <2>2, <3>1 DEF SameTimer, Counting, Ending, Ended, HasTimeFor, BeingCalled
    <3> QED BY <1>p, <2>1, <2>2, <3>1, <3>2 DEF PlainCount, SameTimer
  <2> QED BY <2>3, <2>4
<1>4. CASE IoStep \/ RemoveStep \/ ControlStep
  <2>1. UNCHANGED <<tm, pend>> /\ cur <= cur'
    BY <1>4, <1>t DEF IoStep, RemoveStep, ControlStep
  <2>2. \A u \in Timer : BeingCalled(u)' <=> BeingCalled(u)
    BY <1>4 DEF IoStep, RemoveStep, ControlStep, BeingCalled
  <2> QED BY <1>t, <1>p, <2>1, <2>2, Undisturbed
<1>5. CASE LastExpiryStep
  <2>1. PICK t \in Timer : LastExpiryAs(t)
    BY <1>5 DEF LastExpiryStep, LastExpiryAs
  <2>2. UNCHANGED <<cur, who, from>> /\ from # "pending"
    BY <1>5 DEF LastExpiryStep, Kept, Typed, WhoIsCalled
  <2>3. pend' = (IF tm[t].pending THEN pend ELSE <<t>> \o pend)
        /\ (\A u \in Timer : u # t => tm'[u] = tm[u])
    BY <2>1 DEF LastExpiryAs
  <2>4. ASSUME NEW u \in Timer, u # t PROVE PlainCount(u)'
    <3>1. u \in Nodes(pend') <=> u \in Nodes(pend)
      BY <1>t, <2>3, <2>4, PendingNodes
    <3> QED BY <1>t, <1>p, <2>2, <2>3, <2>4, <3>1, Undisturbed DEF BeingCalled
  <2>5. PlainCount(t)'
    <3>1. /\ SameTimer(t) /\ tm'[t].fired = tm[t].fired /\ tm'[t].next = tm[t].next
          /\ tm'[t].repeat = 0 /\ tm'[t].destory
      BY <1>t, <2>1 DEF LastExpiryAs, SameTimer, TimerRecord
    <3>2. t \in Nodes(heap) /\ tm[t].state # "none" /\ tm[t].next <= cur
          /\ tm[t].repeat = 1 /\ Max32 # 1
      BY <1>t, <2>1, TopIsNode DEF LastExpiryAs, Kept, Typed, OnlyAllocated
    <3>3. CASE tm[t].kind = "plain"
      <4>1. tm[t].state = "live" /\ t \notin Nodes(pend)
        BY <3>2, <3>3 DEF Kept, PlainIsInOnePlace
      <4>2. Counting(t) /\ ~tm[t].pending
        BY <1>p, <3>3, <4>1 DEF PlainCount
      <4>3. t \in Nodes(pend')
        BY <1>t, <2>3, <4>2, PendingNodes
      <4>4. Ending(t)'
        <5>1. tm[t].times # Max32 /\ tm[t].fired + 1 = tm[t].times
          BY <1>t, <3>2, <4>2 DEF Counting, TimerRecord
        <5>2. HasTimeFor(t, tm[t].fired + 1)'
          BY <3>1, <4>2 DEF Counting, HasTimeFor, SameTimer
        <5> QED BY <2>2, <3>1, <3>2, <5>1, <5>2 DEF Ending, BeingCalled, SameTimer
      <4> QED BY <3>1, <4>1, <4>3, <4>4 DEF PlainCount, SameTimer
    <3>4. CASE tm[t].kind # "plain"
      BY <3>1, <3>2, <3>4 DEF PlainCount, SameTimer
    <3> QED BY <3>3, <3>4
  <2> QED BY <2>4, <2>5
<1>6. CASE ExpiryStep
  <2>1. PICK t \in Timer : ExpiryAs(t)
    BY <1>6 DEF ExpiryStep, ExpiryAs
  <2>2. UNCHANGED <<cur, pend>> /\ from # "pending" /\ from' # "pending"
    BY <1>6 DEF ExpiryStep, Kept, Typed, WhoIsCalled
  <2>4. ASSUME NEW u \in Timer, u # t PROVE PlainCount(u)'
    BY <1>t, <1>p, <2>1, <2>2, <2>4, Undisturbed DEF BeingCalled, ExpiryAs
  <2>5. PlainCount(t)'
    <3>t. tm[t] \in TimerRecord /\ SameTimer(t)
      BY <1>6, <1>t, SameTimers
    <3>u. /\ tm[t].delay \in Nat /\ tm[t].fired \in Nat /\ tm[t].next \in Nat
          /\ tm[t].born \in Nat /\ tm[t].repeat \in 0 .. Max32 /\ tm[t].times \in 0 .. Max32
      BY <3>t DEF TimerRecord
    <3>v. /\ tm'[t].fired = tm[t].fired + 1
          /\ tm'[t].next = cur + tm[t].delay /\ tm'[t].pending = tm[t].pending
      BY <2>1, <3>t DEF ExpiryAs, TimerRecord
    <3>1. /\ SameTimer(t) /\ tm'[t].fired = tm[t].fired + 1
          /\ tm'[t].next = cur + tm[t].delay /\ tm'[t].pending = tm[t].pending
          /\ tm[t].delay \in Nat /\ tm[t].fired \in Nat /\ tm[t].next \in Nat
          /\ tm[t].born \in Nat /\ tm[t].repeat \in 0 .. Max32 /\ tm[t].times \in 0 .. Max32
      BY <3>t, <3>u, <3>v
    <3>2. t \in Nodes(heap) /\ tm[t].state # "none" /\ tm[t].next <= cur
      BY <1>t, <2>1, TopIsNode DEF ExpiryAs, Kept, Typed, OnlyAllocated
    <3>3. CASE tm[t].kind = "plain"
      <4>1. tm[t].state = "live" /\ t \notin Nodes(pend)
        BY <3>2, <3>3 DEF Kept, PlainIsInOnePlace
      <4>2. Counting(t) /\ ~tm[t].pending
        BY <1>p, <3>3, <4>1 DEF PlainCount
      <4>3. /\ tm[t].repeat >= 1 /\ tm'[t].repeat # 0
            /\ tm'[t].repeat = IF tm[t].repeat = Max32 THEN Max32 ELSE tm[t].repeat - 1
        BY <2>1, <3>1, <4>2 DEF Counting, ExpiryAs
      <4>4. Counting(t)'
        <5>1. /\ tm'[t].repeat >= 1
              /\ tm'[t].times = Max32 => tm'[t].repeat = Max32
              /\ tm'[t].times # Max32 => tm'[t].repeat + tm'[t].fired = tm'[t].times
          <6>1. Max32 \in Nat /\ Max32 # 0 /\ tm[t].repeat \in Nat /\ tm[t].repeat <= Max32
                /\ tm[t].times <= Max32
            BY <3>1, Max32IsNatural
          <6>2. tm'[t].times = tm[t].times
            BY <3>1 DEF SameTimer
          <6>3. tm[t].times = Max32 => tm[t].repeat = Max32
            BY <4>2 DEF Counting
          <6>4. tm[t].times # Max32 => tm[t].repeat + tm[t].fired = tm[t].times
            BY <4>2 DEF Counting
          <6>5. CASE tm[t].repeat = Max32
            BY <3>1, <4>3, <6>1, <6>2, <6>4, <6>5
          <6>6. CASE tm[t].repeat # Max32
            BY <3>1, <4>3, <6>1, <6>2, <6>3, <6>4, <6>6
          <6> QED BY <6>5, <6>6
        <5>2. HasTimeFor(t, tm[t].fired + 1)'
          <6>1. (tm[t].fired + 1) * tm[t].delay <= tm[t].next - tm[t].born
            BY <4>2 DEF Counting, HasTimeFor
          <6>2. /\ (tm[t].fired + 1) * tm[t].delay \in Nat
                /\ (tm[t].fired + 1 + 1) * tm[t].delay = (tm[t].fired + 1) * tm[t].delay + tm[t].delay
            BY <3>1, Products
          <6>3. \A a, b, c, n, d \in Nat : a <= n - b /\ n <= c => a + d <= (c + d) - b
            OBVIOUS
          <6>4. (tm[t].fired + 1) * tm[t].delay + tm[t].delay <= (cur + tm[t].delay) - tm[t].born
            BY <1>t, <3>1, <3>2, <6>1, <6>2, <6>3
          <6>5. tm'[t].delay = tm[t].delay /\ tm'[t].born = tm[t].born
            BY <3>1 DEF SameTimer
          <6>6. (tm'[t].fired + 1) * tm'[t].delay <= tm'[t].next - tm'[t].born
            BY <3>1, <6>2, <6>4, <6>5
          <6> QED BY <6>6 DEF HasTimeFor
        <5>3. tm'[t].next <= cur' + tm'[t].delay
          BY <1>t, <2>2, <3>1 DEF SameTimer
        <5> QED BY <3>1, <5>1, <5>2, <5>3 DEF Counting
      <4> QED BY <2>2, <3>1, <4>1, <4>2, <4>4 DEF PlainCount, SameTimer
    <3>4. CASE tm[t].kind # "plain"
      BY <3>1, <3>2, <3>4 DEF PlainCount, SameTimer
    <3> QED BY <3>3, <3>4
  <2> QED BY <2>4, <2>5
<1>7. CASE CallStep
  <2>t. PICK t \in Timer : t = who'
    BY <1>7, <1>t, TailNodes DEF CallStep
  <2>1. /\ t \in Timer /\ t \in Nodes(pend) /\ UNCHANGED <<cur, pend>>
        /\ \A u \in Timer : u # t => tm'[u] = tm[u]
        /\ tm'[t] = [tm[t] EXCEPT !.fired = @ + 1]
    BY <1>7, <1>t, <2>t, TailNodes DEF CallStep
  <2>2. from # "pending" /\ from' = "pending"
    BY <1>7 DEF CallStep, Kept, Typed, WhoIsCalled
  <2>3. ASSUME NEW u \in Timer, u # t PROVE PlainCount(u)'
    BY <1>t, <1>p, <2>t, <2>1, <2>2, <2>3, Undisturbed DEF BeingCalled
  <2>4. PlainCount(t)'
    <3>1. /\ SameTimer(t) /\ tm'[t].fired = tm[t].fired + 1
          /\ tm'[t].next = tm[t].next /\ tm'[t].repeat = tm[t].repeat
          /\ tm'[t].destory = tm[t].destory
      BY <1>t, <2>1 DEF SameTimer, TimerRecord
    <3>2. tm[t].state = "live"
      BY <2>1 DEF Kept, PendingIsOver
    <3>3. tm[t].kind = "plain" => Ending(t) /\ ~BeingCalled(t)
      BY <1>p, <2>1, <2>2 DEF PlainCount, BeingCalled
    <3>4. BeingCalled(t)'
      BY <2>2, <2>t DEF BeingCalled
    <3>5. tm[t].kind = "plain" => Ending(t)'
      BY <2>1, <3>1, <3>3, <3>4 DEF Ending, HasTimeFor, SameTimer
    <3> QED BY <2>1, <3>1, <3>2, <3>5 DEF PlainCount, SameTimer
  <2> QED BY <2>3, <2>4
<1>8. CASE BackStep
  <2>w. PICK w \in Timer : w = who
    BY <1>8, WhoReturns DEF Kept
  <2>1. /\ w \in Timer /\ w \in Nodes(pend)
        /\ tm'[w].state = (IF tm[w].destory THEN "freed" ELSE tm[w].state)
        /\ tm'[w].kind = tm[w].kind
        /\ tm'[w].delay = tm[w].delay /\ tm'[w].born = tm[w].born
        /\ tm'[w].times = tm[w].times /\ tm'[w].fired = tm[w].fired
        /\ ~tm'[w].pending /\ Removed(pend', pend, w)
    BY <1>8, <1>t, <2>w, WhoReturns, TailNodes
  <2>2. /\ from = "pending" /\ from' # "pending" /\ UNCHANGED cur
        /\ \A u \in Timer : u # w => tm'[u] = tm[u]
    BY <1>8, <2>w DEF BackStep
  <2>3. ASSUME NEW u \in Timer, u # w PROVE PlainCount(u)'
    <3>1. u \in Nodes(pend') <=> u \in Nodes(pend)
      BY <2>1, <2>3 DEF Removed
    <3> QED BY <1>t, <1>p, <2>2, <2>3, <2>w, <3>1, Undisturbed DEF BeingCalled
  <2>4. PlainCount(w)'
    <3>1. w \notin Nodes(pend') /\ tm[w].state = "live"
      BY <2>1 DEF Kept, PendingIsOver, Removed
    <3>2. ASSUME tm[w].kind = "plain" PROVE Ended(w)' /\ tm'[w].state = "freed"
      <4>1. Ending(w) /\ BeingCalled(w)
        BY <1>p, <2>1, <2>2, <2>w, <3>2 DEF PlainCount, BeingCalled
      <4>2. /\ tm[w].destory /\ tm[w].fired = tm[w].times /\ tm[w].next <= cur
            /\ tm[w].fired * tm[w].delay <= tm[w].next - tm[w].born
        BY <4>1 DEF Ending, HasTimeFor
      <4>3. /\ tm[w].fired \in Nat /\ tm[w].fired * tm[w].delay \in Nat
            /\ tm[w].next \in Nat /\ tm[w].born \in Nat
        BY <1>t, <2>1, Products DEF TimerRecord
      <4>4. tm[w].fired * tm[w].delay <= cur - tm[w].born
        BY <1>t, <4>2, <4>3
      <4>5. tm[w].fired <= tm[w].times
        BY <4>2, <4>3
      <4> QED BY <2>1, <2>2, <4>2, <4>4, <4>5 DEF Ended
    <3> QED BY <2>1, <3>1, <3>2 DEF PlainCount
  <2> QED BY <2>3, <2>4
<1> QED BY <1>1, <1>2, <1>3, <1>4, <1>5, <1>6, <1>7, <1>8 DEF StepKinds

\* Every timer of the program has done and has left what it was asked for.
THEOREM AlwaysCounted == Spec => []PlainKeepsCount
<1>1. Init => PlainKeepsCount
  <2> SUFFICES ASSUME Init PROVE PlainKeepsCount
    OBVIOUS
  <2>1. \A t \in Timer : tm[t] = Unallocated
    BY DEF Init
  <2>2. Nodes(pend) = {}
    BY DEF Init, Nodes
  <2>3. Unallocated.state = "none" /\ ~Unallocated.pending
    BY DEF Unallocated
  <2> QED BY <2>1, <2>2, <2>3 DEF PlainKeepsCount
<1>2. Kept /\ PlainKeepsCount /\ [Next]_vars => PlainKeepsCount'
  BY KeptStep, CountStep
<1> QED BY AlwaysKept, <1>1, <1>2, PTL DEF Spec

\* A timer of the program never runs before its time nor more often than it was
\* asked to, whatever the program does with other timers: process_timer runs a
\* timer that is due, puts it a timeout further, and takes it out for its last run.
THEOREM NeverEarly == Spec => []NeverEarlyNorTooOften
<1>1. Kept /\ PlainKeepsCount => NeverEarlyNorTooOften
  <2> SUFFICES ASSUME Kept, PlainKeepsCount, NEW t \in Timer, tm[t].kind = "plain"
               PROVE  /\ tm[t].fired * tm[t].delay <= cur - tm[t].born
                      /\ tm[t].times # Max32 => tm[t].fired <= tm[t].times
    BY DEF NeverEarlyNorTooOften
  <2>1. /\ tm[t] \in TimerRecord /\ cur \in Nat
        /\ tm[t].fired \in Nat /\ tm[t].delay \in Nat /\ tm[t].next \in Nat /\ tm[t].born \in Nat
        /\ tm[t].repeat \in Nat /\ tm[t].times \in Nat
        /\ tm[t].state \in {"none", "live", "freed"}
    <3>1. tm[t] \in TimerRecord /\ cur \in Nat
      BY DEF Kept, Typed, TypeOK
    <3>2. 0 .. Max32 \subseteq Nat
      BY Max32IsNatural
    <3> QED BY <3>1, <3>2 DEF TimerRecord
  <2>2. tm[t].fired * tm[t].delay \in Nat
        /\ (tm[t].fired + 1) * tm[t].delay = tm[t].fired * tm[t].delay + tm[t].delay
    BY <2>1, Products
  <2>3. CASE tm[t].state = "none"
    <3>1. tm[t].fired = 0 /\ tm[t].delay = 0 /\ tm[t].born = 0 /\ tm[t].times = 0
      BY <2>3 DEF PlainKeepsCount, Unallocated
    <3> QED BY <2>1, <3>1
  <2>4. CASE tm[t].state = "freed"
    BY <2>4 DEF PlainKeepsCount, Ended
  <2>5. CASE t \in Nodes(pend)
    <3>1. Ending(t)
      BY <2>5 DEF PlainKeepsCount
    <3>2. CASE BeingCalled(t)
      BY <2>1, <2>2, <3>1, <3>2 DEF Ending, HasTimeFor
    <3>3. CASE ~BeingCalled(t)
      BY <2>1, <2>2, <3>1, <3>3 DEF Ending, HasTimeFor
    <3> QED BY <3>2, <3>3
  <2>6. CASE tm[t].state = "live" /\ t \notin Nodes(pend)
    <3>1. Counting(t)
      BY <2>6 DEF PlainKeepsCount
    <3> QED BY <2>1, <2>2, <3>1 DEF Counting, HasTimeFor
  <2> QED BY <2>1, <2>3, <2>4, <2>5, <2>6
<1> QED BY AlwaysKept, AlwaysCounted, <1>1, PTL

-----------------------------------------------------------------------------
(* The count of the timers.                                                *)

\* The program cannot make so many timers that the count wraps.
CountHasRoom == \A n \in InitialNums : n + MaxCalls <= Max32

LEMMA CountSets ==
    ASSUME Typed, CountedTimers
    PROVE  /\ IsFiniteSet(Allocated) /\ IsFiniteSet(Counted) /\ IsFiniteSet(Deleted)
           /\ Deleted \subseteq Counted /\ Counted \subseteq Allocated
           /\ Cardinality(Allocated) \in Nat /\ Cardinality(Counted) \in Nat
           /\ Cardinality(Deleted) \in Nat
           /\ Cardinality(Deleted) <= Cardinality(Counted)
           /\ Cardinality(Counted) <= Cardinality(Allocated)
<1>1. Allocated \subseteq Timer /\ Counted \subseteq Allocated /\ Deleted \subseteq Counted
  BY DEF Allocated, Counted, Deleted, CountedTimers
<1>2. IsFiniteSet(Allocated) /\ IsFiniteSet(Counted) /\ IsFiniteSet(Deleted)
  BY <1>1, TimersAreFinite, FS_Subset
<1>3. Cardinality(Deleted) <= Cardinality(Counted) /\ Cardinality(Counted) <= Cardinality(Allocated)
  BY <1>1, <1>2, FS_Subset
<1> QED BY <1>1, <1>2, <1>3, FS_CardinalityType

\* What the balance says of the count: it has room for the timers that are not
\* counted, and is not 0 while a timer is counted and not deleted.
LEMMA CountIsRight ==
    ASSUME Typed, CountedTimers, NumIsBalance, CountHasRoom
    PROVE  /\ num <= Max32 - MaxCalls + Cardinality(Counted)
           /\ \A t \in Counted : t \notin Deleted => num >= 1
           /\ \A t \in Allocated : t \notin Counted => num < Max32
           /\ calls < MaxCalls => num < Max32
<1>1. /\ num \in Nat /\ calls \in Nat /\ MaxCalls \in Nat /\ Max32 \in Nat /\ calls <= MaxCalls
      /\ InitialNums \subseteq 0 .. Max32
  BY Max32IsNatural, CallsAreNatural, NumsFit DEF Typed, TypeOK
<1>2. PICK n \in InitialNums : num + Cardinality(Deleted) - Cardinality(Counted) = n
  BY DEF NumIsBalance
<1>3. n \in Nat /\ n + MaxCalls <= Max32 /\ Cardinality(Allocated) <= calls
  BY <1>1 DEF CountHasRoom, NumIsBalance
<1> DEFINE a == Cardinality(Allocated)
           c == Cardinality(Counted)
           d == Cardinality(Deleted)
<1>4. a \in Nat /\ c \in Nat /\ d \in Nat /\ d <= c /\ c <= a
  BY CountSets
<1>5. num + d - c = n /\ a <= calls
  BY <1>2, <1>3
<1>6. ASSUME NEW t \in Counted, t \notin Deleted PROVE d + 1 <= c
  <2>1. Cardinality(Deleted \cup {t}) = d + 1
    BY <1>6, CountSets, FS_AddElement
  <2>2. Deleted \cup {t} \subseteq Counted
    BY <1>6, CountSets
  <2>3. Cardinality(Deleted \cup {t}) <= c
    BY <2>2, CountSets, FS_Subset
  <2> QED BY <2>1, <2>3
<1>7. ASSUME NEW t \in Allocated, t \notin Counted PROVE c + 1 <= a
  <2>1. Cardinality(Counted \cup {t}) = c + 1
    BY <1>7, CountSets, FS_AddElement
  <2>2. Counted \cup {t} \subseteq Allocated
    BY <1>7, CountSets
  <2>3. Cardinality(Counted \cup {t}) <= a
    BY <2>2, CountSets, FS_Subset
  <2> QED BY <2>1, <2>3
<1> HIDE DEF a, c, d
<1>8. num = n + c - d
  BY <1>1, <1>3, <1>4, <1>5
<1>9. num <= Max32 - MaxCalls + c
  BY <1>1, <1>3, <1>4, <1>8
<1>10. \A t \in Counted : t \notin Deleted => num >= 1
  BY <1>3, <1>4, <1>6, <1>8
<1>11. \A t \in Allocated : t \notin Counted => num < Max32
  BY <1>1, <1>3, <1>4, <1>5, <1>7, <1>8
<1>12. calls < MaxCalls => num < Max32
  BY <1>1, <1>3, <1>4, <1>5, <1>8
<1> QED BY <1>9, <1>10, <1>11, <1>12 DEF c

\* A step that leaves the count and the marks it goes by alone.
LEMMA SameBalance ==
    ASSUME Typed, Typed', CountedTimers, NumIsBalance,
           num' = num, calls' \in {calls, calls + 1},
           \A u \in Timer : /\ tm'[u].deleted = tm[u].deleted
                            /\ tm'[u].state = "none" <=> tm[u].state = "none"
                            /\ tm'[u].state = "live" /\ ~tm'[u].destory <=>
                                  tm[u].state = "live" /\ ~tm[u].destory
    PROVE  NumIsBalance'
<1>1. Allocated' = Allocated /\ Counted' = Counted /\ Deleted' = Deleted
  BY DEF Allocated, Counted, Deleted
<1>2. Cardinality(Allocated) <= calls => Cardinality(Allocated) <= calls'
  <2>1. calls \in Nat /\ Cardinality(Allocated) \in Nat
    BY CountSets, CallsAreNatural DEF Typed, TypeOK
  <2> QED BY <2>1
<1> QED BY <1>1, <1>2 DEF NumIsBalance

\* A step that counts one more timer, which may be a new one.
LEMMA OneMoreCounted ==
    ASSUME Typed, CountedTimers, NumIsBalance, NEW t \in Timer, t \notin Counted,
           num' = num + 1,
           Counted' = Counted \cup {t}, Deleted' = Deleted,
           \/ Allocated' = Allocated /\ calls' \in {calls, calls + 1}
           \/ Allocated' = Allocated \cup {t} /\ calls' = calls + 1
    PROVE  NumIsBalance'
<1>1. /\ num \in Nat /\ calls \in Nat
      /\ Cardinality(Deleted) \in Nat /\ Cardinality(Counted) \in Nat
      /\ Cardinality(Allocated) \in Nat
  BY CountSets, CallsAreNatural, Max32IsNatural DEF Typed, TypeOK
<1>2. Cardinality(Counted \cup {t}) = Cardinality(Counted) + 1
  BY CountSets, FS_AddElement
<1>3. Cardinality(Allocated \cup {t}) <= Cardinality(Allocated) + 1
  <2>1. IsFiniteSet(Allocated)
    BY CountSets
  <2>2. CASE t \in Allocated
    <3>1. Cardinality(Allocated \cup {t}) = Cardinality(Allocated)
      <4>1. Allocated \cup {t} = Allocated
        BY <2>2
      <4> QED BY <4>1
    <3> QED BY <1>1, <3>1
  <2>3. CASE t \notin Allocated
    <3>1. Cardinality(Allocated \cup {t}) = Cardinality(Allocated) + 1
      BY <2>1, <2>3, FS_AddElement
    <3> QED BY <1>1, <3>1
  <2> QED BY <2>2, <2>3
<1>4. num' + Cardinality(Deleted') - Cardinality(Counted') =
         num + Cardinality(Deleted) - Cardinality(Counted)
  BY <1>1, <1>2
<1>5. Cardinality(Allocated') <= calls'
  <2>1. CASE Allocated' = Allocated /\ calls' \in {calls, calls + 1}
    BY <1>1, <2>1 DEF NumIsBalance
  <2>2. CASE Allocated' = Allocated \cup {t} /\ calls' = calls + 1
    <3>1. Cardinality(Allocated \cup {t}) \in Nat
      BY CountSets, FS_AddElement, FS_CardinalityType
    <3> QED BY <1>1, <1>3, <2>2, <3>1 DEF NumIsBalance
  <2> QED BY <2>1, <2>2
<1> QED BY <1>4, <1>5 DEF NumIsBalance

\* A step that takes one from the count: a timer is not counted any more, or is
\* deleted.
LEMMA OneLessCounted ==
    ASSUME Typed, CountedTimers, NumIsBalance, NEW t \in Timer, t \in Counted, t \notin Deleted,
           num' = num - 1, Allocated' = Allocated, calls' \in {calls, calls + 1},
           \/ Counted' = Counted \ {t} /\ Deleted' = Deleted
           \/ Counted' = Counted /\ Deleted' = Deleted \cup {t}
    PROVE  NumIsBalance'
<1>1. /\ num \in Nat /\ calls \in Nat
      /\ Cardinality(Deleted) \in Nat /\ Cardinality(Counted) \in Nat
      /\ Cardinality(Allocated) \in Nat
  BY CountSets, CallsAreNatural, Max32IsNatural DEF Typed, TypeOK
<1>2. Cardinality(Counted \ {t}) = Cardinality(Counted) - 1
  BY CountSets, FS_RemoveElement
<1>3. Cardinality(Deleted \cup {t}) = Cardinality(Deleted) + 1
  BY CountSets, FS_AddElement
<1>4. num' + Cardinality(Deleted') - Cardinality(Counted') =
         num + Cardinality(Deleted) - Cardinality(Counted)
  <2>1. CASE Counted' = Counted \ {t} /\ Deleted' = Deleted
    BY <1>1, <1>2, <2>1
  <2>2. CASE Counted' = Counted /\ Deleted' = Deleted \cup {t}
    BY <1>1, <1>3, <2>2
  <2> QED BY <2>1, <2>2
<1>5. Cardinality(Allocated') <= calls'
  BY <1>1 DEF NumIsBalance
<1> QED BY <1>4, <1>5 DEF NumIsBalance

LEMMA BalanceStep ==
    ASSUME Kept, Kept', PlainKeepsCount, Balanced, CountHasRoom, StepKinds
    PROVE  Balanced'
<1> USE DEF Kept, Balanced
<1>t. /\ tm \in [Timer -> TimerRecord] /\ tm' \in [Timer -> TimerRecord]
      /\ pend \in Seq(Timer) /\ heap \in Seq(Timer) /\ heap' \in Seq(Timer)
      /\ Len(heap) \in Nat /\ Len(heap') \in Nat
      /\ num \in 0 .. Max32 /\ num \in Nat /\ Max32 \in Nat
      /\ \A u \in Timer : tm[u] \in TimerRecord
      /\ calls \in 0 .. MaxCalls /\ calls' \in 0 .. MaxCalls /\ MaxCalls \in Nat
      /\ Typed /\ Typed'
  BY Max32IsNatural, CallsAreNatural, LenProperties DEF Typed, TypeOK
<1>c. /\ \A t \in Counted : t \notin Deleted => num >= 1
      /\ \A t \in Allocated : t \notin Counted => num < Max32
      /\ calls < MaxCalls => num < Max32
  BY CountIsRight
<1>1. CASE ArmStep
  <2>1. PICK kind \in Kinds \cup {"plain"}, owner \in Io \cup {NoTimer}, d \in Nat, r \in 0 .. Max32 :
          ArmedAs(NewTimer, kind, owner, d, r)
    BY <1>1 DEF ArmStep
  <2>t. PICK t \in Timer : t = NewTimer
    BY <2>1 DEF ArmedAs
  <2>2. /\ tm[t].state = "none" /\ tm'[t].state = "live" /\ ~tm'[t].destory /\ ~tm'[t].deleted
        /\ \A u \in Timer : u # t => tm'[u] = tm[u]
        /\ num' = Inc(num) /\ UNCHANGED pend
        /\ Len(heap') <= Len(heap) + 1
        /\ calls' = calls + 1 /\ UNCHANGED <<pc, who, from>> /\ InUserCode
    BY <1>1, <1>t, <2>1, <2>t DEF ArmedAs, ArmStep, Inserted
  <2>3. num' = num + 1
    BY <1>t, <1>c, <2>2, IncFacts
  <2>4. ~tm[t].deleted
    BY <2>2 DEF CountedTimers
  <2>5. /\ Allocated' = Allocated \cup {t} /\ Counted' = Counted \cup {t}
        /\ Deleted' = Deleted /\ t \notin Counted
    BY <2>2, <2>4 DEF Allocated, Counted, Deleted
  <2>6. NumIsBalance'
    BY <1>t, <2>2, <2>3, <2>5, OneMoreCounted
  <2>7. CountedTimers'
    BY <2>2 DEF CountedTimers
  <2>8. HeapOfExpiry'
    BY <2>2 DEF HeapOfExpiry, InUserCode, Typed, WhoIsCalled, InCallback
  <2>9. CountCoversHeap'
    BY <1>t, <2>2, <2>3 DEF CountCoversHeap
  <2> QED BY <2>6, <2>7, <2>8, <2>9
<1>2. CASE ResetStep
  <2>1. PICK t \in Timer, d \in Nat :
          /\ ResetAs(t, d) /\ tm[t].kind # "plain"
          /\ \/ /\ InUserCode /\ calls' = calls + 1 /\ UNCHANGED pc
                /\ tm[t].state = "live"
             \/ /\ pc = "cb" /\ pc' = "return" /\ t = who /\ UNCHANGED calls
    BY <1>2 DEF ResetStep
  <2>2. /\ tm'[t].state = tm[t].state /\ tm'[t].kind = tm[t].kind /\ tm'[t].deleted = tm[t].deleted
        /\ tm'[t].repeat = tm[t].repeat /\ ~tm'[t].destory
        /\ \A u \in Timer : u # t => tm'[u] = tm[u]
    BY <1>t, <2>1 DEF ResetAs, TimerRecord
  <2>3. ~tm[t].deleted /\ (tm[t].destory => tm[t].state = "live")
    BY <2>1 DEF CountedTimers
  <2>4. CountedTimers'
    BY <1>2, <2>2, <2>3 DEF CountedTimers, ResetStep
  <2>5. HeapOfExpiry'
    <3>1. SUFFICES ASSUME pc' = "cb", from' = "expire", tm'[who'].kind # "plain" PROVE FALSE
      BY DEF HeapOfExpiry
    <3>2. pc = "cb" /\ InUserCode /\ who' = who /\ who \in Timer
      BY <1>2, <2>1, <3>1 DEF ResetStep, Typed, WhoIsCalled, InCallback
    <3> QED BY <2>2, <3>1, <3>2 DEF InUserCode
  <2>6. CASE tm[t].destory
    <3>1. /\ Allocated' = Allocated /\ Counted' = Counted \cup {t} /\ Deleted' = Deleted
          /\ t \notin Counted /\ t \in Allocated
      BY <2>2, <2>3, <2>6 DEF Allocated, Counted, Deleted
    <3>2. num' = num + 1
      BY <1>t, <1>c, <2>1, <2>6, <3>1, IncFacts DEF ResetAs
    <3>3. NumIsBalance'
      BY <1>t, <2>1, <3>1, <3>2, OneMoreCounted
    <3>4. CountCoversHeap'
      BY <1>t, <2>1, <3>2 DEF CountCoversHeap, ResetAs
    <3> QED BY <2>4, <2>5, <3>3, <3>4
  <2>7. CASE ~tm[t].destory
    <3>1. num' = num
      BY <2>1, <2>7 DEF ResetAs
    <3>2. NumIsBalance'
      <4>1. calls' \in {calls, calls + 1}
        BY <2>1
      <4> QED BY <1>t, <2>2, <2>7, <3>1, <4>1, SameBalance
    <3>3. CountCoversHeap'
      <4>1. CASE heap # <<>>
        BY <1>t, <2>1, <2>7, <3>1, <4>1 DEF CountCoversHeap, ResetAs
      <4>2. CASE heap = <<>>
        <5>1. tm[t].state = "live"
          <6>1. SUFFICES ASSUME pc = "cb", t = who PROVE tm[t].state = "live"
            BY <2>1
          <6>2. from = "pending"
            BY <2>1, <4>2, <6>1 DEF HeapOfExpiry, Typed, WhoIsCalled, InCallback
          <6>3. t \in Nodes(pend)
            BY <1>t, <6>1, <6>2, TailNodes DEF Typed, WhoIsCalled, InCallback
          <6> QED BY <6>3 DEF PendingIsOver
        <5>2. num >= 1
          BY <1>c, <2>3, <2>7, <5>1 DEF Counted, Deleted
        <5>3. Len(heap') <= 1
          BY <1>t, <2>1, <4>2, EmptySeq DEF ResetAs
        <5> QED BY <1>t, <3>1, <5>2, <5>3 DEF CountCoversHeap
      <4> QED BY <4>1, <4>2
    <3> QED BY <2>4, <2>5, <3>2, <3>3
  <2> QED BY <2>6, <2>7
<1>3. CASE DeleteStep
  <2>1. PICK t \in Timer : /\ DeletedAs(t) /\ tm[t].state = "live" /\ tm[t].kind = "plain"
                           /\ tm[t].repeat = Max32 /\ ~tm[t].deleted
    BY <1>3 DEF DeleteStep
  <2>2. /\ tm'[t].state = tm[t].state /\ tm'[t].kind = tm[t].kind /\ tm'[t].deleted
        /\ tm'[t].repeat = tm[t].repeat /\ tm'[t].destory = tm[t].destory
        /\ \A u \in Timer : u # t => tm'[u] = tm[u]
    BY <1>t, <2>1 DEF DeletedAs, TimerRecord
  <2>3. ~tm[t].destory
    <3>1. tm[t].destory => t \in Nodes(pend)
      BY <2>1 DEF CountedTimers
    <3>2. t \in Nodes(pend) => tm[t].repeat = 0
      BY <2>1 DEF PlainKeepsCount, Ending
    <3> QED BY <2>1, <3>1, <3>2, Max32IsNatural
  <2>4. /\ num' = Dec(num) /\ calls' \in {calls, calls + 1}
        /\ UNCHANGED <<pc, who, from, pend>> /\ InUserCode
        /\ heap # <<>> => Len(heap') = Len(heap) - 1
        /\ Len(heap') <= Len(heap)
    BY <1>3, <2>1 DEF DeletedAs, DeleteStep, Fewer
  <2>5. /\ Allocated' = Allocated /\ Counted' = Counted /\ Deleted' = Deleted \cup {t}
        /\ t \in Counted /\ t \notin Deleted
    BY <2>1, <2>2, <2>3 DEF Allocated, Counted, Deleted
  <2>6. num >= 1 /\ num' = num - 1
    BY <1>t, <1>c, <2>4, <2>5, DecFacts
  <2>7. NumIsBalance'
    BY <1>t, <2>4, <2>5, <2>6, OneLessCounted
  <2>8. CountedTimers'
    BY <2>1, <2>2, <2>3, <2>4 DEF CountedTimers
  <2>9. HeapOfExpiry'
    BY <2>2, <2>4 DEF HeapOfExpiry, InUserCode, Typed, WhoIsCalled, InCallback
  <2>10. CountCoversHeap'
    <3>1. CASE heap = <<>>
      BY <1>t, <2>4, <2>6, <3>1, EmptySeq DEF CountCoversHeap
    <3>2. CASE heap # <<>>
      BY <1>t, <2>4, <2>6, <3>2 DEF CountCoversHeap
    <3> QED BY <3>1, <3>2
  <2> QED BY <2>7, <2>8, <2>9, <2>10
<1>4. CASE IoStep \/ RemoveStep \/ ControlStep
  <2>1. UNCHANGED <<tm, pend, num>> /\ calls' \in {calls, calls + 1} /\ Len(heap') <= Len(heap)
    BY <1>4, <1>t DEF IoStep, RemoveStep, ControlStep, Fewer
  <2>2. NumIsBalance'
    BY <1>t, <2>1, SameBalance
  <2>3. CountedTimers'
    BY <2>1 DEF CountedTimers
  <2>4. CountCoversHeap'
    BY <1>t, <2>1 DEF CountCoversHeap
  <2>5. HeapOfExpiry'
    <3>1. SUFFICES ASSUME pc' = "cb", from' = "expire", tm'[who'].kind # "plain"
                   PROVE  heap' # <<>>
      BY DEF HeapOfExpiry
    <3>2. pc = "cb" /\ UNCHANGED <<who, from, heap>>
      BY <1>4, <2>1, <3>1 DEF IoStep, RemoveStep, ControlStep, InUserCode, Typed, WhoIsCalled
    <3> QED BY <2>1, <3>1, <3>2 DEF HeapOfExpiry
  <2> QED BY <2>2, <2>3, <2>4, <2>5
<1>5. CASE LastExpiryStep
  <2>t. PICK t \in Timer : t = heap[1]
    BY <1>5 DEF LastExpiryStep, LastExpiryAs
  <2>1. LastExpiryAs(t)
    BY <1>5, <2>t DEF LastExpiryStep
  <2>2. /\ tm'[t].state = tm[t].state /\ tm'[t].kind = tm[t].kind /\ tm'[t].deleted = tm[t].deleted
        /\ tm'[t].repeat = 0 /\ tm'[t].destory
        /\ \A u \in Timer : u # t => tm'[u] = tm[u]
        /\ tm[t].repeat = 1 /\ Max32 # 1
    BY <1>t, <2>1 DEF LastExpiryAs, TimerRecord
  <2>3. ~tm[t].destory /\ ~tm[t].deleted
    BY <2>2 DEF CountedTimers
  <2>4. tm[t].state = "live"
    <3>1. tm[t].state # "none"
      BY <1>t, <2>1, TopIsNode DEF LastExpiryAs, Typed, OnlyAllocated
    <3>2. tm[t].state # "freed"
      BY <2>2 DEF PendingIsOver
    <3>3. tm[t].state \in {"none", "live", "freed"}
      BY <1>t DEF TimerRecord
    <3> QED BY <3>1, <3>2, <3>3
  <2>5. /\ Allocated' = Allocated /\ Counted' = Counted \ {t} /\ Deleted' = Deleted
        /\ t \in Counted /\ t \notin Deleted
    BY <2>2, <2>3, <2>4 DEF Allocated, Counted, Deleted
  <2>6. num >= 1 /\ num' = num - 1
    BY <1>t, <1>c, <2>1, <2>5, DecFacts DEF LastExpiryAs
  <2>7. NumIsBalance'
    BY <1>5, <1>t, <2>5, <2>6, OneLessCounted DEF LastExpiryStep
  <2>8. CountedTimers'
    <3>1. Nodes(pend) \subseteq Nodes(pend')
      BY <1>t, <2>1, PendingNodes DEF LastExpiryAs
    <3>2. tm[t].kind = "plain" => t \in Nodes(pend')
      <4>1. tm[t].kind = "plain" /\ tm[t].pending => t \in Nodes(pend)
        BY DEF PlainKeepsCount
      <4>2. ~tm[t].pending => t \in Nodes(pend')
        BY <1>t, <2>1, PendingNodes DEF LastExpiryAs
      <4> QED BY <3>1, <4>1, <4>2
    <3> QED BY <2>2, <2>3, <2>4, <3>1, <3>2 DEF CountedTimers
  <2>9. HeapOfExpiry'
    BY <1>5 DEF HeapOfExpiry, LastExpiryStep
  <2>10. CountCoversHeap'
    BY <1>t, <2>1, <2>6 DEF CountCoversHeap, LastExpiryAs, Removed
  <2> QED BY <2>7, <2>8, <2>9, <2>10
<1>6. CASE ExpiryStep
  <2>t. PICK t \in Timer : t = heap[1]
    BY <1>6 DEF ExpiryStep, ExpiryAs
  <2>1. ExpiryAs(t)
    BY <1>6, <2>t DEF ExpiryStep
  <2>2. /\ tm'[t].state = tm[t].state /\ tm'[t].kind = tm[t].kind /\ tm'[t].deleted = tm[t].deleted
        /\ tm'[t].destory = tm[t].destory
        /\ tm[t].repeat \in {0, Max32} => tm'[t].repeat = Max32
        /\ \A u \in Timer : u # t => tm'[u] = tm[u]
    BY <1>t, <2>1, Max32IsNatural DEF ExpiryAs, TimerRecord
  <2>3. NumIsBalance'
    BY <1>6, <1>t, <2>2, SameBalance DEF ExpiryStep
  <2>4. CountedTimers'
    BY <1>6, <2>2 DEF CountedTimers, ExpiryStep
  <2>5. HeapOfExpiry' /\ CountCoversHeap'
    <3>1. Len(heap') = Len(heap) /\ heap # <<>> /\ num' = num
      BY <1>6, <2>1 DEF ExpiryAs, ExpiryStep
    <3> QED BY <1>t, <3>1, EmptySeq DEF HeapOfExpiry, CountCoversHeap
  <2> QED BY <2>3, <2>4, <2>5
<1>7. CASE CallStep
  <2>t. PICK t \in Timer : t = who'
    BY <1>7, <1>t, TailNodes DEF CallStep
  <2>1. /\ \A u \in Timer : u # t => tm'[u] = tm[u]
        /\ tm'[t] = [tm[t] EXCEPT !.fired = @ + 1]
        /\ UNCHANGED <<heap, num, pend, calls>> /\ from' = "pending"
    BY <1>7, <2>t DEF CallStep
  <2>2. /\ tm'[t].state = tm[t].state /\ tm'[t].kind = tm[t].kind /\ tm'[t].deleted = tm[t].deleted
        /\ tm'[t].destory = tm[t].destory /\ tm'[t].repeat = tm[t].repeat
    BY <1>t, <2>1 DEF TimerRecord
  <2>3. NumIsBalance'
    BY <1>t, <2>1, <2>2, SameBalance
  <2>4. CountedTimers'
    <3>1. \A u \in Timer :
             /\ tm'[u].state = tm[u].state /\ tm'[u].kind = tm[u].kind
             /\ tm'[u].deleted = tm[u].deleted
             /\ tm'[u].destory = tm[u].destory /\ tm'[u].repeat = tm[u].repeat
      BY <2>1, <2>2
    <3> QED BY <2>1, <3>1 DEF CountedTimers
  <2> QED BY <2>1, <2>3, <2>4 DEF HeapOfExpiry, CountCoversHeap
<1>8. CASE BackStep
  <2>w. PICK w \in Timer : w = who
    BY <1>8, WhoReturns
  <2>1. /\ tm'[w].state = (IF tm[w].destory THEN "freed" ELSE tm[w].state)
        /\ tm'[w].kind = tm[w].kind /\ tm'[w].repeat = tm[w].repeat
        /\ tm'[w].deleted = tm[w].deleted /\ ~tm'[w].destory
        /\ Removed(pend', pend, w)
    BY <1>8, <2>w, WhoReturns
  <2>2. /\ \A u \in Timer : u # w => tm'[u] = tm[u]
        /\ UNCHANGED <<heap, num, calls>> /\ pc' = "pending"
    BY <1>8, <2>w DEF BackStep
  <2>3. tm[w].destory => ~tm[w].deleted /\ tm[w].state = "live"
    BY DEF CountedTimers
  <2>4. NumIsBalance'
    BY <1>t, <2>1, <2>2, <2>3, SameBalance
  <2>5. CountedTimers'
    BY <2>1, <2>2, <2>3 DEF CountedTimers, Removed
  <2> QED BY <2>2, <2>4, <2>5 DEF HeapOfExpiry, CountCoversHeap
<1> QED BY <1>1, <1>2, <1>3, <1>4, <1>5, <1>6, <1>7, <1>8 DEF StepKinds

\* The loop does not overlook a heap that holds timers, as long as timers_num,
\* which nothing sets at first, does not start so high that it wraps.
THEOREM CountCovers == CountHasRoom => (Spec => []CountCoversHeap)
<1> SUFFICES ASSUME CountHasRoom PROVE Spec => []CountCoversHeap
  OBVIOUS
<1>1. Init => Balanced
  <2> SUFFICES ASSUME Init PROVE Balanced
    OBVIOUS
  <2>1. \A t \in Timer : tm[t].state = "none" /\ ~tm[t].deleted /\ ~tm[t].destory
    BY DEF Init, Unallocated
  <2>2. Allocated = {} /\ Counted = {} /\ Deleted = {}
    BY <2>1 DEF Allocated, Counted, Deleted
  <2>3. num \in InitialNums /\ num \in Nat /\ heap = <<>> /\ pc = "io" /\ calls = 0
    BY NumsFit, Max32IsNatural DEF Init
  <2>4. NumIsBalance
    BY <2>2, <2>3, FS_EmptySet DEF NumIsBalance
  <2> QED BY <2>1, <2>3, <2>4 DEF Balanced, CountedTimers, HeapOfExpiry, CountCoversHeap
<1>2. Kept /\ PlainKeepsCount /\ Balanced /\ [Next]_vars => Balanced'
  BY KeptStep, BalanceStep
<1>3. Balanced => CountCoversHeap
  BY DEF Balanced
<1> QED BY AlwaysKept, AlwaysCounted, <1>1, <1>2, <1>3, PTL DEF Spec

-----------------------------------------------------------------------------
(* A program that has no connections and deletes no timer.                 *)

\* The heap has room for all the timers it makes.
PlainProgram == Io = {} /\ ~CanDelete /\ Cardinality(Timer) <= Capacity

\* A timer that has not been freed is in the heap or pending, and the loop runs
\* out of timers only if the heap is empty.
NoneIsLost ==
    /\ \A t \in Timer : tm[t].state = "live" => t \in Nodes(heap) \/ t \in Nodes(pend)
    /\ pc = "crashed" => heap = <<>>

\* A heap without repetition that lacks a timer is not full.
LEMMA HeapHasRoom ==
    ASSUME Typed, NEW t \in Timer, t \notin Nodes(heap), \A u \in Timer : Once(heap, u),
           Cardinality(Timer) <= Capacity
    PROVE  Len(heap) < Capacity
<1> DEFINE n == Len(heap)
           rest == Timer \ {t}
<1>1. n \in Nat /\ heap \in [1 .. n -> Timer] /\ Capacity \in Nat
  BY LenProperties, CapacityIsPositive DEF Typed, TypeOK
<1>2. IsFiniteSet(1 .. n) /\ Cardinality(1 .. n) = n
  <2>1. n \in Int /\ 1 \in Int
    BY <1>1
  <2> HIDE DEF n
  <2>2. IsFiniteSet(1 .. n) /\ Cardinality(1 .. n) = IF 1 > n THEN 0 ELSE n - 1 + 1
    BY <2>1, FS_Interval
  <2> QED BY <1>1, <2>2 DEF n
<1>3. Cardinality(rest) = Cardinality(Timer) - 1 /\ Cardinality(Timer) \in Nat
      /\ Cardinality(rest) \in Nat
  BY TimersAreFinite, FS_RemoveElement, FS_CardinalityType
<1>4. heap \in [1 .. n -> rest]
  <2>1. \A c \in 1 .. n : heap[c] \in Timer /\ heap[c] # t
    BY <1>1, NodesOf
  <2> QED BY <1>1, <2>1
<1>5. \A a, b \in 1 .. n : heap[a] = heap[b] => a = b
  BY <1>1 DEF Once
<1>6. ~(Cardinality(rest) < n)
  <2>1. SUFFICES ASSUME Cardinality(rest) < Cardinality(1 .. n) PROVE FALSE
    BY <1>2
  <2>2. IsFiniteSet(rest)
    BY TimersAreFinite, FS_RemoveElement
  <2> HIDE DEF rest, n
  <2>3. \E a, b \in 1 .. n : a # b /\ heap[a] = heap[b]
    BY <1>2, <1>4, <2>1, <2>2, FS_PigeonHole
  <2> QED BY <1>5, <2>3
<1> QED BY <1>1, <1>3, <1>6

LEMMA AllArePlain ==
    ASSUME Kept, Io = {}
    PROVE  \A t \in Timer : tm[t].kind = "plain" /\ Once(heap, t) /\ Once(pend, t)
BY DEF Kept, Typed, TimersOfIoAreOwned, PlainIsInOnePlace, PendingIsOver

LEMMA PlainStep ==
    ASSUME Kept, PlainKeepsCount, NoneIsLost, PlainProgram, StepKinds
    PROVE  NoneIsLost'
<1> USE DEF NoneIsLost, PlainProgram
<1>t. /\ tm \in [Timer -> TimerRecord] /\ pend \in Seq(Timer) /\ heap \in Seq(Timer)
      /\ \A u \in Timer : tm[u] \in TimerRecord
      /\ Typed
  BY DEF Kept, Typed, TypeOK
<1>k. \A t \in Timer : tm[t].kind = "plain" /\ Once(heap, t) /\ Once(pend, t)
  BY AllArePlain
<1>1. CASE ArmStep
  <2>1. PICK kind \in Kinds \cup {"plain"}, owner \in Io \cup {NoTimer}, d \in Nat, r \in 0 .. Max32 :
          ArmedAs(NewTimer, kind, owner, d, r)
    BY <1>1 DEF ArmStep
  <2>t. PICK t \in Timer : t = NewTimer
    BY <2>1 DEF ArmedAs
  <2>2. t \notin Nodes(heap)
    BY <1>t, <2>1, <2>t DEF ArmedAs, Typed, OnlyAllocated
  <2>3. Len(heap) < Capacity
    BY <1>t, <1>k, <2>2, HeapHasRoom
  <2>4. Nodes(heap') = Nodes(heap) \cup {t}
    <3>1. Len(heap) \in Nat /\ Capacity \in Nat
      BY <1>t, LenProperties, CapacityIsPositive
    <3> QED BY <2>1, <2>t, <2>3, <3>1 DEF ArmedAs, Inserted
  <2>5. UNCHANGED <<pc, pend>> /\ pc # "crashed" /\ \A u \in Timer : u # t => tm'[u] = tm[u]
    BY <1>1, <2>1, <2>t DEF ArmStep, ArmedAs, InUserCode
  <2> QED BY <2>4, <2>5
<1>2. CASE ResetStep
  BY <1>2, <1>k DEF ResetStep
<1>3. CASE DeleteStep
  BY <1>3 DEF DeleteStep
<1>4. CASE IoStep \/ RemoveStep
  BY <1>4 DEF IoStep, RemoveStep
<1>5. CASE ControlStep
  BY <1>5 DEF ControlStep
<1>6. CASE LastExpiryStep
  <2>t. PICK t \in Timer : t = heap[1]
    BY <1>6 DEF LastExpiryStep, LastExpiryAs
  <2>1. LastExpiryAs(t) /\ UNCHANGED pc /\ pc = "expire"
    BY <1>6, <2>t DEF LastExpiryStep
  <2>2. /\ tm'[t].state = tm[t].state
        /\ \A u \in Timer : u # t => tm'[u] = tm[u]
    BY <1>t, <2>1 DEF LastExpiryAs, TimerRecord
  <2>3. Nodes(pend) \subseteq Nodes(pend') /\ (~tm[t].pending => t \in Nodes(pend'))
    BY <1>t, <2>1, PendingNodes DEF LastExpiryAs
  <2>4. tm[t].pending => t \in Nodes(pend)
    BY <1>k DEF PlainKeepsCount
  <2>5. \A u \in Timer : u # t /\ u \in Nodes(heap) => u \in Nodes(heap')
    BY <2>1 DEF LastExpiryAs, Removed
  <2> QED BY <2>1, <2>2, <2>3, <2>4, <2>5
<1>7. CASE ExpiryStep
  <2>1. Nodes(heap') = Nodes(heap) /\ UNCHANGED pend /\ pc' = "cb"
    BY <1>7 DEF ExpiryStep, ExpiryAs
  <2>2. \A u \in Timer : tm'[u].state = tm[u].state
    BY <1>7, <1>t, SameTimers DEF SameTimer
  <2> QED BY <2>1, <2>2
<1>8. CASE CallStep
  <2>1. UNCHANGED <<heap, pend>> /\ pc' = "cb"
    BY <1>8 DEF CallStep
  <2>2. \A u \in Timer : tm'[u].state = tm[u].state
    BY <1>8, <1>t, SameTimers DEF SameTimer
  <2> QED BY <2>1, <2>2
<1>9. CASE BackStep
  <2>w. PICK w \in Timer : w = who
    BY <1>9, <1>t, WhoReturns
  <2>1. /\ tm'[w].state = (IF tm[w].destory THEN "freed" ELSE tm[w].state)
        /\ pend # <<>> /\ w = Head(pend) /\ Removed(pend', pend, w)
    BY <1>9, <1>t, <2>w, WhoReturns
  <2>2. /\ \A u \in Timer : u # w => tm'[u] = tm[u]
        /\ UNCHANGED heap /\ pc' = "pending"
    BY <1>9, <2>w DEF BackStep
  <2>3. w \in Nodes(pend)
    BY <1>t, <2>1, TailNodes
  <2>4. tm[w].destory
    BY <1>k, <2>3 DEF PlainKeepsCount, Ending
  <2>5. \A u \in Timer : u # w /\ u \in Nodes(pend) => u \in Nodes(pend')
    BY <2>1 DEF Removed
  <2> QED BY <2>1, <2>2, <2>4, <2>5
<1> QED BY <1>1, <1>2, <1>3, <1>4, <1>5, <1>6, <1>7, <1>8, <1>9 DEF StepKinds

LEMMA NeverLost == PlainProgram => (Spec => []NoneIsLost)
<1> SUFFICES ASSUME PlainProgram PROVE Spec => []NoneIsLost
  OBVIOUS
<1>1. Init => NoneIsLost
  <2>1. Unallocated.state = "none"
    BY DEF Unallocated
  <2> QED BY <2>1 DEF Init, NoneIsLost
<1>2. Kept /\ PlainKeepsCount /\ NoneIsLost /\ [Next]_vars => NoneIsLost'
  BY KeptStep, PlainStep
<1> QED BY AlwaysKept, AlwaysCounted, <1>1, <1>2, PTL DEF Spec

LEMMA CountPositions ==
    ASSUME NEW h \in Seq(Timer), NEW t, Once(h, t)
    PROVE  Cardinality(Positions(h, t)) = IF t \in Nodes(h) THEN 1 ELSE 0
<1>1. CASE t \in Nodes(h)
  <2>1. PICK a \in 1 .. Len(h) : t = h[a]
    BY <1>1, NodesOf
  <2>2. Positions(h, t) = {a}
    BY <2>1 DEF Positions, Once
  <2> QED BY <1>1, <2>2, FS_Singleton
<1>2. CASE t \notin Nodes(h)
  <2>1. Positions(h, t) = {}
    BY <1>2, NodesOf DEF Positions
  <2> QED BY <1>2, <2>1, FS_EmptySet
<1> QED BY <1>1, <1>2

\* In a program of timers alone, each of them that is not freed waits in one place.
THEOREM AllWaitOnce == PlainProgram => (Spec => []WaitsOnce)
<1> SUFFICES ASSUME PlainProgram PROVE Spec => []WaitsOnce
  OBVIOUS
<1>1. Kept /\ NoneIsLost => WaitsOnce
  <2> SUFFICES ASSUME Kept, NoneIsLost, NEW t \in Timer, tm[t].state = "live"
               PROVE  Cardinality(Positions(heap, t)) + Cardinality(Positions(pend, t)) = 1
    BY DEF WaitsOnce
  <2>1. tm[t].kind = "plain" /\ Once(heap, t) /\ Once(pend, t)
    BY AllArePlain DEF PlainProgram
  <2>2. heap \in Seq(Timer) /\ pend \in Seq(Timer)
    BY DEF Kept, Typed, TypeOK
  <2>3. /\ Cardinality(Positions(heap, t)) = IF t \in Nodes(heap) THEN 1 ELSE 0
        /\ Cardinality(Positions(pend, t)) = IF t \in Nodes(pend) THEN 1 ELSE 0
    BY <2>1, <2>2, CountPositions
  <2>4. t \in Nodes(heap) => t \notin Nodes(pend)
    BY <2>1 DEF Kept, PlainIsInOnePlace
  <2>5. t \in Nodes(heap) \/ t \in Nodes(pend)
    BY DEF NoneIsLost
  <2> QED BY <2>3, <2>4, <2>5
<1> QED BY AlwaysKept, NeverLost, <1>1, PTL

\* In such a program, one timer that repeats for ever keeps process_timer from
\* reading the top of an empty heap.
THEOREM LastingTimerHelps == PlainProgram => (Spec => []LastingTimerKeepsLoopAlive)
<1> SUFFICES ASSUME PlainProgram PROVE Spec => []LastingTimerKeepsLoopAlive
  OBVIOUS
<1>1. Kept /\ PlainKeepsCount /\ NoneIsLost => LastingTimerKeepsLoopAlive
  <2> SUFFICES ASSUME Kept, PlainKeepsCount, NoneIsLost, pc = "crashed",
                      NEW t \in Timer, tm[t].state = "live"
               PROVE  tm[t].times # Max32
    BY DEF LastingTimerKeepsLoopAlive
  <2>1. tm[t].kind = "plain"
    BY AllArePlain DEF PlainProgram
  <2>2. Nodes(heap) = {}
    BY DEF NoneIsLost, Nodes
  <2>3. t \in Nodes(pend)
    BY <2>2 DEF NoneIsLost
  <2> QED BY <2>1, <2>3 DEF PlainKeepsCount, Ending
<1> QED BY AlwaysKept, AlwaysCounted, NeverLost, <1>1, PTL
=============================================================================
