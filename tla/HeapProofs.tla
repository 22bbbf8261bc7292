----------------------------- MODULE HeapProofs -----------------------------
(***************************************************************************)
(* Theorems about Heap, for any nodes, keys and capacity.                  *)
(***************************************************************************)
EXTENDS Heap, SequenceTheorems, FiniteSetTheorems, WellFoundedInduction, TLAPS

USE MaxKeyIsNatural, CapacityIsNatural

\* Where the loops are.
IndexOK ==
    /\ pc = "idle" => at = 0
    /\ pc # "down" => back = 0
    /\ pc = "up" => at \in 1 .. Len(h)
    /\ pc = "down" => /\ at >= 1
                      /\ at \in 1 .. Len(h) \/ (h = <<>> /\ back = 0)
                      /\ back <= at

\* The key at each position, and the positions that are no less than their
\* parent.
Val == [a \in 1 .. Len(h) |-> key[h[a]]]

Ordered(a) == Val[Parent(a)] <= Val[a]

\* The children of the node a loop is at are no less than its parent.
Straddles ==
    \A a \in 2 .. Len(h) : Parent(a) = at /\ at > 1 => Val[Parent(at)] <= Val[a]

\* What is still to be repaired: nothing; the node a loop is at; or its
\* children, and the node itself where heap_remove has put it.
OrderInv ==
    /\ pc = "idle" => \A a \in 2 .. Len(h) : Ordered(a)
    /\ pc = "up" => /\ \A a \in 2 .. Len(h) : a # at => Ordered(a)
                    /\ Straddles
    /\ pc = "down" => /\ \A a \in 2 .. Len(h) :
                            Parent(a) # at /\ (a # back \/ at # back) => Ordered(a)
                      /\ Straddles

-----------------------------------------------------------------------------
(* Indices.                                                                *)

LEMMA ParentFacts ==
    /\ \A a \in Nat : a > 1 => Parent(a) \in Nat /\ Parent(a) >= 1 /\ Parent(a) < a
    /\ \A a, b \in Nat : a >= 1 => (Parent(a) = b <=> a = 2 * b \/ a = 2 * b + 1)
BY DEF Parent

LEMMA LeastFacts ==
    ASSUME NEW a \in Nat, a >= 1, TypeOK, a <= Len(h)
    PROVE  LET least == LeastOf(h, key, a)
           IN  /\ least \in Nat /\ least <= Len(h)
               /\ least # a => /\ least \in {2 * a, 2 * a + 1}
                               /\ key[h[least]] < key[h[a]]
               /\ \A c \in {2 * a, 2 * a + 1} :
                     c <= Len(h) => key[h[least]] <= key[h[c]]
<1>1. Len(h) \in Nat /\ \A b \in 1 .. Len(h) : h[b] \in Node /\ key[h[b]] \in Int
  BY LenProperties, ElementOfSeq DEF TypeOK, Key
<1>2. 2 * a \in Nat /\ 2 * a + 1 \in Nat /\ 2 * a > a
  OBVIOUS
<1> DEFINE l == IF 2 * a <= Len(h) /\ key[h[2 * a]] < key[h[a]] THEN 2 * a ELSE a
           m == IF 2 * a + 1 <= Len(h) /\ key[h[2 * a + 1]] < key[h[l]] THEN 2 * a + 1 ELSE l
<1>3. LeastOf(h, key, a) = m
  BY DEF LeastOf, Left, Right, Less
<1>4. key[h[a]] \in Int
  BY <1>1
<1>5. /\ 2 * a <= Len(h) => key[h[2 * a]] \in Int
      /\ 2 * a + 1 <= Len(h) => key[h[2 * a + 1]] \in Int
  BY <1>1, <1>2
<1>6. /\ l \in {a, 2 * a} /\ l <= Len(h) /\ key[h[l]] \in Int
      /\ key[h[l]] <= key[h[a]]
      /\ l # a => key[h[l]] < key[h[a]]
      /\ 2 * a <= Len(h) => key[h[l]] <= key[h[2 * a]]
  BY <1>4, <1>5
<1> HIDE DEF l
<1>7. /\ m \in {l, 2 * a + 1} /\ m <= Len(h) /\ key[h[m]] \in Int
      /\ key[h[m]] <= key[h[l]]
      /\ m # l => key[h[m]] < key[h[l]]
      /\ 2 * a + 1 <= Len(h) => key[h[m]] <= key[h[2 * a + 1]]
  BY <1>5, <1>6
<1> HIDE DEF m
<1>8. m \in Nat /\ m <= Len(h) /\ m \in {a, 2 * a, 2 * a + 1}
  BY <1>2, <1>6, <1>7
<1>9. m # a => key[h[m]] < key[h[a]]
  BY <1>4, <1>6, <1>7
<1>10. /\ 2 * a <= Len(h) => key[h[m]] <= key[h[2 * a]]
       /\ 2 * a + 1 <= Len(h) => key[h[m]] <= key[h[2 * a + 1]]
  BY <1>5, <1>6, <1>7
<1> QED BY <1>3, <1>8, <1>9, <1>10
-----------------------------------------------------------------------------
(* The array operations.                                                   *)

\* What a swap puts at index c.
Exchanged(g, a, b, c) == IF c = b THEN g[a] ELSE IF c = a THEN g[b] ELSE g[c]

LEMMA SwapFacts ==
    ASSUME NEW g \in Seq(Node), NEW a \in 1 .. Len(g), NEW b \in 1 .. Len(g)
    PROVE  /\ Swap(g, a, b) \in Seq(Node)
           /\ Len(Swap(g, a, b)) = Len(g)
           /\ \A c \in 1 .. Len(g) : Swap(g, a, b)[c] = Exchanged(g, a, b, c)
<1>1. g[a] \in Node /\ g[b] \in Node
  BY ElementOfSeq
<1> DEFINE f == [g EXCEPT ![a] = g[b]]
<1>2. /\ f \in Seq(Node) /\ Len(f) = Len(g)
      /\ \A c \in 1 .. Len(g) : f[c] = IF c = a THEN g[b] ELSE g[c]
  BY <1>1, ExceptSeq
<1>3. Swap(g, a, b) = [f EXCEPT ![b] = g[a]]
  BY DEF Swap
<1> HIDE DEF f
<1>4. /\ [f EXCEPT ![b] = g[a]] \in Seq(Node)
      /\ Len([f EXCEPT ![b] = g[a]]) = Len(f)
      /\ \A c \in 1 .. Len(f) : [f EXCEPT ![b] = g[a]][c] = IF c = b THEN g[a] ELSE f[c]
  BY <1>1, <1>2, ExceptSeq
<1>5. ASSUME NEW c \in 1 .. Len(g) PROVE Swap(g, a, b)[c] = Exchanged(g, a, b, c)
  BY <1>2, <1>3, <1>4 DEF Exchanged
<1> QED BY <1>2, <1>3, <1>4, <1>5

LEMMA FillFacts ==
    ASSUME NEW g \in Seq(Node), NEW a \in 1 .. Len(g)
    PROVE  /\ FillWithLast(g, a) \in Seq(Node)
           /\ Len(FillWithLast(g, a)) = Len(g) - 1
           /\ \A c \in 1 .. Len(g) - 1 :
                 FillWithLast(g, a)[c] = IF c = a THEN g[Len(g)] ELSE g[c]
<1>1. Len(g) \in Nat /\ Len(g) - 1 \in Nat /\ Len(g) \in 1 .. Len(g)
  BY LenProperties
<1>2. g[Len(g)] \in Node
  BY <1>1, ElementOfSeq
<1> DEFINE f == [g EXCEPT ![a] = g[Len(g)]]
<1>3. /\ f \in Seq(Node) /\ Len(f) = Len(g)
      /\ \A c \in 1 .. Len(g) : f[c] = IF c = a THEN g[Len(g)] ELSE g[c]
  BY <1>2, ExceptSeq
<1>4. FillWithLast(g, a) = SubSeq(f, 1, Len(g) - 1)
  BY DEF FillWithLast
<1> HIDE DEF f
<1>5. /\ SubSeq(f, 1, Len(g) - 1) \in Seq(Node)
      /\ Len(SubSeq(f, 1, Len(g) - 1)) = Len(g) - 1
      /\ \A c \in 1 .. Len(g) - 1 : SubSeq(f, 1, Len(g) - 1)[c] = f[c]
  BY <1>1, <1>3, SubSeqProperties
<1> QED BY <1>1, <1>3, <1>4, <1>5

-----------------------------------------------------------------------------
(* Types, positions and the absence of duplicates.                         *)

Basics == TypeOK /\ NoDuplicates /\ IndexOK

LEMMA BasicsInit == Init => Basics
<1> SUFFICES ASSUME Init PROVE Basics
  OBVIOUS
<1>1. h \in Seq(Node) /\ Len(h) = 0
  BY EmptySeq DEF Init
<1> QED
  BY <1>1 DEF Init, Basics, TypeOK, NoDuplicates, IndexOK, Key

\* The last node in the place of another one is still there once.
LEMMA FillKeepsApart ==
    ASSUME Len(h) \in Nat, NoDuplicates, NEW a \in 1 .. Len(h),
           Len(h') = Len(h) - 1,
           \A c \in 1 .. Len(h) - 1 : h'[c] = IF c = a THEN h[Len(h)] ELSE h[c]
    PROVE  NoDuplicates'
<1> DEFINE p(c) == IF c = a THEN Len(h) ELSE c
<1>1. \A b, c \in 1 .. Len(h) - 1 : p(b) \in 1 .. Len(h) /\ (p(b) = p(c) => b = c)
  OBVIOUS
<1>2. \A c \in 1 .. Len(h) - 1 : h'[c] = h[p(c)]
  OBVIOUS
<1> HIDE DEF p
<1>3. \A b, c \in 1 .. Len(h) - 1 : h'[b] = h'[c] => p(b) = p(c)
  BY <1>1, <1>2 DEF NoDuplicates
<1> QED BY <1>1, <1>3 DEF NoDuplicates

LEMMA BasicsStep == Basics /\ [Next]_vars => Basics'
<1> SUFFICES ASSUME Basics, [Next]_vars
             PROVE  Basics'
  OBVIOUS
<1> USE DEF Basics
<1>0. Len(h) \in Nat /\ h \in Seq(Node)
  BY LenProperties DEF TypeOK
<1>1. ASSUME NEW n \in Node, NEW k \in Key, Insert(n, k)
      PROVE  Basics'
  <2>1. /\ Len(h') = Len(h) + 1 /\ h' \in Seq(Node)
        /\ h'[Len(h) + 1] = n
        /\ \A c \in 1 .. Len(h) : h'[c] = h[c]
    BY <1>0, <1>1, AppendProperties DEF Insert
  <2>2. NoDuplicates'
    BY <1>0, <1>1, <2>1 DEF Insert, NoDuplicates, Members
  <2>3. TypeOK'
    BY <1>0, <1>1, <2>1 DEF Insert, TypeOK
  <2>4. IndexOK'
    BY <1>0, <1>1, <2>1 DEF Insert, IndexOK
  <2> QED BY <2>2, <2>3, <2>4
<1>2. ASSUME NEW n \in Node, NEW k \in Key, InsertFull(n, k)
      PROVE  Basics'
  BY <1>2 DEF InsertFull, TypeOK, NoDuplicates, IndexOK
<1>3. ASSUME NEW k \in Key, Pop(k)
      PROVE  Basics'
  <2>0. h # <<>> /\ key' = [key EXCEPT ![h[1]] = k] /\ h' = FillWithLast(h, 1)
    BY <1>3 DEF Pop
  <2>1. Len(h) >= 1
    BY <1>0, <2>0, EmptySeq
  <2>2. /\ h' \in Seq(Node) /\ Len(h') = Len(h) - 1
        /\ \A c \in 1 .. Len(h) - 1 : h'[c] = IF c = 1 THEN h[Len(h)] ELSE h[c]
    BY <1>0, <2>0, <2>1, FillFacts
  <2>3. NoDuplicates'
    <3>1. 1 \in 1 .. Len(h)
      BY <1>0, <2>1
    <3>2. \A c \in 1 .. Len(h) - 1 : h'[c] = IF c = 1 THEN h[Len(h)] ELSE h[c]
      BY <2>2
    <3> QED BY <1>0, <2>2, <3>1, <3>2, FillKeepsApart
  <2>4. TypeOK'
    BY <1>0, <1>3, <2>1, <2>2 DEF Pop, TypeOK
  <2>5. h' = <<>> \/ 1 \in 1 .. Len(h')
    BY <2>1, <2>2, EmptySeq, <1>0
  <2>6. IndexOK'
    BY <1>3, <2>5 DEF Pop, IndexOK
  <2> QED BY <2>3, <2>4, <2>6
<1>4. ASSUME NEW n \in Node, RemoveLast(n)
      PROVE  Basics'
  <2>0. h # <<>> /\ h' = FillWithLast(h, Len(h))
    BY <1>4 DEF RemoveLast
  <2>1. Len(h) >= 1
    BY <1>0, <2>0, EmptySeq
  <2>2. /\ h' \in Seq(Node) /\ Len(h') = Len(h) - 1
        /\ \A c \in 1 .. Len(h) - 1 : h'[c] = h[c]
    BY <1>0, <2>0, <2>1, FillFacts
  <2>3. NoDuplicates'
    <3>1. Len(h) \in 1 .. Len(h)
      BY <1>0, <2>1
    <3>2. \A c \in 1 .. Len(h) - 1 : h'[c] = IF c = Len(h) THEN h[Len(h)] ELSE h[c]
      BY <2>2
    <3> QED BY <1>0, <2>2, <3>1, <3>2, FillKeepsApart
  <2>4. TypeOK'
    BY <1>0, <1>4, <2>1, <2>2 DEF RemoveLast, TypeOK
  <2>5. IndexOK'
    BY <1>4 DEF RemoveLast, IndexOK
  <2> QED BY <2>3, <2>4, <2>5
<1>5. ASSUME NEW n \in Node, Remove(n)
      PROVE  Basics'
  <2>1. PICK a \in 1 .. Len(h) - 1 :
            h[a] = n /\ h' = FillWithLast(h, a) /\ at' = a /\ back' = a
    BY <1>5 DEF Remove
  <2>2. /\ h' \in Seq(Node) /\ Len(h') = Len(h) - 1
        /\ \A c \in 1 .. Len(h) - 1 : h'[c] = IF c = a THEN h[Len(h)] ELSE h[c]
    <3>1. a \in 1 .. Len(h)
      BY <1>0, <2>1
    <3>2. /\ FillWithLast(h, a) \in Seq(Node) /\ Len(FillWithLast(h, a)) = Len(h) - 1
          /\ \A c \in 1 .. Len(h) - 1 :
                FillWithLast(h, a)[c] = IF c = a THEN h[Len(h)] ELSE h[c]
      BY <1>0, <3>1, FillFacts
    <3> QED BY <2>1, <3>2
  <2>3. NoDuplicates'
    <3>1. a \in 1 .. Len(h)
      BY <1>0, <2>1
    <3> QED BY <1>0, <2>2, <3>1, FillKeepsApart
  <2>4. TypeOK'
    BY <1>0, <1>5, <2>1, <2>2 DEF Remove, TypeOK
  <2>5. IndexOK'
    BY <1>0, <1>5, <2>1, <2>2 DEF Remove, IndexOK
  <2> QED BY <2>3, <2>4, <2>5
<1>6. ASSUME NEW a \in 1 .. Len(h), NEW b \in 1 .. Len(h), h' = Swap(h, a, b)
      PROVE  /\ h' \in Seq(Node) /\ Len(h') = Len(h)
             /\ NoDuplicates'
  <2>1. /\ h' \in Seq(Node) /\ Len(h') = Len(h)
        /\ \A c \in 1 .. Len(h) : h'[c] = Exchanged(h, a, b, c)
    BY <1>0, <1>6, SwapFacts
  <2> QED BY <2>1 DEF NoDuplicates, Exchanged
<1>7. CASE StepUp
  <2>1. at \in 1 .. Len(h)
    BY <1>7 DEF StepUp, IndexOK
  <2>2. CASE at > 1 /\ Less(key, h, at, Parent(at))
    <3>1. Parent(at) \in 1 .. Len(h)
      BY <1>0, <2>1, <2>2, ParentFacts
    <3>2. h' = Swap(h, at, Parent(at)) /\ at' = Parent(at) /\ UNCHANGED <<pc, key, back>>
      BY <1>7, <2>2 DEF StepUp
    <3>3. h' \in Seq(Node) /\ Len(h') = Len(h) /\ NoDuplicates'
      BY <1>6, <2>1, <3>1, <3>2
    <3>4. TypeOK'
      BY <1>0, <3>1, <3>2, <3>3 DEF TypeOK
    <3>5. IndexOK'
      BY <1>7, <3>1, <3>2, <3>3 DEF IndexOK, StepUp
    <3> QED BY <3>3, <3>4, <3>5
  <2>3. CASE ~(at > 1 /\ Less(key, h, at, Parent(at)))
    BY <1>7, <2>3 DEF StepUp, TypeOK, NoDuplicates, IndexOK
  <2> QED BY <2>2, <2>3
<1>8. CASE StepDown
  <2> DEFINE least == LeastOf(h, key, at)
  <2>1. at \in Nat /\ at >= 1 /\ back \in Nat
    BY <1>8 DEF StepDown, IndexOK, TypeOK
  <2>2. CASE least # at
    <3>1. h' = Swap(h, at, least) /\ at' = least /\ UNCHANGED <<pc, back, key>>
      BY <1>8, <2>2 DEF StepDown
    <3>2. at \in 1 .. Len(h)
      <4>1. CASE h = <<>>
        <5>1. Len(h) = 0
          BY <4>1, EmptySeq
        <5>2. LeastOf(h, key, at) = at
          BY <2>1, <5>1 DEF LeastOf, Left, Right
        <5> QED BY <2>2, <5>2
      <4>2. CASE h # <<>>
        BY <1>8, <4>2 DEF StepDown, IndexOK
      <4> QED BY <4>1, <4>2
    <3>3. least \in 1 .. Len(h) /\ least > at
      <4> HIDE DEF least
      <4>1. least \in Nat /\ least <= Len(h) /\ least \in {2 * at, 2 * at + 1}
        BY <2>1, <2>2, <3>2, LeastFacts DEF least
      <4> QED BY <2>1, <4>1
    <3> HIDE DEF least
    <3>4. h' \in Seq(Node) /\ Len(h') = Len(h) /\ NoDuplicates'
      BY <1>6, <3>1, <3>2, <3>3
    <3>5. TypeOK'
      BY <1>0, <3>1, <3>3, <3>4 DEF TypeOK
    <3>6. IndexOK'
      BY <1>8, <2>1, <3>1, <3>3, <3>4 DEF IndexOK, StepDown
    <3> QED BY <3>4, <3>5, <3>6
  <2>3. CASE least = at
    <3>1. /\ pc = "down" /\ pc' = IF back = 0 THEN "idle" ELSE "up"
          /\ at' = back /\ back' = 0 /\ UNCHANGED <<h, key>>
      BY <1>8, <2>3 DEF StepDown
    <3>2. TypeOK' /\ NoDuplicates'
      BY <3>1 DEF TypeOK, NoDuplicates
    <3>3. IndexOK'
      BY <1>0, <2>1, <3>1 DEF IndexOK
    <3> QED BY <3>2, <3>3
  <2> QED BY <2>2, <2>3
<1>9. CASE UNCHANGED vars
  BY <1>9 DEF vars, TypeOK, NoDuplicates, IndexOK
<1> QED
  BY <1>1, <1>2, <1>3, <1>4, <1>5, <1>7, <1>8, <1>9 DEF Next

-----------------------------------------------------------------------------
(* The order.                                                              *)

LEMMA ValType ==
    ASSUME TypeOK
    PROVE  /\ Len(h) \in Nat
           /\ \A a \in 1 .. Len(h) : Val[a] = key[h[a]] /\ Val[a] \in Int
BY LenProperties, ElementOfSeq DEF TypeOK, Val, Key

\* Children, parents and grandparents, without division.
LEMMA ParentStep ==
    ASSUME NEW a \in Nat, a >= 2
    PROVE  /\ Parent(a) \in Nat /\ Parent(a) >= 1 /\ Parent(a) < a
           /\ a = 2 * Parent(a) \/ a = 2 * Parent(a) + 1
BY DEF Parent

LEMMA OrderInit == Init => OrderInv
<1> SUFFICES ASSUME Init PROVE OrderInv
  OBVIOUS
<1>1. Len(h) = 0 /\ pc = "idle"
  BY EmptySeq DEF Init
<1> QED BY <1>1 DEF OrderInv

\* A swap exchanges two values.
LEMMA ValSwap ==
    ASSUME TypeOK, NEW a \in 1 .. Len(h), NEW b \in 1 .. Len(h),
           h' = Swap(h, a, b), key' = key
    PROVE  /\ Len(h') = Len(h)
           /\ \A c \in 1 .. Len(h) : Val'[c] = IF c = b THEN Val[a]
                                          ELSE IF c = a THEN Val[b] ELSE Val[c]
<1>1. /\ Len(h') = Len(h)
      /\ \A c \in 1 .. Len(h) : h'[c] = Exchanged(h, a, b, c)
  <2>1. h \in Seq(Node)
    BY DEF TypeOK
  <2> QED BY <2>1, SwapFacts
<1>2. \A c \in 1 .. Len(h) : Val'[c] = key[Exchanged(h, a, b, c)]
  BY <1>1 DEF Val
<1> QED BY <1>1, <1>2 DEF Val, Exchanged

LEMMA InsertOrders ==
    ASSUME Basics, OrderInv, NEW n \in Node, NEW k \in Key, Insert(n, k)
    PROVE  OrderInv'
<1>1. /\ Len(h) \in Nat /\ Len(h') = Len(h) + 1
      /\ \A c \in 1 .. Len(h) : h'[c] = h[c]
  <2>1. h \in Seq(Node) /\ h' = Append(h, n)
    BY DEF Insert, Basics, TypeOK
  <2> QED BY <2>1, AppendProperties, LenProperties
<1>2. \A c \in 1 .. Len(h) : Val'[c] = Val[c]
  <2>1. \A c \in 1 .. Len(h) : h[c] # n /\ h[c] \in Node
    BY ElementOfSeq DEF Insert, Members, Basics, TypeOK
  <2>2. key \in [Node -> Key] /\ key' = [key EXCEPT ![n] = k]
    BY DEF Insert, Basics, TypeOK
  <2>3. \A c \in 1 .. Len(h) : key'[h'[c]] = key[h[c]]
    BY <1>1, <2>1, <2>2
  <2> QED BY <1>1, <2>3 DEF Val
<1>3. pc = "idle" /\ pc' = "up" /\ at' = Len(h) + 1
  BY DEF Insert
<1>4. \A c \in 2 .. Len(h) : Val[Parent(c)] <= Val[c]
  BY <1>3 DEF OrderInv, Ordered
<1>5. \A c \in 2 .. Len(h') : c # at' => Val'[Parent(c)] <= Val'[c]
  BY <1>1, <1>2, <1>3, <1>4, ParentStep
<1>6. \A c \in 2 .. Len(h') : Parent(c) # at'
  BY <1>1, <1>3, ParentStep
<1> QED BY <1>3, <1>5, <1>6 DEF OrderInv, Ordered, Straddles

LEMMA PopOrders ==
    ASSUME Basics, OrderInv, NEW k \in Key, Pop(k)
    PROVE  OrderInv'
<1>1. /\ Len(h) \in Nat /\ Len(h) >= 1 /\ Len(h') = Len(h) - 1
      /\ \A c \in 2 .. Len(h) - 1 : h'[c] = h[c]
  <2>1. h \in Seq(Node) /\ h # <<>> /\ h' = FillWithLast(h, 1)
    BY DEF Pop, Basics, TypeOK
  <2>2. Len(h) \in Nat /\ 1 \in 1 .. Len(h)
    BY <2>1, EmptySeq, LenProperties
  <2> QED BY <2>1, <2>2, FillFacts
<1>2. \A c \in 2 .. Len(h') : Val'[c] = Val[c]
  <2>1. \A c \in 2 .. Len(h) : h[c] # h[1] /\ h[c] \in Node
    BY <1>1, ElementOfSeq DEF Basics, TypeOK, NoDuplicates
  <2>2. key \in [Node -> Key] /\ key' = [key EXCEPT ![h[1]] = k]
    BY DEF Pop, Basics, TypeOK
  <2>3. \A c \in 2 .. Len(h') : key'[h'[c]] = key[h[c]]
    BY <1>1, <2>1, <2>2
  <2> QED BY <1>1, <2>3 DEF Val
<1>3. pc = "idle" /\ pc' = "down" /\ at' = 1 /\ back' = 0
  BY DEF Pop
<1>4. \A c \in 2 .. Len(h) : Val[Parent(c)] <= Val[c]
  BY <1>3 DEF OrderInv, Ordered
<1>5. \A c \in 2 .. Len(h') : Parent(c) # 1 => Val'[Parent(c)] <= Val'[c]
  BY <1>1, <1>2, <1>4, ParentStep
<1> QED BY <1>3, <1>5 DEF OrderInv, Ordered, Straddles

LEMMA RemoveLastOrders ==
    ASSUME Basics, OrderInv, NEW n \in Node, RemoveLast(n)
    PROVE  OrderInv'
<1>1. /\ Len(h) \in Nat /\ Len(h') = Len(h) - 1
      /\ \A c \in 1 .. Len(h) - 1 : h'[c] = h[c]
  <2>1. h \in Seq(Node) /\ h # <<>> /\ h' = FillWithLast(h, Len(h))
    BY DEF RemoveLast, Basics, TypeOK
  <2>2. Len(h) \in Nat /\ Len(h) \in 1 .. Len(h)
    BY <2>1, EmptySeq, LenProperties
  <2>3. /\ Len(FillWithLast(h, Len(h))) = Len(h) - 1
        /\ \A c \in 1 .. Len(h) - 1 :
               FillWithLast(h, Len(h))[c] = IF c = Len(h) THEN h[Len(h)] ELSE h[c]
    BY <2>1, <2>2, FillFacts
  <2> QED BY <2>1, <2>2, <2>3
<1>2. key' = key /\ pc = "idle" /\ pc' = "idle"
  BY DEF RemoveLast
<1>3. \A c \in 1 .. Len(h') : Val'[c] = Val[c]
  BY <1>1, <1>2 DEF Val
<1>4. \A c \in 2 .. Len(h) : Val[Parent(c)] <= Val[c]
  BY <1>2 DEF OrderInv, Ordered
<1>5. \A c \in 2 .. Len(h') : Val'[Parent(c)] <= Val'[c]
  BY <1>1, <1>3, <1>4, ParentStep
<1> QED BY <1>2, <1>5 DEF OrderInv, Ordered

LEMMA RemoveOrders ==
    ASSUME Basics, OrderInv, NEW n \in Node, Remove(n)
    PROVE  OrderInv'
<1>1. PICK a \in 1 .. Len(h) - 1 :
          h[a] = n /\ h' = FillWithLast(h, a) /\ at' = a /\ back' = a
  BY DEF Remove
<1>2. /\ Len(h) \in Nat /\ Len(h') = Len(h) - 1
      /\ \A c \in 1 .. Len(h) - 1 : c # a => h'[c] = h[c]
  <2>1. h \in Seq(Node) /\ Len(h) \in Nat
    BY LenProperties DEF Basics, TypeOK
  <2>2. a \in 1 .. Len(h)
    BY <2>1
  <2>3. /\ Len(FillWithLast(h, a)) = Len(h) - 1
        /\ \A c \in 1 .. Len(h) - 1 : c # a => FillWithLast(h, a)[c] = h[c]
    BY <2>1, <2>2, FillFacts
  <2> QED BY <1>1, <2>1, <2>3
<1>3. key' = key /\ pc = "idle" /\ pc' = "down"
  BY DEF Remove
<1>4. \A c \in 1 .. Len(h') : c # a => Val'[c] = Val[c]
  BY <1>2, <1>3 DEF Val
<1>5. \A c \in 2 .. Len(h) : Val[Parent(c)] <= Val[c]
  BY <1>3 DEF OrderInv, Ordered
<1>6. \A c \in 1 .. Len(h) : Val[c] \in Int
  BY ValType DEF Basics
<1>7. ASSUME NEW c \in 2 .. Len(h'), Parent(c) # a, c # a
      PROVE  Val'[Parent(c)] <= Val'[c]
  <2>1. c \in 2 .. Len(h) /\ c \in 1 .. Len(h') /\ Parent(c) \in 1 .. Len(h')
    BY <1>2, ParentStep
  <2> QED BY <1>4, <1>5, <1>7, <2>1
<1>8. ASSUME NEW c \in 2 .. Len(h'), Parent(c) = a, a > 1
      PROVE  Val'[Parent(a)] <= Val'[c]
  <2>1. c \in 2 .. Len(h) /\ a \in 2 .. Len(h) /\ c # a /\ Parent(a) # a
        /\ Parent(a) \in 1 .. Len(h') /\ Parent(a) \in 1 .. Len(h)
    BY <1>2, <1>8, ParentStep
  <2>2. Val[Parent(a)] <= Val[a] /\ Val[a] <= Val[c]
    BY <1>5, <1>8, <2>1
  <2>3. Val'[Parent(a)] = Val[Parent(a)] /\ Val'[c] = Val[c]
    BY <1>2, <1>4, <2>1
  <2> QED BY <1>6, <2>1, <2>2, <2>3
<1> QED BY <1>1, <1>3, <1>7, <1>8 DEF OrderInv, Ordered, Straddles

LEMMA StepUpOrders ==
    ASSUME Basics, OrderInv, StepUp
    PROVE  OrderInv'
<1> DEFINE p == Parent(at)
<1>1. pc = "up" /\ at \in 1 .. Len(h) /\ Len(h) \in Nat /\ key' = key
  BY LenProperties DEF StepUp, Basics, IndexOK, TypeOK
<1>2. \A c \in 1 .. Len(h) : Val[c] \in Int
  BY ValType DEF Basics
<1>3. \A c \in 2 .. Len(h) : c # at => Val[Parent(c)] <= Val[c]
  BY <1>1 DEF OrderInv, Ordered
<1>4. \A c \in 2 .. Len(h) : Parent(c) = at /\ at > 1 => Val[p] <= Val[c]
  BY <1>1 DEF OrderInv, Straddles
<1>5. CASE at > 1 /\ Less(key, h, at, Parent(at))
  <2>1. p \in 1 .. Len(h) /\ p < at
    BY <1>1, <1>5, ParentStep
  <2>2. h' = Swap(h, at, p) /\ at' = p /\ pc' = "up"
    BY <1>1, <1>5 DEF StepUp
  <2>3. Val[at] < Val[p]
    BY <1>1, <1>5, <2>1, ValType DEF Less, Basics
  <2>4. /\ Len(h') = Len(h)
        /\ \A c \in 1 .. Len(h) : Val'[c] = IF c = p THEN Val[at]
                                       ELSE IF c = at THEN Val[p] ELSE Val[c]
    BY <1>1, <2>1, <2>2, ValSwap DEF Basics
  <2>5. ASSUME NEW c \in 2 .. Len(h), c # p
        PROVE  Val'[Parent(c)] <= Val'[c]
    <3>1. Parent(c) \in 1 .. Len(h) /\ Parent(c) # c
      BY <1>1, ParentStep
    <3>2. CASE c = at
      BY <1>1, <1>2, <2>1, <2>3, <2>4, <3>2
    <3>3. CASE c # at /\ Parent(c) = p
      <4>1. Val'[Parent(c)] = Val[at] /\ Val'[c] = Val[c] /\ Val[p] <= Val[c]
        BY <1>3, <2>1, <2>4, <2>5, <3>3
      <4> QED BY <1>1, <1>2, <2>1, <2>3, <4>1
    <3>4. CASE c # at /\ Parent(c) = at
      <4>1. Val'[Parent(c)] = Val[p] /\ Val'[c] = Val[c] /\ Val[p] <= Val[c]
        BY <1>1, <1>4, <1>5, <2>1, <2>4, <2>5, <3>4
      <4> QED BY <4>1
    <3>5. CASE c # at /\ Parent(c) # p /\ Parent(c) # at
      BY <1>3, <2>4, <2>5, <3>1, <3>5
    <3> QED BY <3>2, <3>3, <3>4, <3>5
  <2>6. ASSUME NEW c \in 2 .. Len(h), Parent(c) = p, p > 1
        PROVE  Val'[Parent(p)] <= Val'[c]
    <3>1. Parent(p) \in 1 .. Len(h) /\ Parent(p) < p /\ c # p /\ p \in 2 .. Len(h)
      BY <1>1, <2>1, <2>6, ParentStep
    <3>2. Val'[Parent(p)] = Val[Parent(p)] /\ Val[Parent(p)] <= Val[p]
      BY <1>3, <2>1, <2>4, <3>1
    <3>3. CASE c = at
      BY <2>4, <3>1, <3>2, <3>3
    <3>4. CASE c # at
      <4>1. Val'[c] = Val[c] /\ Val[p] <= Val[c]
        BY <1>3, <2>4, <2>6, <3>1, <3>4
      <4> QED BY <1>2, <2>1, <3>1, <3>2, <4>1
    <3> QED BY <3>3, <3>4
  <2> HIDE DEF p
  <2> QED BY <2>2, <2>4, <2>5, <2>6 DEF OrderInv, Ordered, Straddles
<1>6. CASE ~(at > 1 /\ Less(key, h, at, Parent(at)))
  <2>1. h' = h /\ pc' = "idle" /\ Val' = Val
    BY <1>1, <1>6 DEF StepUp, Val
  <2>2. ASSUME NEW c \in 2 .. Len(h)
        PROVE  Val[Parent(c)] <= Val[c]
    <3>1. CASE c = at
      <4>1. at > 1 /\ p \in 1 .. Len(h)
        BY <1>1, <3>1, ParentStep
      <4>2. ~(Val[at] < Val[p])
        BY <1>1, <1>6, <4>1, ValType DEF Less, Basics
      <4> QED BY <1>1, <1>2, <3>1, <4>1, <4>2
    <3>2. CASE c # at
      BY <1>3, <3>2
    <3> QED BY <3>1, <3>2
  <2> QED BY <2>1, <2>2 DEF OrderInv, Ordered
<1> QED BY <1>5, <1>6

LEMMA StepDownOrders ==
    ASSUME Basics, OrderInv, StepDown
    PROVE  OrderInv'
<1> DEFINE l == LeastOf(h, key, at)
<1>1. /\ pc = "down" /\ at \in Nat /\ at >= 1 /\ back \in Nat /\ back <= at
      /\ Len(h) \in Nat /\ key' = key
  BY LenProperties DEF StepDown, Basics, IndexOK, TypeOK
<1>2. \A c \in 1 .. Len(h) : Val[c] \in Int /\ Val[c] = key[h[c]]
  BY ValType DEF Basics
<1>3. \A c \in 2 .. Len(h) :
         Parent(c) # at /\ (c # back \/ at # back) => Val[Parent(c)] <= Val[c]
  BY <1>1 DEF OrderInv, Ordered
<1>4. \A c \in 2 .. Len(h) : Parent(c) = at /\ at > 1 => Val[Parent(at)] <= Val[c]
  BY <1>1 DEF OrderInv, Straddles
<1>5. CASE Len(h) = 0
  <2>1. h = <<>>
    BY <1>5, EmptySeq DEF Basics, TypeOK
  <2>2. back = 0
    BY <1>1, <1>5, <2>1 DEF Basics, IndexOK
  <2>3. l = at
    BY <1>1, <1>5 DEF LeastOf, Left, Right
  <2>4. pc' = "idle" /\ h' = h
    BY <1>1, <2>2, <2>3 DEF StepDown
  <2> QED BY <1>5, <2>4 DEF OrderInv
<1>6. CASE Len(h) # 0
  <2>1. at \in 1 .. Len(h)
    BY <1>1, <1>6, EmptySeq DEF Basics, IndexOK, TypeOK
  <2>2. /\ l \in Nat /\ l <= Len(h)
        /\ l # at => l \in {2 * at, 2 * at + 1} /\ key[h[l]] < key[h[at]]
        /\ \A c \in {2 * at, 2 * at + 1} : c <= Len(h) => key[h[l]] <= key[h[c]]
    <3>1. TypeOK /\ at <= Len(h)
      BY <1>1, <2>1 DEF Basics
    <3> QED BY <1>1, <3>1, LeastFacts
  <2>3. CASE l # at
    <3>1. h' = Swap(h, at, l) /\ at' = l /\ UNCHANGED <<pc, back>>
      BY <2>3 DEF StepDown
    <3> HIDE DEF l
    <3>2. l \in 2 .. Len(h) /\ at < l /\ Parent(l) = at
      <4>1. l \in {2 * at, 2 * at + 1}
        BY <2>2, <2>3
      <4>2. l \in 2 .. Len(h) /\ at < l
        BY <1>1, <2>2, <4>1
      <4> QED BY <1>1, <4>1, <4>2, ParentFacts
    <3>3. /\ Len(h') = Len(h)
          /\ \A c \in 1 .. Len(h) : Val'[c] = IF c = l THEN Val[at]
                                         ELSE IF c = at THEN Val[l] ELSE Val[c]
      <4>1. l \in 1 .. Len(h)
        BY <1>1, <3>2
      <4> QED BY <1>1, <2>1, <3>1, <4>1, ValSwap DEF Basics
    <3>4. /\ Val[l] < Val[at]
          /\ \A c \in 2 .. Len(h) : Parent(c) = at => Val[l] <= Val[c]
      <4>1. Val[l] < Val[at]
        <5>1. key[h[l]] < key[h[at]]
          BY <2>2, <2>3
        <5>2. Val[l] = key[h[l]] /\ Val[at] = key[h[at]]
          BY <1>1, <1>2, <2>1, <3>2
        <5> QED BY <5>1, <5>2
      <4>2. \A c \in 2 .. Len(h) : Parent(c) = at => c \in {2 * at, 2 * at + 1}
        BY <1>1, ParentStep
      <4>3. \A c \in 2 .. Len(h) : Parent(c) = at => key[h[l]] <= key[h[c]]
        BY <1>1, <2>2, <4>2
      <4> QED BY <1>1, <1>2, <3>2, <4>1, <4>3
    <3>5. ASSUME NEW c \in 2 .. Len(h), Parent(c) # l
          PROVE  Val'[Parent(c)] <= Val'[c]
      <4>1. Parent(c) \in 1 .. Len(h) /\ Parent(c) # c
        BY <1>1, ParentStep
      <4>2. CASE c = l
        BY <1>1, <1>2, <2>1, <3>2, <3>3, <3>4, <4>2
      <4>3. CASE c # l /\ Parent(c) = at
        BY <1>1, <2>1, <3>2, <3>3, <3>4, <4>1, <4>3
      <4>4. CASE c = at
        <5>1. at > 1 /\ Val'[Parent(c)] = Val[Parent(at)] /\ Val'[c] = Val[l]
          BY <1>1, <3>2, <3>3, <3>5, <4>1, <4>4
        <5> QED BY <1>4, <3>2, <5>1
      <4>5. CASE c # l /\ c # at /\ Parent(c) # at
        <5>1. Val[Parent(c)] <= Val[c]
          BY <1>3, <4>5
        <5>2. Val'[Parent(c)] = Val[Parent(c)] /\ Val'[c] = Val[c]
          BY <3>3, <3>5, <4>1, <4>5
        <5> QED BY <5>1, <5>2
      <4> QED BY <4>2, <4>3, <4>4, <4>5
    <3>6. ASSUME NEW c \in 2 .. Len(h), Parent(c) = l
          PROVE  Val'[Parent(l)] <= Val'[c]
      <4>1. c # l /\ c # at /\ c # back /\ Parent(c) # at
        BY <1>1, <3>2, <3>6, ParentStep
      <4>2. Val'[Parent(l)] = Val[l] /\ Val'[c] = Val[c]
        BY <2>1, <3>2, <3>3, <4>1
      <4> QED BY <1>3, <3>6, <4>1, <4>2
    <3> QED BY <1>1, <3>1, <3>3, <3>5, <3>6 DEF OrderInv, Ordered, Straddles
  <2>4. CASE l = at
    <3>1. /\ h' = h /\ Val' = Val /\ at' = back
          /\ pc' = IF back = 0 THEN "idle" ELSE "up"
      BY <1>1, <2>4 DEF StepDown, Val
    <3>2. \A c \in 2 .. Len(h) : Parent(c) = at => Val[at] <= Val[c]
      <4>1. \A c \in 2 .. Len(h) : Parent(c) = at => c \in {2 * at, 2 * at + 1}
        BY <1>1, ParentStep
      <4>2. \A c \in 2 .. Len(h) : Parent(c) = at => key[h[at]] <= key[h[c]]
        BY <1>1, <2>2, <2>4, <4>1
      <4> QED BY <1>1, <1>2, <2>1, <4>2
    <3>3. \A c \in 2 .. Len(h) : c # back => Val[Parent(c)] <= Val[c]
      BY <1>3, <3>2
    <3>4. ASSUME NEW c \in 2 .. Len(h), Parent(c) = back, back > 1
          PROVE  Val[Parent(back)] <= Val[c]
      <4>1. CASE back = at
        BY <1>4, <3>4, <4>1
      <4>2. CASE back # at
        <5>1. /\ back \in 2 .. Len(h) /\ c # back
              /\ Parent(back) \in 1 .. Len(h) /\ Parent(back) # at
          BY <1>1, <2>1, <3>4, <4>2, ParentStep
        <5>2. Val[Parent(back)] <= Val[back] /\ Val[back] <= Val[c]
          BY <1>3, <3>3, <3>4, <4>2, <5>1
        <5> QED BY <1>1, <1>2, <5>1, <5>2
      <4> QED BY <4>1, <4>2
    <3>5. back = 0 => \A c \in 2 .. Len(h) : c # back
      OBVIOUS
    <3> QED BY <3>1, <3>3, <3>4, <3>5 DEF OrderInv, Ordered, Straddles
  <2> QED BY <2>3, <2>4
<1> QED BY <1>5, <1>6

-----------------------------------------------------------------------------
(* The theorems.                                                           *)

LEMMA OrderStep == Basics /\ OrderInv /\ [Next]_vars => OrderInv'
<1> SUFFICES ASSUME Basics, OrderInv, [Next]_vars
             PROVE  OrderInv'
  OBVIOUS
<1>1. ASSUME NEW n \in Node, NEW k \in Key, InsertFull(n, k)
      PROVE  OrderInv'
  <2>1. h' = h /\ pc' = "idle" /\ pc = "idle"
    BY <1>1 DEF InsertFull
  <2>2. \A c \in 1 .. Len(h) : key'[h[c]] = key[h[c]]
    BY <1>1, ElementOfSeq DEF InsertFull, Members, Basics, TypeOK
  <2>3. Val' = Val
    BY <2>1, <2>2 DEF Val
  <2> QED BY <2>1, <2>3 DEF OrderInv, Ordered
<1>2. CASE UNCHANGED vars
  BY <1>2 DEF vars, OrderInv, Ordered, Straddles, Val
<1> QED
  BY <1>1, <1>2, InsertOrders, PopOrders, RemoveLastOrders, RemoveOrders,
     StepUpOrders, StepDownOrders DEF Next

LEMMA Inductive == Spec => [](Basics /\ OrderInv)
<1>1. Init => Basics /\ OrderInv
  BY BasicsInit, OrderInit
<1>2. Basics /\ OrderInv /\ [Next]_vars => (Basics /\ OrderInv)'
  BY BasicsStep, OrderStep
<1> QED BY <1>1, <1>2, PTL DEF Spec

\* The indices the loops of heap.h compute stay inside the array.
THEOREM TypeCorrect == Spec => []TypeOK
<1>1. Basics => TypeOK
  BY DEF Basics
<1> QED BY <1>1, Inductive, PTL

\* No sequence of calls puts a timer into the array twice.
THEOREM HeapIsASet == Spec => []NoDuplicates
<1>1. Basics => NoDuplicates
  BY DEF Basics
<1> QED BY <1>1, Inductive, PTL

\* Whatever is inserted, popped and removed from the middle, every call of
\* heap_insert, heap_pop and heap_remove leaves each parent no greater than
\* its children: heapify_up after heapify_down repairs what either alone
\* would leave.
THEOREM CallsKeepOrder == Spec => []HeapOrder
<1>1. Basics /\ OrderInv => HeapOrder
  <2> SUFFICES ASSUME Basics, OrderInv, pc = "idle", NEW a \in 2 .. Len(h)
               PROVE  key[h[Parent(a)]] <= key[h[a]]
    BY DEF HeapOrder
  <2>1. Val[Parent(a)] <= Val[a]
    BY DEF OrderInv, Ordered
  <2>2. Len(h) \in Nat /\ a \in 1 .. Len(h) /\ Parent(a) \in 1 .. Len(h)
    BY ValType, ParentStep DEF Basics
  <2> QED BY <2>1, <2>2, ValType DEF Basics
<1> QED BY <1>1, Inductive, PTL

-----------------------------------------------------------------------------
(* The root.                                                               *)

\* A nonempty set of naturals has a least one: the initial segments that end
\* in its members are finite sets, which strict inclusion orders well.
LEMMA LeastNatural ==
    ASSUME NEW T \in SUBSET Nat, T # {}
    PROVE  \E x \in T : \A y \in T : x <= y
<1> DEFINE F == {1 .. x : x \in T}
           R == StrictSubsetOrdering(Nat)
<1>1. F \subseteq FiniteSubsetsOf(Nat) /\ F # {}
  <2>1. \A x \in T : 1 .. x \in SUBSET Nat /\ IsFiniteSet(1 .. x)
    BY FS_Interval
  <2> QED BY <2>1 DEF FiniteSubsetsOf
<1>2. IsWellFoundedOn(R, FiniteSubsetsOf(Nat))
  BY FS_StrictSubsetOrderingWellFounded
<1>3. \E f \in F : \A g \in F : <<g, f>> \notin R
  <2> HIDE DEF F, R
  <2> QED BY <1>1, <1>2, WFMin
<1>4. PICK x \in T : \A y \in T : <<1 .. y, 1 .. x>> \notin R
  BY <1>3
<1>5. ASSUME NEW y \in T, y < x
      PROVE  FALSE
  <2>1. 1 .. y \subseteq 1 .. x /\ x \in 1 .. x /\ x \notin 1 .. y
    BY <1>5
  <2>2. 1 .. y \in SUBSET Nat /\ 1 .. x \in SUBSET Nat
    OBVIOUS
  <2> QED BY <1>4, <2>1, <2>2 DEF StrictSubsetOrdering
<1> QED BY <1>5

\* By descent along the parents: the first position that were less than the
\* root would be less than its parent, too.
LEMMA RootIsLeast == Basics /\ OrderInv => TopIsLeast
<1> SUFFICES ASSUME Basics, OrderInv, pc = "idle",
                    NEW b \in 1 .. Len(h), ~(key[h[1]] <= key[h[b]])
             PROVE  FALSE
  BY DEF TopIsLeast
<1>1. /\ Len(h) \in Nat /\ 1 \in 1 .. Len(h)
      /\ \A a \in 1 .. Len(h) : Val[a] = key[h[a]] /\ Val[a] \in Int
  BY ValType DEF Basics
<1> DEFINE T == {a \in 1 .. Len(h) : Val[a] < Val[1]}
<1>2. b \in T
  BY <1>1
<1>3. PICK a \in T : \A c \in T : a <= c
  <2>1. T \in SUBSET Nat
    BY <1>1
  <2> HIDE DEF T
  <2> QED BY <1>2, <2>1, LeastNatural
<1>4. a \in 2 .. Len(h) /\ Val[a] < Val[1]
  BY <1>1
<1>5. Parent(a) \in 1 .. Len(h) /\ Parent(a) < a
  BY <1>1, <1>4, ParentStep
<1>6. Val[Parent(a)] <= Val[a]
  BY <1>4 DEF OrderInv, Ordered
<1>7. Parent(a) \in T
  BY <1>1, <1>4, <1>5, <1>6
<1> QED BY <1>3, <1>5, <1>7

\* The root has the least key of all between any two calls, which is what
\* lets event_loop_run look at array[0] alone.
THEOREM TopIsLeastAlways == Spec => []TopIsLeast
BY Inductive, RootIsLeast, PTL

-----------------------------------------------------------------------------
(* The array heap is a priority queue.                                     *)

LEMMA MembersFill ==
    ASSUME Basics, NEW a \in 1 .. Len(h), h' = FillWithLast(h, a)
    PROVE  Members' = Members \ {h[a]}
<1>1. Len(h) \in Nat /\ h \in Seq(Node)
  BY LenProperties DEF Basics, TypeOK
<1>2. /\ Len(h') = Len(h) - 1
      /\ \A c \in 1 .. Len(h) - 1 : h'[c] = IF c = a THEN h[Len(h)] ELSE h[c]
  <2>1. /\ Len(FillWithLast(h, a)) = Len(h) - 1
        /\ \A c \in 1 .. Len(h) - 1 :
              FillWithLast(h, a)[c] = IF c = a THEN h[Len(h)] ELSE h[c]
    BY <1>1, FillFacts
  <2> QED BY <2>1
<1>3. \A b, c \in 1 .. Len(h) : h[b] = h[c] => b = c
  BY DEF Basics, NoDuplicates
<1>4. ASSUME NEW n \in Members' PROVE n \in Members \ {h[a]}
  <2>1. PICK c \in 1 .. Len(h') : n = h'[c]
    BY DEF Members
  <2>2. c \in 1 .. Len(h) /\ Len(h) \in 1 .. Len(h) /\ c # Len(h)
    BY <1>1, <1>2
  <2>3. CASE c = a
    BY <1>2, <1>3, <2>1, <2>2, <2>3 DEF Members
  <2>4. CASE c # a
    BY <1>2, <1>3, <2>1, <2>2, <2>4 DEF Members
  <2> QED BY <2>3, <2>4
<1>5. ASSUME NEW n \in Members \ {h[a]} PROVE n \in Members'
  <2>1. PICK c \in 1 .. Len(h) : n = h[c] /\ c # a
    BY DEF Members
  <2>2. CASE c = Len(h)
    <3>1. a \in 1 .. Len(h') /\ h'[a] = n
      BY <1>1, <1>2, <2>1, <2>2
    <3> QED BY <3>1 DEF Members
  <2>3. CASE c # Len(h)
    <3>1. c \in 1 .. Len(h') /\ h'[c] = n
      BY <1>1, <1>2, <2>1, <2>3
    <3> QED BY <3>1 DEF Members
  <2> QED BY <2>2, <2>3
<1> QED BY <1>4, <1>5

LEMMA SwapKeepsNodes ==
    ASSUME NEW g \in Seq(Node), NEW a \in 1 .. Len(g), NEW b \in 1 .. Len(g)
    PROVE  Nodes(Swap(g, a, b)) = Nodes(g)
<1> DEFINE s == Swap(g, a, b)
<1>1. /\ Len(s) = Len(g)
      /\ \A c \in 1 .. Len(g) : s[c] = IF c = b THEN g[a]
                                   ELSE IF c = a THEN g[b] ELSE g[c]
  BY SwapFacts DEF Exchanged
<1> HIDE DEF s
<1>2. Nodes(s) \subseteq Nodes(g)
  BY <1>1 DEF Nodes
<1>3. ASSUME NEW c \in 1 .. Len(g) PROVE g[c] \in Nodes(s)
  <2>1. \E d \in 1 .. Len(s) : s[d] = g[c]
    <3>1. CASE c = a
      BY <1>1, <3>1
    <3>2. CASE c = b
      BY <1>1, <3>2
    <3>3. CASE c # a /\ c # b
      BY <1>1, <3>3
    <3> QED BY <3>1, <3>2, <3>3
  <2> QED BY <2>1 DEF Nodes
<1> QED BY <1>2, <1>3 DEF Nodes, s

LEMMA MembersSwap ==
    ASSUME Basics, NEW a \in 1 .. Len(h), NEW b \in 1 .. Len(h), h' = Swap(h, a, b)
    PROVE  Members' = Members
<1>1. Nodes(Swap(h, a, b)) = Nodes(h)
  BY SwapKeepsNodes DEF Basics, TypeOK
<1> QED BY <1>1 DEF Members, Nodes

LEMMA StepRefines == Basics /\ OrderInv /\ [Next]_vars => [Promise!Next]_(Promise!vars)
<1> SUFFICES ASSUME Basics, OrderInv, [Next]_vars
             PROVE  [Promise!Next]_(Promise!vars)
  OBVIOUS
<1>0. h \in Seq(Node) /\ Len(h) \in Nat
  BY LenProperties DEF Basics, TypeOK
<1>1. ASSUME NEW n \in Node, NEW k \in Key, Insert(n, k)
      PROVE  Promise!Add(n)
  <2>1. n \notin Members /\ key' = [key EXCEPT ![n] = k] /\ h' = Append(h, n)
    BY <1>1 DEF Insert
  <2>2. /\ Len(h') = Len(h) + 1 /\ h'[Len(h) + 1] = n
        /\ \A c \in 1 .. Len(h) : h'[c] = h[c]
    BY <1>0, <2>1, AppendProperties
  <2>3. \A m : m \in Members' <=> m \in Members \cup {n}
    BY <1>0, <2>2 DEF Members
  <2> QED BY <2>1, <2>3 DEF Promise!Add
<1>2. ASSUME NEW n \in Node, NEW k \in Key, InsertFull(n, k)
      PROVE  Promise!TurnAway(n)
  BY <1>2 DEF InsertFull, Members, Promise!TurnAway
<1>3. ASSUME NEW k \in Key, Pop(k)
      PROVE  Promise!TakeLeast(h[1])
  <2>1. h # <<>> /\ key' = [key EXCEPT ![h[1]] = k] /\ h' = FillWithLast(h, 1)
        /\ pc = "idle"
    BY <1>3 DEF Pop
  <2>2. 1 \in 1 .. Len(h)
    BY <1>0, <2>1, EmptySeq
  <2>3. Members' = Members \ {h[1]} /\ h[1] \in Members
    BY <2>1, <2>2, MembersFill DEF Members
  <2>4. \A m \in Members : key[h[1]] <= key[m]
    BY <2>1, RootIsLeast DEF TopIsLeast, Members
  <2> QED BY <2>1, <2>3, <2>4 DEF Promise!TakeLeast
<1>4. ASSUME NEW n \in Node, RemoveLast(n)
      PROVE  Promise!Withdraw(n)
  <2>1. h # <<>> /\ h[Len(h)] = n /\ h' = FillWithLast(h, Len(h)) /\ key' = key
    BY <1>4 DEF RemoveLast
  <2>2. Len(h) \in 1 .. Len(h)
    BY <1>0, <2>1, EmptySeq
  <2>3. Members' = Members \ {n} /\ n \in Members
    BY <2>1, <2>2, MembersFill DEF Members
  <2> QED BY <2>1, <2>3 DEF Promise!Withdraw
<1>5. ASSUME NEW n \in Node, Remove(n)
      PROVE  Promise!Withdraw(n)
  <2>1. PICK a \in 1 .. Len(h) - 1 : h[a] = n /\ h' = FillWithLast(h, a)
    BY <1>5 DEF Remove
  <2>2. a \in 1 .. Len(h) /\ key' = key
    BY <1>0, <1>5 DEF Remove
  <2>3. Members' = Members \ {n} /\ n \in Members
    BY <2>1, <2>2, MembersFill DEF Members
  <2> QED BY <2>2, <2>3 DEF Promise!Withdraw
<1>6. CASE StepUp
  <2>1. at \in 1 .. Len(h) /\ key' = key
    BY <1>6 DEF StepUp, Basics, IndexOK
  <2>2. CASE at > 1 /\ Less(key, h, at, Parent(at))
    <3>1. Parent(at) \in 1 .. Len(h) /\ h' = Swap(h, at, Parent(at))
      BY <1>0, <1>6, <2>1, <2>2, ParentStep DEF StepUp
    <3> QED BY <2>1, <3>1, MembersSwap DEF Promise!vars
  <2>3. CASE ~(at > 1 /\ Less(key, h, at, Parent(at)))
    BY <1>6, <2>1, <2>3 DEF StepUp, Promise!vars, Members
  <2> QED BY <2>2, <2>3
<1>7. CASE StepDown
  <2> DEFINE l == LeastOf(h, key, at)
  <2>1. key' = key /\ at \in Nat /\ at >= 1
    BY <1>7 DEF StepDown, Basics, IndexOK, TypeOK
  <2>2. CASE l = at
    BY <1>7, <2>1, <2>2 DEF StepDown, Promise!vars, Members
  <2>3. CASE l # at
    <3>1. h' = Swap(h, at, l)
      BY <1>7, <2>3 DEF StepDown
    <3>2. at \in 1 .. Len(h)
      <4>1. Len(h) = 0 => l = at
        BY <2>1 DEF LeastOf, Left, Right
      <4>2. h # <<>>
        BY <1>0, <2>3, <4>1, EmptySeq
      <4> QED BY <1>7, <4>2 DEF StepDown, Basics, IndexOK
    <3>3. l \in 1 .. Len(h)
      <4>1. TypeOK /\ at <= Len(h)
        BY <1>0, <3>2 DEF Basics
      <4>2. l \in Nat /\ l <= Len(h) /\ l \in {2 * at, 2 * at + 1}
        BY <2>1, <2>3, <4>1, LeastFacts
      <4> HIDE DEF l
      <4> QED BY <2>1, <4>2
    <3> HIDE DEF l
    <3> QED BY <2>1, <3>1, <3>2, <3>3, MembersSwap DEF Promise!vars
  <2> QED BY <2>2, <2>3
<1>8. CASE UNCHANGED vars
  BY <1>8 DEF vars, Members, Promise!vars
<1>9. \A a \in 1 .. Len(h) : h[a] \in Node
  BY <1>0, ElementOfSeq
<1>10. ASSUME NEW k \in Key, Pop(k) PROVE h[1] \in Node
  <2>1. h # <<>>
    BY <1>10 DEF Pop
  <2> QED BY <1>0, <1>9, <2>1, EmptySeq
<1> QED
  BY <1>1, <1>2, <1>3, <1>4, <1>5, <1>6, <1>7, <1>8, <1>10 DEF Next, Promise!Next

\* The array heap of heap.h, one swap at a time, implements a priority queue:
\* what heap_pop takes away has the least key of all members, and no other
\* node comes or goes by any call.
THEOREM Refinement == Spec => ImplementsPriorityQueue
<1>1. Init => Promise!Init
  <2> SUFFICES ASSUME Init PROVE Promise!Init
    OBVIOUS
  <2>1. Members = {}
    BY EmptySeq DEF Init, Members
  <2>2. key \in [Node -> Key]
    BY DEF Init, Key
  <2> QED BY <2>1, <2>2 DEF Promise!Init
<1>2. Spec => [](Basics /\ OrderInv)
  BY Inductive
<1> QED BY <1>1, <1>2, StepRefines, PTL DEF Spec, ImplementsPriorityQueue, Promise!Spec

-----------------------------------------------------------------------------
(* The loops compute the functions of HeapOps.                             *)

\* f answers for an argument x in go as for next[x], and last[x] for the others.
Solves(f, D, go, next, last) ==
    \A x \in D : f[x] = IF x \in go THEN f[next[x]] ELSE last[x]

\* Each next argument has a smaller measure.
Shrinks(D, go, next, meas, top) ==
    /\ meas \in [D -> 0 .. top]
    /\ next \in [D -> D]
    /\ \A x \in go : x \in D /\ meas[next[x]] < meas[x]

\* A function that calls itself at most once, and then with an argument of a
\* lesser measure m, exists: of the numbers n for which there is none for the
\* arguments of measures up to n, there is no least one.
LEMMA Recursion ==
    ASSUME NEW D, NEW go, NEW top \in Nat, NEW meas, NEW next, NEW last,
           Shrinks(D, go, next, meas, top)
    PROVE  \E f : f = [x \in D |-> f[x]] /\ Solves(f, D, go, next, last)
<1>a. /\ meas \in [D -> 0 .. top]
      /\ next \in [D -> D]
      /\ \A x \in go : x \in D /\ meas[next[x]] < meas[x]
  BY DEF Shrinks
<1> DEFINE Upto(k) == \E f : \A x \in D :
                          meas[x] <= k => f[x] = IF x \in go THEN f[next[x]] ELSE last[x]
<1>1. Upto(0)
  <2>1. \A x \in D : meas[x] <= 0 => x \notin go
    <3>1. ASSUME NEW x \in D, meas[x] <= 0, x \in go PROVE FALSE
      <4>1. meas[next[x]] \in 0 .. top /\ meas[x] \in 0 .. top /\ meas[next[x]] < meas[x]
        BY <1>a, <3>1
      <4> QED BY <3>1, <4>1
    <3> QED BY <3>1
  <2> QED BY <2>1
<1>2. ASSUME NEW k \in Nat, Upto(k) PROVE Upto(k + 1)
  <2>1. PICK f : \A x \in D : meas[x] <= k => f[x] = IF x \in go THEN f[next[x]] ELSE last[x]
    BY <1>2
  <2> DEFINE g == [x \in D |-> IF x \in go THEN f[next[x]] ELSE last[x]]
  <2>2. ASSUME NEW x \in D, meas[x] <= k + 1
        PROVE  g[x] = IF x \in go THEN g[next[x]] ELSE last[x]
    <3>1. CASE x \in go
      <4>1. next[x] \in D /\ meas[next[x]] <= k
        <5>1. next[x] \in D /\ meas[next[x]] < meas[x] /\ meas[next[x]] \in 0 .. top /\ meas[x] \in 0 .. top
          BY <1>a, <3>1
        <5> QED BY <2>2, <5>1
      <4>2. f[next[x]] = g[next[x]]
        BY <2>1, <4>1
      <4> QED BY <3>1, <4>2
    <3>2. CASE x \notin go
      BY <3>2
    <3> QED BY <3>1, <3>2
  <2> HIDE DEF g
  <2> QED BY <2>2
<1> HIDE DEF Upto
<1>3. Upto(top)
  <2> SUFFICES ASSUME ~ Upto(top) PROVE FALSE
    OBVIOUS
  <2> DEFINE S == {k \in Nat : ~ Upto(k)}
  <2>1. PICK k \in S : \A l \in S : k <= l
    BY LeastNatural
  <2>2. k \in Nat /\ ~ Upto(k) /\ k # 0
    BY <1>1
  <2>3. k - 1 \in Nat /\ (k - 1) + 1 = k /\ ~ (k <= k - 1)
    BY <2>2
  <2>4. Upto(k - 1)
    BY <2>1, <2>3
  <2> QED BY <1>2, <2>2, <2>3, <2>4
<1>4. PICK f : \A x \in D : f[x] = IF x \in go THEN f[next[x]] ELSE last[x]
  <2>1. \A x \in D : meas[x] <= top
    BY <1>a
  <2> QED BY <1>3, <2>1 DEF Upto
<1> DEFINE g == [x \in D |-> f[x]]
<1>5. \A x \in D : g[x] = f[x]
  OBVIOUS
<1>b. g = [x \in D |-> g[x]]
  OBVIOUS
<1>6. \A x \in go : next[x] \in D
  BY <1>a
<1> HIDE DEF g
<1>7. \A x \in D : g[x] = IF x \in go THEN g[next[x]] ELSE last[x]
  BY <1>4, <1>5, <1>6
<1> QED BY <1>b, <1>7 DEF Solves

\* The arrays that heapify_up and heapify_down come through.
Arrays(n, R) == [1 .. n -> R]

LEMMA ArrayFacts ==
    ASSUME NEW S, NEW arr \in Seq(S)
    PROVE  /\ Len(arr) \in Nat
           /\ arr \in Arrays(Len(arr), Nodes(arr))
           /\ \A g \in Arrays(Len(arr), Nodes(arr)) : g \in Seq(S) /\ Len(g) = Len(arr)
<1>1. Len(arr) \in Nat /\ arr \in [1 .. Len(arr) -> S]
  BY LenProperties
<1>2. arr \in Arrays(Len(arr), Nodes(arr))
  BY <1>1 DEF Arrays, Nodes
<1>3. Nodes(arr) \subseteq S
  BY <1>1 DEF Nodes
<1>4. ASSUME NEW g \in Arrays(Len(arr), Nodes(arr)) PROVE g \in Seq(S) /\ Len(g) = Len(arr)
  <2>1. g \in [1 .. Len(arr) -> S]
    BY <1>3 DEF Arrays
  <2>2. g \in Seq(S)
    BY <1>1, <2>1, IsASeq
  <2>3. DOMAIN g = 1 .. Len(arr)
    BY <2>1
  <2> QED BY <1>1, <2>2, <2>3, LenProperties
<1> QED BY <1>1, <1>2, <1>4

\* heapify_up is its first turn and heapify_up from there.
UpTurn(up, keys, x) ==
    IF x[2] > 1 /\ Less(keys, x[1], x[2], Parent(x[2]))
      THEN up[<<Swap(x[1], x[2], Parent(x[2])), Parent(x[2])>>]
      ELSE x[1]

UpFunction(n, R, keys) ==
    CHOOSE up : up = [x \in Arrays(n, R) \X (0 .. n) |-> UpTurn(up, keys, x)]

LEMMA UpIsFunction ==
    \A arr, keys, j : HeapifyUp(arr, keys, j) = UpFunction(Len(arr), Nodes(arr), keys)[<<arr, j>>]
BY DEF HeapifyUp, UpFunction, UpTurn, Arrays

LEMMA UpRecursion ==
    ASSUME NEW n \in Nat, NEW R, NEW keys
    PROVE  \A x \in Arrays(n, R) \X (0 .. n) :
               UpFunction(n, R, keys)[x] = UpTurn(UpFunction(n, R, keys), keys, x)
<1> DEFINE D == Arrays(n, R) \X (0 .. n)
           Go(x) == x[2] > 1 /\ Less(keys, x[1], x[2], Parent(x[2]))
           Then(x) == <<Swap(x[1], x[2], Parent(x[2])), Parent(x[2])>>
           go == {x \in D : Go(x)}
           next == [x \in D |-> IF x \in go THEN Then(x) ELSE x]
           m == [x \in D |-> x[2]]
           last == [x \in D |-> x[1]]
<1>1. \A x \in D : x[1] \in [1 .. n -> R] /\ x[2] \in 0 .. n
  BY DEF Arrays
<1>2. m \in [D -> 0 .. n]
  BY <1>1
<1>3. ASSUME NEW x \in D, Go(x) PROVE Then(x) \in D /\ Parent(x[2]) < x[2] 
  <2>1. x[2] \in 1 .. n /\ Parent(x[2]) \in 1 .. n /\ Parent(x[2]) < x[2]
    BY <1>1, <1>3 DEF Parent
  <2>2. Swap(x[1], x[2], Parent(x[2])) \in [1 .. n -> R]
    BY <1>1, <2>1 DEF Swap
  <2> QED BY <2>1, <2>2 DEF Arrays
<1> HIDE DEF D, Go, Then
<1>4. next \in [D -> D]
  BY <1>3
<1>5. \A x \in go : m[next[x]] < m[x]
  BY <1>3 DEF Then
<1>6. PICK f : f = [x \in D |-> f[x]] /\ Solves(f, D, go, next, last)
  <2>1. Shrinks(D, go, next, m, n)
    BY <1>2, <1>4, <1>5 DEF Shrinks
  <2> HIDE DEF next, m, last, go
  <2> QED BY <2>1, Recursion
<1>7. f = [x \in D |-> UpTurn(f, keys, x)]
  <2>1. \A x \in D : f[x] = UpTurn(f, keys, x)
    BY <1>6 DEF Solves, UpTurn, Go, Then
  <2>2. f = [x \in D |-> f[x]]
    BY <1>6
  <2> HIDE DEF go, next, m, last
  <2> QED BY <2>1, <2>2
<1>8. \E g : g = [x \in D |-> UpTurn(g, keys, x)]
  BY <1>7
<1> DEFINE F == UpFunction(n, R, keys)
<1>9. F = [x \in D |-> UpTurn(F, keys, x)]
  BY <1>8 DEF UpFunction, D
<1> HIDE DEF F
<1>10. \A x \in D : F[x] = UpTurn(F, keys, x)
  BY <1>9
<1> QED BY <1>10 DEF F, D

LEMMA LeastOfFacts ==
    ASSUME NEW S, NEW arr \in Seq(S), NEW keys, NEW a \in 1 .. Len(arr) + 1, LeastOf(arr, keys, a) # a
    PROVE  LeastOf(arr, keys, a) \in 1 .. Len(arr) /\ a < LeastOf(arr, keys, a) /\ a \in 1 .. Len(arr)
<1>1. Len(arr) \in Nat /\ a \in Nat /\ a >= 1
  BY LenProperties
<1> DEFINE n == Len(arr)
           l == IF Left(a) <= n /\ Less(keys, arr, Left(a), a) THEN Left(a) ELSE a
<1>2. LeastOf(arr, keys, a) = IF Right(a) <= n /\ Less(keys, arr, Right(a), l) THEN Right(a) ELSE l
  BY DEF LeastOf
<1>3. LeastOf(arr, keys, a) \in {a, Left(a), Right(a)}
      /\ (LeastOf(arr, keys, a) # a => LeastOf(arr, keys, a) <= n)
  BY <1>2
<1> HIDE DEF n, l
<1>4. \/ LeastOf(arr, keys, a) = 2 * a /\ 2 * a <= Len(arr)
      \/ LeastOf(arr, keys, a) = 2 * a + 1 /\ 2 * a + 1 <= Len(arr)
  BY <1>3 DEF n, Left, Right
<1> QED BY <1>1, <1>4

\* heapify_down is its first call and heapify_down from there.
DownTurn(down, keys, x) ==
    IF LeastOf(x[1], keys, x[2]) # x[2]
      THEN down[<<Swap(x[1], x[2], LeastOf(x[1], keys, x[2])), LeastOf(x[1], keys, x[2])>>]
      ELSE x[1]

DownFunction(n, R, keys) ==
    CHOOSE down : down = [x \in Arrays(n, R) \X (1 .. n + 1) |-> DownTurn(down, keys, x)]

LEMMA DownIsFunction ==
    \A arr, keys, j : HeapifyDown(arr, keys, j) = DownFunction(Len(arr), Nodes(arr), keys)[<<arr, j>>]
BY DEF HeapifyDown, DownFunction, DownTurn, Arrays

LEMMA DownRecursion ==
    ASSUME NEW n \in Nat, NEW R, NEW keys
    PROVE  \A x \in Arrays(n, R) \X (1 .. n + 1) :
               DownFunction(n, R, keys)[x] = DownTurn(DownFunction(n, R, keys), keys, x)
<1> DEFINE D == Arrays(n, R) \X (1 .. n + 1)
           Go(x) == LeastOf(x[1], keys, x[2]) # x[2]
           Then(x) == <<Swap(x[1], x[2], LeastOf(x[1], keys, x[2])), LeastOf(x[1], keys, x[2])>>
           go == {x \in D : Go(x)}
           next == [x \in D |-> IF x \in go THEN Then(x) ELSE x]
           m == [x \in D |-> n + 1 - x[2]]
           last == [x \in D |-> x[1]]
<1>1. \A x \in D : x[1] \in [1 .. n -> R] /\ x[2] \in 1 .. n + 1
  BY DEF Arrays
<1>2. m \in [D -> 0 .. n]
  <2>1. \A x \in D : n + 1 - x[2] \in 0 .. n
    BY <1>1
  <2> HIDE DEF D
  <2> QED BY <2>1
<1>3. ASSUME NEW x \in D, Go(x)
      PROVE  Then(x) \in D /\ Then(x)[2] = LeastOf(x[1], keys, x[2])
             /\ LeastOf(x[1], keys, x[2]) \in 1 .. n /\ x[2] < LeastOf(x[1], keys, x[2])
  <2> DEFINE g == x[1]
             a == x[2]
             b == LeastOf(g, keys, a)
  <2>1. g \in [1 .. n -> R] /\ a \in 1 .. n + 1
    BY <1>1
  <2>2. g \in Seq(R) /\ Len(g) = n
    <3> HIDE DEF g
    <3>1. g \in Seq(R)
      BY <2>1, IsASeq
    <3>2. DOMAIN g = 1 .. n
      BY <2>1
    <3> QED BY <3>1, <3>2, LenProperties
  <2>3. b # a
    BY <1>3
  <2>4. b \in 1 .. n /\ a < b /\ a \in 1 .. n
    <3> HIDE DEF g, a
    <3> QED BY <2>1, <2>2, <2>3, LeastOfFacts
  <2>5. Swap(g, a, b) \in [1 .. n -> R]
    <3> HIDE DEF g, a, b
    <3> QED BY <2>1, <2>4 DEF Swap
  <2>6. Then(x) = <<Swap(g, a, b), b>>
    OBVIOUS
  <2> HIDE DEF g, a, b, Then
  <2>7. <<Swap(g, a, b), b>> \in D
    BY <2>4, <2>5 DEF Arrays
  <2> QED BY <2>4, <2>6, <2>7 DEF g, a, b
<1>4. next \in [D -> D]
  <2>1. \A x \in go : Then(x) \in D
    BY <1>3
  <2> HIDE DEF D, Then
  <2> QED BY <2>1
<1>5. \A x \in go : m[next[x]] < m[x]
  <2>1. ASSUME NEW x \in go PROVE m[next[x]] < m[x]
    <3>1. x \in D /\ Go(x)
      OBVIOUS
    <3>2. next[x] \in D /\ next[x] = Then(x)
      BY <1>4, <3>1
    <3>3. m[next[x]] = n + 1 - Then(x)[2] /\ m[x] = n + 1 - x[2]
      <4> HIDE DEF D, Then, next
      <4> QED BY <3>1, <3>2
    <3>4. Then(x)[2] \in 1 .. n /\ x[2] < Then(x)[2] /\ x[2] \in 1 .. n + 1
      <4> HIDE DEF D, Then, Go
      <4> QED BY <1>1, <1>3, <3>1
    <3> HIDE DEF Then, m, next, D, Go
    <3> QED BY <3>3, <3>4
  <2> QED BY <2>1
<1> HIDE DEF D, Go, Then
<1>6. PICK f : f = [x \in D |-> f[x]] /\ Solves(f, D, go, next, last)
  <2>1. Shrinks(D, go, next, m, n)
    BY <1>2, <1>4, <1>5 DEF Shrinks
  <2> HIDE DEF next, m, last, go
  <2> QED BY <2>1, Recursion
<1>7. f = [x \in D |-> DownTurn(f, keys, x)]
  <2>1. \A x \in D : f[x] = DownTurn(f, keys, x)
    BY <1>6 DEF Solves, DownTurn, Go, Then
  <2>2. f = [x \in D |-> f[x]]
    BY <1>6
  <2> HIDE DEF go, next, m, last
  <2> QED BY <2>1, <2>2
<1>8. \E g : g = [x \in D |-> DownTurn(g, keys, x)]
  BY <1>7
<1> DEFINE F == DownFunction(n, R, keys)
<1>9. F = [x \in D |-> DownTurn(F, keys, x)]
  BY <1>8 DEF DownFunction, D
<1> HIDE DEF F
<1>10. \A x \in D : F[x] = DownTurn(F, keys, x)
  BY <1>9
<1> QED BY <1>10 DEF F, D

LEMMA UpUnfolds ==
    ASSUME NEW arr \in Seq(Node), NEW keys, NEW j \in 0 .. Len(arr)
    PROVE  HeapifyUp(arr, keys, j) =
               IF j > 1 /\ Less(keys, arr, j, Parent(j))
                 THEN HeapifyUp(Swap(arr, j, Parent(j)), keys, Parent(j))
                 ELSE arr
<1> DEFINE F == UpFunction(Len(arr), Nodes(arr), keys)
           g == Swap(arr, j, Parent(j))
<1>1. Len(arr) \in Nat /\ arr \in Arrays(Len(arr), Nodes(arr))
  BY ArrayFacts
<1>2. <<arr, j>> \in Arrays(Len(arr), Nodes(arr)) \X (0 .. Len(arr))
  BY <1>1
<1>3. F[<<arr, j>>] = IF j > 1 /\ Less(keys, arr, j, Parent(j)) THEN F[<<g, Parent(j)>>] ELSE arr
  <2>1. F[<<arr, j>>] = UpTurn(F, keys, <<arr, j>>)
    BY <1>1, <1>2, UpRecursion
  <2>2. UpTurn(F, keys, <<arr, j>>) = IF j > 1 /\ Less(keys, arr, j, Parent(j)) THEN F[<<g, Parent(j)>>] ELSE arr
    BY DEF UpTurn
  <2> QED BY <2>1, <2>2
<1>4. HeapifyUp(arr, keys, j) = F[<<arr, j>>]
  BY UpIsFunction
<1>5. ASSUME j > 1 PROVE HeapifyUp(g, keys, Parent(j)) = F[<<g, Parent(j)>>]
  <2>1. j \in 1 .. Len(arr) /\ Parent(j) \in 1 .. Len(arr)
    BY <1>1, <1>5 DEF Parent
  <2>2. Len(g) = Len(arr) /\ Nodes(g) = Nodes(arr)
    BY <2>1, SwapFacts, SwapKeepsNodes
  <2>3. HeapifyUp(g, keys, Parent(j)) = UpFunction(Len(g), Nodes(g), keys)[<<g, Parent(j)>>]
    BY UpIsFunction
  <2> QED BY <2>2, <2>3
<1> HIDE DEF F, g
<1>6. HeapifyUp(arr, keys, j) =
          IF j > 1 /\ Less(keys, arr, j, Parent(j)) THEN HeapifyUp(g, keys, Parent(j)) ELSE arr
  BY <1>3, <1>4, <1>5
<1> QED BY <1>6 DEF g

LEMMA DownUnfolds ==
    ASSUME NEW arr \in Seq(Node), NEW keys, NEW j \in 1 .. Len(arr) + 1
    PROVE  HeapifyDown(arr, keys, j) =
               IF LeastOf(arr, keys, j) # j
                 THEN HeapifyDown(Swap(arr, j, LeastOf(arr, keys, j)), keys, LeastOf(arr, keys, j))
                 ELSE arr
<1> DEFINE F == DownFunction(Len(arr), Nodes(arr), keys)
           b == LeastOf(arr, keys, j)
           g == Swap(arr, j, b)
<1>1. Len(arr) \in Nat /\ arr \in Arrays(Len(arr), Nodes(arr))
  BY ArrayFacts
<1>2. <<arr, j>> \in Arrays(Len(arr), Nodes(arr)) \X (1 .. Len(arr) + 1)
  BY <1>1
<1>3. F[<<arr, j>>] = IF b # j THEN F[<<g, b>>] ELSE arr
  <2>1. F[<<arr, j>>] = DownTurn(F, keys, <<arr, j>>)
    BY <1>1, <1>2, DownRecursion
  <2>2. DownTurn(F, keys, <<arr, j>>) = IF b # j THEN F[<<g, b>>] ELSE arr
    BY DEF DownTurn
  <2> QED BY <2>1, <2>2
<1>4. HeapifyDown(arr, keys, j) = F[<<arr, j>>]
  BY DownIsFunction
<1>5. ASSUME b # j PROVE HeapifyDown(g, keys, b) = F[<<g, b>>]
  <2>1. j \in 1 .. Len(arr) /\ b \in 1 .. Len(arr)
    BY <1>5, LeastOfFacts
  <2>2. Len(g) = Len(arr) /\ Nodes(g) = Nodes(arr)
    <3> HIDE DEF b
    <3> QED BY <2>1, SwapFacts, SwapKeepsNodes
  <2>3. HeapifyDown(g, keys, b) = DownFunction(Len(g), Nodes(g), keys)[<<g, b>>]
    BY DownIsFunction
  <2> QED BY <2>2, <2>3
<1> HIDE DEF F, g, b
<1>6. HeapifyDown(arr, keys, j) = IF b # j THEN HeapifyDown(g, keys, b) ELSE arr
  BY <1>3, <1>4, <1>5
<1> QED BY <1>6 DEF g, b

\* What is still to be done to the array makes it what the call returns.
GoalIsAhead ==
    /\ pc = "idle" => h = goal
    /\ pc = "up" => HeapifyUp(h, key, at) = goal
    /\ pc = "down" =>
          /\ at \in 1 .. Len(h) + 1
          /\ goal = IF back = 0 THEN HeapifyDown(h, key, at)
                    ELSE HeapifyUp(HeapifyDown(h, key, at), key, back)

LEMMA StartsAhead ==
    ASSUME Basics, GoalIsAhead,
           \/ \E n \in Node, k \in Key : Insert(n, k) \/ InsertFull(n, k)
           \/ \E k \in Key : Pop(k)
           \/ \E n \in Node : RemoveLast(n) \/ Remove(n)
    PROVE  GoalIsAhead'
<1>0. h \in Seq(Node) /\ Len(h) \in Nat
  BY LenProperties DEF Basics, TypeOK
<1>1. ASSUME NEW n \in Node, NEW k \in Key, Insert(n, k)
      PROVE  GoalIsAhead'
  <2>1. /\ h' = Append(h, n) /\ pc' = "up" /\ at' = Len(h) + 1
        /\ goal' = HeapInsert(h, key', n, Capacity) /\ Len(h) # Capacity
    BY <1>0, <1>1 DEF Insert
  <2>2. goal' = HeapifyUp(h', key', at')
    BY <2>1 DEF HeapInsert
  <2> QED BY <2>1, <2>2 DEF GoalIsAhead
<1>2. ASSUME NEW n \in Node, NEW k \in Key, InsertFull(n, k)
      PROVE  GoalIsAhead'
  <2>1. /\ h' = h /\ pc' = "idle"
        /\ goal' = HeapInsert(h, key', n, Capacity) /\ Len(h) = Capacity
    BY <1>2 DEF InsertFull
  <2>2. goal' = h'
    BY <2>1 DEF HeapInsert
  <2> QED BY <2>1, <2>2 DEF GoalIsAhead
<1>3. ASSUME NEW k \in Key, Pop(k)
      PROVE  GoalIsAhead'
  <2>1. /\ h # <<>> /\ h' = FillWithLast(h, 1)
        /\ pc' = "down" /\ at' = 1 /\ back' = 0 /\ goal' = HeapPop(h, key')
    BY <1>3 DEF Pop
  <2>2. goal' = HeapifyDown(h', key', at')
    BY <2>1 DEF HeapPop
  <2>3. at' \in 1 .. Len(h') + 1
    <3>1. 1 \in 1 .. Len(h)
      BY <1>0, <2>1, EmptySeq
    <3>2. Len(h') = Len(h) - 1
      BY <1>0, <2>1, <3>1, FillFacts
    <3> QED BY <1>0, <2>1, <3>1, <3>2
  <2> QED BY <2>1, <2>2, <2>3 DEF GoalIsAhead
<1>4. ASSUME NEW n, NEW a \in 1 .. Len(h), h[a] = n
      PROVE  /\ IndexOf(h, n) = a
             /\ HeapRemove(h, key, n) =
                   IF a = Len(h) THEN FillWithLast(h, a)
                   ELSE HeapifyUp(HeapifyDown(FillWithLast(h, a), key, a), key, a)
  <2>1. Positions(h, n) = {a}
    BY <1>4 DEF Positions, Basics, NoDuplicates
  <2>2. IndexOf(h, n) = a
    BY <2>1 DEF IndexOf
  <2>3. Positions(h, n) # {}
    BY <2>1
  <2> QED BY <2>2, <2>3 DEF HeapRemove
<1>5. ASSUME NEW n \in Node, RemoveLast(n)
      PROVE  GoalIsAhead'
  <2>1. /\ h # <<>> /\ h[Len(h)] = n /\ h' = FillWithLast(h, Len(h))
        /\ pc' = "idle" /\ goal' = HeapRemove(h, key, n)
    BY <1>5 DEF RemoveLast
  <2>2. Len(h) \in 1 .. Len(h)
    BY <1>0, <2>1, EmptySeq
  <2>3. goal' = h'
    BY <1>4, <2>1, <2>2
  <2> QED BY <2>1, <2>3 DEF GoalIsAhead
<1>6. ASSUME NEW n \in Node, Remove(n)
      PROVE  GoalIsAhead'
  <2>1. PICK a \in 1 .. Len(h) - 1 :
            h[a] = n /\ h' = FillWithLast(h, a) /\ at' = a /\ back' = a
    BY <1>6 DEF Remove
  <2>2. pc' = "down" /\ goal' = HeapRemove(h, key, n) /\ key' = key
    BY <1>6 DEF Remove
  <2>3. a \in 1 .. Len(h) /\ a # Len(h) /\ a # 0
    BY <1>0
  <2>4. goal' = HeapifyUp(HeapifyDown(h', key', at'), key', back')
    BY <1>4, <2>1, <2>2, <2>3
  <2>5. at' \in 1 .. Len(h') + 1
    <3>1. Len(h') = Len(h) - 1
      BY <1>0, <2>1, <2>3, FillFacts
    <3> QED BY <1>0, <2>1, <3>1
  <2> QED BY <2>1, <2>2, <2>3, <2>4, <2>5 DEF GoalIsAhead
<1> QED BY <1>1, <1>2, <1>3, <1>5, <1>6

LEMMA GoalStep == Basics /\ GoalIsAhead /\ [Next]_vars => GoalIsAhead'
<1> SUFFICES ASSUME Basics, GoalIsAhead, [Next]_vars
             PROVE  GoalIsAhead'
  OBVIOUS
<1>0. h \in Seq(Node) /\ Len(h) \in Nat
  BY LenProperties DEF Basics, TypeOK
<1>1. CASE StepUp
  <2>1. pc = "up" /\ at \in 1 .. Len(h) /\ key' = key /\ goal' = goal
    BY <1>1 DEF StepUp, Basics, IndexOK
  <2>2. /\ at \in 0 .. Len(h)
        /\ goal = HeapifyUp(h, key, at)
    BY <2>1 DEF GoalIsAhead
  <2>3. goal = IF at > 1 /\ Less(key, h, at, Parent(at))
                 THEN HeapifyUp(Swap(h, at, Parent(at)), key, Parent(at)) ELSE h
    BY <1>0, <2>2, UpUnfolds
  <2>4. CASE at > 1 /\ Less(key, h, at, Parent(at))
    <3>1. h' = Swap(h, at, Parent(at)) /\ at' = Parent(at) /\ pc' = "up"
      BY <1>1, <2>4 DEF StepUp
    <3> QED BY <2>1, <2>3, <2>4, <3>1 DEF GoalIsAhead
  <2>5. CASE ~(at > 1 /\ Less(key, h, at, Parent(at)))
    <3>1. h' = h /\ pc' = "idle"
      BY <1>1, <2>5 DEF StepUp
    <3> QED BY <2>1, <2>3, <2>5, <3>1 DEF GoalIsAhead
  <2> QED BY <2>4, <2>5
<1>2. CASE StepDown
  <2> DEFINE l == LeastOf(h, key, at)
  <2>1. /\ pc = "down" /\ key' = key /\ goal' = goal
        /\ at \in 1 .. Len(h) + 1
        /\ goal = IF back = 0 THEN HeapifyDown(h, key, at)
                  ELSE HeapifyUp(HeapifyDown(h, key, at), key, back)
    BY <1>2 DEF StepDown, GoalIsAhead
  <2>2. HeapifyDown(h, key, at) =
            IF l # at THEN HeapifyDown(Swap(h, at, l), key, l) ELSE h
    BY <1>0, <2>1, DownUnfolds
  <2>3. CASE l # at
    <3>1. h' = Swap(h, at, l) /\ at' = l /\ pc' = pc /\ back' = back
      BY <1>2, <2>3 DEF StepDown
    <3>2. at \in 1 .. Len(h) /\ l \in 1 .. Len(h)
      BY <1>0, <2>1, <2>3, LeastOfFacts
    <3> HIDE DEF l
    <3>3. Len(h') = Len(h)
      BY <1>0, <3>1, <3>2, SwapFacts
    <3>4. at' \in 1 .. Len(h') + 1
      BY <1>0, <3>1, <3>2, <3>3
    <3> QED BY <2>1, <2>2, <2>3, <3>1, <3>4 DEF GoalIsAhead
  <2>4. CASE l = at
    <3>1. h' = h /\ at' = back /\ pc' = IF back = 0 THEN "idle" ELSE "up"
      BY <1>2, <2>4 DEF StepDown
    <3> HIDE DEF l
    <3> QED BY <2>1, <2>2, <2>4, <3>1 DEF GoalIsAhead
  <2> QED BY <2>3, <2>4
<1>3. CASE UNCHANGED vars
  BY <1>3 DEF vars, GoalIsAhead
<1> QED BY <1>1, <1>2, <1>3, StartsAhead DEF Next

\* Turn by turn, the loops of heap.h leave the array that HeapOps says the
\* call returns, hence the array that Timers goes on with.
THEOREM LoopsComputeHeapOps == Spec => []GoalReached
<1>1. Init => GoalIsAhead
  BY DEF Init, GoalIsAhead
<1>2. Spec => []Basics
  BY Inductive, PTL
<1>3. Basics /\ GoalIsAhead /\ [Next]_vars => GoalIsAhead'
  BY GoalStep
<1>4. GoalIsAhead => GoalReached
  BY DEF GoalIsAhead, GoalReached
<1> QED BY <1>1, <1>2, <1>3, <1>4, PTL DEF Spec
=============================================================================
