---------------------------- MODULE ListsProofs -----------------------------
(***************************************************************************)
(* Lemmas about lists of any length, for the proofs about the components.  *)
(* What a recursion over a list or a set computes is shown by way of a     *)
(* least counterexample.                                                   *)
(***************************************************************************)
EXTENDS Lists, FiniteSetTheorems, WellFoundedInduction, TLAPS

(* Every set of numbers that has a member has a least one. *)
LEMMA LeastOf ==
  ASSUME NEW S \in SUBSET Nat, S # {}
  PROVE  \E m \in S : \A k \in S : m <= k
<1> DEFINE Less == {p \in Nat \X Nat : p[1] < p[2]}
<1>1. PICK m \in S : \A k \in S : ~(<<k, m>> \in Less)
  <2>1. IsWellFoundedOn(Less, Nat)
    BY NatLessThanWellFounded DEF OpToRel
  <2> HIDE DEF Less
  <2>2. QED
    BY <2>1, WFMin
<1>2. ASSUME NEW k \in S PROVE m <= k
  <2>1. m \in Nat /\ k \in Nat /\ ~(k < m)
    BY <1>1
  <2>2. QED
    BY <2>1
<1>3. QED
  BY <1>2

LEMMA ListOf ==
  ASSUME NEW n \in Nat, NEW f, f = [i \in 1..n |-> f[i]]
  PROVE  IsList(f) /\ Len(f) = n
<1>1. f \in [1..n -> Range(f)]
  BY DEF Range
<1>2. f \in Seq(Range(f))
  BY <1>1
<1>3. QED
  BY <1>1, <1>2 DEF IsList

LEMMA ListFacts ==
  ASSUME NEW s, IsList(s)
  PROVE  Len(s) \in Nat /\ DOMAIN s = 1..Len(s) /\ s = [i \in 1..Len(s) |-> s[i]]
BY DEF IsList

LEMMA EmptyList == IsList(<<>>) /\ Len(<<>>) = 0 /\ Range(<<>>) = {}
BY DEF IsList, Range

LEMMA JoinedList ==
  ASSUME NEW s, NEW t, IsList(s), IsList(t)
  PROVE  /\ IsList(s \o t) /\ Len(s \o t) = Len(s) + Len(t)
         /\ Range(s \o t) \subseteq Range(s) \cup Range(t)
<1> DEFINE U == Range(s) \cup Range(t)
<1>1. s \in Seq(U) /\ t \in Seq(U)
  BY DEF IsList
<1> HIDE DEF U
<1>2. s \o t \in Seq(U) /\ Len(s \o t) = Len(s) + Len(t)
  BY <1>1
<1>3. Range(s \o t) \subseteq U
  BY <1>2 DEF Range
<1>4. ASSUME NEW c \in Seq(U) PROVE IsList(c)
  BY ListOf
<1>5. QED
  BY <1>2, <1>3, <1>4 DEF U

(* What is kept of a list is a list. *)
LEMMA SublistIsList ==
  ASSUME NEW s, IsList(s), NEW K \in SUBSET DOMAIN s
  PROVE  IsList(Sublist(s, K))
<1>1. IsFiniteSet(K)
  <2>1. Len(s) \in Nat /\ K \subseteq 1..Len(s)
    BY ListFacts
  <2>2. IsFiniteSet(1..Len(s))
    BY <2>1, FS_Interval
  <2>3. QED
    BY <2>1, <2>2, FS_Subset
<1>2. Cardinality(K) \in Nat
  BY <1>1, FS_CardinalityType
<1>3. Sublist(s, K) = [i \in 1..Cardinality(K) |-> Sublist(s, K)[i]]
  BY DEF Sublist
<1>4. QED
  BY <1>2, <1>3, ListOf

(* FlattenSeq's recursion has a solution, for lists of any length. *)
Joined(q, f, n) == [i \in 1..n |-> IF i = 1 THEN q[i] ELSE f[i - 1] \o q[i]]

LEMMA JoinedExists ==
  ASSUME NEW q, NEW n \in Nat
  PROVE  \E f : f = Joined(q, f, n)
<1> DEFINE Bad == {k \in Nat : ~\E f : f = Joined(q, f, k)}
<1>1. SUFFICES ASSUME Bad # {} PROVE FALSE
  OBVIOUS
<1>2. PICK k \in Bad : \A j \in Bad : k <= j
  BY <1>1, LeastOf
<1>3. k # 0
  <2>1. <<>> = Joined(q, <<>>, 0)
    BY DEF Joined
  <2>2. QED
    BY <2>1
<1>4. k - 1 \in Nat /\ k - 1 \notin Bad
  BY <1>2, <1>3
<1>5. PICK g : g = Joined(q, g, k - 1)
  BY <1>4
<1> DEFINE f == [i \in 1..k |-> IF i = k THEN IF k = 1 THEN q[k] ELSE g[k - 1] \o q[k]
                                ELSE g[i]]
<1>6. ASSUME NEW i \in 1..k
      PROVE  f[i] = IF i = 1 THEN q[i] ELSE f[i - 1] \o q[i]
  <2>1. CASE i = k /\ k = 1
    BY <2>1
  <2>2. CASE i = k /\ k # 1
    <3>1. i - 1 \in 1..k /\ i - 1 # k
      BY <1>4, <2>2
    <3>2. f[i - 1] = g[i - 1]
      BY <3>1
    <3>3. QED
      BY <2>2, <3>2
  <2>3. CASE i # k
    <3>1. i \in 1..(k - 1) /\ f[i] = g[i]
      BY <1>4, <2>3
    <3>2. g[i] = IF i = 1 THEN q[i] ELSE g[i - 1] \o q[i]
      BY <1>5, <3>1 DEF Joined
    <3>3. i # 1 => i - 1 \in 1..k /\ i - 1 # k /\ f[i - 1] = g[i - 1]
      BY <1>4, <3>1
    <3>4. QED
      BY <3>1, <3>2, <3>3
  <2>4. QED
    BY <2>1, <2>2, <2>3
<1>7. f = Joined(q, f, k)
  <2>1. f = [i \in 1..k |-> f[i]]
    OBVIOUS
  <2> HIDE DEF f
  <2>2. QED
    BY <1>6, <2>1 DEF Joined
<1>8. QED
  BY <1>2, <1>7

(* What is joined from lists over U is a list over U. *)
LEMMA FlatOver ==
  ASSUME NEW q, IsList(q), NEW U, \A i \in DOMAIN q : IsList(q[i]) /\ Range(q[i]) \subseteq U
  PROVE  IsList(FlattenSeq(q)) /\ Range(FlattenSeq(q)) \subseteq U
<1> DEFINE flatten == CHOOSE f : f = [i \in 1..Len(q) |->
                                        IF i = 1 THEN q[i] ELSE f[i - 1] \o q[i]]
<1>1. FlattenSeq(q) = IF Len(q) = 0 THEN q ELSE flatten[Len(q)]
  BY DEF FlattenSeq
<1>2. Len(q) \in Nat /\ DOMAIN q = 1..Len(q)
  BY ListFacts
<1>3. flatten = Joined(q, flatten, Len(q))
  BY <1>2, JoinedExists DEF Joined
<1> HIDE DEF flatten
<1> DEFINE Good(c) == IsList(c) /\ Range(c) \subseteq U
           Bad == {i \in 1..Len(q) : ~Good(flatten[i])}
<1>4. Bad = {}
  <2> SUFFICES ASSUME Bad # {} PROVE FALSE
    OBVIOUS
  <2>1. PICK k \in Bad : \A j \in Bad : k <= j
    <3>1. Bad \in SUBSET Nat
      OBVIOUS
    <3> HIDE DEF Bad
    <3>2. QED
      BY <3>1, LeastOf
  <2>2. k \in 1..Len(q) /\ flatten[k] = IF k = 1 THEN q[k] ELSE flatten[k - 1] \o q[k]
    BY <1>3 DEF Joined
  <2>3. Good(q[k]) /\ ~Good(flatten[k])
    BY <1>2, <2>2
  <2>4. k # 1
    BY <2>2, <2>3
  <2>5. k - 1 \in 1..Len(q) /\ k - 1 \notin Bad
    BY <1>2, <2>1, <2>2, <2>4
  <2>6. Good(flatten[k - 1])
    BY <2>5
  <2>7. QED
    BY <2>2, <2>3, <2>4, <2>6, JoinedList
<1>5. CASE Len(q) = 0
  BY <1>1, <1>2, <1>5, q = <<>>, EmptyList
<1>6. CASE Len(q) # 0
  <2>1. Len(q) \in 1..Len(q)
    BY <1>2, <1>6
  <2>2. QED
    BY <1>1, <1>4, <1>6, <2>1
<1>7. QED
  BY <1>5, <1>6

LEMMA FlatList ==
  ASSUME NEW q, IsList(q), \A i \in DOMAIN q : IsList(q[i])
  PROVE  IsList(FlattenSeq(q))
<1>1. \A i \in DOMAIN q : Range(q[i]) \subseteq UNION {Range(q[j]) : j \in DOMAIN q}
  OBVIOUS
<1>2. QED
  BY <1>1, FlatOver

LEMMA SeqIsList ==
  ASSUME NEW U, NEW c \in Seq(U) PROVE IsList(c)
BY ListOf

(* Positions of a set of numbers can be counted up to its size. *)
LEMMA NthExists ==
  ASSUME NEW K \in SUBSET Nat, IsFiniteSet(K), NEW n \in 1..Cardinality(K)
  PROVE  \E i \in K : Cardinality({j \in K : j <= i}) = n
<1> DEFINE upTo(i) == {j \in K : j <= i}
           Bad == {k \in Nat : k \in 1..Cardinality(K) /\ ~\E i \in K : Cardinality(upTo(i)) = k}
<1>1. SUFFICES ASSUME Bad # {} PROVE FALSE
  BY FS_CardinalityType, SMTT(30)
<1>2. PICK k \in Bad : \A m \in Bad : k <= m
  <2>1. Bad \in SUBSET Nat
    OBVIOUS
  <2> HIDE DEF Bad
  <2>2. QED
    BY <1>1, <2>1, LeastOf
<1>3. k \in 1..Cardinality(K) /\ Cardinality(K) \in Nat /\ ~\E i \in K : Cardinality(upTo(i)) = k
  BY <1>2, FS_CardinalityType
<1> HIDE DEF Bad
(* Before is what the first k - 1 positions take. *)
<1>4. PICK Before \in SUBSET K : /\ IsFiniteSet(Before) /\ Cardinality(Before) = k - 1
                                 /\ \A i \in Before, j \in K : j <= i => j \in Before
  <2>1. CASE k = 1
    BY <1>3, <2>1, FS_EmptySet
  <2>2. CASE k # 1
    <3>1. k - 1 \in 1..Cardinality(K) /\ k - 1 \notin Bad
      BY <1>2, <1>3, <2>2
    <3>2. PICK i \in K : Cardinality(upTo(i)) = k - 1
      BY <3>1 DEF Bad
    <3>3. upTo(i) \in SUBSET K
      OBVIOUS
    <3>4. IsFiniteSet(upTo(i))
      BY <3>3, FS_Subset
    <3>5. \A a \in upTo(i), b \in K : b <= a => b \in upTo(i)
      OBVIOUS
    <3> HIDE DEF upTo
    <3>6. QED
      BY <3>2, <3>3, <3>4, <3>5
  <2>3. QED
    BY <2>1, <2>2
<1>5. K \ Before # {}
  <2>1. Before # K
    BY <1>3, <1>4
  <2>2. QED
    BY <1>4, <2>1
<1>6. PICK m \in K \ Before : \A j \in K \ Before : m <= j
  <2>1. K \ Before \in SUBSET Nat
    OBVIOUS
  <2>2. QED
    BY <1>5, <2>1, LeastOf
<1>7. upTo(m) = Before \cup {m}
  <2>1. ASSUME NEW j \in K, j <= m PROVE j \in Before \cup {m}
    <3>1. j \notin Before => m <= j
      BY <1>6
    <3>2. QED
      BY <2>1, <3>1
  <2>2. ASSUME NEW j \in Before PROVE j <= m
    BY <1>4, <1>6
  <2>3. QED
    BY <1>4, <1>6, <2>1, <2>2
<1>8. Cardinality(upTo(m)) = k
  <2>1. m \notin Before /\ IsFiniteSet(Before)
    BY <1>4, <1>6
  <2>2. Cardinality(Before \cup {m}) = Cardinality(Before) + 1
    BY <2>1, FS_AddElement
  <2>3. Cardinality(upTo(m)) = Cardinality(Before) + 1
    BY <1>7, <2>2, Zenon
  <2> HIDE DEF upTo
  <2>4. QED
    BY <1>3, <1>4, <2>3
<1>9. QED
  BY <1>3, <1>6, <1>8

(* What is kept was at one of the positions. *)
LEMMA SublistElement ==
  ASSUME NEW s, IsList(s), NEW K \in SUBSET DOMAIN s, NEW k \in DOMAIN Sublist(s, K)
  PROVE  \E i \in K : Sublist(s, K)[k] = s[i]
<1>1. Len(s) \in Nat /\ DOMAIN s = 1..Len(s)
  BY ListFacts
<1>2. IsFiniteSet(K)
  BY <1>1, FS_Interval, FS_Subset, IsFiniteSet(1..Len(s))
<1>3. K \in SUBSET Nat /\ k \in 1..Cardinality(K)
  BY <1>1 DEF Sublist
<1>4. \E i \in K : Cardinality({j \in K : j <= i}) = k
  BY <1>2, <1>3, NthExists
<1>5. Sublist(s, K)[k] = s[CHOOSE i \in K : Cardinality({j \in K : j <= i}) = k]
  BY <1>3 DEF Sublist
<1>6. QED
  BY <1>4, <1>5

(* What is kept and the positions it comes from are one to one. *)
LEMMA SublistPlaces ==
  ASSUME NEW s, IsList(s), NEW K \in SUBSET DOMAIN s
  PROVE  /\ IsFiniteSet(K) /\ Cardinality(K) \in Nat
         /\ DOMAIN Sublist(s, K) = 1..Cardinality(K)
         /\ \E p \in Bijection(1..Cardinality(K), K) :
              \A k \in 1..Cardinality(K) : Sublist(s, K)[k] = s[p[k]]
<1> DEFINE n == Cardinality(K)
           upTo(i) == {j \in K : j <= i}
           p == [k \in 1..n |-> CHOOSE i \in K : Cardinality(upTo(i)) = k]
<1>1. Len(s) \in Nat /\ DOMAIN s = 1..Len(s)
  BY ListFacts
<1>2. IsFiniteSet(K) /\ n \in Nat
  BY <1>1, FS_Interval, FS_Subset, FS_CardinalityType, IsFiniteSet(1..Len(s))
<1>3. K \in SUBSET Nat
  BY <1>1
<1>4. ASSUME NEW k \in 1..n PROVE p[k] \in K /\ Cardinality(upTo(p[k])) = k
  <2>1. \E i \in K : Cardinality(upTo(i)) = k
    BY <1>2, <1>3, NthExists
  <2> HIDE DEF upTo
  <2>2. QED
    BY <2>1
<1>5. p \in Injection(1..n, K)
  <2>1. p \in [1..n -> K]
    BY <1>4
  <2>2. ASSUME NEW a \in 1..n, NEW b \in 1..n, p[a] = p[b] PROVE a = b
    <3>1. Cardinality(upTo(p[a])) = a /\ Cardinality(upTo(p[b])) = b
      BY <1>4
    <3> HIDE DEF p, upTo
    <3>2. QED
      BY <2>2, <3>1
  <2> HIDE DEF p
  <2>3. QED
    BY <2>1, <2>2 DEF Injection, IsInjective
<1>6. Cardinality(1..n) = n
  BY <1>2, FS_Interval
<1>7. p \in Surjection(1..n, K)
  <2> HIDE DEF p
  <2>1. QED
    BY <1>2, <1>5, <1>6, FS_Injection
<1>8. p \in Bijection(1..n, K)
  <2> HIDE DEF p
  <2>1. QED
    BY <1>5, <1>7 DEF Bijection
<1>9. DOMAIN Sublist(s, K) = 1..n /\ \A k \in 1..n : Sublist(s, K)[k] = s[p[k]]
  BY DEF Sublist
<1> HIDE DEF p
<1>10. QED
  BY <1>2, <1>8, <1>9

(* As many of the kept elements are in V as were at the kept positions. *)
LEMMA SublistCount ==
  ASSUME NEW s, IsList(s), NEW K \in SUBSET DOMAIN s, NEW V
  PROVE  Cardinality({k \in DOMAIN Sublist(s, K) : Sublist(s, K)[k] \in V})
           = Cardinality({i \in K : s[i] \in V})
<1> DEFINE n == Cardinality(K)
           S == {k \in 1..n : Sublist(s, K)[k] \in V}
           T == {i \in K : s[i] \in V}
<1>1. PICK p \in Bijection(1..n, K) : \A k \in 1..n : Sublist(s, K)[k] = s[p[k]]
  BY SublistPlaces
<1>2. IsFiniteSet(K) /\ n \in Nat /\ DOMAIN Sublist(s, K) = 1..n
  BY SublistPlaces
<1>3. /\ p \in [1..n -> K] /\ \A a, b \in 1..n : p[a] = p[b] => a = b
      /\ \A i \in K : \E k \in 1..n : p[k] = i
  BY DEF Bijection, Injection, Surjection, IsInjective
<1> DEFINE q == [k \in S |-> p[k]]
<1>4. ASSUME NEW k \in S PROVE q[k] \in T
  BY <1>1, <1>3
<1>5. q \in Injection(S, T)
  BY <1>3, <1>4 DEF Injection, IsInjective
<1>6. q \in Surjection(S, T)
  <2>1. ASSUME NEW i \in T PROVE \E k \in S : q[k] = i
    BY <1>1, <1>3
  <2>2. q \in [S -> T]
    BY <1>4
  <2> HIDE DEF q, S, T
  <2>3. QED
    BY <2>1, <2>2 DEF Surjection
<1>7. q \in Bijection(S, T)
  <2> HIDE DEF q, S, T
  <2>1. QED
    BY <1>5, <1>6 DEF Bijection
<1>8. IsFiniteSet(S)
  BY <1>2, FS_Interval, FS_Subset, IsFiniteSet(1..n)
<1>9. Cardinality(T) = Cardinality(S)
  <2> HIDE DEF q, S, T
  <2>1. QED
    BY <1>7, <1>8, FS_Bijection DEF ExistsBijection
<1>10. QED
  BY <1>2, <1>9

----------------------------------------------------------------------------
(* Sums over finite sets *)

(* Whatever passes from the sets with one element less to a set holds of all. *)
LEMMA SmallerFirst ==
  ASSUME NEW S, IsFiniteSet(S), NEW B,
         \A T \in SUBSET S : (\A x \in T : T \ {x} \in B) => T \in B
  PROVE  \A T \in SUBSET S : T \in B
<1> DEFINE Bad == {k \in Nat : \E T \in SUBSET S : Cardinality(T) = k /\ T \notin B}
<1>1. ASSUME NEW T \in SUBSET S PROVE IsFiniteSet(T) /\ Cardinality(T) \in Nat
  BY FS_Subset, FS_CardinalityType
<1>2. Bad = {}
  <2> SUFFICES ASSUME Bad # {} PROVE FALSE
    OBVIOUS
  <2>1. PICK k \in Bad : \A j \in Bad : k <= j
    <3>1. Bad \in SUBSET Nat
      OBVIOUS
    <3> HIDE DEF Bad
    <3>2. QED
      BY <3>1, LeastOf
  <2>2. PICK T \in SUBSET S : Cardinality(T) = k /\ T \notin B
    BY <2>1
  <2>3. PICK x \in T : T \ {x} \notin B
    BY <2>2
  <2>4. T \ {x} \in SUBSET S /\ Cardinality(T \ {x}) = Cardinality(T) - 1
    BY <1>1, FS_RemoveElement
  <2>5. Cardinality(T \ {x}) \in Bad
    BY <1>1, <2>3, <2>4
  <2>6. k \in Nat /\ k <= Cardinality(T \ {x})
    BY <2>1, <2>5
  <2>7. QED
    BY <2>2, <2>4, <2>6
<1>3. QED
  BY <1>1, <1>2

TotalOf(f, S) == FoldFunctionOnSet(+, 0, f, S)

(* The recursion of the fold, on the subsets in P. *)
First(T) == CHOOSE x \in T : TRUE
Summed(f, g, P) == [T \in P |-> IF T = {} THEN 0 ELSE f[First(T)] + g[T \ {First(T)}]]

LEMMA SumExists ==
  ASSUME NEW f, NEW S, IsFiniteSet(S)
  PROVE  \E g : g = Summed(f, g, SUBSET S)
<1> DEFINE Parts(k) == {T \in SUBSET S : Cardinality(T) <= k}
           Bad == {k \in Nat : ~\E g : g = Summed(f, g, Parts(k))}
<1>1. ASSUME NEW T \in SUBSET S
      PROVE  /\ IsFiniteSet(T) /\ Cardinality(T) \in Nat /\ Cardinality(T) <= Cardinality(S)
             /\ T # {} => /\ First(T) \in T /\ T \ {First(T)} \in SUBSET S
                          /\ Cardinality(T \ {First(T)}) = Cardinality(T) - 1
             /\ Cardinality(T) = 0 => T = {}
  <2>1. IsFiniteSet(T) /\ Cardinality(T) \in Nat /\ Cardinality(T) <= Cardinality(S)
    BY FS_Subset, FS_CardinalityType
  <2>2. T # {} => First(T) \in T
    BY DEF First
  <2>3. Cardinality(T) = 0 => T = {}
    BY <2>1, FS_EmptySet
  <2>4. QED
    BY <2>1, <2>2, <2>3, FS_RemoveElement
<1>2. Bad = {}
  <2> SUFFICES ASSUME Bad # {} PROVE FALSE
    OBVIOUS
  <2>1. PICK k \in Bad : \A j \in Bad : k <= j
    <3>1. Bad \in SUBSET Nat
      OBVIOUS
    <3> HIDE DEF Bad
    <3>2. QED
      BY <3>1, LeastOf
  <2>2. CASE k = 0
    <3>1. [T \in Parts(0) |-> 0] = Summed(f, [T \in Parts(0) |-> 0], Parts(0))
      <4>1. ASSUME NEW T \in Parts(0) PROVE T = {}
        <5>1. T \in SUBSET S /\ Cardinality(T) <= 0
          OBVIOUS
        <5> HIDE DEF Parts
        <5>2. Cardinality(T) \in Nat
          BY <1>1, <5>1
        <5>3. Cardinality(T) = 0
          BY <5>1, <5>2
        <5>4. QED
          BY <1>1, <5>1, <5>3
      <4>2. QED
        BY <4>1 DEF Summed
    <3>2. QED
      BY <2>1, <2>2, <3>1
  <2>3. CASE k # 0
    <3>1. k - 1 \in Nat /\ k \in Nat /\ k - 1 \notin Bad
      <4>1. k \in Nat
        BY <2>1
      <4> HIDE DEF Bad
      <4>2. QED
        BY <2>1, <2>3, <4>1
    <3>2. PICK g : g = Summed(f, g, Parts(k - 1))
      BY <3>1
    <3> DEFINE h == Summed(f, g, Parts(k))
    <3>3. ASSUME NEW T \in Parts(k), T # {} PROVE h[T \ {First(T)}] = g[T \ {First(T)}]
      <4>1. T \ {First(T)} \in Parts(k - 1) /\ T \ {First(T)} \in Parts(k)
        BY <1>1, <3>1, <3>3
      <4>2. g[T \ {First(T)}] = Summed(f, g, Parts(k - 1))[T \ {First(T)}]
        BY <3>2
      <4> HIDE DEF Parts
      <4>3. QED
        BY <4>1, <4>2 DEF Summed
    <3>4. h = Summed(f, h, Parts(k))
      <4> HIDE DEF Parts
      <4>1. ASSUME NEW T \in Parts(k)
            PROVE  h[T] = IF T = {} THEN 0 ELSE f[First(T)] + h[T \ {First(T)}]
        <5>1. h[T] = IF T = {} THEN 0 ELSE f[First(T)] + g[T \ {First(T)}]
          BY DEF Summed
        <5>2. QED
          BY <3>3, <5>1
      <4>2. h = [T \in Parts(k) |-> h[T]]
        BY DEF Summed
      <4> HIDE DEF h
      <4>3. QED
        BY <4>1, <4>2 DEF Summed
    <3> HIDE DEF h, Parts
    <3>5. QED
      BY <2>1, <3>4
  <2>4. QED
    BY <2>2, <2>3
<1>3. Cardinality(S) \in Nat /\ Parts(Cardinality(S)) = SUBSET S
  BY <1>1, FS_CardinalityType
<1>4. QED
  BY <1>2, <1>3, Zenon

(* The subsets of a set have their own sums in its recursion. *)
LEMMA SumLocal ==
  ASSUME NEW f, NEW S, IsFiniteSet(S), NEW R \in SUBSET S
  PROVE  \A g, h : g = Summed(f, g, SUBSET S) /\ h = Summed(f, h, SUBSET R) => h[R] = g[R]
<1> SUFFICES ASSUME NEW g, NEW h, g = Summed(f, g, SUBSET S), h = Summed(f, h, SUBSET R)
             PROVE  h[R] = g[R]
  OBVIOUS
<1> DEFINE B == {T \in SUBSET R : h[T] = g[T]}
<1>1. IsFiniteSet(R)
  BY FS_Subset
<1>2. ASSUME NEW T \in SUBSET R, \A x \in T : T \ {x} \in B PROVE T \in B
  <2>1. T \in SUBSET S
    OBVIOUS
  <2>2. g[T] = IF T = {} THEN 0 ELSE f[First(T)] + g[T \ {First(T)}]
    BY <2>1 DEF Summed
  <2>3. h[T] = IF T = {} THEN 0 ELSE f[First(T)] + h[T \ {First(T)}]
    BY DEF Summed
  <2>4. T # {} => First(T) \in T
    BY DEF First
  <2>5. T # {} => h[T \ {First(T)}] = g[T \ {First(T)}]
    BY <1>2, <2>4
  <2>6. QED
    BY <2>2, <2>3, <2>5
<1> HIDE DEF B
<1>3. R \in B
  BY <1>1, <1>2, SmallerFirst
<1>4. QED
  BY <1>3 DEF B

LEMMA TotalStep ==
  ASSUME NEW f, NEW S, IsFiniteSet(S)
  PROVE  /\ TotalOf(f, {}) = 0
         /\ S # {} => First(S) \in S /\ TotalOf(f, S) = f[First(S)] + TotalOf(f, S \ {First(S)})
<1> DEFINE sums(T) == CHOOSE g : g = Summed(f, g, SUBSET T)
<1>1. \A T : TotalOf(f, T) = sums(T)[T]
  BY DEF TotalOf, FoldFunctionOnSet, MapThenFoldSet, Summed, First
<1>2. ASSUME NEW T, IsFiniteSet(T) PROVE sums(T) = Summed(f, sums(T), SUBSET T)
  BY <1>2, SumExists
<1> HIDE DEF sums
<1>3. TotalOf(f, {}) = 0
  <2>1. sums({}) = Summed(f, sums({}), SUBSET {})
    BY <1>2, FS_EmptySet
  <2>2. QED
    BY <1>1, <2>1 DEF Summed
<1>4. ASSUME S # {} PROVE First(S) \in S /\ TotalOf(f, S) = f[First(S)] + TotalOf(f, S \ {First(S)})
  <2>1. First(S) \in S
    BY <1>4 DEF First
  <2>2. IsFiniteSet(S \ {First(S)}) /\ S \ {First(S)} \in SUBSET S
    BY FS_Subset
  <2>3. sums(S)[S] = f[First(S)] + sums(S)[S \ {First(S)}]
    BY <1>2, <1>4 DEF Summed
  <2>4. sums(S \ {First(S)})[S \ {First(S)}] = sums(S)[S \ {First(S)}]
    <3> DEFINE R == S \ {First(S)}
    <3>1. sums(S) = Summed(f, sums(S), SUBSET S) /\ sums(R) = Summed(f, sums(R), SUBSET R)
      BY <1>2, <2>2
    <3>2. R \in SUBSET S
      BY <2>2
    <3> HIDE DEF R
    <3>3. \A g, h : g = Summed(f, g, SUBSET S) /\ h = Summed(f, h, SUBSET R) => h[R] = g[R]
      BY <3>2, SumLocal
    <3>4. sums(R)[R] = sums(S)[R]
      BY <3>1, <3>3
    <3>5. QED
      BY <3>4 DEF R
  <2>5. QED
    BY <1>1, <2>1, <2>3, <2>4
<1>5. QED
  BY <1>3, <1>4

LEMMA TotalType ==
  ASSUME NEW S, IsFiniteSet(S), NEW f, \A x \in S : f[x] \in Nat
  PROVE  TotalOf(f, S) \in Nat
<1> DEFINE B == {T \in SUBSET S : TotalOf(f, T) \in Nat}
<1>1. ASSUME NEW T \in SUBSET S, \A x \in T : T \ {x} \in B PROVE T \in B
  <2>1. IsFiniteSet(T)
    BY FS_Subset
  <2>2. CASE T = {}
    <3>1. TotalOf(f, {}) = 0
      BY <2>1, TotalStep
    <3>2. QED
      BY <2>2, <3>1
  <2>3. CASE T # {}
    <3>1. First(T) \in T /\ TotalOf(f, T) = f[First(T)] + TotalOf(f, T \ {First(T)})
      BY <2>1, <2>3, TotalStep
    <3>2. TotalOf(f, T \ {First(T)}) \in Nat /\ f[First(T)] \in Nat
      BY <1>1, <3>1
    <3>3. QED
      BY <3>1, <3>2
  <2>4. QED
    BY <2>2, <2>3
<1> HIDE DEF B
<1>2. S \in B
  <2>1. \A T \in SUBSET S : (\A x \in T : T \ {x} \in B) => T \in B
    BY <1>1
  <2>2. \A T \in SUBSET S : T \in B
    BY <2>1, SmallerFirst, Zenon
  <2>3. QED
    BY <2>2
<1>3. QED
  BY <1>2 DEF B

LEMMA TotalInt ==
  ASSUME NEW S, IsFiniteSet(S), NEW f, \A x \in S : f[x] \in Int
  PROVE  TotalOf(f, S) \in Int
<1> DEFINE B == {T \in SUBSET S : TotalOf(f, T) \in Int}
<1>1. ASSUME NEW T \in SUBSET S, \A x \in T : T \ {x} \in B PROVE T \in B
  <2>1. IsFiniteSet(T)
    BY FS_Subset
  <2>2. CASE T = {}
    <3>1. TotalOf(f, {}) = 0
      BY <2>1, TotalStep
    <3>2. QED
      BY <2>2, <3>1
  <2>3. CASE T # {}
    <3>1. First(T) \in T /\ TotalOf(f, T) = f[First(T)] + TotalOf(f, T \ {First(T)})
      BY <2>1, <2>3, TotalStep
    <3>2. TotalOf(f, T \ {First(T)}) \in Int /\ f[First(T)] \in Int
      BY <1>1, <3>1
    <3>3. QED
      BY <3>1, <3>2
  <2>4. QED
    BY <2>2, <2>3
<1> HIDE DEF B
<1>2. \A T \in SUBSET S : (\A x \in T : T \ {x} \in B) => T \in B
  BY <1>1
<1>3. \A T \in SUBSET S : T \in B
  BY <1>2, SmallerFirst, Zenon
<1>4. QED
  BY <1>3 DEF B

(* Any element may come first. *)
LEMMA TotalTake ==
  ASSUME NEW S, IsFiniteSet(S), NEW f, \A x \in S : f[x] \in Int, NEW y \in S
  PROVE  TotalOf(f, S) = f[y] + TotalOf(f, S \ {y})
<1> DEFINE B == {T \in SUBSET S : \A z \in T : TotalOf(f, T) = f[z] + TotalOf(f, T \ {z})}
<1>1. ASSUME NEW T \in SUBSET S, \A x \in T : T \ {x} \in B PROVE T \in B
  <2> SUFFICES ASSUME NEW z \in T PROVE TotalOf(f, T) = f[z] + TotalOf(f, T \ {z})
    OBVIOUS
  <2> DEFINE x == First(T)
  <2>1. IsFiniteSet(T) /\ IsFiniteSet(T \ {x}) /\ IsFiniteSet(T \ {z})
    BY FS_Subset
  <2>2. x \in T /\ TotalOf(f, T) = f[x] + TotalOf(f, T \ {x})
    BY <2>1, TotalStep
  <2>3. CASE x = z
    BY <2>2, <2>3
  <2>4. CASE x # z
    <3>1. TotalOf(f, T \ {x}) = f[z] + TotalOf(f, (T \ {x}) \ {z})
      BY <1>1, <2>2, <2>4
    <3>2. TotalOf(f, T \ {z}) = f[x] + TotalOf(f, (T \ {z}) \ {x})
      BY <1>1, <2>2, <2>4
    <3>3. (T \ {x}) \ {z} = (T \ {z}) \ {x}
      OBVIOUS
    <3>4. TotalOf(f, (T \ {x}) \ {z}) \in Int
      <4>1. IsFiniteSet((T \ {x}) \ {z}) /\ (T \ {x}) \ {z} \in SUBSET S
        BY <2>1, FS_Subset
      <4>2. QED
        BY <4>1, TotalInt
    <3>5. f[x] \in Int /\ f[z] \in Int
      BY <2>2
    <3>6. TotalOf(f, T) = f[x] + (f[z] + TotalOf(f, (T \ {x}) \ {z}))
      BY <2>2, <3>1
    <3>7. TotalOf(f, T \ {z}) = f[x] + TotalOf(f, (T \ {x}) \ {z})
      BY <3>2, <3>3
    <3> HIDE DEF x, B
    <3>8. QED
      BY <3>4, <3>5, <3>6, <3>7
  <2>5. QED
    BY <2>3, <2>4
<1> HIDE DEF B
<1>2. \A T \in SUBSET S : (\A x \in T : T \ {x} \in B) => T \in B
  BY <1>1
<1>3. \A T \in SUBSET S : T \in B
  BY <1>2, SmallerFirst, Zenon
<1>4. S \in B
  BY <1>3
<1>5. QED
  BY <1>4 DEF B

(* One more for each element of R. *)
LEMMA TotalMore ==
  ASSUME NEW S, IsFiniteSet(S), NEW R \in SUBSET S, NEW f, \A x \in S : f[x] \in Nat,
         NEW h, \A x \in S : h[x] = f[x] + (IF x \in R THEN 1 ELSE 0)
  PROVE  TotalOf(h, S) = TotalOf(f, S) + Cardinality(R)
<1> DEFINE B == {T \in SUBSET S : TotalOf(h, T) = TotalOf(f, T) + Cardinality(R \cap T)}
<1>1. ASSUME NEW T \in SUBSET S, \A x \in T : T \ {x} \in B PROVE T \in B
  <2>1. IsFiniteSet(T) /\ IsFiniteSet(R \cap T) /\ Cardinality(R \cap T) \in Nat
    BY FS_Subset, FS_CardinalityType
  <2>2. CASE T = {}
    <3>1. R \cap T = {} /\ Cardinality({}) = 0
      BY <2>2, FS_EmptySet
    <3>2. TotalOf(h, {}) = 0 /\ TotalOf(f, {}) = 0
      BY <2>1, TotalStep
    <3>3. QED
      BY <2>2, <3>1, <3>2
  <2>3. CASE T # {}
    <3> DEFINE x == First(T)
    <3>1. /\ x \in T /\ TotalOf(f, T) = f[x] + TotalOf(f, T \ {x})
          /\ TotalOf(h, T) = h[x] + TotalOf(h, T \ {x})
      BY <2>1, <2>3, TotalStep
    <3>2. TotalOf(h, T \ {x}) = TotalOf(f, T \ {x}) + Cardinality(R \cap (T \ {x}))
      BY <1>1, <3>1
    <3>3. TotalOf(f, T \ {x}) \in Nat
      <4>1. IsFiniteSet(T \ {x}) /\ T \ {x} \in SUBSET S
        BY <2>1, FS_Subset
      <4>2. QED
        BY <4>1, TotalType
    <3>4. Cardinality(R \cap (T \ {x})) =
            IF x \in R THEN Cardinality(R \cap T) - 1 ELSE Cardinality(R \cap T)
      <4>1. CASE x \in R
        <5>1. x \in R \cap T /\ R \cap (T \ {x}) = (R \cap T) \ {x}
          BY <3>1, <4>1
        <5>2. Cardinality((R \cap T) \ {x}) = Cardinality(R \cap T) - 1
          BY <2>1, <5>1, FS_RemoveElement
        <5>3. QED
          BY <4>1, <5>1, <5>2
      <4>2. CASE x \notin R
        <5>1. R \cap (T \ {x}) = R \cap T
          BY <4>2
        <5>2. QED
          BY <4>2, <5>1
      <4>3. QED
        BY <4>1, <4>2
    <3>5. h[x] = f[x] + (IF x \in R THEN 1 ELSE 0) /\ f[x] \in Nat
      BY <3>1
    <3> HIDE DEF x
    <3>6. TotalOf(h, T) = TotalOf(f, T) + Cardinality(R \cap T)
      BY <2>1, <3>1, <3>2, <3>3, <3>4, <3>5
    <3>7. QED
      BY <3>6
  <2>4. QED
    BY <2>2, <2>3
<1> HIDE DEF B
<1>2. S \in B
  <2>1. \A T \in SUBSET S : (\A x \in T : T \ {x} \in B) => T \in B
    BY <1>1
  <2>2. \A T \in SUBSET S : T \in B
    BY <2>1, SmallerFirst, Zenon
  <2>3. QED
    BY <2>2
<1>3. R \cap S = R
  OBVIOUS
<1>4. QED
  BY <1>2, <1>3 DEF B

(* The sum of a function that changes at one place. *)
LEMMA TotalChanged ==
  ASSUME NEW S, IsFiniteSet(S), NEW f, \A x \in S : f[x] \in Nat,
         NEW y \in S, NEW h, h[y] \in Nat, \A x \in S \ {y} : h[x] = f[x]
  PROVE  TotalOf(h, S) = TotalOf(f, S) - f[y] + h[y]
<1>1. IsFiniteSet(S \ {y}) /\ Cardinality({}) = 0 /\ {} \in SUBSET (S \ {y})
  BY FS_Subset, FS_EmptySet
<1>2. TotalOf(h, S \ {y}) = TotalOf(f, S \ {y}) + 0
  BY <1>1, TotalMore
<1>3. TotalOf(f, S \ {y}) \in Nat
  BY <1>1, TotalType
<1>4. TotalOf(f, S) = f[y] + TotalOf(f, S \ {y}) /\ TotalOf(h, S) = h[y] + TotalOf(h, S \ {y})
  BY TotalTake
<1>5. QED
  BY <1>2, <1>3, <1>4

LEMMA TotalZero ==
  ASSUME NEW S, IsFiniteSet(S), NEW f, \A x \in S : f[x] = 0
  PROVE  TotalOf(f, S) = 0
<1> DEFINE B == {T \in SUBSET S : TotalOf(f, T) = 0}
<1>1. ASSUME NEW T \in SUBSET S, \A x \in T : T \ {x} \in B PROVE T \in B
  <2>1. IsFiniteSet(T)
    BY FS_Subset
  <2>2. CASE T = {}
    <3>1. TotalOf(f, {}) = 0
      BY <2>1, TotalStep
    <3>2. QED
      BY <2>2, <3>1
  <2>3. CASE T # {}
    <3>1. First(T) \in T /\ TotalOf(f, T) = f[First(T)] + TotalOf(f, T \ {First(T)})
      BY <2>1, <2>3, TotalStep
    <3>2. TotalOf(f, T \ {First(T)}) = 0 /\ f[First(T)] = 0
      BY <1>1, <3>1
    <3>3. QED
      BY <3>1, <3>2
  <2>4. QED
    BY <2>2, <2>3
<1> HIDE DEF B
<1>2. \A T \in SUBSET S : (\A x \in T : T \ {x} \in B) => T \in B
  BY <1>1
<1>3. \A T \in SUBSET S : T \in B
  BY <1>2, SmallerFirst, Zenon
<1>4. QED
  BY <1>3 DEF B

(* A list without repetition is as long as the set of its elements is large. *)
LEMMA DistinctCount ==
  ASSUME NEW s, IsList(s), \A i, j \in 1..Len(s) : s[i] = s[j] => i = j
  PROVE  IsFiniteSet(Range(s)) /\ Cardinality(Range(s)) = Len(s)
<1>1. Len(s) \in Nat /\ DOMAIN s = 1..Len(s) /\ s = [i \in 1..Len(s) |-> s[i]]
  BY ListFacts
<1>2. IsFiniteSet(1..Len(s)) /\ Cardinality(1..Len(s)) = Len(s)
  <2>1. 1 \in Int /\ Len(s) \in Int
    BY <1>1
  <2>2. Cardinality(1..Len(s)) = IF 1 > Len(s) THEN 0 ELSE Len(s) - 1 + 1
    BY <2>1, FS_Interval
  <2>3. QED
    BY <1>1, <2>1, <2>2, FS_Interval
<1>3. s \in [1..Len(s) -> Range(s)]
  BY <1>1 DEF Range
<1>4. ExistsBijection(1..Len(s), Range(s))
  <2>1. \A y \in Range(s) : \E i \in 1..Len(s) : s[i] = y
    BY <1>1 DEF Range
  <2>2. s \in Bijection(1..Len(s), Range(s))
    BY <1>1, <1>3, <2>1 DEF Bijection, Injection, Surjection, IsInjective
  <2>3. QED
    BY <2>2 DEF ExistsBijection
<1>5. QED
  BY <1>2, <1>4, FS_Bijection

----------------------------------------------------------------------------
(* Folds of lists *)

(* What passes from each number to the next one holds up to n. *)
LEMMA StepUp ==
  ASSUME NEW n \in Nat, NEW B, 0 \in B, \A k \in 1..n : k - 1 \in B => k \in B
  PROVE  \A k \in 0..n : k \in B
<1> DEFINE Bad == {k \in Nat : k \in 0..n /\ k \notin B}
<1>1. SUFFICES ASSUME Bad # {} PROVE FALSE
  OBVIOUS
<1>2. PICK k \in Bad : \A j \in Bad : k <= j
  <2>1. Bad \in SUBSET Nat
    OBVIOUS
  <2> HIDE DEF Bad
  <2>2. QED
    BY <1>1, <2>1, LeastOf
<1>3. k \in 1..n /\ k - 1 \notin Bad
  BY <1>2
<1>4. k - 1 \in B
  BY <1>3
<1>5. QED
  BY <1>2, <1>3, <1>4

LEMMA MaxUpTo ==
  ASSUME NEW k \in Nat \ {0}
  PROVE  Max(1..k) = k /\ (1..k) \ {k} = 1..(k - 1)
<1>1. k \in 1..k /\ \A y \in 1..k : k >= y
  OBVIOUS
<1>2. \A x \in 1..k : (\A y \in 1..k : x >= y) => x = k
  OBVIOUS
<1>3. Max(1..k) = k
  BY <1>1, <1>2 DEF Max
<1>4. QED
  BY <1>3

(* The recursion of FoldLeft, over the sets of positions. *)
FoldedUp(op, base, g, n) ==
  [T \in SUBSET (1..n) |-> IF T = {} THEN base ELSE op[<<g[T \ {Max(T)}], Max(T)>>]]

LEMMA MaxOfNumbers ==
  ASSUME NEW n \in Nat, NEW T \in SUBSET (1..n), T # {}
  PROVE  Max(T) \in T /\ \A y \in T : Max(T) >= y
<1> DEFINE From == {n - y : y \in T}
<1>0. \A y \in T : y \in 1..n /\ n - y \in Nat
  OBVIOUS
<1>1. From \in SUBSET Nat /\ From # {}
  BY <1>0
<1>2. PICK m \in From : \A k \in From : m <= k
  <2> HIDE DEF From
  <2>1. QED
    BY <1>1, LeastOf
<1>3. PICK x \in T : m = n - x
  BY <1>2
<1>4. ASSUME NEW y \in T PROVE x >= y
  <2>1. n - y \in From
    OBVIOUS
  <2>2. m <= n - y
    BY <1>2, <2>1
  <2>3. x \in 1..n /\ y \in 1..n
    OBVIOUS
  <2>4. QED
    BY <1>3, <2>2, <2>3
<1>5. \E a \in T : \A y \in T : a >= y
  BY <1>3, <1>4
<1>6. QED
  BY <1>5 DEF Max

LEMMA FoldExists ==
  ASSUME NEW A, NEW base \in A, NEW n \in Nat, NEW op \in [A \X (1..n) -> A]
  PROVE  \E g \in [SUBSET (1..n) -> A] : g = FoldedUp(op, base, g, n)
<1> DEFINE P(m, g) == \A T \in SUBSET (1..m) :
                        g[T] = IF T = {} THEN base ELSE op[<<g[T \ {Max(T)}], Max(T)>>]
           B == {m \in 0..n : \E g \in [SUBSET (1..m) -> A] : P(m, g)}
<1>1. 0 \in B
  <2> DEFINE g == [T \in SUBSET (1..0) |-> base]
  <2>1. \A T \in SUBSET (1..0) : T = {}
    OBVIOUS
  <2>2. g \in [SUBSET (1..0) -> A] /\ P(0, g)
    BY <2>1
  <2>3. \E f \in [SUBSET (1..0) -> A] : P(0, f)
    BY <2>2
  <2>4. 0 \in 0..n
    OBVIOUS
  <2> HIDE DEF P
  <2>5. QED
    BY <2>3, <2>4, Zenon
<1>2. ASSUME NEW m \in 1..n, m - 1 \in B PROVE m \in B
  <2>1. PICK g \in [SUBSET (1..(m - 1)) -> A] : P(m - 1, g)
    BY <1>2
  <2> DEFINE h == [T \in SUBSET (1..m) |-> IF m \in T THEN op[<<g[T \ {m}], m>>] ELSE g[T]]
  <2>2. ASSUME NEW T \in SUBSET (1..m)
        PROVE  /\ m \in T => T \ {m} \in SUBSET (1..(m - 1)) /\ Max(T) = m
               /\ m \notin T => T \in SUBSET (1..(m - 1))
    <3>1. T # {} => Max(T) \in T /\ \A y \in T : Max(T) >= y
      <4>1. m \in Nat
        OBVIOUS
      <4>2. QED
        BY <4>1, MaxOfNumbers
    <3>2. \A y \in T : y \in 1..m /\ (y # m => y \in 1..(m - 1))
      OBVIOUS
    <3>3. m \in T => Max(T) = m
      <4> SUFFICES ASSUME m \in T PROVE Max(T) = m
        OBVIOUS
      <4>1. Max(T) \in 1..m /\ Max(T) >= m
        BY <3>1, <3>2
      <4>2. QED
        BY <4>1
    <3>4. QED
      BY <3>2, <3>3
  <2>3. h \in [SUBSET (1..m) -> A]
    <3>1. ASSUME NEW T \in SUBSET (1..m) PROVE h[T] \in A
      <4>1. CASE m \in T
        <5>1. g[T \ {m}] \in A
          BY <2>1, <2>2, <4>1
        <5>2. <<g[T \ {m}], m>> \in A \X (1..n)
          BY <5>1
        <5> HIDE DEF P
        <5>3. QED
          BY <4>1, <5>2
      <4>2. CASE m \notin T
        BY <2>1, <2>2, <4>2
      <4>3. QED
        BY <4>1, <4>2
    <3>2. QED
      BY <3>1
  <2>4. ASSUME NEW T \in SUBSET (1..m)
        PROVE  h[T] = IF T = {} THEN base ELSE op[<<h[T \ {Max(T)}], Max(T)>>]
    <3>1. CASE m \in T
      <4>1. Max(T) = m /\ T \ {m} \in SUBSET (1..m) /\ m \notin T \ {m} /\ T # {}
        BY <2>2, <3>1
      <4>2. h[T \ {m}] = g[T \ {m}] /\ h[T] = op[<<g[T \ {m}], m>>]
        BY <3>1, <4>1
      <4>3. QED
        BY <4>1, <4>2
    <3>2. CASE m \notin T
      <4>1. T \in SUBSET (1..(m - 1)) /\ h[T] = g[T]
        BY <2>2, <3>2
      <4>2. h[T] = IF T = {} THEN base ELSE op[<<g[T \ {Max(T)}], Max(T)>>]
        BY <2>1, <4>1
      <4>3. T \ {Max(T)} \in SUBSET (1..m) /\ m \notin T \ {Max(T)}
        BY <3>2
      <4>4. h[T \ {Max(T)}] = g[T \ {Max(T)}]
        BY <4>3
      <4> HIDE DEF h
      <4>5. QED
        BY <4>2, <4>4
    <3>3. QED
      BY <3>1, <3>2
  <2>5. \E f \in [SUBSET (1..m) -> A] : P(m, f)
    <3> HIDE DEF h
    <3>1. QED
      BY <2>3, <2>4
  <2>6. m \in 0..n
    OBVIOUS
  <2> HIDE DEF P
  <2>7. QED
    BY <2>5, <2>6
<1> HIDE DEF B
<1>3. n \in B
  <2>1. \A k \in 0..n : k \in B
    BY <1>1, <1>2, StepUp
  <2>2. QED
    BY <2>1
<1>4. PICK g \in [SUBSET (1..n) -> A] : P(n, g)
  BY <1>3 DEF B
<1>5. g = FoldedUp(op, base, g, n)
  BY <1>4 DEF FoldedUp
<1>6. QED
  BY <1>5

----------------------------------------------------------------------------
(* Sums that count *)

(* A sum depends on the values that are summed. *)
LEMMA TotalSame ==
  ASSUME NEW S, IsFiniteSet(S), NEW f, NEW h, \A x \in S : h[x] = f[x]
  PROVE  TotalOf(h, S) = TotalOf(f, S)
<1> DEFINE B == {T \in SUBSET S : TotalOf(h, T) = TotalOf(f, T)}
<1>1. ASSUME NEW T \in SUBSET S, \A x \in T : T \ {x} \in B PROVE T \in B
  <2>1. IsFiniteSet(T)
    BY FS_Subset
  <2>2. CASE T = {}
    <3>1. TotalOf(f, {}) = 0 /\ TotalOf(h, {}) = 0
      BY <2>1, TotalStep
    <3>2. QED
      BY <2>2, <3>1
  <2>3. CASE T # {}
    <3>1. /\ First(T) \in T /\ TotalOf(f, T) = f[First(T)] + TotalOf(f, T \ {First(T)})
          /\ TotalOf(h, T) = h[First(T)] + TotalOf(h, T \ {First(T)})
      BY <2>1, <2>3, TotalStep
    <3>2. TotalOf(h, T \ {First(T)}) = TotalOf(f, T \ {First(T)}) /\ h[First(T)] = f[First(T)]
      BY <1>1, <3>1
    <3>3. QED
      BY <3>1, <3>2
  <2>4. QED
    BY <2>2, <2>3
<1> HIDE DEF B
<1>2. \A T \in SUBSET S : (\A x \in T : T \ {x} \in B) => T \in B
  BY <1>1
<1>3. \A T \in SUBSET S : T \in B
  BY <1>2, SmallerFirst, Zenon
<1>4. QED
  BY <1>3 DEF B

(* The pairs of a relation, counted by row and by column. *)
LEMMA DoubleCount ==
  ASSUME NEW I, IsFiniteSet(I), NEW S, IsFiniteSet(S), NEW G, \A r \in S : G[r] \in SUBSET I,
         NEW f, \A i \in I : f[i] = Cardinality({r \in S : i \in G[r]}),
         NEW h, \A r \in S : h[r] = Cardinality(G[r])
  PROVE  TotalOf(f, I) = TotalOf(h, S)
<1> DEFINE rows(T) == [i \in I |-> Cardinality({r \in T : i \in G[r]})]
           B == {T \in SUBSET S : TotalOf(rows(T), I) = TotalOf(h, T)}
<1>1. ASSUME NEW T \in SUBSET S, \A x \in T : T \ {x} \in B PROVE T \in B
  <2>1. IsFiniteSet(T)
    BY FS_Subset
  <2>2. CASE T = {}
    <3>1. \A i \in I : rows(T)[i] = 0
      <4>1. \A i \in I : {r \in T : i \in G[r]} = {}
        BY <2>2
      <4>2. QED
        BY <4>1, FS_EmptySet
    <3> HIDE DEF rows
    <3>2. TotalOf(rows(T), I) = 0
      BY <3>1, TotalZero
    <3>3. TotalOf(h, {}) = 0
      BY <2>1, TotalStep
    <3>4. QED
      BY <2>2, <3>2, <3>3
  <2>3. CASE T # {}
    <3> DEFINE x == First(T)
    <3>1. x \in T /\ TotalOf(h, T) = h[x] + TotalOf(h, T \ {x})
      BY <2>1, <2>3, TotalStep
    <3>2. TotalOf(rows(T \ {x}), I) = TotalOf(h, T \ {x})
      BY <1>1, <3>1
    <3>3. G[x] \in SUBSET I /\ h[x] = Cardinality(G[x]) /\ Cardinality(G[x]) \in Nat
      BY <3>1, FS_Subset, FS_CardinalityType
    <3>4. ASSUME NEW i \in I
          PROVE  /\ rows(T \ {x})[i] \in Nat
                 /\ rows(T)[i] = rows(T \ {x})[i] + (IF i \in G[x] THEN 1 ELSE 0)
      <4> DEFINE U == {r \in T : i \in G[r]}
                 V == {r \in T \ {x} : i \in G[r]}
      <4>1. IsFiniteSet(U) /\ IsFiniteSet(V)
        BY <2>1, FS_Subset
      <4>2. Cardinality(U) \in Nat /\ Cardinality(V) \in Nat
        BY <4>1, FS_CardinalityType
      <4>3. rows(T)[i] = Cardinality(U) /\ rows(T \ {x})[i] = Cardinality(V)
        OBVIOUS
      <4>4. CASE i \in G[x]
        <5>1. x \in U /\ V = U \ {x}
          BY <3>1, <4>4
        <5>2. Cardinality(U \ {x}) = Cardinality(U) - 1
          BY <4>1, <5>1, FS_RemoveElement
        <5> HIDE DEF U, V, rows
        <5>3. QED
          BY <4>2, <4>3, <4>4, <5>1, <5>2
      <4>5. CASE i \notin G[x]
        <5>1. V = U
          BY <3>1, <4>5
        <5> HIDE DEF U, V, rows
        <5>2. QED
          BY <4>2, <4>3, <4>5, <5>1
      <4>6. QED
        BY <4>4, <4>5
    <3> HIDE DEF rows, x
    <3>5. TotalOf(rows(T), I) = TotalOf(rows(T \ {x}), I) + Cardinality(G[x])
      <4> DEFINE u == rows(T)
                 v == rows(T \ {x})
                 R == G[x]
      <4>1. /\ R \in SUBSET I /\ \A i \in I : v[i] \in Nat
            /\ \A i \in I : u[i] = v[i] + (IF i \in R THEN 1 ELSE 0)
        BY <3>3, <3>4
      <4> HIDE DEF u, v, R
      <4>2. TotalOf(u, I) = TotalOf(v, I) + Cardinality(R)
        BY <4>1, TotalMore
      <4>3. QED
        BY <4>2 DEF u, v, R
    <3>6. TotalOf(rows(T \ {x}), I) \in Nat
      <4> DEFINE v == rows(T \ {x})
      <4>1. \A i \in I : v[i] \in Nat
        BY <3>4
      <4> HIDE DEF v
      <4>2. TotalOf(v, I) \in Nat
        BY <4>1, TotalType
      <4>3. QED
        BY <4>2 DEF v
    <3>7. TotalOf(rows(T), I) = TotalOf(h, T)
      BY <3>1, <3>2, <3>3, <3>5, <3>6
    <3>8. QED
      BY <3>7
  <2>4. QED
    BY <2>2, <2>3
<1>2. \A i \in I : rows(S)[i] = f[i]
  OBVIOUS
<1> HIDE DEF B
<1>3. \A T \in SUBSET S : (\A x \in T : T \ {x} \in B) => T \in B
  BY <1>1
<1>4. \A T \in SUBSET S : T \in B
  BY <1>3, SmallerFirst, Zenon
<1>5. TotalOf(rows(S), I) = TotalOf(h, S)
  BY <1>4 DEF B
<1> HIDE DEF rows
<1>6. QED
  <2> DEFINE u == rows(S)
  <2>1. \A i \in I : u[i] = f[i]
    BY <1>2
  <2> HIDE DEF u
  <2>2. TotalOf(u, I) = TotalOf(f, I)
    BY <2>1, TotalSame
  <2>3. QED
    BY <1>5, <2>2 DEF u

----------------------------------------------------------------------------
(* Lists cut into pieces, and sets laid out as lists *)

LEMMA JoinedPieces ==
  ASSUME NEW a \in Nat, NEW b \in Nat, NEW row
  PROVE  [i \in 1..a |-> row[i]] \o [i \in 1..b |-> row[a + i]] = [i \in 1..(a + b) |-> row[i]]
<1> DEFINE s == [i \in 1..a |-> row[i]]
           t == [i \in 1..b |-> row[a + i]]
           U == Range(s) \cup Range(t)
<1>1. IsList(s) /\ Len(s) = a /\ IsList(t) /\ Len(t) = b
  BY ListOf
<1>2. /\ \A i \in 1..a : s[i] = row[i]
      /\ \A i \in 1..b : t[i] = row[a + i]
  OBVIOUS
<1>3. s \in Seq(U) /\ t \in Seq(U)
  <2> HIDE DEF s, t
  <2>1. QED
    BY <1>1 DEF IsList
<1> HIDE DEF s, t, U
<1> DEFINE w == s \o t
<1>4. /\ w \in Seq(U) /\ Len(w) = a + b
      /\ \A i \in 1..(a + b) : w[i] = IF i <= a THEN s[i] ELSE t[i - a]
  BY <1>1, <1>3
<1> HIDE DEF w
<1>5. ASSUME NEW i \in 1..(a + b) PROVE w[i] = row[i]
  <2>1. CASE i <= a
    BY <1>2, <1>4, <2>1
  <2>2. CASE ~(i <= a)
    <3>1. i - a \in 1..b /\ a + (i - a) = i
      BY <2>2
    <3>2. t[i - a] = row[i]
      BY <1>2, <3>1
    <3>3. QED
      BY <1>4, <2>2, <3>2
  <2>3. QED
    BY <2>1, <2>2
<1>6. w = [i \in 1..(a + b) |-> w[i]]
  BY <1>4
<1>7. w = [i \in 1..(a + b) |-> row[i]]
  BY <1>5, <1>6
<1>8. QED
  BY <1>7 DEF s, t, w

Piece(row, a, b) == [i \in 1..(b - a) |-> row[a + i]]

(* Pieces of one list, each where the one before it ends, are that list again. *)
LEMMA FlatPieces ==
  ASSUME NEW q, IsList(q), NEW row, NEW e \in [0..Len(q) -> Nat], e[0] = 0,
         \A k \in 1..Len(q) : e[k - 1] <= e[k] /\ q[k] = Piece(row, e[k - 1], e[k])
  PROVE  FlattenSeq(q) = [i \in 1..e[Len(q)] |-> row[i]]
<1> DEFINE n == Len(q)
           flatten == CHOOSE f : f = [i \in 1..Len(q) |->
                                        IF i = 1 THEN q[i] ELSE f[i - 1] \o q[i]]
           part(k) == [i \in 1..e[k] |-> row[i]]
           B == {k \in 0..n : k # 0 => flatten[k] = part(k)}
<1>1. FlattenSeq(q) = IF Len(q) = 0 THEN q ELSE flatten[Len(q)]
  BY DEF FlattenSeq
<1>2. n \in Nat /\ q = [i \in 1..n |-> q[i]]
  BY ListFacts
<1>3. flatten = Joined(q, flatten, n)
  BY <1>2, JoinedExists DEF Joined
<1> HIDE DEF flatten
<1>4. ASSUME NEW k \in 1..n, k - 1 \in B PROVE k \in B
  <2>1. k - 1 \in 0..n /\ k \in 0..n
    BY <1>2
  <2>2. e[k - 1] \in Nat /\ e[k] \in Nat /\ e[k] - e[k - 1] \in Nat
    BY <1>2, <2>1
  <2>3. flatten[k] = IF k = 1 THEN q[k] ELSE flatten[k - 1] \o q[k]
    BY <1>3 DEF Joined
  <2>4. flatten[k] = part(k)
    <3> DEFINE a == e[k - 1]
               b == e[k] - e[k - 1]
    <3>1. q[k] = [i \in 1..b |-> row[a + i]] /\ a + b = e[k]
      BY <2>2 DEF Piece
    <3>2. CASE k = 1
      <4>1. a = 0 /\ b = e[k] /\ b \in Nat
        BY <2>2, <3>2
      <4>2. q[k] = [i \in 1..b |-> row[i]]
        <5>1. \A i \in 1..b : a + i = i
          BY <4>1
        <5> HIDE DEF a, b
        <5>2. QED
          BY <3>1, <5>1
      <4>3. QED
        BY <2>3, <3>2, <4>1, <4>2
    <3>3. CASE k # 1
      <4>1. flatten[k - 1] = [i \in 1..a |-> row[i]]
        BY <1>4, <2>1, <3>3
      <4>2. a \in Nat /\ b \in Nat
        BY <2>2
      <4> HIDE DEF a, b
      <4>3. flatten[k - 1] \o q[k] = [i \in 1..(a + b) |-> row[i]]
        BY <3>1, <4>1, <4>2, JoinedPieces
      <4>4. QED
        BY <2>3, <3>1, <3>3, <4>3
    <3>4. QED
      BY <3>2, <3>3
  <2>5. QED
    BY <2>1, <2>4
<1>5. 0 \in B
  BY <1>2
<1> HIDE DEF B, n
<1>6. \A k \in 0..n : k \in B
  BY <1>2, <1>4, <1>5, StepUp
<1>7. n \in B
  BY <1>2, <1>6
<1>8. n # 0 => flatten[n] = part(n)
  BY <1>7 DEF B
<1>9. CASE n = 0
  <2>1. q = part(0)
    BY <1>2, <1>9
  <2>2. QED
    BY <1>1, <1>9, <2>1 DEF n
<1>10. CASE n # 0
  BY <1>1, <1>8, <1>10 DEF n
<1>11. QED
  BY <1>9, <1>10

(* A finite set in a total order is a list in that order. *)
LEMMA SortedExists ==
  ASSUME NEW S, IsFiniteSet(S), NEW Less,
         \A a, b \in S : a # b => (<<a, b>> \in Less <=> <<b, a>> \notin Less),
         \A a \in S : <<a, a>> \notin Less,
         \A a, b, c \in S : <<a, b>> \in Less /\ <<b, c>> \in Less => <<a, c>> \in Less
  PROVE  \E s \in SetToSeqs(S) : \A i, j \in DOMAIN s : i < j => <<s[i], s[j]>> \in Less
<1> DEFINE n == Cardinality(S)
           upTo(a) == {b \in S : b = a \/ <<b, a>> \in Less}
           rank == [a \in S |-> Cardinality(upTo(a))]
<1>1. n \in Nat /\ IsFiniteSet(1..n) /\ Cardinality(1..n) = n
  <2>1. n \in Nat
    BY FS_CardinalityType
  <2>2. 1 \in Int /\ n \in Int
    BY <2>1
  <2>3. IsFiniteSet(1..n) /\ Cardinality(1..n) = IF 1 > n THEN 0 ELSE n - 1 + 1
    BY <2>2, FS_Interval
  <2>4. QED
    BY <2>1, <2>3
<1>2. ASSUME NEW a \in S PROVE IsFiniteSet(upTo(a)) /\ rank[a] \in 1..n
  <2>1. IsFiniteSet(upTo(a)) /\ Cardinality(upTo(a)) <= n
    BY FS_Subset
  <2>2. Cardinality(upTo(a)) \in Nat /\ (Cardinality(upTo(a)) = 0 <=> upTo(a) = {})
    BY <2>1, FS_CardinalityType, FS_EmptySet
  <2>3. a \in upTo(a)
    OBVIOUS
  <2> HIDE DEF upTo
  <2>4. QED
    BY <1>1, <2>1, <2>2, <2>3
<1>3. ASSUME NEW a \in S, NEW b \in S, <<a, b>> \in Less PROVE rank[a] < rank[b]
  <2>1. upTo(a) \subseteq upTo(b) /\ b \in upTo(b) /\ b \notin upTo(a)
    BY <1>3
  <2>2. IsFiniteSet(upTo(b)) /\ IsFiniteSet(upTo(a))
    BY <1>2
  <2>3. rank[a] = Cardinality(upTo(a)) /\ rank[b] = Cardinality(upTo(b))
    OBVIOUS
  <2> HIDE DEF upTo, rank
  <2>4. Cardinality(upTo(a)) <= Cardinality(upTo(b)) /\ upTo(a) # upTo(b)
    BY <2>1, <2>2, FS_Subset
  <2>5. Cardinality(upTo(a)) # Cardinality(upTo(b))
    BY <2>1, <2>2, <2>4, FS_Subset
  <2>6. Cardinality(upTo(a)) \in Nat /\ Cardinality(upTo(b)) \in Nat
    BY <2>2, FS_CardinalityType
  <2>7. QED
    BY <2>3, <2>4, <2>5, <2>6
<1>4. rank \in Injection(S, 1..n)
  <2>1. rank \in [S -> 1..n]
    BY <1>2
  <2>2. ASSUME NEW a \in S, NEW b \in S, rank[a] = rank[b] PROVE a = b
    <3>1. rank[a] \in 1..n /\ rank[b] \in 1..n
      BY <1>2
    <3>2. ~(rank[a] < rank[b]) /\ ~(rank[b] < rank[a])
      BY <1>1, <2>2, <3>1
    <3> HIDE DEF rank
    <3>3. QED
      BY <1>3, <3>2
  <2> HIDE DEF rank
  <2>3. QED
    BY <2>1, <2>2 DEF Injection, IsInjective
<1> HIDE DEF rank
<1>5. rank \in Surjection(S, 1..n)
  BY <1>1, <1>4, FS_Injection
<1>6. /\ rank \in [S -> 1..n] /\ \A a, b \in S : rank[a] = rank[b] => a = b
      /\ \A k \in 1..n : \E a \in S : rank[a] = k
  BY <1>4, <1>5 DEF Injection, IsInjective, Surjection
<1> DEFINE s == [k \in 1..n |-> CHOOSE a \in S : rank[a] = k]
<1>7. ASSUME NEW k \in 1..n PROVE s[k] \in S /\ rank[s[k]] = k
  BY <1>6
<1>8. DOMAIN s = 1..n /\ s \in [1..n -> S]
  BY <1>7
<1> HIDE DEF s
<1>9. s \in SetToSeqs(S)
  <2>1. \A i, j \in 1..n : i # j => s[i] # s[j]
    BY <1>7
  <2>2. QED
    BY <1>8, <2>1 DEF SetToSeqs
<1>10. ASSUME NEW i \in DOMAIN s, NEW j \in DOMAIN s, i < j PROVE <<s[i], s[j]>> \in Less
  <2>1. i \in 1..n /\ j \in 1..n
    BY <1>8
  <2>2. /\ s[i] \in S /\ rank[s[i]] = i /\ s[j] \in S /\ rank[s[j]] = j /\ s[i] # s[j]
        /\ ~(rank[s[j]] < rank[s[i]])
    BY <1>1, <1>7, <1>10, <2>1
  <2>3. <<s[j], s[i]>> \notin Less
    BY <1>3, <2>2
  <2>4. QED
    BY <2>2, <2>3
<1>11. QED
  BY <1>9, <1>10

(* What lists every element of a set once. *)
LEMMA OnceEach ==
  ASSUME NEW S, IsFiniteSet(S), NEW s \in SetToSeqs(S)
  PROVE  /\ Cardinality(S) \in Nat /\ IsList(s) /\ Len(s) = Cardinality(S)
         /\ DOMAIN s = 1..Cardinality(S) /\ \A i \in 1..Cardinality(S) : s[i] \in S
         /\ \A i, j \in 1..Cardinality(S) : s[i] = s[j] => i = j
         /\ \A a \in S : \E i \in 1..Cardinality(S) : s[i] = a
<1> DEFINE n == Cardinality(S)
<1>1. n \in Nat /\ IsFiniteSet(1..n) /\ Cardinality(1..n) = n
  <2>1. n \in Nat
    BY FS_CardinalityType
  <2>2. 1 \in Int /\ n \in Int
    BY <2>1
  <2>3. IsFiniteSet(1..n) /\ Cardinality(1..n) = IF 1 > n THEN 0 ELSE n - 1 + 1
    BY <2>2, FS_Interval
  <2>4. QED
    BY <2>1, <2>3
<1>2. s \in [1..n -> S] /\ \A i, j \in 1..n : s[i] = s[j] => i = j
  BY DEF SetToSeqs
<1> HIDE DEF n
<1>3. s \in Injection(1..n, S)
  BY <1>2 DEF Injection, IsInjective
<1>4. s \in Surjection(1..n, S)
  BY <1>1, <1>3, FS_Injection DEF n
<1>5. \A a \in S : \E i \in 1..n : s[i] = a
  BY <1>4 DEF Surjection
<1>6. s = [i \in 1..n |-> s[i]]
  BY <1>2
<1>7. IsList(s) /\ Len(s) = n
  BY <1>1, <1>6, ListOf
<1>8. QED
  BY <1>1, <1>2, <1>5, <1>7 DEF n

LEMMA SetToSeqList ==
  ASSUME NEW S, IsFiniteSet(S)
  PROVE  SetToSeq(S) \in SetToSeqs(S)
<1> DEFINE n == Cardinality(S)
<1>1. \E f \in [1..n -> S] : IsInjective(f)
  <2>1. PICK f : f \in Bijection(1..n, S)
    BY FS_NatBijection, FS_CountingElements DEF ExistsBijection
  <2>2. f \in [1..n -> S] /\ IsInjective(f)
    BY <2>1 DEF Bijection, Injection, IsInjective
  <2>3. QED
    BY <2>2
<1>2. SetToSeq(S) \in [1..n -> S] /\ IsInjective(SetToSeq(S))
  BY <1>1 DEF SetToSeq
<1>3. QED
  BY <1>2 DEF SetToSeqs, IsInjective

(***************************************************************************)
(* SortBy orders the places of a list by their numbers, each place once.   *)
(***************************************************************************)
LEMMA SortedPlaces ==
  ASSUME NEW s, IsList(s), NEW key, \A i \in DOMAIN s : key[i] \in Int
  PROVE  /\ Len(s) \in Nat /\ DOMAIN s = 1..Len(s)
         /\ IsList(SortBy(s, key)) /\ Len(SortBy(s, key)) = Len(s)
         /\ \E q : /\ \A k \in 1..Len(s) : q[k] \in 1..Len(s) /\ SortBy(s, key)[k] = s[q[k]]
                   /\ \A i \in 1..Len(s) : \E k \in 1..Len(s) : q[k] = i
                   /\ \A a, b \in 1..Len(s) : key[q[a]] < key[q[b]] => a < b
<1> DEFINE n == Len(s)
           I == 1..n
           Less == {p \in I \X I : key[p[1]] < key[p[2]] \/ (key[p[1]] = key[p[2]] /\ p[1] < p[2])}
           ahead(i) == {j \in DOMAIN s : key[j] < key[i] \/ (key[j] = key[i] /\ j < i)}
<1>1. n \in Nat /\ DOMAIN s = I /\ \A i \in I : key[i] \in Int
  BY ListFacts
<1>2. IsFiniteSet(I) /\ Cardinality(I) = n
  BY <1>1, FS_Interval, SMTT(30)
<1>3. \A a, b \in I : <<a, b>> \in Less <=> key[a] < key[b] \/ (key[a] = key[b] /\ a < b)
  OBVIOUS
<1>4. PICK q \in SetToSeqs(I) : \A a, b \in DOMAIN q : a < b => <<q[a], q[b]>> \in Less
  <2>1. \A a, b \in I : a # b => (<<a, b>> \in Less <=> <<b, a>> \notin Less)
    BY <1>1, <1>3
  <2>2. \A a \in I : <<a, a>> \notin Less
    BY <1>1, <1>3
  <2>3. \A a, b, c \in I : <<a, b>> \in Less /\ <<b, c>> \in Less => <<a, c>> \in Less
    BY <1>1, <1>3
  <2> HIDE DEF I, Less
  <2>4. QED
    BY <1>2, <2>1, <2>2, <2>3, SortedExists
<1>5. /\ IsList(q) /\ Len(q) = n /\ DOMAIN q = I
      /\ \A k \in I : q[k] \in I
      /\ \A a, b \in I : q[a] = q[b] => a = b
      /\ \A i \in I : \E k \in I : q[k] = i
  <2> HIDE DEF I
  <2>1. /\ Cardinality(I) \in Nat /\ IsList(q) /\ Len(q) = Cardinality(I)
        /\ DOMAIN q = 1..Cardinality(I) /\ (\A k \in 1..Cardinality(I) : q[k] \in I)
        /\ (\A a, b \in 1..Cardinality(I) : q[a] = q[b] => a = b)
        /\ \A i \in I : \E k \in 1..Cardinality(I) : q[k] = i
    BY <1>2, OnceEach
  <2>2. 1..Cardinality(I) = I
    BY <1>2 DEF I
  <2>3. QED
    BY <1>2, <2>1, <2>2
<1>6. \A a, b \in I : q[a] \in ahead(q[b]) <=> a < b
  <2> SUFFICES ASSUME NEW a \in I, NEW b \in I PROVE q[a] \in ahead(q[b]) <=> a < b
    OBVIOUS
  <2>1. q[a] \in I /\ q[b] \in I /\ key[q[a]] \in Int /\ key[q[b]] \in Int
    BY <1>1, <1>5
  <2>2. a < b => q[a] \in ahead(q[b])
    BY <1>1, <1>3, <1>4, <1>5, <2>1
  <2>3. b < a => q[b] \in ahead(q[a])
    BY <1>1, <1>3, <1>4, <1>5, <2>1
  <2>4. QED
    BY <1>1, <2>1, <2>2, <2>3
<1>7. ASSUME NEW k \in I PROVE Cardinality(ahead(q[k])) = k - 1
  <2> DEFINE c == [j \in 1..(k - 1) |-> q[j]]
  <2>1. k - 1 \in Nat /\ 1..(k - 1) \subseteq I /\ \A j \in I : j \in 1..(k - 1) <=> j < k
    BY <1>1
  <2>2. IsList(c) /\ Len(c) = k - 1
    BY <2>1, ListOf
  <2>3. \A i, j \in 1..Len(c) : c[i] = c[j] => i = j
    BY <1>5, <2>1, <2>2
  <2>4. Cardinality(Range(c)) = k - 1
    BY <2>2, <2>3, DistinctCount
  <2>5. Range(c) = {q[j] : j \in 1..(k - 1)}
    BY DEF Range
  <2>6. ahead(q[k]) = {q[j] : j \in 1..(k - 1)}
    <3>1. ASSUME NEW i \in ahead(q[k]) PROVE i \in {q[j] : j \in 1..(k - 1)}
      <4>1. i \in I
        BY <1>1
      <4>2. PICK j \in I : q[j] = i
        BY <1>5, <4>1
      <4>3. j \in 1..(k - 1)
        BY <1>6, <2>1, <4>2
      <4>4. QED
        BY <4>2, <4>3
    <3>2. \A j \in 1..(k - 1) : q[j] \in ahead(q[k])
      BY <1>6, <2>1
    <3> HIDE DEF ahead
    <3>3. QED
      BY <3>1, <3>2
  <2>7. QED
    BY <2>4, <2>5, <2>6
<1> DEFINE place(k) == CHOOSE i \in DOMAIN s : Cardinality(ahead(i)) = k - 1
<1>8. SortBy(s, key) = [k \in I |-> s[place(k)]]
  BY <1>1 DEF SortBy
<1>9. ASSUME NEW k \in I PROVE place(k) = q[k]
  <2> HIDE DEF ahead
  <2>1. \A i \in I : Cardinality(ahead(i)) = k - 1 => i = q[k]
    BY <1>1, <1>5, <1>7
  <2>2. q[k] \in I /\ Cardinality(ahead(q[k])) = k - 1
    BY <1>5, <1>7
  <2>3. QED
    BY <1>1, <2>1, <2>2
<1> HIDE DEF place
<1>10. SortBy(s, key) = [k \in 1..n |-> SortBy(s, key)[k]] /\ \A k \in I : SortBy(s, key)[k] = s[q[k]]
  BY <1>8, <1>9
<1>11. IsList(SortBy(s, key)) /\ Len(SortBy(s, key)) = n
  BY <1>1, <1>10, ListOf
<1>12. \A a, b \in I : key[q[a]] < key[q[b]] => a < b
  <2> SUFFICES ASSUME NEW a \in I, NEW b \in I, key[q[a]] < key[q[b]] PROVE a < b
    OBVIOUS
  <2>1. q[a] \in ahead(q[b])
    BY <1>1, <1>5
  <2>2. QED
    BY <1>6, <2>1
<1>13. QED
  BY <1>1, <1>5, <1>10, <1>11, <1>12

(* The elements of a sublist are those at the places kept. *)
LEMMA SublistRange ==
  ASSUME NEW s, IsList(s), NEW K \in SUBSET DOMAIN s
  PROVE  Range(Sublist(s, K)) = {s[i] : i \in K}
<1> DEFINE c == Sublist(s, K)
           n == Cardinality(K)
<1>1. DOMAIN c = 1..n /\ Range(c) = {c[k] : k \in 1..n}
  BY SublistPlaces DEF Range
<1>2. PICK p \in Bijection(1..n, K) : \A k \in 1..n : c[k] = s[p[k]]
  BY SublistPlaces
<1> HIDE DEF c, n
<1>3. (\A k \in 1..n : p[k] \in K) /\ \A i \in K : \E k \in 1..n : p[k] = i
  BY DEF Bijection, Injection, Surjection
<1>4. {c[k] : k \in 1..n} = {s[i] : i \in K}
  <2>1. \A k \in 1..n : c[k] \in {s[i] : i \in K}
    BY <1>2, <1>3
  <2>2. ASSUME NEW i \in K PROVE s[i] \in {c[k] : k \in 1..n}
    BY <1>2, <1>3
  <2>3. QED
    BY <2>1, <2>2
<1>5. QED
  BY <1>1, <1>4 DEF c

LEMMA SortedRange ==
  ASSUME NEW s, IsList(s), NEW key, \A i \in DOMAIN s : key[i] \in Int
  PROVE  Range(SortBy(s, key)) = Range(s)
<1> DEFINE n == Len(s)
<1>1. /\ DOMAIN s = 1..n /\ DOMAIN SortBy(s, key) = 1..n
      /\ \E q : /\ \A k \in 1..n : q[k] \in 1..n /\ SortBy(s, key)[k] = s[q[k]]
                /\ \A i \in 1..n : \E k \in 1..n : q[k] = i
  BY SortedPlaces, ListFacts
<1>2. PICK q : /\ \A k \in 1..n : q[k] \in 1..n /\ SortBy(s, key)[k] = s[q[k]]
               /\ \A i \in 1..n : \E k \in 1..n : q[k] = i
  BY <1>1
<1> HIDE DEF n
<1>3. ASSUME NEW k \in 1..n PROVE SortBy(s, key)[k] \in Range(s) /\ s[k] \in Range(SortBy(s, key))
  BY <1>1, <1>2 DEF Range
<1>4. Range(s) = {s[k] : k \in 1..n} /\ Range(SortBy(s, key)) = {SortBy(s, key)[k] : k \in 1..n}
  BY <1>1 DEF Range
<1>5. QED
  BY <1>3, <1>4
=============================================================================
