------------------------------ MODULE FiniteSums ------------------------------
(***************************************************************************)
(* Induction over numbers and finite sets, stated for sets of them,        *)
(* recursion along the numbers, and what the counters of the models need   *)
(* to know of sums over finite sets (MapThenSumSet of the community        *)
(* modules).                                                               *)
(***************************************************************************)
EXTENDS Integers, FiniteSetsExt, FiniteSetTheorems, WellFoundedInduction, TLAPS

\* A set of numbers that is not empty has a least one.
LEMMA Least ==
  ASSUME NEW T \in SUBSET Nat, T # {}
  PROVE  \E x \in T : \A y \in T : x <= y
<1>1. PICK x \in T : \A y \in T : ~ (<<y, x>> \in OpToRel(<, Nat))
  BY NatLessThanWellFounded, WFMin
<1>2. ASSUME NEW y \in T, y < x PROVE FALSE
  <2>1. <<y, x>> \in Nat \X Nat
    OBVIOUS
  <2>2. <<y, x>> \in OpToRel(<, Nat)
    BY <1>2, <2>1 DEF OpToRel
  <2> QED BY <2>2, <1>1
<1>3. \A y \in T : y \in Nat /\ x \in Nat
  OBVIOUS
<1> QED BY <1>2, <1>3

\* A set of numbers with 0, and with n + 1 if it has n, has all of them.
LEMMA AllNumbers ==
  ASSUME NEW F, 0 \in F, \A n \in Nat : n \in F => n + 1 \in F
  PROVE  Nat \subseteq F
<1> SUFFICES ASSUME Nat \ F # {} PROVE FALSE
  OBVIOUS
<1>1. PICK x \in Nat \ F : \A y \in Nat \ F : x <= y
  BY Least
<1>2. x # 0
  OBVIOUS
<1>3. x - 1 \in Nat /\ (x - 1) + 1 = x /\ ~ (x <= x - 1)
  BY <1>2
<1>4. x - 1 \in F
  BY <1>1, <1>3
<1> QED BY <1>3, <1>4

\* A family of sets with {}, and with T and one more member of S if it has T, has S.
LEMMA SetInduction ==
  ASSUME NEW S, IsFiniteSet(S), NEW F, {} \in F,
         \A T \in SUBSET S : \A x \in S \ T : T \in F => T \cup {x} \in F
  PROVE  S \in F
<1> DEFINE N == {n \in Nat : \A T \in SUBSET S : Cardinality(T) = n => T \in F}
<1>1. \A T \in SUBSET S : IsFiniteSet(T) /\ Cardinality(T) \in Nat
  BY FS_Subset, FS_CardinalityType
<1>2. 0 \in N
  BY <1>1, FS_EmptySet
<1>3. ASSUME NEW n \in Nat, n \in N PROVE n + 1 \in N
  <2> SUFFICES ASSUME NEW T \in SUBSET S, Cardinality(T) = n + 1 PROVE T \in F
    OBVIOUS
  <2>1. T # {}
    <3> SUFFICES ASSUME T = {} PROVE FALSE
      OBVIOUS
    <3>1. Cardinality(T) = 0
      BY FS_EmptySet
    <3> QED BY <3>1
  <2>2. PICK x \in T : TRUE
    BY <2>1
  <2>3. Cardinality(T \ {x}) = n
    <3>1. Cardinality(T \ {x}) = Cardinality(T) - 1
      BY <1>1, <2>2, FS_RemoveElement
    <3> QED BY <3>1
  <2>4. T \ {x} \in SUBSET S /\ x \in S \ (T \ {x}) /\ (T \ {x}) \cup {x} = T
    BY <2>2
  <2>5. T \ {x} \in F
    BY <1>3, <2>3, <2>4
  <2> HIDE DEF N
  <2> QED BY <2>4, <2>5
<1>4. Nat \subseteq N
  <2> HIDE DEF N
  <2> QED BY <1>2, <1>3, AllNumbers
<1>5. Cardinality(S) \in N
  BY <1>1, <1>4
<1> QED BY <1>5

-----------------------------------------------------------------------------
\* Recursion along the numbers: each value is made from the one before it.

Iterated(g, G, a, n) ==
  g = [k \in 0 .. n |-> IF k = 0 THEN a ELSE G[<<k, g[k - 1]>>]]

\* A recursive definition along the numbers has a solution, with values where its
\* steps lead.
LEMMA IteratedExists ==
  ASSUME NEW V, NEW n \in Nat, NEW a \in V, NEW G \in [(1 .. n) \X V -> V]
  PROVE  \E g \in [0 .. n -> V] : Iterated(g, G, a, n)
<1> DEFINE F == {m \in Nat : m <= n => \E g \in [0 .. m -> V] : Iterated(g, G, a, m)}
<1>1. 0 \in F
  <2> DEFINE g == [k \in 0 .. 0 |-> a]
  <2>1. g \in [0 .. 0 -> V] /\ \A k \in 0 .. 0 : k = 0
    OBVIOUS
  <2>2. g = [k \in 0 .. 0 |-> IF k = 0 THEN a ELSE G[<<k, g[k - 1]>>]]
    BY <2>1
  <2> HIDE DEF g
  <2> QED BY <2>1, <2>2 DEF Iterated
<1>2. ASSUME NEW m \in Nat, m \in F PROVE m + 1 \in F
  <2> SUFFICES ASSUME m + 1 <= n
               PROVE  \E g \in [0 .. m + 1 -> V] : Iterated(g, G, a, m + 1)
    OBVIOUS
  <2>1. PICK f \in [0 .. m -> V] : Iterated(f, G, a, m)
    BY <1>2
  <2> DEFINE last == G[<<m + 1, f[m]>>]
             g == [k \in 0 .. m + 1 |-> IF k = m + 1 THEN last ELSE f[k]]
  <2>2. last \in V
    <3>1. m + 1 \in 1 .. n /\ f[m] \in V
      OBVIOUS
    <3> QED BY <3>1
  <2>3. \A k \in 0 .. m : f[k] = IF k = 0 THEN a ELSE G[<<k, f[k - 1]>>]
    BY <2>1, Zenon DEF Iterated
  <2> HIDE DEF last
  <2>4. g \in [0 .. m + 1 -> V] /\ g[m + 1] = last /\ \A k \in 0 .. m : g[k] = f[k]
    BY <2>2
  <2>5. g = [k \in 0 .. m + 1 |-> g[k]]
    OBVIOUS
  <2> HIDE DEF g
  <2>6. ASSUME NEW k \in 0 .. m + 1 PROVE g[k] = IF k = 0 THEN a ELSE G[<<k, g[k - 1]>>]
    <3>1. CASE k = m + 1
      <4>1. k # 0 /\ k - 1 = m /\ m \in 0 .. m
        BY <3>1
      <4>2. g[k - 1] = f[m]
        BY <2>4, <4>1
      <4> QED BY <2>4, <3>1, <4>1, <4>2 DEF last
    <3>2. CASE k # m + 1 /\ k = 0
      <4>1. 0 \in 0 .. m
        OBVIOUS
      <4> QED BY <2>3, <2>4, <3>2, <4>1
    <3>3. CASE k # m + 1 /\ k # 0
      <4>1. k \in 0 .. m /\ k - 1 \in 0 .. m
        BY <3>3
      <4>2. g[k] = f[k] /\ g[k - 1] = f[k - 1]
        BY <2>4, <4>1
      <4>3. f[k] = G[<<k, f[k - 1]>>]
        BY <2>3, <3>3, <4>1
      <4> QED BY <3>3, <4>2, <4>3
    <3> QED BY <3>1, <3>2, <3>3
  <2>7. Iterated(g, G, a, m + 1)
    <3>1. g = [k \in 0 .. m + 1 |-> IF k = 0 THEN a ELSE G[<<k, g[k - 1]>>]]
      BY <2>5, <2>6, Zenon
    <3> QED BY <3>1 DEF Iterated
  <2> QED BY <2>4, <2>7
<1>3. n \in F
  <2> HIDE DEF F
  <2> QED BY <1>1, <1>2, AllNumbers
<1> QED BY <1>3

\* What holds at the start, and after each step if before it, holds all along.
LEMMA StaysIn ==
  ASSUME NEW V, NEW n \in Nat, NEW g, g[0] \in V,
         \A k \in 1 .. n : g[k - 1] \in V => g[k] \in V
  PROVE  \A k \in 0 .. n : g[k] \in V
<1> DEFINE F == {m \in Nat : m <= n => g[m] \in V}
<1>1. 0 \in F
  OBVIOUS
<1>2. ASSUME NEW m \in Nat, m \in F PROVE m + 1 \in F
  <2> SUFFICES ASSUME m + 1 <= n PROVE g[m + 1] \in V
    OBVIOUS
  <2>1. m + 1 \in 1 .. n /\ (m + 1) - 1 = m /\ g[m] \in V
    BY <1>2
  <2> QED BY <2>1
<1>3. Nat \subseteq F
  <2> HIDE DEF F
  <2> QED BY <1>1, <1>2, AllNumbers
<1>4. ASSUME NEW k \in 0 .. n PROVE g[k] \in V
  <2>1. k \in Nat /\ k <= n
    OBVIOUS
  <2>2. k \in F
    BY <1>3, <2>1
  <2> QED BY <2>1, <2>2
<1> QED BY <1>4

-----------------------------------------------------------------------------
\* The sum of what f gives for the members of its domain.

Pick(T) == CHOOSE x \in T : TRUE

\* g gives the sum over each set in D, a family of subsets of f's domain.
Sums(g, f, D) ==
  g = [T \in D |-> IF T = {} THEN 0 ELSE f[Pick(T)] + g[T \ {Pick(T)}]]

SumOf(f) == (CHOOSE g : Sums(g, f, SUBSET DOMAIN f))[DOMAIN f]

\* The sums over all subsets of a finite set exist.
LEMMA SumsExist ==
  ASSUME NEW S, IsFiniteSet(S), NEW f
  PROVE  \E g : Sums(g, f, SUBSET S)
<1> DEFINE D(n) == {T \in SUBSET S : Cardinality(T) <= n}
           N == {n \in Nat : \E g : Sums(g, f, D(n))}
<1>1. \A T \in SUBSET S : IsFiniteSet(T) /\ Cardinality(T) \in Nat
  BY FS_Subset, FS_CardinalityType
<1>2. 0 \in N
  <2> DEFINE g == [T \in D(0) |-> 0]
  <2>1. \A T \in D(0) : T = {}
    <3> SUFFICES ASSUME NEW T \in SUBSET S, Cardinality(T) <= 0 PROVE T = {}
      OBVIOUS
    <3>1. Cardinality(T) = 0
      BY <1>1
    <3> QED BY <1>1, <3>1, FS_EmptySet
  <2>2. g = [T \in D(0) |-> IF T = {} THEN 0 ELSE f[Pick(T)] + g[T \ {Pick(T)}]]
    <3> HIDE DEF D
    <3> QED BY <2>1
  <2> QED BY <2>2 DEF Sums
<1>3. ASSUME NEW n \in Nat, n \in N PROVE n + 1 \in N
  <2>1. PICK g : Sums(g, f, D(n))
    BY <1>3
  <2> DEFINE body(h, T) == IF T = {} THEN 0 ELSE f[Pick(T)] + h[T \ {Pick(T)}]
             h == [T \in D(n + 1) |-> body(g, T)]
  <2>2. ASSUME NEW T \in D(n + 1), T # {} PROVE T \ {Pick(T)} \in D(n) /\ T \ {Pick(T)} \in D(n + 1)
    <3>1. Pick(T) \in T
      BY <2>2 DEF Pick
    <3>2. Cardinality(T \ {Pick(T)}) = Cardinality(T) - 1
      BY <1>1, <3>1, FS_RemoveElement
    <3>3. Cardinality(T) \in Nat /\ Cardinality(T) <= n + 1
      BY <1>1
    <3>4. Cardinality(T) - 1 <= n /\ Cardinality(T) - 1 <= n + 1
      BY <3>3
    <3> QED BY <3>2, <3>4
  <2>3. \A T \in D(n) : T \in D(n + 1)
    <3> SUFFICES ASSUME NEW T \in D(n) PROVE Cardinality(T) <= n + 1
      OBVIOUS
    <3>1. Cardinality(T) \in Nat /\ Cardinality(T) <= n
      BY <1>1
    <3> QED BY <3>1
  <2> HIDE DEF D
  <2>4. \A T \in D(n) : g[T] = body(g, T)
    BY <2>1 DEF Sums
  <2>5. \A T \in D(n) : h[T] = g[T]
    BY <2>3, <2>4
  <2>6. \A T \in D(n + 1) : body(g, T) = body(h, T)
    <3> SUFFICES ASSUME NEW T \in D(n + 1), T # {} PROVE g[T \ {Pick(T)}] = h[T \ {Pick(T)}]
      OBVIOUS
    <3> QED BY <2>2, <2>5
  <2>7. h = [T \in D(n + 1) |-> body(h, T)]
    BY <2>6
  <2>8. Sums(h, f, D(n + 1))
    BY <2>7 DEF Sums
  <2> QED BY <2>8
<1>4. Nat \subseteq N
  <2> HIDE DEF N
  <2> QED BY <1>2, <1>3, AllNumbers
<1>5. Cardinality(S) \in N
  <2> HIDE DEF N
  <2> QED BY <1>1, <1>4
<1>6. D(Cardinality(S)) = SUBSET S
  <2>1. \A T \in SUBSET S : Cardinality(T) <= Cardinality(S)
    BY FS_Subset
  <2> QED BY <2>1
<1> QED BY <1>5, <1>6

\* A sum of integers is an integer.
LEMMA SumType ==
  ASSUME NEW S, IsFiniteSet(S), NEW f \in [S -> Int], NEW g, Sums(g, f, SUBSET S)
  PROVE  \A T \in SUBSET S : g[T] \in Int
<1> DEFINE N == {n \in Nat : \A T \in SUBSET S : Cardinality(T) = n => g[T] \in Int}
<1>1. \A T \in SUBSET S : IsFiniteSet(T) /\ Cardinality(T) \in Nat
  BY FS_Subset, FS_CardinalityType
<1>2. \A T \in SUBSET S : g[T] = IF T = {} THEN 0 ELSE f[Pick(T)] + g[T \ {Pick(T)}]
  BY DEF Sums
<1>3. 0 \in N
  <2> SUFFICES ASSUME NEW T \in SUBSET S, Cardinality(T) = 0 PROVE g[T] \in Int
    OBVIOUS
  <2>1. T = {}
    BY <1>1, FS_EmptySet
  <2>2. g[T] = 0
    BY <1>2, <2>1
  <2> QED BY <2>2
<1>4. ASSUME NEW n \in Nat, n \in N PROVE n + 1 \in N
  <2> SUFFICES ASSUME NEW T \in SUBSET S, Cardinality(T) = n + 1 PROVE g[T] \in Int
    OBVIOUS
  <2>1. T # {}
    <3> SUFFICES ASSUME T = {} PROVE FALSE
      OBVIOUS
    <3>1. Cardinality(T) = 0
      BY FS_EmptySet
    <3> QED BY <3>1
  <2>2. Pick(T) \in T
    BY <2>1 DEF Pick
  <2>3. Cardinality(T \ {Pick(T)}) = Cardinality(T) - 1
    BY <1>1, <2>2, FS_RemoveElement
  <2>4. Cardinality(T \ {Pick(T)}) = n /\ T \ {Pick(T)} \in SUBSET S
    BY <2>3
  <2>5. g[T \ {Pick(T)}] \in Int /\ f[Pick(T)] \in Int
    BY <1>4, <2>2, <2>4
  <2>6. g[T] = f[Pick(T)] + g[T \ {Pick(T)}]
    BY <1>2, <2>1
  <2> QED BY <2>5, <2>6
<1>5. Nat \subseteq N
  <2> HIDE DEF N
  <2> QED BY <1>3, <1>4, AllNumbers
<1> QED BY <1>1, <1>5

\* Any member may be the one that is added last.
Splits(g, f, S) == \A T \in SUBSET S : \A x \in T : g[T] = f[x] + g[T \ {x}]

LEMMA SumSplit ==
  ASSUME NEW S, IsFiniteSet(S), NEW f \in [S -> Int], NEW g, Sums(g, f, SUBSET S)
  PROVE  g[{}] = 0 /\ Splits(g, f, S)
<1> DEFINE N == {n \in Nat : \A T \in SUBSET S : Cardinality(T) = n =>
                   \A x \in T : g[T] = f[x] + g[T \ {x}]}
<1>1. \A T \in SUBSET S : IsFiniteSet(T) /\ Cardinality(T) \in Nat
  BY FS_Subset, FS_CardinalityType
<1>2. \A T \in SUBSET S : g[T] = IF T = {} THEN 0 ELSE f[Pick(T)] + g[T \ {Pick(T)}]
  BY DEF Sums
<1>3. \A T \in SUBSET S : \A x \in T : Cardinality(T \ {x}) = Cardinality(T) - 1
  BY <1>1, FS_RemoveElement
<1>4. 0 \in N
  <2> SUFFICES ASSUME NEW T \in SUBSET S, Cardinality(T) = 0 PROVE T = {}
    OBVIOUS
  <2> QED BY <1>1, FS_EmptySet
<1>5. ASSUME NEW n \in Nat, n \in N PROVE n + 1 \in N
  <2> SUFFICES ASSUME NEW T \in SUBSET S, Cardinality(T) = n + 1, NEW x \in T
               PROVE  g[T] = f[x] + g[T \ {x}]
    OBVIOUS
  <2>1. PICK c \in T : g[T] = f[c] + g[T \ {c}]
    <3>1. Pick(T) \in T
      BY DEF Pick
    <3> QED BY <1>2, <3>1
  <2>2. CASE x = c
    BY <2>1, <2>2
  <2>3. CASE x # c
    <3>1. /\ Cardinality(T \ {x}) = n /\ T \ {x} \in SUBSET S /\ c \in T \ {x}
          /\ Cardinality(T \ {c}) = n /\ T \ {c} \in SUBSET S /\ x \in T \ {c}
      <4>1. Cardinality(T \ {x}) = Cardinality(T) - 1 /\ Cardinality(T \ {c}) = Cardinality(T) - 1
        BY <1>3
      <4> QED BY <2>3, <4>1
    <3>2. g[T \ {c}] = f[x] + g[(T \ {c}) \ {x}]
      BY <1>5, <3>1
    <3>3. g[T \ {x}] = f[c] + g[(T \ {x}) \ {c}]
      BY <1>5, <3>1
    <3>4. (T \ {x}) \ {c} = (T \ {c}) \ {x}
      OBVIOUS
    <3>5. PICK z \in Int : z = g[(T \ {c}) \ {x}]
      BY SumType
    <3>6. PICK a \in Int, b \in Int : a = f[x] /\ b = f[c]
      OBVIOUS
    <3>7. g[T \ {c}] = a + z /\ g[T \ {x}] = b + z
      BY <3>2, <3>3, <3>4, <3>5, <3>6
    <3>8. g[T] = b + (a + z)
      BY <2>1, <3>6, <3>7
    <3>9. f[x] + g[T \ {x}] = a + (b + z)
      BY <3>6, <3>7
    <3> QED BY <3>8, <3>9
  <2> QED BY <2>2, <2>3
<1>6. Nat \subseteq N
  <2> HIDE DEF N
  <2> QED BY <1>4, <1>5, AllNumbers
<1>7. \A T \in SUBSET S : \A x \in T : g[T] = f[x] + g[T \ {x}]
  BY <1>1, <1>6
<1> QED BY <1>2, <1>7 DEF Splits

\* What SumOf is, for a finite domain.
LEMMA SumIs ==
  ASSUME NEW S, IsFiniteSet(S), NEW f \in [S -> Int]
  PROVE  \E g : Sums(g, f, SUBSET S) /\ SumOf(f) = g[S]
<1> DEFINE g == CHOOSE h : Sums(h, f, SUBSET DOMAIN f)
<1>1. DOMAIN f = S
  OBVIOUS
<1>2. \E h : Sums(h, f, SUBSET DOMAIN f)
  BY <1>1, SumsExist
<1>3. Sums(g, f, SUBSET DOMAIN f)
  BY <1>2
<1>4. SumOf(f) = g[S]
  BY <1>1 DEF SumOf
<1> QED BY <1>1, <1>3, <1>4

\* Sums of functions that agree on a set agree on it.
LEMMA SumsAgree ==
  ASSUME NEW S, NEW E, IsFiniteSet(S), IsFiniteSet(E),
         NEW f \in [S -> Int], NEW h \in [E -> Int], NEW g, NEW k,
         Sums(g, f, SUBSET S), Sums(k, h, SUBSET E),
         NEW R \in SUBSET (S \cap E), \A x \in R : f[x] = h[x]
  PROVE  g[R] = k[R]
<1> DEFINE F == {T \in SUBSET R : g[T] = k[T]}
<1>1. g[{}] = 0 /\ k[{}] = 0
  BY SumSplit
<1>2. {} \in F
  BY <1>1
<1>3. ASSUME NEW T \in SUBSET R, NEW x \in R \ T, T \in F PROVE T \cup {x} \in F
  <2>1. T \cup {x} \in SUBSET S /\ T \cup {x} \in SUBSET E /\ (T \cup {x}) \ {x} = T
    OBVIOUS
  <2>2. g[T \cup {x}] = f[x] + g[T]
    BY <2>1, SumSplit DEF Splits
  <2>3. k[T \cup {x}] = h[x] + k[T]
    BY <2>1, SumSplit DEF Splits
  <2> QED BY <1>3, <2>2, <2>3
<1>4. IsFiniteSet(R)
  BY FS_Subset
<1>5. R \in F
  <2> HIDE DEF F
  <2> QED BY <1>2, <1>3, <1>4, SetInduction
<1> QED BY <1>5

\* A total that changes in one place.
LEMMA SumChange ==
  ASSUME NEW S, IsFiniteSet(S), NEW f \in [S -> Int], NEW h \in [S -> Int], NEW x \in S,
         \A y \in S \ {x} : f[y] = h[y]
  PROVE  SumOf(f) \in Int /\ SumOf(h) \in Int /\ SumOf(h) = (SumOf(f) + h[x]) - f[x]
<1>1. PICK g : Sums(g, f, SUBSET S) /\ SumOf(f) = g[S]
  BY SumIs
<1>2. PICK k : Sums(k, h, SUBSET S) /\ SumOf(h) = k[S]
  BY SumIs
<1>3. g[S \ {x}] = k[S \ {x}]
  BY <1>1, <1>2, SumsAgree
<1>4. g[S] = f[x] + g[S \ {x}] /\ k[S] = h[x] + k[S \ {x}]
  <2>1. Splits(g, f, S) /\ Splits(k, h, S)
    BY <1>1, <1>2, SumSplit
  <2> QED BY <2>1 DEF Splits
<1>5. PICK z \in Int : z = g[S \ {x}]
  BY <1>1, SumType
<1>6. PICK a \in Int, b \in Int : a = f[x] /\ b = h[x]
  OBVIOUS
<1>7. SumOf(f) = a + z /\ SumOf(h) = b + z
  BY <1>1, <1>2, <1>3, <1>4, <1>5, <1>6
<1> QED BY <1>5, <1>6, <1>7

\* f has the terms of h and one more, at x.
RaisedAt(S, f, x, h) ==
  /\ IsFiniteSet(S) /\ x \in S /\ f \in [S -> Int] /\ h \in [S \ {x} -> Int]
  /\ \A y \in S \ {x} : f[y] = h[y]

\* A total with one more term.
LEMMA SumMore ==
  ASSUME NEW S, NEW f, NEW x, NEW h, RaisedAt(S, f, x, h)
  PROVE  SumOf(h) \in Int /\ SumOf(f) = SumOf(h) + f[x]
<1> DEFINE E == S \ {x}
<1> USE DEF RaisedAt
<1>1. PICK g : Sums(g, f, SUBSET S) /\ SumOf(f) = g[S]
  BY SumIs
<1>2. /\ IsFiniteSet(S) /\ f \in [S -> Int]
      /\ IsFiniteSet(E) /\ E \in SUBSET S /\ E \in SUBSET (S \cap E) /\ h \in [E -> Int]
      /\ \A y \in E : f[y] = h[y]
  BY FS_Subset
<1>3. x \in S /\ E = S \ {x}
  OBVIOUS
<1> HIDE DEF E, RaisedAt
<1>4. PICK k : Sums(k, h, SUBSET E) /\ SumOf(h) = k[E]
  BY <1>2, SumIs
<1>5. g[E] = k[E]
  BY <1>1, <1>2, <1>4, SumsAgree
<1>6. g[S] = f[x] + g[E]
  <2>1. Splits(g, f, S)
    BY <1>1, <1>2, SumSplit
  <2> QED BY <1>3, <2>1 DEF Splits
<1>7. PICK y \in Int, z \in Int : y = f[x] /\ z = k[E]
  BY <1>2, <1>3, <1>4, SumType
<1> QED BY <1>1, <1>4, <1>5, <1>6, <1>7

\* A total of natural numbers is at least each of them.
LEMMA SumOfNats ==
  ASSUME NEW S, IsFiniteSet(S), NEW f \in [S -> Nat]
  PROVE  SumOf(f) \in Nat /\ \A x \in S : f[x] <= SumOf(f)
<1>1. f \in [S -> Int]
  OBVIOUS
<1>2. PICK g : Sums(g, f, SUBSET S) /\ SumOf(f) = g[S]
  BY <1>1, SumIs
<1>7. Splits(g, f, S)
  BY <1>1, <1>2, SumSplit
<1> DEFINE F == {T \in SUBSET S : g[T] \in Nat}
<1>3. {} \in F
  BY <1>1, <1>2, SumSplit
<1>4. ASSUME NEW T \in SUBSET S, NEW x \in S \ T, T \in F PROVE T \cup {x} \in F
  <2>1. T \cup {x} \in SUBSET S /\ (T \cup {x}) \ {x} = T
    OBVIOUS
  <2>2. g[T \cup {x}] = f[x] + g[T]
    BY <1>7, <2>1 DEF Splits
  <2> QED BY <1>4, <2>2
<1>5. \A T \in SUBSET S : g[T] \in Nat
  <2> SUFFICES ASSUME NEW R \in SUBSET S PROVE R \in F
    OBVIOUS
  <2>1. IsFiniteSet(R)
    BY FS_Subset
  <2>2. \A T \in SUBSET R : \A x \in R \ T : T \in F => T \cup {x} \in F
    BY <1>4
  <2> HIDE DEF F
  <2> QED BY <1>3, <2>1, <2>2, SetInduction
<1>6. ASSUME NEW x \in S PROVE f[x] <= g[S]
  <2>1. g[S] = f[x] + g[S \ {x}]
    BY <1>7 DEF Splits
  <2>2. PICK a \in Nat, z \in Nat : a = f[x] /\ z = g[S \ {x}]
    BY <1>5
  <2> QED BY <2>1, <2>2
<1> QED BY <1>2, <1>5, <1>6

\* What is zero outside a set adds nothing.
LEMMA SumWithin ==
  ASSUME NEW E, IsFiniteSet(E), NEW S \in SUBSET E, NEW f \in [E -> Int],
         NEW h \in [S -> Int], \A x \in S : h[x] = f[x], \A x \in E \ S : f[x] = 0
  PROVE  SumOf(f) = SumOf(h)
<1>1. IsFiniteSet(S)
  BY FS_Subset
<1>2. PICK g : Sums(g, f, SUBSET E) /\ SumOf(f) = g[E]
  BY SumIs
<1>3. PICK k : Sums(k, h, SUBSET S) /\ SumOf(h) = k[S]
  BY <1>1, SumIs
<1>4. g[S] = k[S]
  BY <1>1, <1>2, <1>3, SumsAgree
<1>9. Splits(g, f, E)
  BY <1>2, SumSplit
<1> DEFINE F == {T \in SUBSET E : g[T] = g[T \cap S]}
<1>5. {} \in F
  <2>1. {} \cap S = {}
    OBVIOUS
  <2> QED BY <2>1
<1>6. ASSUME NEW T \in SUBSET E, NEW x \in E \ T, T \in F PROVE T \cup {x} \in F
  <2>1. T \cup {x} \in SUBSET E /\ (T \cup {x}) \ {x} = T
    OBVIOUS
  <2>2. g[T \cup {x}] = f[x] + g[T]
    BY <1>9, <2>1 DEF Splits
  <2>3. CASE x \in S
    <3>1. (T \cup {x}) \cap S \in SUBSET E /\ x \in (T \cup {x}) \cap S
          /\ ((T \cup {x}) \cap S) \ {x} = T \cap S
      BY <2>3
    <3>2. g[(T \cup {x}) \cap S] = f[x] + g[T \cap S]
      BY <1>9, <3>1 DEF Splits
    <3> QED BY <1>6, <2>2, <3>2
  <2>4. CASE x \notin S
    <3>1. (T \cup {x}) \cap S = T \cap S /\ f[x] = 0
      BY <2>4
    <3>2. g[T] \in Int
      BY <1>2, SumType
    <3> QED BY <1>6, <2>2, <3>1, <3>2
  <2> QED BY <2>3, <2>4
<1>7. E \in F
  <2> HIDE DEF F
  <2> QED BY <1>5, <1>6, SetInduction
<1>8. E \cap S = S
  OBVIOUS
<1> QED BY <1>2, <1>3, <1>4, <1>7, <1>8

\* A total of zeros.
LEMMA SumOfZeros ==
  ASSUME NEW S, IsFiniteSet(S), NEW f, f = [x \in S |-> 0]
  PROVE  SumOf(f) = 0
<1>1. f \in [S -> Int]
  OBVIOUS
<1>2. PICK E : E = {}
  OBVIOUS
<1>3. PICK h : h = [x \in E |-> 0]
  OBVIOUS
<1>4. h \in [E -> Int] /\ E \in SUBSET S /\ IsFiniteSet(E)
  BY <1>2, <1>3, FS_EmptySet
<1>5. SumOf(f) = SumOf(h)
  <2>1. \A x \in E : h[x] = f[x]
    BY <1>2
  <2>2. \A x \in S \ E : f[x] = 0
    OBVIOUS
  <2> QED BY <1>1, <1>4, <2>1, <2>2, SumWithin
<1>6. PICK g : Sums(g, h, SUBSET E) /\ SumOf(h) = g[E]
  BY <1>4, SumIs
<1>7. g[E] = 0
  BY <1>2, <1>4, <1>6, SumSplit
<1> QED BY <1>5, <1>6, <1>7

-----------------------------------------------------------------------------
\* Sums of sequences of numbers.

\* The total of what follows something is added to the total of that.
Joined(n, a, m, b, c) ==
  /\ a \in [1 .. n -> Int] /\ b \in [1 .. m -> Int] /\ c \in [1 .. n + m -> Int]
  /\ \A i \in 1 .. n : c[i] = a[i]
  /\ \A i \in 1 .. m : c[n + i] = b[i]

LEMMA SumOfJoined ==
  ASSUME NEW n \in Nat, NEW a, NEW m \in Nat, NEW b, NEW c, Joined(n, a, m, b, c)
  PROVE  SumOf(a) \in Int /\ SumOf(b) \in Int /\ SumOf(c) = SumOf(a) + SumOf(b)
<1> DEFINE P(k, d, e) == SumOf(a) \in Int /\ SumOf(d) \in Int /\ SumOf(e) = SumOf(a) + SumOf(d)
           N == {k \in Nat : \A d, e : Joined(n, a, k, d, e) => P(k, d, e)}
<1>1. a \in [1 .. n -> Int]
  BY DEF Joined
<1>2. SumOf(a) \in Int
  <2>1. PICK S : S = 1 .. n
    OBVIOUS
  <2>2. IsFiniteSet(S) /\ a \in [S -> Int]
    BY <1>1, <2>1, FS_Interval
  <2>3. PICK g : Sums(g, a, SUBSET S) /\ SumOf(a) = g[S]
    BY <2>2, SumIs
  <2>4. S \in SUBSET S
    OBVIOUS
  <2> QED BY <2>2, <2>3, <2>4, SumType
<1>3. 0 \in N
  <2> SUFFICES ASSUME NEW d, NEW e, Joined(n, a, 0, d, e) PROVE P(0, d, e)
    OBVIOUS
  <2>1. e = a
    BY DEF Joined
  <2>2. d = [i \in {} |-> 0]
    BY DEF Joined
  <2>3. SumOf(d) = 0
    BY <2>2, FS_EmptySet, SumOfZeros
  <2> QED BY <1>2, <2>1, <2>3
<1>4. ASSUME NEW k \in Nat, k \in N PROVE k + 1 \in N
  <2> SUFFICES ASSUME NEW d, NEW e, Joined(n, a, k + 1, d, e) PROVE P(k + 1, d, e)
    OBVIOUS
  <2> DEFINE d0 == [i \in 1 .. k |-> d[i]]
             e0 == [i \in 1 .. n + k |-> e[i]]
  <2>1. Joined(n, a, k, d0, e0)
    BY DEF Joined
  <2>2. P(k, d0, e0)
    BY <1>4, <2>1
  <2>3. RaisedAt(1 .. k + 1, d, k + 1, d0)
    <3>1. (1 .. k + 1) \ {k + 1} = 1 .. k /\ k + 1 \in 1 .. k + 1
      OBVIOUS
    <3>2. d \in [1 .. k + 1 -> Int] /\ d0 \in [1 .. k -> Int] /\ \A y \in 1 .. k : d[y] = d0[y]
      BY DEF Joined
    <3>3. IsFiniteSet(1 .. k + 1)
      BY FS_Interval
    <3> HIDE DEF d0
    <3> QED BY <3>1, <3>2, <3>3 DEF RaisedAt
  <2>4. RaisedAt(1 .. n + k + 1, e, n + k + 1, e0)
    <3>1. (1 .. n + k + 1) \ {n + k + 1} = 1 .. n + k /\ n + k + 1 \in 1 .. n + k + 1
      OBVIOUS
    <3>2. e \in [1 .. n + k + 1 -> Int] /\ e0 \in [1 .. n + k -> Int]
          /\ \A y \in 1 .. n + k : e[y] = e0[y]
      BY DEF Joined
    <3>3. IsFiniteSet(1 .. n + k + 1)
      BY FS_Interval
    <3> HIDE DEF e0
    <3> QED BY <3>1, <3>2, <3>3 DEF RaisedAt
  <2>5. SumOf(d) = SumOf(d0) + d[k + 1] /\ SumOf(e) = SumOf(e0) + e[n + k + 1]
    BY <2>3, <2>4, SumMore
  <2>6. e[n + k + 1] = d[k + 1] /\ d[k + 1] \in Int
    BY DEF Joined
  <2> QED BY <1>2, <2>2, <2>5, <2>6
<1>5. m \in N
  <2> HIDE DEF N
  <2> QED BY <1>3, <1>4, AllNumbers
<1> QED BY <1>5

\* The total of a sequence of the same number.
LEMMA SumOfSame ==
  ASSUME NEW n \in Nat, NEW w \in Int
  PROVE  SumOf([i \in 1 .. n |-> w]) = w * n
<1> DEFINE S(k) == [i \in 1 .. k |-> w]
           N == {k \in Nat : SumOf(S(k)) = w * k}
<1>1. 0 \in N
  <2>1. S(0) = [i \in {} |-> 0]
    OBVIOUS
  <2>2. SumOf(S(0)) = 0
    BY <2>1, FS_EmptySet, SumOfZeros
  <2> QED BY <2>2
<1>2. ASSUME NEW k \in Nat, k \in N PROVE k + 1 \in N
  <2>1. RaisedAt(1 .. k + 1, S(k + 1), k + 1, S(k))
    <3>1. (1 .. k + 1) \ {k + 1} = 1 .. k /\ k + 1 \in 1 .. k + 1
      OBVIOUS
    <3>2. IsFiniteSet(1 .. k + 1)
      BY FS_Interval
    <3> QED BY <3>1, <3>2 DEF RaisedAt
  <2>2. SumOf(S(k + 1)) = SumOf(S(k)) + S(k + 1)[k + 1] /\ S(k + 1)[k + 1] = w
    BY <2>1, SumMore
  <2>3. SumOf(S(k)) = w * k
    BY <1>2
  <2>4. w * (k + 1) = w * k + w /\ w * k \in Int
    OBVIOUS
  <2> HIDE DEF S
  <2> QED BY <2>2, <2>3, <2>4
<1>3. n \in N
  <2> HIDE DEF N
  <2> QED BY <1>1, <1>2, AllNumbers
<1> QED BY <1>3

=============================================================================
