--------------------------- MODULE NumberTheorems ---------------------------
(***************************************************************************)
(* Facts about numbers the programs' proofs keep needing.                  *)
(*                                                                         *)
(* Products and quotients: what a division that rounds down or up is worth *)
(* once it is multiplied out again.                                        *)
(*                                                                         *)
(* Sums over finite sets, as SumFunctionOnSet computes them: they do not   *)
(* depend on the order, and changing one term changes them by that much.   *)
(* Every "total equals the sum of the parts" rests on these.               *)
(*                                                                         *)
(* Induction is by least counterexample: a non-empty set of naturals has a *)
(* least element, a non-empty set of finite sets one from which no element *)
(* can be removed.                                                         *)
(***************************************************************************)
EXTENDS FiniteSetTheorems, TLAPS

---------------------------------------------------------------------------
(* Products and quotients                                                  *)

LEMMA ProductIsNat ==
  ASSUME NEW a \in Nat, NEW b \in Nat
  PROVE  a * b \in Nat
OBVIOUS

LEMMA ProductsAreOrdered ==
  ASSUME NEW a \in Nat, NEW b \in Nat, NEW c \in Nat, NEW d \in Nat, a <= b, c <= d
  PROVE  a * c <= b * d
<1>1. a * c <= b * c
  OBVIOUS
<1>2. b * c <= b * d
  OBVIOUS
<1>3. a * c \in Int /\ b * c \in Int /\ b * d \in Int
  OBVIOUS
<1> QED BY <1>1, <1>2, <1>3

\* A common factor can be cancelled.
LEMMA FactorCancels ==
  ASSUME NEW a \in Int, NEW b \in Int, NEW c \in Nat \ {0}
  PROVE  /\ a * c <= b * c => a <= b
         /\ a * c < b * c => a < b
OBVIOUS

\* Rounding down loses less than one.
LEMMA FloorIsRead ==
  ASSUME NEW x \in Nat, NEW z \in Nat \ {0}
  PROVE  /\ x \div z \in Nat
         /\ (x \div z) * z <= x
         /\ x < (x \div z) * z + z
OBVIOUS

\* Rounding up adds less than one.
LEMMA CeilIsRead ==
  ASSUME NEW x \in Nat, NEW z \in Nat \ {0}
  PROVE  /\ (x + z - 1) \div z \in Nat
         /\ x <= ((x + z - 1) \div z) * z
         /\ ((x + z - 1) \div z) * z < x + z
<1>1. x + z - 1 \in Nat
  OBVIOUS
<1> DEFINE y == x + z - 1
<1>2. (y \div z) \in Nat /\ (y \div z) * z <= y /\ y < (y \div z) * z + z
  BY <1>1, FloorIsRead
<1>3. (y \div z) * z \in Int
  BY <1>2
<1> QED BY <1>2, <1>3

\* Rounding up is rounding down, and one more if anything remains.
LEMMA CeilIsFloorAndRemainder ==
  ASSUME NEW x \in Nat, NEW z \in Nat \ {0}
  PROVE  (x + z - 1) \div z = IF x % z = 0 THEN x \div z ELSE x \div z + 1
<1> DEFINE q == x \div z
           r == x % z
           c == (x + z - 1) \div z
<1>1. q \in Int /\ r \in 0..(z - 1) /\ x = z * q + r
  OBVIOUS
<1>2. c \in Int /\ x <= c * z /\ c * z < x + z
  BY CeilIsRead
<1> HIDE DEF q, r, c
<1>3. CASE r = 0
  <2>1. q * z <= c * z /\ c * z < (q + 1) * z
    BY <1>1, <1>2, <1>3
  <2>2. q <= c /\ c < q + 1
    BY <1>1, <1>2, <2>1, FactorCancels
  <2> QED BY <1>1, <1>2, <1>3, <2>2 DEF q, r, c
<1>4. CASE r # 0
  <2>1. q * z < c * z /\ c * z < (q + 2) * z
    BY <1>1, <1>2, <1>4
  <2>2. q < c /\ c < q + 2
    BY <1>1, <1>2, <2>1, FactorCancels
  <2> QED BY <1>1, <1>2, <1>4, <2>2 DEF q, r, c
<1> QED BY <1>3, <1>4

\* A remainder is read from any way to write the number.
LEMMA RemainderIsUnique ==
  ASSUME NEW y \in Nat \ {0}, NEW q \in Int, NEW r \in 0..(y - 1)
  PROVE  (y * q + r) % y = r
<1> DEFINE x == y * q + r
           p == x \div y
           s == x % y
<1>1. x \in Int /\ p \in Int /\ s \in 0..(y - 1) /\ x = y * p + s
  OBVIOUS
<1>2. y * (q - p) = s - r
  <2>1. y * (q - p) = y * q - y * p /\ y * q \in Int /\ y * p \in Int
    BY <1>1
  <2>2. y * q + r = y * p + s
    BY <1>1
  <2> HIDE DEF x, p, s
  <2> QED BY <1>1, <2>1, <2>2
<1> HIDE DEF x, p, s
<1>3. q - p < 1 /\ q - p > -1
  <2>1. CASE q - p >= 1
    <3>1. y * (q - p) >= y
      BY <1>1, <2>1
    <3> QED BY <1>1, <1>2, <3>1
  <2>2. CASE q - p <= -1
    <3>1. y * (q - p) <= -y
      BY <1>1, <2>2
    <3> QED BY <1>1, <1>2, <3>1
  <2> QED BY <1>1, <2>1, <2>2
<1>4. q = p
  BY <1>1, <1>3
<1>5. s = r
  BY <1>1, <1>2, <1>4
<1> QED BY <1>5 DEF s, x

LEMMA RemainderIsRead ==
  ASSUME NEW x \in Int, NEW y \in Nat \ {0}
  PROVE  x % y \in 0..(y - 1) /\ x \div y \in Int /\ x = y * (x \div y) + (x % y)
OBVIOUS

\* Whole turns do not change a remainder.
LEMMA RemainderOfTurns ==
  ASSUME NEW x \in Int, NEW y \in Nat \ {0}, NEW k \in Int
  PROVE  (x + y * k) % y = x % y
<1> DEFINE q == x \div y
           r == x % y
<1>1. r \in 0..(y - 1) /\ q \in Int /\ x = y * q + r
  BY RemainderIsRead
<1> HIDE DEF q, r
<1>2. x + y * k = y * (q + k) + r
  BY <1>1
<1>3. (y * (q + k) + r) % y = r
  BY <1>1, RemainderIsUnique
<1> QED BY <1>2, <1>3 DEF r

\* Two numbers less than a turn apart have the same remainder only if they are equal.
LEMMA RemaindersDiffer ==
  ASSUME NEW x \in Int, NEW z \in Int, NEW y \in Nat \ {0}, x < z, z - x < y
  PROVE  x % y # z % y
<1> SUFFICES ASSUME x % y = z % y PROVE FALSE
  OBVIOUS
<1> DEFINE p == x \div y
           q == z \div y
           r == x % y
<1>1. p \in Int /\ q \in Int /\ r \in Int /\ x = y * p + r /\ z = y * q + r
  BY RemainderIsRead
<1> HIDE DEF p, q, r
<1>2. z - x = y * (q - p)
  BY <1>1
<1>3. CASE q - p >= 1
  BY <1>1, <1>2, <1>3
<1>4. CASE q - p <= 0
  BY <1>1, <1>2, <1>4
<1> QED BY <1>1, <1>3, <1>4

---------------------------------------------------------------------------
(* Least counterexamples                                                   *)

LEMMA LeastNatural ==
  ASSUME NEW T, T \subseteq Nat, T # {}
  PROVE  \E n \in T : \A m \in T : n <= m
<1>1. PICK n \in T : \A k \in T : <<k, n>> \notin OpToRel(<, Nat)
  BY WFMin, NatLessThanWellFounded, Zenon
<1>2. \A k \in T : ~(k < n)
  BY <1>1, Zenon DEF OpToRel
<1> QED BY <1>2

LEMMA LeastSet ==
  ASSUME NEW B, B # {}, \A U \in B : IsFiniteSet(U)
  PROVE  \E U \in B : \A x \in U : U \ {x} \notin B
<1> DEFINE sizes == {Cardinality(U) : U \in B}
<1>1. sizes \subseteq Nat /\ sizes # {}
  BY FS_CardinalityType
<1>2. PICK n \in sizes : \A m \in sizes : n <= m
  BY <1>1, LeastNatural
<1>3. PICK U \in B : Cardinality(U) = n
  BY <1>2
<1>4. ASSUME NEW x \in U, U \ {x} \in B
      PROVE  FALSE
  <2>1. Cardinality(U \ {x}) = n - 1 /\ n \in Nat
    BY <1>1, <1>3, FS_RemoveElement
  <2> QED BY <1>2, <1>4, <2>1
<1> QED BY <1>4

---------------------------------------------------------------------------
(* The recursive function a sum is computed by exists                      *)

AnyOf(s) == CHOOSE x \in s : TRUE

\* g is the function of subsets of S the sum of f over S is read from.
IsSumOf(f, S, g) ==
    g = [s \in SUBSET S |-> IF s = {} THEN 0 ELSE f[AnyOf(s)] + g[s \ {AnyOf(s)}]]

LEMMA SumExists ==
  ASSUME NEW f, NEW S, IsFiniteSet(S)
  PROVE  \E g : IsSumOf(f, S, g)
<1> DEFINE Small(n) == {s \in SUBSET S : Cardinality(s) <= n}
           Solves(g, n) == g = [s \in Small(n) |->
                              IF s = {} THEN 0 ELSE f[AnyOf(s)] + g[s \ {AnyOf(s)}]]
           bad == {n \in Nat : ~\E g : Solves(g, n)}
<1>1. \A s \in SUBSET S : /\ IsFiniteSet(s) /\ Cardinality(s) \in Nat
                          /\ Cardinality(s) = 0 <=> s = {}
  BY FS_Subset, FS_CardinalityType, FS_EmptySet
<1>2. \A s \in SUBSET S : s # {} =>
         /\ AnyOf(s) \in s /\ s \ {AnyOf(s)} \in SUBSET S
         /\ Cardinality(s \ {AnyOf(s)}) = Cardinality(s) - 1
  BY <1>1, FS_RemoveElement DEF AnyOf
<1>3. \E g : Solves(g, 0)
  <2> DEFINE g == [s \in Small(0) |-> 0]
  <2>1. \A s \in Small(0) : s = {}
    BY <1>1
  <2>2. Solves(g, 0)
    BY <2>1
  <2> QED BY <2>2
<1>4. ASSUME NEW n \in Nat, NEW g, Solves(g, n)
      PROVE  \E h : Solves(h, n + 1)
  <2> DEFINE h == [s \in Small(n + 1) |->
                     IF s = {} THEN 0 ELSE f[AnyOf(s)] + g[s \ {AnyOf(s)}]]
  <2>1. ASSUME NEW s \in Small(n + 1), s # {}
        PROVE  h[s \ {AnyOf(s)}] = g[s \ {AnyOf(s)}]
    <3> DEFINE t == s \ {AnyOf(s)}
    <3>1. t \in Small(n) /\ t \in Small(n + 1)
      BY <1>1, <1>2, <2>1
    <3>2. g[t] = IF t = {} THEN 0 ELSE f[AnyOf(t)] + g[t \ {AnyOf(t)}]
      BY <1>4, <3>1
    <3>3. h[t] = IF t = {} THEN 0 ELSE f[AnyOf(t)] + g[t \ {AnyOf(t)}]
      BY <3>1
    <3> QED BY <3>2, <3>3
  <2>2. h = [s \in Small(n + 1) |-> IF s = {} THEN 0 ELSE f[AnyOf(s)] + h[s \ {AnyOf(s)}]]
    BY <2>1
  <2> QED BY <2>2
<1>5. bad = {}
  <2> HIDE DEF Solves
  <2> SUFFICES ASSUME bad # {} PROVE FALSE
    OBVIOUS
  <2>1. PICK n \in bad : \A m \in bad : n <= m
    BY LeastNatural
  <2>2. n \in Nat /\ n # 0
    BY <1>3, <2>1
  <2>3. n - 1 \in Nat /\ n - 1 \notin bad
    BY <2>1, <2>2
  <2>4. \E g : Solves(g, (n - 1) + 1)
    BY <1>4, <2>3
  <2>5. (n - 1) + 1 = n
    BY <2>2
  <2> QED BY <2>1, <2>4, <2>5
<1>6. PICK g : Solves(g, Cardinality(S))
  BY <1>5, FS_CardinalityType
<1>7. Small(Cardinality(S)) = SUBSET S
  BY FS_Subset
<1> QED BY <1>6, <1>7 DEF IsSumOf

\* Two such functions agree wherever what they sum does.
LEMMA SumsAgree ==
  ASSUME NEW f, NEW g, NEW S, NEW T, IsFiniteSet(S), IsFiniteSet(T),
         NEW a, IsSumOf(f, S, a), NEW b, IsSumOf(g, T, b),
         NEW U, U \subseteq S, U \subseteq T, \A x \in U : f[x] = g[x]
  PROVE  a[U] = b[U]
<1> DEFINE bad == {V \in SUBSET U : a[V] # b[V]}
<1>1. bad = {}
  <2> SUFFICES ASSUME bad # {} PROVE FALSE
    OBVIOUS
  <2>1. \A V \in bad : IsFiniteSet(V)
    BY FS_Subset
  <2>2. PICK V \in bad : \A x \in V : V \ {x} \notin bad
    BY <2>1, LeastSet
  <2>3. /\ V \in SUBSET U /\ V \in SUBSET S /\ V \in SUBSET T
        /\ a[V] = IF V = {} THEN 0 ELSE f[AnyOf(V)] + a[V \ {AnyOf(V)}]
        /\ b[V] = IF V = {} THEN 0 ELSE g[AnyOf(V)] + b[V \ {AnyOf(V)}]
    BY <2>2 DEF IsSumOf
  <2>4. V # {}
    BY <2>2, <2>3
  <2>5. AnyOf(V) \in V
    BY <2>4 DEF AnyOf
  <2>6. a[V \ {AnyOf(V)}] = b[V \ {AnyOf(V)}] /\ f[AnyOf(V)] = g[AnyOf(V)]
    BY <2>2, <2>3, <2>5
  <2> QED BY <2>2, <2>3, <2>4, <2>6
<1> QED BY <1>1

---------------------------------------------------------------------------
(* Sums                                                                    *)

LEMMA SumIsRead ==
  ASSUME NEW f, NEW S, IsFiniteSet(S)
  PROVE  \E a : IsSumOf(f, S, a) /\ SumFunctionOnSet(f, S) = a[S]
<1> DEFINE a == CHOOSE g : IsSumOf(f, S, g)
<1>1. IsSumOf(f, S, a)
  BY SumExists
<1>2. SumFunctionOnSet(f, S) = a[S]
  BY DEF SumFunctionOnSet, FoldFunctionOnSet, MapThenFoldSet, IsSumOf, AnyOf
<1> QED BY <1>1, <1>2

\* A sum depends only on the terms it adds.
LEMMA SumOfEqualTerms ==
  ASSUME NEW f, NEW g, NEW S, IsFiniteSet(S), \A x \in S : f[x] = g[x]
  PROVE  SumFunctionOnSet(f, S) = SumFunctionOnSet(g, S)
<1>1. PICK a : IsSumOf(f, S, a) /\ SumFunctionOnSet(f, S) = a[S]
  BY SumIsRead
<1>2. PICK b : IsSumOf(g, S, b) /\ SumFunctionOnSet(g, S) = b[S]
  BY SumIsRead
<1> QED BY <1>1, <1>2, SumsAgree

LEMMA SumOfNothing ==
  ASSUME NEW f
  PROVE  SumFunctionOnSet(f, {}) = 0
<1>1. PICK a : IsSumOf(f, {}, a) /\ SumFunctionOnSet(f, {}) = a[{}]
  BY SumIsRead, FS_EmptySet
<1>2. a[{}] = 0
  BY <1>1 DEF IsSumOf
<1> QED BY <1>1, <1>2

\* The term the recursion takes first.
LEMMA SumTakesAny ==
  ASSUME NEW f, NEW S, IsFiniteSet(S), S # {}
  PROVE  /\ AnyOf(S) \in S
         /\ SumFunctionOnSet(f, S) = f[AnyOf(S)] + SumFunctionOnSet(f, S \ {AnyOf(S)})
<1> DEFINE T == S \ {AnyOf(S)}
<1>1. AnyOf(S) \in S
  BY DEF AnyOf
<1>2. IsFiniteSet(T) /\ T \subseteq S
  BY FS_Subset
<1>3. PICK a : IsSumOf(f, S, a) /\ SumFunctionOnSet(f, S) = a[S]
  BY SumIsRead
<1>4. PICK b : IsSumOf(f, T, b) /\ SumFunctionOnSet(f, T) = b[T]
  BY <1>2, SumIsRead
<1>5. a[S] = f[AnyOf(S)] + a[T]
  BY <1>3 DEF IsSumOf
<1>6. ASSUME NEW g, g = f, NEW R, R = T
      PROVE  a[R] = b[R]
  <2>1. IsSumOf(f, S, a) /\ IsSumOf(g, T, b)
    BY <1>3, <1>4, <1>6
  <2>2. R \subseteq S /\ R \subseteq T /\ IsFiniteSet(T) /\ \A x \in R : f[x] = g[x]
    BY <1>2, <1>6
  <2> HIDE DEF T
  <2> QED BY <2>1, <2>2, SumsAgree
<1> QED BY <1>1, <1>3, <1>4, <1>5, <1>6

LEMMA SumOfIntegers ==
  ASSUME NEW f, NEW S, IsFiniteSet(S), \A x \in S : f[x] \in Int
  PROVE  SumFunctionOnSet(f, S) \in Int
<1> DEFINE bad == {U \in SUBSET S : SumFunctionOnSet(f, U) \notin Int}
<1>1. bad = {}
  <2> SUFFICES ASSUME bad # {} PROVE FALSE
    OBVIOUS
  <2>1. \A U \in bad : IsFiniteSet(U)
    BY FS_Subset
  <2>2. PICK U \in bad : \A x \in U : U \ {x} \notin bad
    BY <2>1, LeastSet
  <2>3. U # {}
    BY <2>2, SumOfNothing
  <2>4. AnyOf(U) \in U /\ f[AnyOf(U)] \in Int
        /\ SumFunctionOnSet(f, U) = f[AnyOf(U)] + SumFunctionOnSet(f, U \ {AnyOf(U)})
    BY <2>1, <2>2, <2>3, SumTakesAny
  <2>5. SumFunctionOnSet(f, U \ {AnyOf(U)}) \in Int
    BY <2>2, <2>4
  <2> QED BY <2>2, <2>4, <2>5
<1> QED BY <1>1

\* Any term can be taken out of a sum.
LEMMA SumTakesEach ==
  ASSUME NEW f, NEW S, IsFiniteSet(S), \A x \in S : f[x] \in Int, NEW z \in S
  PROVE  SumFunctionOnSet(f, S) = f[z] + SumFunctionOnSet(f, S \ {z})
<1> DEFINE Taken(U, x) == SumFunctionOnSet(f, U) = f[x] + SumFunctionOnSet(f, U \ {x})
           bad == {U \in SUBSET S : \E x \in U : ~Taken(U, x)}
<1>1. bad = {}
  <2> SUFFICES ASSUME bad # {} PROVE FALSE
    OBVIOUS
  <2>1. \A U \in SUBSET S : IsFiniteSet(U)
    BY FS_Subset
  <2>2. PICK U \in bad : \A x \in U : U \ {x} \notin bad
    BY <2>1, LeastSet
  <2>3. PICK x \in U : ~Taken(U, x)
    BY <2>2
  <2> DEFINE y == AnyOf(U)
  <2>4. y \in U /\ Taken(U, y)
    BY <2>1, <2>2, <2>3, SumTakesAny
  <2>5. x # y
    BY <2>3, <2>4
  <2>6. Taken(U \ {x}, y) /\ Taken(U \ {y}, x)
    <3>1. U \ {x} \notin bad /\ U \ {y} \notin bad
      BY <2>2, <2>4
    <3> HIDE DEF Taken, y
    <3> QED BY <2>2, <2>4, <2>5, <3>1
  <2>7. (U \ {x}) \ {y} = (U \ {y}) \ {x}
    OBVIOUS
  <2>8. f[x] \in Int /\ f[y] \in Int /\ SumFunctionOnSet(f, (U \ {x}) \ {y}) \in Int
    BY <2>1, <2>2, <2>4, SumOfIntegers
  <2>9. Taken(U, x)
    <3> DEFINE rest == SumFunctionOnSet(f, (U \ {x}) \ {y})
    <3>1. SumFunctionOnSet(f, U) = f[y] + SumFunctionOnSet(f, U \ {y})
      BY <2>4
    <3>2. SumFunctionOnSet(f, U \ {x}) = f[y] + rest
      BY <2>6
    <3>3. SumFunctionOnSet(f, U \ {y}) = f[x] + rest
      BY <2>6, <2>7
    <3>4. rest \in Int
      BY <2>8
    <3> HIDE DEF y, rest
    <3> QED BY <2>8, <3>1, <3>2, <3>3, <3>4
  <2> QED BY <2>3, <2>9
<1> QED BY <1>1

\* Functions that differ at one place have sums that differ by as much.
LEMMA SumChangesByTheTerm ==
  ASSUME NEW f, NEW g, NEW S, IsFiniteSet(S), NEW z \in S,
         \A x \in S : f[x] \in Int /\ g[x] \in Int,
         \A x \in S \ {z} : f[x] = g[x]
  PROVE  SumFunctionOnSet(g, S) = SumFunctionOnSet(f, S) + g[z] - f[z]
<1>1. IsFiniteSet(S \ {z})
  BY FS_Subset
<1>2. SumFunctionOnSet(f, S) = f[z] + SumFunctionOnSet(f, S \ {z})
  BY SumTakesEach
<1>3. SumFunctionOnSet(g, S) = g[z] + SumFunctionOnSet(g, S \ {z})
  BY SumTakesEach
<1>4. SumFunctionOnSet(f, S \ {z}) = SumFunctionOnSet(g, S \ {z})
  BY <1>1, SumOfEqualTerms
<1>5. SumFunctionOnSet(f, S \ {z}) \in Int
  BY <1>1, SumOfIntegers
<1> QED BY <1>2, <1>3, <1>4, <1>5

\* Moving an amount from one place to another leaves a sum as it was.
LEMMA SumIsMovedAround ==
  ASSUME NEW f, NEW g, NEW S, IsFiniteSet(S), NEW y \in S, NEW z \in S, y # z,
         \A x \in S : f[x] \in Int /\ g[x] \in Int,
         \A x \in S \ {y, z} : f[x] = g[x],
         f[y] + f[z] = g[y] + g[z]
  PROVE  SumFunctionOnSet(g, S) = SumFunctionOnSet(f, S)
<1> DEFINE T == S \ {z}
<1>1. IsFiniteSet(T) /\ y \in T
  BY FS_Subset
<1>2. /\ SumFunctionOnSet(f, S) = f[z] + SumFunctionOnSet(f, T)
      /\ SumFunctionOnSet(g, S) = g[z] + SumFunctionOnSet(g, T)
  BY SumTakesEach
<1>3. SumFunctionOnSet(g, T) = SumFunctionOnSet(f, T) + g[y] - f[y]
  BY <1>1, SumChangesByTheTerm
<1>4. SumFunctionOnSet(f, T) \in Int /\ SumFunctionOnSet(g, T) \in Int
  BY <1>1, SumOfIntegers
<1> HIDE DEF T
<1> QED BY <1>2, <1>3, <1>4

LEMMA SumOfZeros ==
  ASSUME NEW f, NEW S, IsFiniteSet(S), \A x \in S : f[x] = 0
  PROVE  SumFunctionOnSet(f, S) = 0
<1> DEFINE bad == {U \in SUBSET S : SumFunctionOnSet(f, U) # 0}
<1>1. bad = {}
  <2> SUFFICES ASSUME bad # {} PROVE FALSE
    OBVIOUS
  <2>1. \A U \in bad : IsFiniteSet(U)
    BY FS_Subset
  <2>2. PICK U \in bad : \A x \in U : U \ {x} \notin bad
    BY <2>1, LeastSet
  <2>3. U # {}
    BY <2>2, SumOfNothing
  <2>4. AnyOf(U) \in U /\ f[AnyOf(U)] = 0
        /\ SumFunctionOnSet(f, U) = f[AnyOf(U)] + SumFunctionOnSet(f, U \ {AnyOf(U)})
    BY <2>1, <2>2, <2>3, SumTakesAny
  <2>5. SumFunctionOnSet(f, U \ {AnyOf(U)}) = 0
    BY <2>2, <2>4
  <2> QED BY <2>2, <2>4, <2>5
<1> QED BY <1>1

\* A sum of naturals is at least each of its terms.
LEMMA SumCoversEachTerm ==
  ASSUME NEW f, NEW S, IsFiniteSet(S), \A x \in S : f[x] \in Nat
  PROVE  /\ SumFunctionOnSet(f, S) \in Nat
         /\ \A z \in S : f[z] <= SumFunctionOnSet(f, S)
<1> DEFINE bad == {U \in SUBSET S : SumFunctionOnSet(f, U) \notin Nat}
<1>1. bad = {}
  <2> SUFFICES ASSUME bad # {} PROVE FALSE
    OBVIOUS
  <2>1. \A U \in bad : IsFiniteSet(U)
    BY FS_Subset
  <2>2. PICK U \in bad : \A x \in U : U \ {x} \notin bad
    BY <2>1, LeastSet
  <2>3. U # {}
    BY <2>2, SumOfNothing
  <2>4. AnyOf(U) \in U /\ f[AnyOf(U)] \in Nat
        /\ SumFunctionOnSet(f, U) = f[AnyOf(U)] + SumFunctionOnSet(f, U \ {AnyOf(U)})
    BY <2>1, <2>2, <2>3, SumTakesAny
  <2>5. SumFunctionOnSet(f, U \ {AnyOf(U)}) \in Nat
    BY <2>2, <2>4
  <2> QED BY <2>2, <2>4, <2>5
<1>2. ASSUME NEW z \in S
      PROVE  f[z] <= SumFunctionOnSet(f, S)
  <2>1. SumFunctionOnSet(f, S) = f[z] + SumFunctionOnSet(f, S \ {z})
    BY SumTakesEach
  <2>2. SumFunctionOnSet(f, S \ {z}) \in Nat
    BY <1>1
  <2> QED BY <2>1, <2>2
<1> QED BY <1>1, <1>2
=============================================================================
