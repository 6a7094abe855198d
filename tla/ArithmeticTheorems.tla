------------------------- MODULE ArithmeticTheorems -------------------------
(***************************************************************************)
(* Laws of products and quotients, and of SumFunctionOnSet, the sum of a   *)
(* function over a finite set.                                             *)
(*                                                                         *)
(* The sum is the value of a function that is defined recursively on the   *)
(* subsets of the set, and what holds of it is shown by induction on them: *)
(* of the subsets for which something fails, one is smallest, because      *)
(* strict inclusion is well founded on finite sets.                        *)
(***************************************************************************)
EXTENDS Integers, FiniteSets, Functions, FiniteSetTheorems, TLAPS

-----------------------------------------------------------------------------
(***************************************************************************)
(* Products and quotients.                                                 *)
(***************************************************************************)
\* A number is its quotient's share and its remainder.
LEMMA DivMod ==
    ASSUME NEW x \in Nat, NEW d \in Nat \ {0}
    PROVE  /\ x = d * (x \div d) + (x % d)
           /\ x % d \in 0 .. d - 1
           /\ x \div d \in Nat
  OBVIOUS

\* A product grows with its factors.
LEMMA ProductGrows ==
    ASSUME NEW a \in Nat, NEW b \in Nat, NEW c \in Nat, b <= c
    PROVE  a * b <= a * c
  OBVIOUS

\* The quotient decides, then the remainder.
LEMMA QuotientGrows ==
    ASSUME NEW d \in Nat \ {0}, NEW p \in Nat, NEW q \in Nat,
           NEW r \in 0 .. d - 1, NEW s \in 0 .. d - 1, d * p + r <= d * q + s
    PROVE  p <= q /\ (p = q => r <= s)
  <1> DEFINE a == d * q
             b == d * p
  <1>1. a \in Nat /\ b \in Nat /\ b + r <= a + s
    OBVIOUS
  <1>2. ASSUME q + 1 <= p
        PROVE  FALSE
    <2>1. d * (q + 1) <= d * p
      BY <1>2, ProductGrows
    <2>2. d * (q + 1) = d * q + d
      OBVIOUS
    <2>3. a + d <= b
      BY <2>1, <2>2
    <2> HIDE DEF a, b
    <2>4. QED
      BY <1>1, <2>3
  <1>3. ASSUME p = q
        PROVE  r <= s
    <2>1. a = b
      BY <1>3
    <2> HIDE DEF a, b
    <2>2. QED
      BY <1>1, <2>1
  <1>4. QED
    BY <1>2, <1>3


\* A quotient grows with what is divided.
LEMMA QuotientsGrow ==
    ASSUME NEW x \in Nat, NEW y \in Nat, NEW d \in Nat \ {0}, x <= y
    PROVE  x \div d <= y \div d
  <1> DEFINE p == x \div d
             q == y \div d
             r == x % d
             s == y % d
  <1>1. x = d * p + r /\ r \in 0 .. d - 1 /\ p \in Nat
    BY DivMod
  <1>2. y = d * q + s /\ s \in 0 .. d - 1 /\ q \in Nat
    BY DivMod
  <1> HIDE DEF p, q, r, s
  <1>3. p <= q
    BY <1>1, <1>2, QuotientGrows
  <1>4. QED
    BY <1>3 DEF p, q

\* Dividing what divides evenly.
LEMMA QuotientPlus ==
    ASSUME NEW x \in Nat, NEW k \in Nat, NEW d \in Nat \ {0}
    PROVE  (x + d * k) \div d = (x \div d) + k
  <1> DEFINE y == x + d * k
             p == (x \div d) + k
             q == y \div d
             r == x % d
             s == y % d
  <1>1. x = d * (x \div d) + r /\ r \in 0 .. d - 1 /\ x \div d \in Nat
    BY DivMod
  <1>2. y \in Nat
    OBVIOUS
  <1>3. y = d * q + s /\ s \in 0 .. d - 1 /\ q \in Nat
    <2> HIDE DEF y
    <2>1. QED
      BY <1>2, DivMod
  <1>4. p \in Nat /\ y = d * p + r
    BY <1>1
  <1> HIDE DEF y, p, q, r, s
  <1>5. p <= q
    BY <1>1, <1>3, <1>4, QuotientGrows
  <1>6. q <= p
    BY <1>1, <1>3, <1>4, QuotientGrows
  <1>7. QED
    BY <1>3, <1>4, <1>5, <1>6 DEF y, p, q

-----------------------------------------------------------------------------
(***************************************************************************)
(* The sum's definition, and induction over finite sets.                   *)
(***************************************************************************)
Pick(T) == CHOOSE x \in T : TRUE

\* g sums f over each subset of S.
IsSum(g, f, S) ==
    g = [T \in SUBSET S |-> IF T = {} THEN 0 ELSE f[Pick(T)] + g[T \ {Pick(T)}]]

\* The function that sums f over the subsets of S, if there is one.
SumOn(f, S) == CHOOSE g : IsSum(g, f, S)

\* What SumFunctionOnSet stands for.
LEMMA SumDef ==
    ASSUME NEW f, NEW S
    PROVE  SumFunctionOnSet(f, S) = SumOn(f, S)[S]
  BY DEF SumOn, SumFunctionOnSet, FoldFunctionOnSet, MapThenFoldSet, IsSum, Pick

\* Of the subsets of a finite set that are bad one has no bad subset but itself.
LEMMA SmallestBad ==
    ASSUME NEW S, IsFiniteSet(S), NEW Bad \in SUBSET (SUBSET S), Bad # {}
    PROVE  \E T \in Bad : \A U \in SUBSET T : U # T => U \notin Bad
  <1>1. IsWellFoundedOn(StrictSubsetOrdering(S), FiniteSubsetsOf(S))
    BY FS_StrictSubsetOrderingWellFounded
  <1>2. FiniteSubsetsOf(S) = SUBSET S
    BY FS_FiniteSubsetsOfFinite
  <1>3. PICK T \in Bad : \A U \in Bad : <<U, T>> \notin StrictSubsetOrdering(S)
    BY <1>1, <1>2, WFMin
  <1>4. \A U \in SUBSET T : U # T => U \notin Bad
    BY <1>3 DEF StrictSubsetOrdering
  <1>5. QED
    BY <1>4

\* An element is picked out of any set that has one.
LEMMA PickIn == ASSUME NEW T, T # {} PROVE Pick(T) \in T
  BY DEF Pick

\* A finite set of naturals has a maximum.
LEMMA MaxExists ==
    ASSUME NEW S \in SUBSET Nat, IsFiniteSet(S), S # {}
    PROVE  \E m \in S : \A x \in S : x <= m
  <1> DEFINE Bounded(T) == \E m \in T : \A x \in T : x <= m
             Bad == {T \in SUBSET S : T # {} /\ ~Bounded(T)}
  <1>1. ASSUME NEW T \in Bad, \A U \in SUBSET T : U # T => U \notin Bad
        PROVE  FALSE
    <2>1. T \in SUBSET S /\ T # {} /\ ~Bounded(T)
      OBVIOUS
    <2>2. PICK y \in T : TRUE
      BY <2>1
    <2> DEFINE U == T \ {y}
    <2>3. U \in SUBSET T /\ U # T /\ U \in SUBSET S
      BY <2>1, <2>2
    <2>4. U = {} \/ Bounded(U)
      BY <1>1, <2>3
    <2>5. CASE U = {}
      <3>1. T = {y}
        BY <2>2, <2>5
      <3>2. QED
        BY <2>1, <3>1
    <2>6. CASE Bounded(U)
      <3>1. PICK m \in U : \A x \in U : x <= m
        BY <2>6
      <3>2. m \in T /\ m \in Nat /\ y \in Nat
        BY <2>1, <2>2, <3>1
      <3>3. CASE y <= m
        BY <2>1, <3>1, <3>2, <3>3
      <3>4. CASE m <= y
        <4>1. \A x \in T : x \in Nat /\ (x = y \/ x <= m)
          BY <2>1, <3>1
        <4>2. QED
          BY <2>1, <2>2, <3>2, <3>4, <4>1
      <3>5. QED
        BY <3>2, <3>3, <3>4
    <2>7. QED
      BY <2>4, <2>5, <2>6
  <1>2. Bad \subseteq SUBSET S /\ (Bad = {} => Bounded(S))
    OBVIOUS
  <1>3. Bad = {}
    <2> HIDE DEF Bad
    <2>1. QED
      BY <1>1, <1>2, SmallestBad
  <1>4. QED
    BY <1>2, <1>3

\* A set of naturals that is not empty has a minimum.
LEMMA MinExists ==
    ASSUME NEW S \in SUBSET Nat, S # {}
    PROVE  \E m \in S : \A x \in S : m <= x
  <1>1. PICK N \in S : TRUE
    OBVIOUS
  <1>2. PICK T : T = {k \in 0 .. N : N - k \in S}
    OBVIOUS
  <1>3. N \in Nat /\ T \subseteq Nat /\ 0 \in T /\ IsFiniteSet(T)
    <2>1. N \in Nat /\ T \subseteq 0 .. N /\ 0 \in T
      BY <1>1, <1>2
    <2>2. IsFiniteSet(0 .. N)
      BY <2>1, FS_Interval
    <2>3. IsFiniteSet(T)
      BY <2>1, <2>2, FS_Subset
    <2>4. QED
      BY <2>1, <2>3
  <1>4. PICK k \in T : \A j \in T : j <= k
    BY <1>3, MaxExists
  <1>5. N - k \in S
    BY <1>2, <1>4
  <1>6. ASSUME NEW x \in S
        PROVE  N - k <= x
    <2>1. x \in Nat /\ k \in 0 .. N
      BY <1>2, <1>4
    <2>2. CASE x <= N
      <3>1. PICK j : j = N - x
        OBVIOUS
      <3>2. j \in 0 .. N /\ N - j = x
        BY <1>3, <2>1, <2>2, <3>1
      <3>3. j \in T
        BY <1>2, <3>2
      <3>4. j <= k
        BY <1>4, <3>3
      <3>5. QED
        BY <1>3, <2>1, <3>2, <3>4
    <2>3. CASE N < x
      BY <1>3, <2>1, <2>3
    <2>4. QED
      BY <1>3, <2>1, <2>2, <2>3
  <1>7. QED
    BY <1>5, <1>6

\* Induction up to a number: what holds of 0 and is passed on holds of all.
LEMMA UpTo ==
    ASSUME NEW N \in Nat, NEW Good, 0 \in Good,
           \A k \in 1 .. N : k - 1 \in Good => k \in Good
    PROVE  0 .. N \subseteq Good
  <1> DEFINE S == {k \in 0 .. N : \A i \in 0 .. k : i \in Good}
  <1>1. S \in SUBSET Nat /\ S \in SUBSET (0 .. N) /\ 0 \in S
    OBVIOUS
  <1>2. IsFiniteSet(S)
    <2>1. IsFiniteSet(0 .. N)
      BY FS_Interval
    <2> HIDE DEF S
    <2>2. QED
      BY <1>1, <2>1, FS_Subset
  <1>3. PICK m \in S : \A x \in S : x <= m
    <2> HIDE DEF S
    <2>1. QED
      BY <1>1, <1>2, MaxExists
  <1>4. CASE m = N
    BY <1>3, <1>4
  <1>5. CASE m # N
    <2>1. m + 1 \in 1 .. N /\ (m + 1) - 1 \in Good
      BY <1>3, <1>5
    <2>2. m + 1 \in Good
      BY <2>1
    <2>3. m + 1 \in S
      BY <1>3, <2>1, <2>2
    <2>4. QED
      BY <1>3, <2>1, <2>3
  <1>6. QED
    BY <1>4, <1>5

\* What a function takes the elements of a finite set to is finite.
LEMMA ImageFinite ==
    ASSUME NEW S, IsFiniteSet(S), NEW f
    PROVE  IsFiniteSet({f[x] : x \in S})
  <1> DEFINE T == {f[x] : x \in S}
             g == [x \in S |-> f[x]]
  <1>1. g \in Surjection(S, T)
    BY DEF Surjection
  <1> HIDE DEF g, T
  <1>2. IsFiniteSet(T)
    BY <1>1, FS_Surjection
  <1>3. QED
    BY <1>2 DEF T

-----------------------------------------------------------------------------
(***************************************************************************)
(* The recursive definition defines something.                             *)
(***************************************************************************)
\* Two functions that sum f agree on the finite sets that both are defined on.
LEMMA SumsAgree ==
    ASSUME NEW f, NEW R, NEW S, NEW g, NEW h, IsSum(g, f, R), IsSum(h, f, S),
           NEW T, IsFiniteSet(T), T \subseteq R, T \subseteq S
    PROVE  g[T] = h[T]
  <1> DEFINE Bad == {U \in SUBSET T : g[U] # h[U]}
  <1>1. ASSUME NEW U \in Bad, \A V \in SUBSET U : V # U => V \notin Bad
        PROVE  FALSE
    <2>1. U \in SUBSET T /\ U \in SUBSET R /\ U \in SUBSET S /\ g[U] # h[U]
      OBVIOUS
    <2>2. /\ g[U] = IF U = {} THEN 0 ELSE f[Pick(U)] + g[U \ {Pick(U)}]
          /\ h[U] = IF U = {} THEN 0 ELSE f[Pick(U)] + h[U \ {Pick(U)}]
      BY <2>1 DEF IsSum
    <2>3. U # {} => g[U \ {Pick(U)}] = h[U \ {Pick(U)}]
      BY <1>1, <2>1, PickIn
    <2>4. QED
      BY <2>1, <2>2, <2>3
  <1>2. Bad \subseteq SUBSET T /\ (Bad = {} => g[T] = h[T])
    OBVIOUS
  <1> HIDE DEF Bad
  <1>3. QED
    BY <1>1, <1>2, SmallestBad

\* There is a function that sums f over the subsets of a finite set.
LEMMA SumExists ==
    ASSUME NEW f, NEW S, IsFiniteSet(S)
    PROVE  IsSum(SumOn(f, S), f, S)
  <1> DEFINE Bad == {T \in SUBSET S : ~IsSum(SumOn(f, T), f, T)}
  <1>1. ASSUME NEW T \in Bad, \A U \in SUBSET T : U # T => U \notin Bad
        PROVE  FALSE
    <2> DEFINE Rest(U) == U \ {Pick(U)}
               h == [U \in SUBSET T |->
                        IF U = {} THEN 0 ELSE f[Pick(U)] + SumOn(f, Rest(U))[Rest(U)]]
               k == [U \in SUBSET T |-> IF U = {} THEN 0 ELSE f[Pick(U)] + h[Rest(U)]]
    <2>1. T \subseteq S /\ ~IsSum(SumOn(f, T), f, T)
      OBVIOUS
    <2>2. ASSUME NEW U \in SUBSET T, U # T
          PROVE  IsSum(SumOn(f, U), f, U) /\ IsFiniteSet(U)
      BY <1>1, <2>1, <2>2, FS_Subset
    <2>3. ASSUME NEW U \in SUBSET T, U # {}
          PROVE  Rest(U) \in SUBSET T /\ Rest(U) # T /\ Rest(U) \in SUBSET U
      BY <2>3, PickIn
    <2>4. ASSUME NEW U \in SUBSET T, U # T
          PROVE  h[U] = SumOn(f, U)[U]
      <3>1. IsSum(SumOn(f, U), f, U)
        BY <2>2, <2>4
      <3>2. SumOn(f, U)[U] = IF U = {} THEN 0 ELSE f[Pick(U)] + SumOn(f, U)[Rest(U)]
        BY <3>1 DEF IsSum
      <3>3. ASSUME U # {}
            PROVE  SumOn(f, U)[Rest(U)] = SumOn(f, Rest(U))[Rest(U)]
        <4>1. IsSum(SumOn(f, Rest(U)), f, Rest(U)) /\ IsFiniteSet(Rest(U)) /\ Rest(U) \subseteq U
          BY <2>2, <2>3, <3>3
        <4> HIDE DEF Rest
        <4>2. QED
          BY <3>1, <4>1, SumsAgree
      <3> HIDE DEF Rest
      <3>4. QED
        BY <3>2, <3>3
    <2>5. h = k
      <3>1. ASSUME NEW U \in SUBSET T, U # {}
            PROVE  h[Rest(U)] = SumOn(f, Rest(U))[Rest(U)]
        <4>1. Rest(U) \in SUBSET T /\ Rest(U) # T
          BY <2>3, <3>1
        <4> HIDE DEF Rest, h
        <4>2. QED
          BY <2>4, <4>1
      <3> DEFINE H(U) == IF U = {} THEN 0 ELSE f[Pick(U)] + SumOn(f, Rest(U))[Rest(U)]
                 K(U) == IF U = {} THEN 0 ELSE f[Pick(U)] + h[Rest(U)]
      <3>2. \A U \in SUBSET T : H(U) = K(U)
        <4> HIDE DEF Rest, h
        <4>1. QED
          BY <3>1
      <3>3. h = [U \in SUBSET T |-> H(U)] /\ k = [U \in SUBSET T |-> K(U)]
        OBVIOUS
      <3> HIDE DEF H, K, h, k
      <3>4. QED
        BY <3>2, <3>3
    <2>6. IsSum(h, f, T)
      <3>1. k = [U \in SUBSET T |-> IF U = {} THEN 0 ELSE f[Pick(U)] + h[U \ {Pick(U)}]]
        OBVIOUS
      <3> HIDE DEF h, k
      <3>2. QED
        BY <2>5, <3>1 DEF IsSum
    <2> HIDE DEF h, k
    <2>7. QED
      BY <2>1, <2>6 DEF SumOn
  <1>2. Bad \subseteq SUBSET S /\ (Bad = {} => IsSum(SumOn(f, S), f, S))
    OBVIOUS
  <1> HIDE DEF Bad
  <1>3. QED
    BY <1>1, <1>2, SmallestBad

\* What one element adds.
LEMMA SumUnfolds ==
    ASSUME NEW f, NEW S, IsFiniteSet(S), S # {}
    PROVE  SumFunctionOnSet(f, S) = f[Pick(S)] + SumFunctionOnSet(f, S \ {Pick(S)})
  <1> DEFINE R == S \ {Pick(S)}
             g == SumOn(f, S)
             h == SumOn(f, R)
  <1>1. IsFiniteSet(R) /\ R \subseteq S
    BY FS_Subset
  <1>2. IsSum(g, f, S) /\ IsSum(h, f, R)
    BY <1>1, SumExists
  <1>3. SumFunctionOnSet(f, S) = g[S] /\ SumFunctionOnSet(f, R) = h[R]
    BY SumDef
  <1>4. g[S] = f[Pick(S)] + g[R]
    BY <1>2 DEF IsSum
  <1> HIDE DEF R, g, h
  <1>5. g[R] = h[R]
    BY <1>1, <1>2, SumsAgree
  <1>6. QED
    BY <1>3, <1>4, <1>5 DEF R

\* The sum over no elements.
LEMMA SumEmpty ==
    ASSUME NEW f
    PROVE  SumFunctionOnSet(f, {}) = 0
  <1>1. IsSum(SumOn(f, {}), f, {})
    BY SumExists, FS_EmptySet
  <1>2. QED
    BY <1>1, SumDef DEF IsSum

-----------------------------------------------------------------------------
(***************************************************************************)
(* Laws.                                                                   *)
(***************************************************************************)
LEMMA SumType ==
    ASSUME NEW f, NEW S, IsFiniteSet(S), \A x \in S : f[x] \in Int
    PROVE  SumFunctionOnSet(f, S) \in Int
  <1> DEFINE Bad == {T \in SUBSET S : SumFunctionOnSet(f, T) \notin Int}
  <1>1. ASSUME NEW T \in Bad, \A U \in SUBSET T : U # T => U \notin Bad
        PROVE  FALSE
    <2>1. T \subseteq S /\ IsFiniteSet(T) /\ SumFunctionOnSet(f, T) \notin Int
      BY FS_Subset
    <2>2. T # {}
      BY <2>1, SumEmpty
    <2>3. Pick(T) \in T /\ T \ {Pick(T)} \notin Bad
      BY <1>1, <2>2, PickIn
    <2>4. SumFunctionOnSet(f, T \ {Pick(T)}) \in Int
      BY <2>1, <2>3
    <2>5. SumFunctionOnSet(f, T) = f[Pick(T)] + SumFunctionOnSet(f, T \ {Pick(T)})
      BY <2>1, <2>2, SumUnfolds
    <2>6. QED
      BY <2>1, <2>3, <2>4, <2>5
  <1>2. Bad \subseteq SUBSET S /\ (Bad = {} => SumFunctionOnSet(f, S) \in Int)
    OBVIOUS
  <1> HIDE DEF Bad
  <1>3. QED
    BY <1>1, <1>2, SmallestBad

\* The sum depends on the function's values in the set.
LEMMA SumSame ==
    ASSUME NEW f, NEW g, NEW S, IsFiniteSet(S), \A x \in S : f[x] = g[x]
    PROVE  SumFunctionOnSet(f, S) = SumFunctionOnSet(g, S)
  <1> DEFINE Bad == {T \in SUBSET S : SumFunctionOnSet(f, T) # SumFunctionOnSet(g, T)}
  <1>1. ASSUME NEW T \in Bad, \A U \in SUBSET T : U # T => U \notin Bad
        PROVE  FALSE
    <2>1. T \subseteq S /\ IsFiniteSet(T) /\ SumFunctionOnSet(f, T) # SumFunctionOnSet(g, T)
      BY FS_Subset
    <2>2. T # {}
      BY <2>1, SumEmpty
    <2>3. Pick(T) \in T /\ T \ {Pick(T)} \notin Bad
      BY <1>1, <2>2, PickIn
    <2>4. SumFunctionOnSet(f, T \ {Pick(T)}) = SumFunctionOnSet(g, T \ {Pick(T)})
      BY <2>1, <2>3
    <2>5. /\ SumFunctionOnSet(f, T) = f[Pick(T)] + SumFunctionOnSet(f, T \ {Pick(T)})
          /\ SumFunctionOnSet(g, T) = g[Pick(T)] + SumFunctionOnSet(g, T \ {Pick(T)})
      BY <2>1, <2>2, SumUnfolds
    <2>6. QED
      BY <2>1, <2>3, <2>4, <2>5
  <1>2. Bad \subseteq SUBSET S /\ (Bad = {} => SumFunctionOnSet(f, S) = SumFunctionOnSet(g, S))
    OBVIOUS
  <1> HIDE DEF Bad
  <1>3. QED
    BY <1>1, <1>2, SmallestBad

\* Any element may be taken out.
LEMMA SumSplit ==
    ASSUME NEW f, NEW S, IsFiniteSet(S), \A x \in S : f[x] \in Int, NEW y \in S
    PROVE  SumFunctionOnSet(f, S) = f[y] + SumFunctionOnSet(f, S \ {y})
  <1> DEFINE Sum(T) == SumFunctionOnSet(f, T)
             Splits(T) == \A z \in T : Sum(T) = f[z] + Sum(T \ {z})
             Bad == {T \in SUBSET S : ~Splits(T)}
  <1>1. ASSUME NEW T \in Bad, \A U \in SUBSET T : U # T => U \notin Bad
        PROVE  FALSE
    <2>1. T \subseteq S /\ IsFiniteSet(T)
      BY FS_Subset
    <2>2. PICK z \in T : Sum(T) # f[z] + Sum(T \ {z})
      OBVIOUS
    <2> DEFINE x == Pick(T)
               R == T \ {x, z}
    <2>3. x \in T /\ Sum(T) = f[x] + Sum(T \ {x})
      BY <2>1, <2>2, SumUnfolds, PickIn
    <2>4. x # z
      BY <2>2, <2>3
    <2>5. Splits(T \ {x}) /\ Splits(T \ {z})
      <3>1. /\ T \ {x} \in SUBSET T /\ T \ {x} # T /\ T \ {x} \in SUBSET S
            /\ T \ {z} \in SUBSET T /\ T \ {z} # T /\ T \ {z} \in SUBSET S
        BY <2>1, <2>2, <2>3
      <3>2. T \ {x} \notin Bad /\ T \ {z} \notin Bad
        BY <1>1, <3>1
      <3>3. QED
        BY <3>1, <3>2
    <2>6. (T \ {x}) \ {z} = R /\ (T \ {z}) \ {x} = R
      OBVIOUS
    <2>7. Sum(T \ {x}) = f[z] + Sum(R) /\ Sum(T \ {z}) = f[x] + Sum(R)
      BY <2>2, <2>3, <2>4, <2>5, <2>6
    <2>8. Sum(R) \in Int /\ f[x] \in Int /\ f[z] \in Int
      <3>1. R \subseteq S /\ IsFiniteSet(R)
        BY <2>1, FS_Subset
      <3>2. QED
        BY <2>1, <2>3, <3>1, SumType
    <2> HIDE DEF x, R, Sum
    <2>9. QED
      BY <2>2, <2>3, <2>7, <2>8
  <1>2. Bad \subseteq SUBSET S /\ (Bad = {} => Splits(S))
    OBVIOUS
  <1>3. Splits(S) => SumFunctionOnSet(f, S) = f[y] + SumFunctionOnSet(f, S \ {y})
    OBVIOUS
  <1> HIDE DEF Bad, Splits
  <1>4. QED
    BY <1>1, <1>2, <1>3, SmallestBad

\* An element that was not there.
LEMMA SumAdd ==
    ASSUME NEW f, NEW S, IsFiniteSet(S), NEW y, y \notin S, \A x \in S \cup {y} : f[x] \in Int
    PROVE  SumFunctionOnSet(f, S \cup {y}) = f[y] + SumFunctionOnSet(f, S)
  <1> DEFINE T == S \cup {y}
  <1>1. IsFiniteSet(T) /\ y \in T /\ T \ {y} = S /\ \A x \in T : f[x] \in Int
    BY FS_AddElement
  <1> HIDE DEF T
  <1>2. SumFunctionOnSet(f, T) = f[y] + SumFunctionOnSet(f, S)
    BY <1>1, SumSplit
  <1>3. QED
    BY <1>2 DEF T

\* Larger values of more elements, none of them negative, have a larger sum.
LEMMA SumGrows ==
    ASSUME NEW f, NEW g, NEW S, IsFiniteSet(S), NEW R \in SUBSET S,
           \A x \in S : g[x] \in Nat, \A x \in R : f[x] \in Nat /\ f[x] <= g[x]
    PROVE  SumFunctionOnSet(f, R) <= SumFunctionOnSet(g, S)
  <1> DEFINE Below(T) == SumFunctionOnSet(f, R \cap T) <= SumFunctionOnSet(g, T)
             Bad == {T \in SUBSET S : ~Below(T)}
  <1>1. ASSUME NEW T \in Bad, \A U \in SUBSET T : U # T => U \notin Bad
        PROVE  FALSE
    <2>1. T \subseteq S /\ IsFiniteSet(T) /\ ~Below(T)
      BY FS_Subset
    <2>2. T # {}
      <3>1. ASSUME T = {}
            PROVE  FALSE
        <4>1. R \cap T = {}
          BY <3>1
        <4>2. SumFunctionOnSet(f, R \cap T) = 0 /\ SumFunctionOnSet(g, T) = 0
          BY <3>1, <4>1, SumEmpty
        <4>3. QED
          BY <2>1, <4>2
      <3>2. QED
        BY <3>1
    <2> DEFINE x == Pick(T)
               U == T \ {x}
    <2>3. x \in T /\ Below(U) /\ IsFiniteSet(U)
      <3>1. x \in T
        BY <2>2, PickIn
      <3>2. U \in SUBSET T /\ U # T /\ U \in SUBSET S
        BY <2>1, <3>1
      <3>3. QED
        BY <1>1, <2>1, <3>1, <3>2, FS_Subset
    <2>4. SumFunctionOnSet(g, T) = g[x] + SumFunctionOnSet(g, U)
      BY <2>1, <2>2, SumUnfolds
    <2>5. IsFiniteSet(R \cap T) /\ IsFiniteSet(R \cap U)
      BY <2>1, <2>3, FS_Intersection
    <2>6. /\ SumFunctionOnSet(g, U) \in Int /\ SumFunctionOnSet(f, R \cap U) \in Int
          /\ g[x] \in Nat
      BY <2>1, <2>3, <2>5, SumType
    <2>7. CASE x \in R
      <3>1. R \cap U = (R \cap T) \ {x} /\ x \in R \cap T /\ \A z \in R \cap T : f[z] \in Int
        BY <2>3, <2>7
      <3>2. SumFunctionOnSet(f, R \cap T) = f[x] + SumFunctionOnSet(f, R \cap U)
        BY <2>5, <3>1, SumSplit
      <3>3. f[x] \in Nat /\ f[x] <= g[x]
        BY <2>7
      <3> HIDE DEF x, U
      <3>4. QED
        BY <2>1, <2>3, <2>4, <2>6, <3>2, <3>3
    <2>8. CASE x \notin R
      <3>1. R \cap T = R \cap U
        BY <2>8
      <3> HIDE DEF x, U
      <3>2. QED
        BY <2>1, <2>3, <2>4, <2>6, <3>1
    <2>9. QED
      BY <2>7, <2>8
  <1>2. Bad \subseteq SUBSET S /\ (Bad = {} => Below(S))
    OBVIOUS
  <1>3. Below(S) => SumFunctionOnSet(f, R) <= SumFunctionOnSet(g, S)
    <2>1. R \cap S = R
      OBVIOUS
    <2>2. QED
      BY <2>1
  <1> HIDE DEF Bad, Below
  <1>4. QED
    BY <1>1, <1>2, <1>3, SmallestBad

\* A sum of naturals is one, and none of them is more than it.
LEMMA SumNat ==
    ASSUME NEW f, NEW S, IsFiniteSet(S), \A x \in S : f[x] \in Nat
    PROVE  /\ SumFunctionOnSet(f, S) \in Nat
           /\ \A y \in S : f[y] <= SumFunctionOnSet(f, S)
  <1>1. /\ SumFunctionOnSet(f, S) \in Int
        /\ \A R \in SUBSET S : SumFunctionOnSet(f, R) <= SumFunctionOnSet(f, S)
    <2>1. \A x \in S : f[x] \in Int /\ f[x] <= f[x]
      OBVIOUS
    <2>2. SumFunctionOnSet(f, S) \in Int
      BY <2>1, SumType
    <2>3. ASSUME NEW R \in SUBSET S
          PROVE  SumFunctionOnSet(f, R) <= SumFunctionOnSet(f, S)
      BY <2>1, SumGrows
    <2>4. QED
      BY <2>2, <2>3
  <1>2. SumFunctionOnSet(f, {}) = 0
    BY SumEmpty
  <1>3. ASSUME NEW y \in S
        PROVE  f[y] <= SumFunctionOnSet(f, S)
    <2>1. SumFunctionOnSet(f, {} \cup {y}) = f[y] + SumFunctionOnSet(f, {})
      BY SumAdd, FS_EmptySet
    <2>2. SumFunctionOnSet(f, {y}) = f[y]
      BY <1>2, <2>1
    <2>3. SumFunctionOnSet(f, {y}) <= SumFunctionOnSet(f, S)
      BY <1>1
    <2>4. QED
      BY <2>2, <2>3
  <1>4. QED
    BY <1>1, <1>2, <1>3

\* A change of one value changes the sum by as much.
LEMMA SumPut ==
    ASSUME NEW f, NEW g, NEW S, IsFiniteSet(S), NEW y \in S, NEW c \in Int,
           \A x \in S : f[x] \in Int,
           \A x \in S \ {y} : g[x] = f[x], g[y] = f[y] + c
    PROVE  SumFunctionOnSet(g, S) = SumFunctionOnSet(f, S) + c
  <1> DEFINE R == S \ {y}
  <1>1. IsFiniteSet(R) /\ \A x \in R : f[x] \in Int /\ f[x] = g[x]
    BY FS_Subset
  <1>2. f[y] \in Int /\ \A x \in S : g[x] \in Int
    OBVIOUS
  <1>3. /\ SumFunctionOnSet(f, S) = f[y] + SumFunctionOnSet(f, R)
        /\ SumFunctionOnSet(g, S) = g[y] + SumFunctionOnSet(g, R)
    BY <1>2, SumSplit
  <1> HIDE DEF R
  <1>4. SumFunctionOnSet(f, R) = SumFunctionOnSet(g, R) /\ SumFunctionOnSet(f, R) \in Int
    BY <1>1, SumSame, SumType
  <1>5. QED
    BY <1>2, <1>3, <1>4

\* What g adds to f on part of a set adds its sum over that part.
LEMMA SumPlus ==
    ASSUME NEW f, NEW g, NEW h, NEW S, IsFiniteSet(S), NEW R \in SUBSET S,
           \A x \in S : f[x] \in Int, \A x \in R : g[x] \in Int,
           \A x \in S : h[x] = IF x \in R THEN f[x] + g[x] ELSE f[x]
    PROVE  SumFunctionOnSet(h, S) = SumFunctionOnSet(f, S) + SumFunctionOnSet(g, R)
  <1> DEFINE Adds(T) == SumFunctionOnSet(h, T)
                          = SumFunctionOnSet(f, T) + SumFunctionOnSet(g, R \cap T)
             Bad == {T \in SUBSET S : ~Adds(T)}
  <1>1. ASSUME NEW T \in Bad, \A U \in SUBSET T : U # T => U \notin Bad
        PROVE  FALSE
    <2>1. T \subseteq S /\ IsFiniteSet(T) /\ ~Adds(T)
      BY FS_Subset
    <2>2. T # {}
      <3>1. ASSUME T = {}
            PROVE  FALSE
        <4>1. R \cap T = {}
          BY <3>1
        <4>2. /\ SumFunctionOnSet(h, T) = 0 /\ SumFunctionOnSet(f, T) = 0
              /\ SumFunctionOnSet(g, R \cap T) = 0
          BY <3>1, <4>1, SumEmpty
        <4>3. QED
          BY <2>1, <4>2
      <3>2. QED
        BY <3>1
    <2> DEFINE x == Pick(T)
               U == T \ {x}
    <2>3. x \in T /\ Adds(U) /\ IsFiniteSet(U)
      <3>1. x \in T
        BY <2>2, PickIn
      <3>2. U \in SUBSET T /\ U # T /\ U \in SUBSET S
        BY <2>1, <3>1
      <3>3. QED
        BY <1>1, <2>1, <3>1, <3>2, FS_Subset
    <2>4. /\ SumFunctionOnSet(h, T) = h[x] + SumFunctionOnSet(h, U)
          /\ SumFunctionOnSet(f, T) = f[x] + SumFunctionOnSet(f, U)
      BY <2>1, <2>2, SumUnfolds
    <2>5. IsFiniteSet(R \cap T) /\ IsFiniteSet(R \cap U)
      BY <2>1, <2>3, FS_Intersection
    <2>6. /\ SumFunctionOnSet(f, U) \in Int /\ SumFunctionOnSet(g, R \cap U) \in Int
          /\ f[x] \in Int
      BY <2>1, <2>3, <2>5, SumType
    <2>7. CASE x \in R
      <3>1. R \cap U = (R \cap T) \ {x} /\ x \in R \cap T /\ \A z \in R \cap T : g[z] \in Int
        BY <2>3, <2>7
      <3>2. SumFunctionOnSet(g, R \cap T) = g[x] + SumFunctionOnSet(g, R \cap U)
        BY <2>5, <3>1, SumSplit
      <3>3. g[x] \in Int /\ h[x] = f[x] + g[x]
        BY <2>1, <2>3, <2>7
      <3> HIDE DEF x, U
      <3>4. QED
        BY <2>1, <2>3, <2>4, <2>6, <3>2, <3>3
    <2>8. CASE x \notin R
      <3>1. R \cap T = R \cap U /\ h[x] = f[x]
        BY <2>1, <2>3, <2>8
      <3> HIDE DEF x, U
      <3>2. QED
        BY <2>1, <2>3, <2>4, <2>6, <3>1
    <2>9. QED
      BY <2>7, <2>8
  <1>2. Bad \subseteq SUBSET S /\ (Bad = {} => Adds(S))
    OBVIOUS
  <1>3. R \cap S = R
    OBVIOUS
  <1> HIDE DEF Bad
  <1>4. QED
    BY <1>1, <1>2, <1>3, SmallestBad

\* A sum of zeros.
LEMMA SumZero ==
    ASSUME NEW f, NEW S, IsFiniteSet(S), \A x \in S : f[x] = 0
    PROVE  SumFunctionOnSet(f, S) = 0
  <1>1. \A x \in S : f[x] \in Int /\ f[x] = IF x \in S THEN f[x] + f[x] ELSE f[x]
    OBVIOUS
  <1>2. SumFunctionOnSet(f, S) = SumFunctionOnSet(f, S) + SumFunctionOnSet(f, S)
    BY <1>1, SumPlus
  <1>3. SumFunctionOnSet(f, S) \in Int
    BY <1>1, SumType
  <1>4. \A n \in Int : n = n + n => n = 0
    OBVIOUS
  <1>5. QED
    BY ONLY <1>2, <1>3, <1>4

\* A sum may be taken group by group.
LEMMA SumGroups ==
    ASSUME NEW f, NEW g, NEW S, IsFiniteSet(S), NEW M, IsFiniteSet(M),
           \A x \in S : f[x] \in Int, \A x \in S : g[x] \in M
    PROVE  SumFunctionOnSet(f, S)
             = SumFunctionOnSet([o \in M |-> SumFunctionOnSet(f, {x \in S : g[x] = o})], M)
  <1> DEFINE Group(T, o) == {x \in T : g[x] = o}
             Of(T) == [o \in M |-> SumFunctionOnSet(f, Group(T, o))]
             Grouped(T) == SumFunctionOnSet(f, T) = SumFunctionOnSet(Of(T), M)
             Bad == {T \in SUBSET S : ~Grouped(T)}
  <1>1. ASSUME NEW T \in Bad, \A U \in SUBSET T : U # T => U \notin Bad
        PROVE  FALSE
    <2>1. T \subseteq S /\ IsFiniteSet(T) /\ ~Grouped(T)
      BY FS_Subset
    <2>2. CASE T = {}
      <3>1. \A o \in M : Of(T)[o] = 0
        <4>1. ASSUME NEW o \in M
              PROVE  Of(T)[o] = 0
          <5>1. Group(T, o) = {}
            BY <2>2
          <5>2. QED
            BY <5>1, SumEmpty
        <4>2. QED
          BY <4>1
      <3> HIDE DEF Of
      <3>2. SumFunctionOnSet(Of(T), M) = 0
        BY <3>1, SumZero
      <3>3. QED
        BY <2>1, <2>2, <3>2, SumEmpty
    <2>3. CASE T # {}
      <3> DEFINE y == Pick(T)
                 U == T \ {y}
      <3>1. y \in T /\ Grouped(U) /\ IsFiniteSet(U) /\ U \in SUBSET T
        <4>1. y \in T
          BY <2>3, PickIn
        <4>2. U \in SUBSET T /\ U # T /\ U \in SUBSET S
          BY <2>1, <4>1
        <4>3. QED
          BY <1>1, <2>1, <4>1, <4>2, FS_Subset
      <3>2. SumFunctionOnSet(f, T) = f[y] + SumFunctionOnSet(f, U)
        BY <2>1, <2>3, SumUnfolds
      <3> HIDE DEF y
      <3>3. g[y] \in M /\ f[y] \in Int /\ \A x \in T : f[x] \in Int
        BY <2>1, <3>1
      <3>4. ASSUME NEW o \in M
            PROVE  Of(U)[o] \in Int
        <4>1. IsFiniteSet(Group(U, o)) /\ \A x \in Group(U, o) : f[x] \in Int
          BY <3>1, <3>3, FS_Subset
        <4>2. QED
          BY <4>1, SumType
      <3>5. ASSUME NEW o \in M \ {g[y]}
            PROVE  Of(T)[o] = Of(U)[o]
        <4>1. Group(T, o) = Group(U, o)
          OBVIOUS
        <4>2. QED
          BY <4>1
      <3>6. Of(T)[g[y]] = Of(U)[g[y]] + f[y]
        <4> DEFINE G == Group(T, g[y])
        <4>1. IsFiniteSet(G) /\ y \in G /\ \A x \in G : f[x] \in Int
          BY <2>1, <3>1, <3>3, FS_Subset
        <4>2. G \ {y} = Group(U, g[y])
          OBVIOUS
        <4>3. Of(T)[g[y]] = SumFunctionOnSet(f, G) /\ Of(U)[g[y]] = SumFunctionOnSet(f, G \ {y})
          BY <3>3, <4>2
        <4>4. SumFunctionOnSet(f, G) = f[y] + SumFunctionOnSet(f, G \ {y})
          <5> HIDE DEF G
          <5>1. QED
            BY <4>1, SumSplit
        <4>5. Of(U)[g[y]] \in Int
          BY <3>3, <3>4
        <4> HIDE DEF G, Of
        <4>6. QED
          BY <3>3, <4>3, <4>4, <4>5
      <3>7. /\ SumFunctionOnSet(Of(T), M) = SumFunctionOnSet(Of(U), M) + f[y]
            /\ SumFunctionOnSet(Of(U), M) \in Int
        <4> DEFINE k == Of(U)
                   l == Of(T)
                   z == g[y]
                   c == f[y]
        <4>1. /\ z \in M /\ c \in Int /\ \A o \in M : k[o] \in Int
              /\ \A o \in M \ {z} : l[o] = k[o]
              /\ l[z] = k[z] + c
          BY <3>3, <3>4, <3>5, <3>6
        <4> HIDE DEF k, l, z, c
        <4>2. SumFunctionOnSet(l, M) = SumFunctionOnSet(k, M) + c
          BY <4>1, SumPut
        <4>3. SumFunctionOnSet(k, M) \in Int
          BY <4>1, SumType
        <4>4. QED
          BY <4>2, <4>3 DEF k, l, c
      <3>8. SumFunctionOnSet(Of(U), M) \in Int
        BY <3>7
      <3>9. QED
        BY <2>1, <3>1, <3>2, <3>3, <3>7, <3>8
    <2>4. QED
      BY <2>2, <2>3
  <1>2. Bad \subseteq SUBSET S /\ (Bad = {} => Grouped(S))
    OBVIOUS
  <1> HIDE DEF Bad
  <1>3. Grouped(S)
    BY <1>1, <1>2, SmallestBad
  <1>4. QED
    BY <1>3

\* The sum over two sets that share nothing.
LEMMA SumUnion ==
    ASSUME NEW f, NEW A, NEW B, IsFiniteSet(A), IsFiniteSet(B), A \cap B = {},
           \A x \in A \cup B : f[x] \in Int
    PROVE  SumFunctionOnSet(f, A \cup B) = SumFunctionOnSet(f, A) + SumFunctionOnSet(f, B)
  <1> DEFINE Adds(T) == SumFunctionOnSet(f, A \cup T)
                          = SumFunctionOnSet(f, A) + SumFunctionOnSet(f, T)
             Bad == {T \in SUBSET B : ~Adds(T)}
  <1>1. ASSUME NEW T \in Bad, \A U \in SUBSET T : U # T => U \notin Bad
        PROVE  FALSE
    <2>1. T \in SUBSET B /\ ~Adds(T) /\ IsFiniteSet(T)
      BY FS_Subset
    <2>2. SumFunctionOnSet(f, A) \in Int
      BY SumType
    <2>3. T # {}
      <3>1. A \cup {} = A /\ SumFunctionOnSet(f, {}) = 0
        BY SumEmpty
      <3>2. Adds({})
        BY <2>2, <3>1
      <3> HIDE DEF Adds
      <3>3. QED
        BY <2>1, <3>2
    <2>4. PICK y \in T : TRUE
      BY <2>3
    <2> DEFINE U == T \ {y}
    <2>5. U \in SUBSET T /\ U # T /\ U \in SUBSET B /\ T = U \cup {y} /\ y \notin A \cup U
          /\ A \cup T = (A \cup U) \cup {y}
      BY <2>1, <2>4
    <2>6. Adds(U)
      BY <1>1, <2>5
    <2>7. IsFiniteSet(U) /\ IsFiniteSet(A \cup U)
      BY <2>1, <2>5, FS_Subset, FS_Union
    <2> HIDE DEF U
    <2>8. SumFunctionOnSet(f, U) \in Int /\ f[y] \in Int
      BY <2>1, <2>5, <2>7, SumType
    <2>9. SumFunctionOnSet(f, T) = f[y] + SumFunctionOnSet(f, U)
      BY <2>1, <2>5, <2>7, SumAdd
    <2>10. SumFunctionOnSet(f, A \cup T) = f[y] + SumFunctionOnSet(f, A \cup U)
      BY <2>1, <2>5, <2>7, SumAdd
    <2>11. QED
      BY <2>1, <2>2, <2>6, <2>8, <2>9, <2>10
  <1>2. Bad \subseteq SUBSET B /\ (Bad = {} => Adds(B))
    OBVIOUS
  <1>3. Bad = {}
    <2> HIDE DEF Bad
    <2>1. QED
      BY <1>1, <1>2, SmallestBad
  <1>4. QED
    BY <1>2, <1>3

\* Renaming the elements leaves the sum.
LEMMA SumRenamed ==
    ASSUME NEW f, NEW g, NEW h, NEW S, IsFiniteSet(S), NEW T,
           T = {h[x] : x \in S}, \A x \in S : \A y \in S : h[x] = h[y] => x = y,
           \A x \in S : f[x] \in Int /\ g[h[x]] = f[x]
    PROVE  SumFunctionOnSet(g, T) = SumFunctionOnSet(f, S)
  <1>1. IsFiniteSet(T)
    BY ImageFinite
  <1> DEFINE Of == [o \in T |-> SumFunctionOnSet(f, {x \in S : h[x] = o})]
  <1>2. SumFunctionOnSet(f, S) = SumFunctionOnSet(Of, T)
    BY <1>1, SumGroups
  <1>3. \A o \in T : Of[o] = g[o]
    <2> SUFFICES ASSUME NEW o \in T
                 PROVE  Of[o] = g[o]
      OBVIOUS
    <2>1. PICK x \in S : o = h[x]
      OBVIOUS
    <2>2. {y \in S : h[y] = o} = {} \cup {x}
      BY <2>1
    <2>3. SumFunctionOnSet(f, {} \cup {x}) = f[x] + SumFunctionOnSet(f, {})
      BY SumAdd, FS_EmptySet
    <2>4. SumFunctionOnSet(f, {}) = 0 /\ f[x] \in Int
      BY SumEmpty
    <2>5. SumFunctionOnSet(f, {} \cup {x}) = f[x]
      BY <2>3, <2>4
    <2>6. QED
      BY <2>1, <2>2, <2>5
  <1> HIDE DEF Of
  <1>4. SumFunctionOnSet(Of, T) = SumFunctionOnSet(g, T)
    BY <1>1, <1>3, SumSame
  <1>5. QED
    BY <1>2, <1>4

-----------------------------------------------------------------------------
(***************************************************************************)
(* Orders.                                                                 *)
(***************************************************************************)
\* R orders S.
StrictOrder(R, S) ==
    /\ \A a \in S : <<a, a>> \notin R
    /\ \A a \in S : \A b \in S : a # b => <<a, b>> \in R \/ <<b, a>> \in R
    /\ \A a \in S : \A b \in S : \A c \in S :
          <<a, b>> \in R /\ <<b, c>> \in R => <<a, c>> \in R

\* A finite set can be listed in its order: the place of an element is the number of those
\* before it, and one.
LEMMA OrderExists ==
    ASSUME NEW S, IsFiniteSet(S), NEW R, StrictOrder(R, S)
    PROVE  \E s \in [1 .. Cardinality(S) -> S] :
              \A i, j \in 1 .. Cardinality(S) : i < j => <<s[i], s[j]>> \in R
  <1> DEFINE n == Cardinality(S)
             Above(o) == {a \in S : <<a, o>> \in R}
             rank == [o \in S |-> Cardinality(Above(o)) + 1]
  <1>0. /\ \A a \in S : <<a, a>> \notin R
        /\ \A a \in S : \A b \in S : a # b => <<a, b>> \in R \/ <<b, a>> \in R
        /\ \A a \in S : \A b \in S : \A c \in S :
              <<a, b>> \in R /\ <<b, c>> \in R => <<a, c>> \in R
    BY DEF StrictOrder
  <1>1. n \in Nat
    BY FS_CardinalityType
  <1>2. ASSUME NEW o \in S
        PROVE  /\ IsFiniteSet(Above(o)) /\ Cardinality(Above(o)) \in Nat
               /\ rank[o] = Cardinality(Above(o)) + 1 /\ rank[o] \in 1 .. n
    <2>1. /\ IsFiniteSet(Above(o)) /\ Cardinality(Above(o)) <= n
          /\ Cardinality(Above(o)) = n => Above(o) = S
      BY FS_Subset
    <2>2. Above(o) # S
      BY <1>0
    <2>3. Cardinality(Above(o)) \in Nat
      BY <2>1, FS_CardinalityType
    <2>4. rank[o] = Cardinality(Above(o)) + 1
      OBVIOUS
    <2> HIDE DEF Above, n, rank
    <2>5. QED
      BY <1>1, <2>1, <2>2, <2>3, <2>4
  <1>3. ASSUME NEW a \in S, NEW b \in S, <<a, b>> \in R
        PROVE  rank[a] < rank[b]
    <2>1. Above(a) \subseteq Above(b)
      BY <1>3, <1>0
    <2>2. a \in Above(b) /\ a \notin Above(a)
      BY <1>3, <1>0
    <2> HIDE DEF Above, rank
    <2>3. /\ Cardinality(Above(a)) <= Cardinality(Above(b))
          /\ Cardinality(Above(a)) # Cardinality(Above(b))
      BY <1>2, <2>1, <2>2, FS_Subset
    <2>4. QED
      BY <1>2, <2>3
  <1>4. rank = [o \in S |-> rank[o]]
    OBVIOUS
  <1> HIDE DEF Above, rank
  <1>5. rank \in Injection(S, 1 .. n)
    <2>1. \A a \in S : \A b \in S : rank[a] = rank[b] => a = b
      <3>1. \A a \in S : rank[a] \in Int
        BY <1>1, <1>2
      <3>2. ASSUME NEW a \in S, NEW b \in S, a # b
            PROVE  rank[a] # rank[b]
        <4>1. rank[a] < rank[b] \/ rank[b] < rank[a]
          BY <1>0, <1>3, <3>2
        <4>2. rank[a] \in Int /\ rank[b] \in Int
          BY <3>1
        <4>3. QED
          BY <4>1, <4>2
      <3>3. QED
        BY <3>2
    <2>2. rank \in [S -> 1 .. n]
      BY <1>2, <1>4
    <2>3. QED
      BY <2>1, <2>2 DEF Injection, IsInjective
  <1>6. rank \in Surjection(S, 1 .. n)
    <2>1. IsFiniteSet(1 .. n) /\ Cardinality(1 .. n) = n
      BY <1>1, FS_Interval
    <2>2. QED
      BY <1>5, <2>1, FS_Injection
  <1> DEFINE s == [i \in 1 .. n |-> CHOOSE o \in S : rank[o] = i]
  <1>7. \A i \in 1 .. n : s[i] \in S /\ rank[s[i]] = i
    <2>1. \A i \in 1 .. n : \E o \in S : rank[o] = i
      BY <1>6 DEF Surjection
    <2>2. QED
      BY <2>1
  <1>8. s \in [1 .. n -> S] /\ DOMAIN s = 1 .. n
    BY <1>7
  <1> HIDE DEF s
  <1>9. ASSUME NEW i \in 1 .. n, NEW j \in 1 .. n, i < j
        PROVE  <<s[i], s[j]>> \in R
    <2>1. /\ s[i] \in S /\ s[j] \in S /\ rank[s[i]] = i /\ rank[s[j]] = j
          /\ i \in Int /\ j \in Int
      BY <1>1, <1>7
    <2>2. s[i] # s[j]
      BY <1>9, <2>1
    <2>3. <<s[j], s[i]>> \notin R
      BY <1>3, <1>9, <2>1
    <2>4. QED
      BY <2>1, <2>2, <2>3, <1>0
  <1>10. QED
    BY <1>8, <1>9
=============================================================================
