------------------------------ MODULE SumFacts ------------------------------
(***************************************************************************)
(* Facts about SumFunction, the sum of the values of a function with a     *)
(* finite domain, which the models use wherever the code keeps a total     *)
(* beside the rows it adds up.  The library folds the set of arguments     *)
(* with a recursive function over its subsets, in the order of a CHOOSE;   *)
(* that such a function exists and that the order does not matter is       *)
(* proved here by looking at the smallest set for which it would fail.     *)
(***************************************************************************)
EXTENDS Integers, FiniteSets, Functions, FiniteSetTheorems,
        WellFoundedInduction, TLAPS

Any(s) == CHOOSE x \in s : TRUE

\* it maps every member of SS, a set of sets, to the sum of g over it.
IsSums(g, SS, it) ==
    it = [s \in SS |-> IF s = {} THEN 0 ELSE g[Any(s)] + it[s \ {Any(s)}]]

Sums(g) == CHOOSE it : IsSums(g, SUBSET DOMAIN g, it)

SubsetsUpTo(S, n) == {s \in SUBSET S : Cardinality(s) <= n}

Without(g, x) == [y \in DOMAIN g \ {x} |-> g[y]]

LEMMA LeastNat ==
    ASSUME NEW T, T \subseteq Nat, T # {}
    PROVE  \E m \in T : \A k \in T : m <= k
<1> DEFINE R == OpToRel(<, Nat)
<1>1. IsWellFoundedOn(R, Nat)
  BY NatLessThanWellFounded
<1> HIDE DEF R
<1>2. PICK m \in T : \A k \in T : <<k, m>> \notin R
  BY <1>1, WFMin
<1>3. \A k \in T : ~(k < m)
  BY <1>2 DEF R, OpToRel
<1>. QED
  BY <1>3

LEMMA SumFunctionDef ==
    ASSUME NEW g PROVE SumFunction(g) = Sums(g)[DOMAIN g]
  BY DEF SumFunction, SumFunctionOnSet, FoldFunctionOnSet, MapThenFoldSet, Sums,
         IsSums, Any

\* A finite set without one of its members.
LEMMA Smaller ==
    ASSUME NEW s, IsFiniteSet(s), s # {}
    PROVE  /\ Any(s) \in s
           /\ \A x \in s : /\ IsFiniteSet(s \ {x})
                           /\ Cardinality(s) \in Nat /\ Cardinality(s) > 0
                           /\ Cardinality(s \ {x}) = Cardinality(s) - 1
<1>1. Any(s) \in s
  BY DEF Any
<1>2. ASSUME NEW x \in s
      PROVE  /\ IsFiniteSet(s \ {x})
             /\ Cardinality(s) \in Nat /\ Cardinality(s) > 0
             /\ Cardinality(s \ {x}) = Cardinality(s) - 1
  <2>1. IsFiniteSet(s \ {x}) /\ Cardinality(s \ {x}) = Cardinality(s) - 1
    BY FS_RemoveElement
  <2>2. Cardinality(s) \in Nat /\ Cardinality(s \ {x}) \in Nat
    BY <2>1, FS_CardinalityType
  <2>. QED
    BY <2>1, <2>2
<1>. QED
  BY <1>1, <1>2

\* The recursion has a solution on the subsets of S with at most n members.
LEMMA SumsExistUpTo ==
    ASSUME NEW g, NEW S, IsFiniteSet(S), NEW n \in Nat
    PROVE  \E it : IsSums(g, SubsetsUpTo(S, n), it)
<1> DEFINE UpTo(m) == SubsetsUpTo(S, m)
           P(m) == \E it : IsSums(g, UpTo(m), it)
           T == {m \in Nat : ~P(m)}
<1>1. ASSUME NEW s \in SUBSET S
      PROVE  /\ IsFiniteSet(s) /\ Cardinality(s) \in Nat
             /\ Cardinality(s) = 0 <=> s = {}
  BY FS_Subset, FS_CardinalityType, FS_EmptySet
<1>2. P(0)
  <2>1. UpTo(0) = {{}}
    BY <1>1 DEF SubsetsUpTo
  <2> DEFINE z == [s \in {{}} |-> 0]
  <2>2. IsSums(g, UpTo(0), z)
    BY <2>1 DEF IsSums
  <2>. QED
    BY <2>2
<1>3. ASSUME NEW m \in Nat, P(m) PROVE P(m + 1)
  <2>1. PICK h : IsSums(g, UpTo(m), h)
    BY <1>3
  <2> DEFINE F(it, s) == IF s = {} THEN 0 ELSE g[Any(s)] + it[s \ {Any(s)}]
             k == [s \in UpTo(m + 1) |-> F(h, s)]
  <2>2. \A s \in UpTo(m) : h[s] = F(h, s)
    BY <2>1 DEF IsSums
  <2>3. UpTo(m) \subseteq UpTo(m + 1)
    BY <1>1 DEF SubsetsUpTo
  <2>4. \A s \in UpTo(m) : k[s] = h[s]
    BY <2>2, <2>3
  <2>5. ASSUME NEW s \in UpTo(m + 1), s # {}
        PROVE  s \ {Any(s)} \in UpTo(m)
    <3>1. /\ IsFiniteSet(s) /\ s \ {Any(s)} \in SUBSET S
      BY <1>1 DEF SubsetsUpTo
    <3>. QED
      BY <2>5, <3>1, Smaller DEF SubsetsUpTo
  <2>6. ASSUME NEW s \in UpTo(m + 1) PROVE F(h, s) = F(k, s)
    <3>1. CASE s = {}
      BY <3>1
    <3>2. CASE s # {}
      BY <2>4, <2>5, <3>2
    <3>. QED
      BY <3>1, <3>2
  <2>7. k = [s \in UpTo(m + 1) |-> F(k, s)]
    <3>1. \A s \in UpTo(m + 1) : k[s] = F(k, s)
      BY <2>6
    <3> HIDE DEF F
    <3>. QED
      BY <3>1
  <2> HIDE DEF k, UpTo
  <2>. QED
    BY <2>7 DEF IsSums
<1> HIDE DEF P
<1>4. T = {}
  <2> SUFFICES ASSUME T # {} PROVE FALSE
    OBVIOUS
  <2>1. PICK m \in T : \A k \in T : m <= k
    <3>1. T \subseteq Nat
      OBVIOUS
    <3> HIDE DEF T
    <3>. QED
      BY <3>1, LeastNat
  <2>2. m # 0
    BY <1>2
  <2>3. m - 1 \in Nat /\ m - 1 \notin T
    BY <2>1, <2>2
  <2>4. P(m - 1)
    BY <2>3
  <2>5. P((m - 1) + 1)
    BY <1>3, <2>3, <2>4
  <2>6. (m - 1) + 1 = m
    BY <2>3
  <2>. QED
    BY <2>5, <2>6
<1>. QED
  BY <1>4 DEF P

\* The sums of g, as the library defines them, are what they should be.
LEMMA SumsRecursion ==
    ASSUME NEW g, IsFiniteSet(DOMAIN g)
    PROVE  /\ Sums(g)[{}] = 0
           /\ \A s \in SUBSET DOMAIN g :
                s # {} => Sums(g)[s] = g[Any(s)] + Sums(g)[s \ {Any(s)}]
<1> DEFINE n == Cardinality(DOMAIN g)
<1>1. SubsetsUpTo(DOMAIN g, n) = SUBSET DOMAIN g
  BY FS_Subset DEF SubsetsUpTo
<1>2. n \in Nat
  BY FS_CardinalityType
<1>3. \E it : IsSums(g, SUBSET DOMAIN g, it)
  <2>1. \E it : IsSums(g, SubsetsUpTo(DOMAIN g, n), it)
    BY <1>2, SumsExistUpTo
  <2>. QED
    BY <1>1, <2>1
<1>4. IsSums(g, SUBSET DOMAIN g, Sums(g))
  BY <1>3 DEF Sums
<1> DEFINE F(s) == IF s = {} THEN 0 ELSE g[Any(s)] + Sums(g)[s \ {Any(s)}]
<1>5. \A s \in SUBSET DOMAIN g : Sums(g)[s] = F(s)
  <2>1. Sums(g) = [s \in SUBSET DOMAIN g |-> F(s)]
    BY <1>4 DEF IsSums
  <2> HIDE DEF F
  <2>. QED
    BY <2>1
<1>. QED
  BY <1>5

\* The sums of integers are integers, and of natural numbers natural numbers.
LEMMA SumsType ==
    ASSUME NEW N \in {Nat, Int}, NEW g, IsFiniteSet(DOMAIN g),
           \A x \in DOMAIN g : g[x] \in N
    PROVE  \A s \in SUBSET DOMAIN g : Sums(g)[s] \in N
<1> DEFINE Bad == {s \in SUBSET DOMAIN g : Sums(g)[s] \notin N}
           T == {Cardinality(s) : s \in Bad}
<1>1. ASSUME NEW s \in SUBSET DOMAIN g
      PROVE  IsFiniteSet(s) /\ Cardinality(s) \in Nat
  BY FS_Subset, FS_CardinalityType
<1>2. 0 \in N /\ \A a, b \in N : a + b \in N
  OBVIOUS
<1>3. ASSUME Bad # {} PROVE FALSE
  <2>1. T \subseteq Nat /\ T # {}
    BY <1>1, <1>3
  <2>2. PICK m \in T : \A k \in T : m <= k
    <3> HIDE DEF T
    <3>. QED
      BY <2>1, LeastNat
  <2>3. PICK s \in Bad : m = Cardinality(s)
    OBVIOUS
  <2>4. s # {}
    BY <1>2, SumsRecursion
  <2>5. IsFiniteSet(s) /\ s \in SUBSET DOMAIN g /\ Sums(g)[s] \notin N
    BY <1>1
  <2>6. /\ Any(s) \in s /\ Cardinality(s \ {Any(s)}) = Cardinality(s) - 1
        /\ Cardinality(s) \in Nat
    BY <2>4, <2>5, Smaller
  <2>7. ~(m <= Cardinality(s \ {Any(s)}))
    BY <2>3, <2>6
  <2>8. s \ {Any(s)} \notin Bad
    BY <2>2, <2>7
  <2>9. Sums(g)[s \ {Any(s)}] \in N
    BY <2>5, <2>8
  <2>10. Sums(g)[s] = g[Any(s)] + Sums(g)[s \ {Any(s)}]
    BY <2>4, <2>5, SumsRecursion
  <2>. QED
    BY <1>2, <2>5, <2>6, <2>9, <2>10
<1>. QED
  BY <1>3

\* Any member may be taken out first: the order of the CHOOSE is immaterial.
LEMMA SumsRemove ==
    ASSUME NEW g, IsFiniteSet(DOMAIN g), \A x \in DOMAIN g : g[x] \in Int
    PROVE  \A s \in SUBSET DOMAIN g : \A x \in s :
              Sums(g)[s] = g[x] + Sums(g)[s \ {x}]
<1> DEFINE Fine(s) == \A x \in s : Sums(g)[s] = g[x] + Sums(g)[s \ {x}]
           Bad == {s \in SUBSET DOMAIN g : ~Fine(s)}
           T == {Cardinality(s) : s \in Bad}
<1>1. ASSUME NEW s \in SUBSET DOMAIN g
      PROVE  /\ IsFiniteSet(s) /\ Cardinality(s) \in Nat
             /\ Sums(g)[s] \in Int
  BY FS_Subset, FS_CardinalityType, SumsType
<1>2. ASSUME NEW s \in SUBSET DOMAIN g, NEW x \in s,
             \A u \in SUBSET DOMAIN g : Cardinality(u) < Cardinality(s) => Fine(u)
      PROVE  Sums(g)[s] = g[x] + Sums(g)[s \ {x}]
  <2> DEFINE y == Any(s)
  <2>1. y \in s
    BY DEF Any
  <2>2. Sums(g)[s] = g[y] + Sums(g)[s \ {y}]
    BY SumsRecursion
  <2> HIDE DEF y
  <2>3. CASE x = y
    BY <2>2, <2>3
  <2>4. CASE x # y
    <3>1. /\ Cardinality(s \ {x}) < Cardinality(s)
          /\ Cardinality(s \ {y}) < Cardinality(s)
      BY <1>1, <2>1, Smaller
    <3>2. Fine(s \ {x}) /\ Fine(s \ {y})
      BY <1>2, <3>1
    <3>3. Sums(g)[s \ {x}] = g[y] + Sums(g)[(s \ {x}) \ {y}]
      BY <2>1, <2>4, <3>2
    <3>4. Sums(g)[s \ {y}] = g[x] + Sums(g)[(s \ {y}) \ {x}]
      BY <2>4, <3>2
    <3>5. (s \ {x}) \ {y} = (s \ {y}) \ {x}
      OBVIOUS
    <3> DEFINE rest == Sums(g)[(s \ {y}) \ {x}]
    <3>6. rest \in Int /\ g[x] \in Int /\ g[y] \in Int
      BY <1>1, <2>1
    <3>7. Sums(g)[s] = g[y] + (g[x] + rest) /\ Sums(g)[s \ {x}] = g[y] + rest
      BY <2>2, <3>3, <3>4, <3>5
    <3> HIDE DEF rest
    <3>8. Sums(g)[s] = g[x] + (g[y] + rest)
      BY <3>6, <3>7
    <3>. QED
      BY <3>7, <3>8
  <2>. QED
    BY <2>3, <2>4
<1>3. ASSUME Bad # {} PROVE FALSE
  <2>1. T \subseteq Nat /\ T # {}
    BY <1>1, <1>3
  <2>2. PICK m \in T : \A k \in T : m <= k
    <3> HIDE DEF T
    <3>. QED
      BY <2>1, LeastNat
  <2>3. PICK s \in Bad : m = Cardinality(s)
    OBVIOUS
  <2>4. ASSUME NEW u \in SUBSET DOMAIN g, Cardinality(u) < Cardinality(s)
        PROVE  u \notin Bad
    <3>1. Cardinality(u) \notin T
      <4>1. /\ IsFiniteSet(u) /\ Cardinality(u) \in Nat
            /\ IsFiniteSet(s) /\ Cardinality(s) \in Nat
        BY <1>1
      <4> HIDE DEF T
      <4>. QED
        BY <2>2, <2>3, <2>4, <4>1
    <3>. QED
      BY <3>1
  <2>5. s \in SUBSET DOMAIN g /\ ~Fine(s)
    OBVIOUS
  <2>6. \A u \in SUBSET DOMAIN g : Cardinality(u) < Cardinality(s) => Fine(u)
    BY <2>4
  <2>. QED
    BY <1>2, <2>5, <2>6
<1>. QED
  BY <1>3

\* Functions that agree on a set have the same sum over it.
LEMMA SumsAgree ==
    ASSUME NEW g, NEW h, IsFiniteSet(DOMAIN g), IsFiniteSet(DOMAIN h),
           NEW S, S \subseteq DOMAIN g, S \subseteq DOMAIN h,
           \A x \in S : g[x] = h[x]
    PROVE  Sums(g)[S] = Sums(h)[S]
<1> DEFINE Bad == {s \in SUBSET S : Sums(g)[s] # Sums(h)[s]}
           T == {Cardinality(s) : s \in Bad}
<1>1. ASSUME NEW s \in SUBSET S PROVE IsFiniteSet(s) /\ Cardinality(s) \in Nat
  BY FS_Subset, FS_CardinalityType
<1>2. ASSUME Bad # {} PROVE FALSE
  <2>1. T \subseteq Nat /\ T # {}
    BY <1>1, <1>2
  <2>2. PICK m \in T : \A k \in T : m <= k
    <3> HIDE DEF T
    <3>. QED
      BY <2>1, LeastNat
  <2>3. PICK s \in Bad : m = Cardinality(s)
    OBVIOUS
  <2>4. s \in SUBSET S /\ Sums(g)[s] # Sums(h)[s]
    OBVIOUS
  <2>5. s # {}
    BY <2>4, SumsRecursion
  <2>6. /\ Any(s) \in s /\ Cardinality(s \ {Any(s)}) = Cardinality(s) - 1
        /\ Cardinality(s) \in Nat
    BY <1>1, <2>5, Smaller
  <2>7. s \ {Any(s)} \notin Bad
    BY <2>2, <2>3, <2>6
  <2>8. Sums(g)[s \ {Any(s)}] = Sums(h)[s \ {Any(s)}]
    BY <2>4, <2>7
  <2>9. /\ Sums(g)[s] = g[Any(s)] + Sums(g)[s \ {Any(s)}]
        /\ Sums(h)[s] = h[Any(s)] + Sums(h)[s \ {Any(s)}]
    BY <2>4, <2>5, SumsRecursion
  <2>. QED
    BY <2>4, <2>6, <2>8, <2>9
<1>. QED
  BY <1>2

-----------------------------------------------------------------------------
(* What the models need                                                     *)

\* A sum of nothing is 0.
LEMMA SumEmpty ==
    ASSUME NEW g, DOMAIN g = {} PROVE SumFunction(g) = 0
<1>1. IsFiniteSet(DOMAIN g)
  BY FS_EmptySet
<1>. QED
  BY <1>1, SumFunctionDef, SumsRecursion

\* Sums of natural numbers are natural numbers, sums of integers integers.
LEMMA SumType ==
    ASSUME NEW g, IsFiniteSet(DOMAIN g)
    PROVE  /\ (\A x \in DOMAIN g : g[x] \in Nat) => SumFunction(g) \in Nat
           /\ (\A x \in DOMAIN g : g[x] \in Int) => SumFunction(g) \in Int
  BY SumFunctionDef, SumsType

\* One value taken out of a sum.
LEMMA SumRemove ==
    ASSUME NEW g, IsFiniteSet(DOMAIN g), \A y \in DOMAIN g : g[y] \in Int,
           NEW x \in DOMAIN g
    PROVE  SumFunction(g) = g[x] + SumFunction(Without(g, x))
<1>1. Sums(g)[DOMAIN g] = g[x] + Sums(g)[DOMAIN g \ {x}]
  BY SumsRemove
<1>2. DOMAIN Without(g, x) = DOMAIN g \ {x} /\ IsFiniteSet(DOMAIN g \ {x})
  BY FS_RemoveElement DEF Without
<1>3. Sums(g)[DOMAIN g \ {x}] = Sums(Without(g, x))[DOMAIN g \ {x}]
  <2>1. \A y \in DOMAIN g \ {x} : g[y] = Without(g, x)[y]
    BY DEF Without
  <2>. QED
    BY <1>2, <2>1, SumsAgree
<1>. QED
  BY <1>1, <1>2, <1>3, SumFunctionDef

\* A sum after the value of one argument has changed.
LEMMA SumUpdate ==
    ASSUME NEW g, NEW h, IsFiniteSet(DOMAIN g), DOMAIN h = DOMAIN g,
           \A y \in DOMAIN g : g[y] \in Int /\ h[y] \in Int,
           NEW x \in DOMAIN g, \A y \in DOMAIN g \ {x} : h[y] = g[y]
    PROVE  SumFunction(h) = SumFunction(g) - g[x] + h[x]
<1>1. Without(h, x) = Without(g, x)
  BY DEF Without
<1>2. /\ SumFunction(g) = g[x] + SumFunction(Without(g, x))
      /\ SumFunction(h) = h[x] + SumFunction(Without(h, x))
  BY SumRemove
<1>3. SumFunction(Without(g, x)) \in Int
  <2>1. /\ IsFiniteSet(DOMAIN Without(g, x))
        /\ \A y \in DOMAIN Without(g, x) : Without(g, x)[y] \in Int
    BY FS_RemoveElement DEF Without
  <2>. QED
    BY <2>1, SumType
<1>. QED
  BY <1>1, <1>2, <1>3

\* A natural number is at most the sum it is part of.
LEMMA SumBound ==
    ASSUME NEW g, IsFiniteSet(DOMAIN g), \A y \in DOMAIN g : g[y] \in Nat,
           NEW x \in DOMAIN g
    PROVE  g[x] <= SumFunction(g)
<1>1. SumFunction(g) = g[x] + SumFunction(Without(g, x))
  BY SumRemove
<1>2. SumFunction(Without(g, x)) \in Nat
  <2>1. /\ IsFiniteSet(DOMAIN Without(g, x))
        /\ \A y \in DOMAIN Without(g, x) : Without(g, x)[y] \in Nat
    BY FS_RemoveElement DEF Without
  <2>. QED
    BY <2>1, SumType
<1>. QED
  BY <1>1, <1>2

\* A sum of zeros is 0.
LEMMA SumZero ==
    ASSUME NEW g, IsFiniteSet(DOMAIN g), \A y \in DOMAIN g : g[y] = 0
    PROVE  SumFunction(g) = 0
<1> DEFINE Bad == {s \in SUBSET DOMAIN g : Sums(g)[s] # 0}
           T == {Cardinality(s) : s \in Bad}
<1>1. ASSUME NEW s \in SUBSET DOMAIN g
      PROVE  IsFiniteSet(s) /\ Cardinality(s) \in Nat
  BY FS_Subset, FS_CardinalityType
<1>2. ASSUME Bad # {} PROVE FALSE
  <2>1. T \subseteq Nat /\ T # {}
    BY <1>1, <1>2
  <2>2. PICK m \in T : \A k \in T : m <= k
    <3> HIDE DEF T
    <3>. QED
      BY <2>1, LeastNat
  <2>3. PICK s \in Bad : m = Cardinality(s)
    OBVIOUS
  <2>4. s \in SUBSET DOMAIN g /\ Sums(g)[s] # 0
    OBVIOUS
  <2>5. s # {}
    BY <2>4, SumsRecursion
  <2>6. /\ Any(s) \in s /\ Cardinality(s \ {Any(s)}) = Cardinality(s) - 1
        /\ Cardinality(s) \in Nat
    BY <1>1, <2>5, Smaller
  <2>7. s \ {Any(s)} \notin Bad
    BY <2>2, <2>3, <2>6
  <2>8. Sums(g)[s \ {Any(s)}] = 0 /\ g[Any(s)] = 0
    BY <2>4, <2>6, <2>7
  <2>9. Sums(g)[s] = g[Any(s)] + Sums(g)[s \ {Any(s)}]
    BY <2>4, <2>5, SumsRecursion
  <2>. QED
    BY <2>4, <2>8, <2>9
<1>. QED
  BY <1>2, SumFunctionDef

\* Some smallest set of a collection of finite sets.
LEMMA SmallestSet ==
    ASSUME NEW Sets, Sets # {}, \A s \in Sets : IsFiniteSet(s)
    PROVE  \E s \in Sets : \A t \in Sets : ~(Cardinality(t) < Cardinality(s))
<1> DEFINE T == {Cardinality(s) : s \in Sets}
<1>1. T \subseteq Nat /\ T # {}
  BY FS_CardinalityType
<1>2. PICK m \in T : \A k \in T : m <= k
  <2> HIDE DEF T
  <2>. QED
    BY <1>1, LeastNat
<1>3. PICK s \in Sets : m = Cardinality(s)
  OBVIOUS
<1>4. ASSUME NEW t \in Sets PROVE ~(Cardinality(t) < Cardinality(s))
  <2>1. Cardinality(t) \in T
    OBVIOUS
  <2>. QED
    BY <1>1, <1>2, <1>3, <2>1
<1>. QED
  BY <1>4

\* A sum of sums, taken point by point.
LEMMA SumAdd ==
    ASSUME NEW g, NEW h, NEW f, IsFiniteSet(DOMAIN g),
           DOMAIN h = DOMAIN g, DOMAIN f = DOMAIN g,
           \A y \in DOMAIN g : g[y] \in Int /\ h[y] \in Int /\ f[y] = g[y] + h[y]
    PROVE  SumFunction(f) = SumFunction(g) + SumFunction(h)
<1> DEFINE Bad == {s \in SUBSET DOMAIN g : Sums(f)[s] # Sums(g)[s] + Sums(h)[s]}
<1>1. \A s \in SUBSET DOMAIN g : IsFiniteSet(s)
  BY FS_Subset
<1>2. \A s \in SUBSET DOMAIN g : Sums(g)[s] \in Int /\ Sums(h)[s] \in Int
  BY SumsType
<1>3. ASSUME Bad # {} PROVE FALSE
  <2>1. PICK s \in Bad : \A t \in Bad : ~(Cardinality(t) < Cardinality(s))
    <3>1. \A t \in Bad : IsFiniteSet(t)
      BY <1>1
    <3> HIDE DEF Bad
    <3>. QED
      BY <1>3, <3>1, SmallestSet
  <2>2. s \in SUBSET DOMAIN g /\ Sums(f)[s] # Sums(g)[s] + Sums(h)[s]
    OBVIOUS
  <2>3. s # {}
    <3> SUFFICES ASSUME s = {} PROVE FALSE
      OBVIOUS
    <3>1. Sums(f)[s] = 0 /\ Sums(g)[s] = 0 /\ Sums(h)[s] = 0
      BY SumsRecursion
    <3>2. Sums(f)[s] = Sums(g)[s] + Sums(h)[s]
      BY <3>1
    <3> HIDE DEF Bad
    <3>. QED
      BY <2>2, <3>2
  <2> DEFINE x == Any(s)
             t == s \ {x}
  <2>4. /\ x \in s /\ Cardinality(t) = Cardinality(s) - 1
        /\ Cardinality(s) \in Nat /\ Cardinality(s) > 0
    BY <1>1, <2>2, <2>3, Smaller
  <2>5. Cardinality(t) < Cardinality(s)
    BY <2>4
  <2>6. t \in SUBSET DOMAIN g /\ t \notin Bad
    BY <2>1, <2>2, <2>5
  <2>7. Sums(f)[t] = Sums(g)[t] + Sums(h)[t]
    BY <2>6
  <2>8. /\ Sums(f)[s] = f[x] + Sums(f)[t]
        /\ Sums(g)[s] = g[x] + Sums(g)[t]
        /\ Sums(h)[s] = h[x] + Sums(h)[t]
    BY <2>2, <2>3, SumsRecursion
  <2>9. /\ f[x] = g[x] + h[x] /\ g[x] \in Int /\ h[x] \in Int
        /\ Sums(g)[t] \in Int /\ Sums(h)[t] \in Int
    BY <1>2, <2>2, <2>4, <2>6
  <2> HIDE DEF x, t
  <2>. QED
    BY <2>2, <2>7, <2>8, <2>9
<1>4. Sums(f)[DOMAIN g] = Sums(g)[DOMAIN g] + Sums(h)[DOMAIN g]
  BY <1>3
<1>. QED
  BY <1>4, SumFunctionDef
=============================================================================
