-------------------------- MODULE OperatorTheorems --------------------------
(***************************************************************************)
(* What the operators compute that the models share, for every input: the    *)
(* sum of a function over a finite set, the rounded quotients of the         *)
(* program's mul-div helpers, pow by squaring, and the base fee.  The sum    *)
(* and pow are recursive functions; that the recursion defines something,    *)
(* and what it computes, is proved by taking a smallest counterexample, from *)
(* the well-foundedness of strict inclusion between finite sets and of the   *)
(* natural numbers.                                                          *)
(***************************************************************************)
EXTENDS FeeParameters, FiniteSets, Functions, FiniteSetTheorems, WellFoundedInduction, TLAPS

Pick(s) == CHOOSE x \in s : TRUE

SumStep(f, g, s) == IF s = {} THEN 0 ELSE f[Pick(s)] + g[s \ {Pick(s)}]

(* The recursive function inside SumFunctionOnSet.                           *)
PartialSums(f, S) == CHOOSE g : g = [s \in SUBSET S |-> SumStep(f, g, s)]

LEMMA SumIsPartialSum ==
    ASSUME NEW f, NEW S
    PROVE  SumFunctionOnSet(f, S) = PartialSums(f, S)[S]
BY DEF SumFunctionOnSet, FoldFunctionOnSet, MapThenFoldSet, PartialSums, SumStep, Pick

LEMMA PickInSet ==
    ASSUME NEW s, s # {}
    PROVE  Pick(s) \in s
BY DEF Pick

(* A nonempty set of subsets of a finite set has a minimal element.          *)
LEMMA MinimalSubset ==
    ASSUME NEW S, IsFiniteSet(S), NEW T \in SUBSET (SUBSET S), T # {}
    PROVE  \E s \in T : \A r \in T : r \subseteq s => r = s
<1>1. T \subseteq FiniteSubsetsOf(S)
    BY FS_Subset DEF FiniteSubsetsOf
<1>2. \E s \in T : \A r \in T : <<r, s>> \notin StrictSubsetOrdering(S)
    BY <1>1, FS_StrictSubsetOrderingWellFounded, WFMin
<1> QED
    BY <1>1, <1>2 DEF StrictSubsetOrdering, FiniteSubsetsOf

(* A nonempty set of natural numbers has a least element.                    *)
LEMMA LeastNatural ==
    ASSUME NEW T \in SUBSET Nat, T # {}
    PROVE  \E n \in T : \A m \in T : n <= m
<1>1. PICK k \in T : TRUE
    OBVIOUS
<1> DEFINE Below == {m \in T : m <= k}
           Intervals == {0 .. m : m \in Below}
           Largest == 0 .. k
<1>2. IsFiniteSet(Largest)
    BY FS_Interval
<1>3. Intervals \in SUBSET (SUBSET Largest) /\ Intervals # {}
    OBVIOUS
<1>4. PICK s \in Intervals : \A r \in Intervals : r \subseteq s => r = s
    <2> HIDE DEF Intervals, Largest
    <2> QED BY <1>2, <1>3, MinimalSubset
<1>5. PICK n \in Below : s = 0 .. n
    OBVIOUS
<1>6. ASSUME NEW m \in T, m < n
      PROVE  FALSE
    <2>1. m \in Below /\ 0 .. m \in Intervals
        BY <1>5, <1>6
    <2>2. 0 .. m \subseteq 0 .. n
        BY <1>6
    <2>3. 0 .. m = 0 .. n
        BY <1>4, <1>5, <2>1, <2>2
    <2>4. n \in 0 .. n /\ n \notin 0 .. m
        BY <1>6
    <2> QED
        BY <2>3, <2>4
<1> QED
    BY <1>5, <1>6

(* Induction over the natural numbers, for the set of those that are good.   *)
LEMMA SetOfNaturals ==
    ASSUME NEW G, 0 \in G, \A n \in Nat : n \in G => n + 1 \in G
    PROVE  \A n \in Nat : n \in G
<1> DEFINE Bad == {n \in Nat : n \notin G}
<1>1. SUFFICES ASSUME Bad # {} PROVE FALSE
    OBVIOUS
<1>2. PICK n \in Bad : \A m \in Bad : n <= m
    <2>1. Bad \in SUBSET Nat
        OBVIOUS
    <2> HIDE DEF Bad
    <2> QED
        BY <1>1, <2>1, LeastNatural
<1>3. n \in Nat /\ n # 0 /\ n \notin G
    BY <1>2
<1>4. n - 1 \in Nat /\ n - 1 \in G
    BY <1>2, <1>3
<1>5. (n - 1) + 1 \in G
    BY <1>4
<1> QED
    BY <1>3, <1>5
-----------------------------------------------------------------------------
(* The recursion has a solution: on the subsets of at most n elements, for   *)
(* every n, and so on all subsets of a finite set.                           *)
LEMMA PartialSumsExist ==
    ASSUME NEW f, NEW S, IsFiniteSet(S)
    PROVE  \E g : g = [s \in SUBSET S |-> SumStep(f, g, s)]
<1> DEFINE Dom(n) == {s \in SUBSET S : Cardinality(s) <= n}
           Good(n) == \E g : g = [s \in Dom(n) |-> SumStep(f, g, s)]
           Bad == {n \in Nat : ~Good(n)}
<1>1. \A s \in SUBSET S : Cardinality(s) \in Nat /\ Cardinality(s) <= Cardinality(S)
    BY FS_Subset, FS_CardinalityType
<1>a. \A s \in SUBSET S : s # {} => /\ s \ {Pick(s)} \in SUBSET S
                                     /\ Cardinality(s \ {Pick(s)}) = Cardinality(s) - 1
    BY FS_Subset, PickInSet, FS_RemoveElement
<1>b. \A s \in SUBSET S : Cardinality(s) = 0 => s = {}
    BY FS_Subset, FS_EmptySet
<1>2. Good(0)
    <2> DEFINE g == [s \in Dom(0) |-> 0]
    <2>1. ASSUME NEW s \in Dom(0)
          PROVE  s = {}
        <3>1. s \in SUBSET S /\ Cardinality(s) <= 0
            OBVIOUS
        <3>2. Cardinality(s) = 0
            BY <1>1, <3>1
        <3> QED
            BY <1>b, <3>1, <3>2
    <2>2. g = [s \in Dom(0) |-> SumStep(f, g, s)]
        BY <2>1 DEF SumStep
    <2> QED
        BY <2>2
<1>3. ASSUME NEW n \in Nat, Good(n)
      PROVE  Good(n + 1)
    <2>1. PICK g : g = [s \in Dom(n) |-> SumStep(f, g, s)]
        BY <1>3
    <2> DEFINE h == [s \in Dom(n + 1) |-> SumStep(f, g, s)]
    <2>0. \A s \in Dom(n) : s \in Dom(n + 1)
        BY <1>1
    <2>3. \A s \in Dom(n + 1) : s # {} => s \ {Pick(s)} \in Dom(n)
        BY <1>1, <1>a
    <2> HIDE DEF Dom
    <2>2. \A s \in Dom(n) : h[s] = g[s]
        BY <2>0, <2>1
    <2>4. \A s \in Dom(n + 1) : SumStep(f, g, s) = SumStep(f, h, s)
        <3> HIDE DEF h
        <3> QED BY <2>2, <2>3 DEF SumStep
    <2>5. h = [s \in Dom(n + 1) |-> SumStep(f, h, s)]
        BY <2>4
    <2> QED
        BY <2>5
<1>4. Bad = {}
    <2>1. SUFFICES ASSUME Bad # {} PROVE FALSE
        OBVIOUS
    <2> HIDE DEF Good
    <2>2. PICK n \in Bad : \A m \in Bad : n <= m
        BY <2>1, LeastNatural
    <2>3. n # 0 /\ n \in Nat /\ ~Good(n)
        BY <1>2, <2>2
    <2>4. n - 1 \in Nat /\ n - 1 \notin Bad
        BY <2>2, <2>3
    <2>5. Good(n - 1)
        BY <2>4
    <2>6. Good((n - 1) + 1)
        BY <1>3, <2>4, <2>5
    <2> QED
        BY <2>3, <2>6
<1>5. Cardinality(S) \in Nat
    BY FS_CardinalityType
<1>6. Good(Cardinality(S))
    BY <1>4, <1>5
<1>7. Dom(Cardinality(S)) = SUBSET S
    BY <1>1
<1> QED
    BY <1>6, <1>7
-----------------------------------------------------------------------------
LEMMA PartialSumsValue ==
    ASSUME NEW f, NEW S, IsFiniteSet(S), NEW r \in SUBSET S
    PROVE  PartialSums(f, S)[r] = SumStep(f, PartialSums(f, S), r)
<1> DEFINE g == PartialSums(f, S)
<1>1. g = [s \in SUBSET S |-> SumStep(f, g, s)]
    <2>1. \E h : h = [s \in SUBSET S |-> SumStep(f, h, s)]
        BY PartialSumsExist
    <2> QED
        BY <2>1 DEF PartialSums
<1> HIDE DEF g
<1>2. g[r] = SumStep(f, g, r)
    BY <1>1
<1> QED
    BY <1>2 DEF g

(* Induction over the subsets of a finite set: a set of exceptions none of   *)
(* whose members is minimal has no member.                                   *)
LEMMA SubsetInduction ==
    ASSUME NEW S, IsFiniteSet(S), NEW Bad \in SUBSET (SUBSET S),
           \A s \in SUBSET S : (\A r \in SUBSET s : r # s => r \notin Bad) => s \notin Bad
    PROVE  Bad = {}
<1>1. SUFFICES ASSUME Bad # {} PROVE FALSE
    OBVIOUS
<1>2. PICK s \in Bad : \A r \in Bad : r \subseteq s => r = s
    BY <1>1, MinimalSubset
<1>3. \A r \in SUBSET s : r # s => r \notin Bad
    BY <1>2
<1> QED
    BY <1>2, <1>3

(* The sum does not depend on what a function is elsewhere, nor on the set   *)
(* whose subsets the recursion runs through.                                 *)
LEMMA PartialSumsAgree ==
    ASSUME NEW f, NEW g, NEW S, IsFiniteSet(S), NEW U \in SUBSET S, \A x \in U : f[x] = g[x]
    PROVE  \A s \in SUBSET U : PartialSums(f, U)[s] = PartialSums(g, S)[s]
<1> DEFINE F == PartialSums(f, U)
           G == PartialSums(g, S)
           Bad == {s \in SUBSET U : F[s] # G[s]}
<1>1. IsFiniteSet(U)
    BY FS_Subset
<1>2. \A s \in SUBSET U : F[s] = SumStep(f, F, s) /\ G[s] = SumStep(g, G, s)
    BY <1>1, PartialSumsValue
<1> HIDE DEF F, G
<1>3. ASSUME NEW s \in SUBSET U, \A r \in SUBSET s : r # s => r \notin Bad
      PROVE  s \notin Bad
    <2>1. CASE s = {}
        BY <1>2, <2>1 DEF SumStep
    <2>2. CASE s # {}
        <3> DEFINE x == Pick(s)
        <3>1. x \in s
            BY <2>2, PickInSet
        <3> HIDE DEF x
        <3>2. s \ {x} \in SUBSET s /\ s \ {x} # s /\ s \ {x} \in SUBSET U /\ f[x] = g[x]
            BY <3>1
        <3>3. F[s \ {x}] = G[s \ {x}]
            BY <1>3, <3>2
        <3>4. F[s] = f[x] + F[s \ {x}] /\ G[s] = g[x] + G[s \ {x}]
            BY <1>2, <2>2 DEF SumStep, x
        <3> QED
            BY <3>2, <3>3, <3>4
    <2> QED
        BY <2>1, <2>2
<1>4. Bad = {}
    <2>1. Bad \in SUBSET (SUBSET U)
        OBVIOUS
    <2> HIDE DEF Bad
    <2> QED BY <1>1, <1>3, <2>1, SubsetInduction
<1> QED
    BY <1>4 DEF F, G
-----------------------------------------------------------------------------
(* Functions that agree on a set have the same sum over it.                  *)
LEMMA SumEqual ==
    ASSUME NEW f, NEW g, NEW S, IsFiniteSet(S), \A x \in S : f[x] = g[x]
    PROVE  SumFunctionOnSet(f, S) = SumFunctionOnSet(g, S)
BY PartialSumsAgree, SumIsPartialSum

LEMMA SumEmpty ==
    ASSUME NEW f
    PROVE  SumFunctionOnSet(f, {}) = 0
BY PartialSumsValue, SumIsPartialSum, FS_EmptySet DEF SumStep

LEMMA SumPick ==
    ASSUME NEW f, NEW S, IsFiniteSet(S), S # {}
    PROVE  SumFunctionOnSet(f, S) = f[Pick(S)] + SumFunctionOnSet(f, S \ {Pick(S)})
<1> DEFINE x == Pick(S)
           U == S \ {x}
<1>1. PartialSums(f, S)[S] = f[x] + PartialSums(f, S)[U]
    BY PartialSumsValue DEF SumStep
<1>2. PartialSums(f, U)[U] = PartialSums(f, S)[U]
    BY PartialSumsAgree
<1> QED
    BY <1>1, <1>2, SumIsPartialSum

(* The sum of integers is an integer, of natural numbers a natural number.   *)
LEMMA SumType ==
    ASSUME NEW f, NEW S, IsFiniteSet(S), NEW N \in {Int, Nat}, \A x \in S : f[x] \in N
    PROVE  SumFunctionOnSet(f, S) \in N
<1> DEFINE Bad == {s \in SUBSET S : SumFunctionOnSet(f, s) \notin N}
<1>1. 0 \in N /\ \A a, b \in N : a + b \in N
    OBVIOUS
<1>2. ASSUME NEW s \in SUBSET S, \A r \in SUBSET s : r # s => r \notin Bad
      PROVE  SumFunctionOnSet(f, s) \in N
    <2>0. IsFiniteSet(s)
        BY FS_Subset
    <2>1. CASE s = {}
        BY <1>1, <2>1, SumEmpty
    <2>2. CASE s # {}
        <3> DEFINE x == Pick(s)
        <3>1. x \in s
            BY <2>2, PickInSet
        <3>2. SumFunctionOnSet(f, s) = f[x] + SumFunctionOnSet(f, s \ {x})
            BY <2>0, <2>2, SumPick
        <3> HIDE DEF x
        <3>3. s \ {x} \in SUBSET s /\ s \ {x} # s
            BY <3>1
        <3>4. SumFunctionOnSet(f, s \ {x}) \in N
            BY <1>2, <3>3
        <3> QED
            BY <1>1, <3>1, <3>2, <3>4
    <2> QED
        BY <2>1, <2>2
<1>3. Bad = {}
    <2>1. Bad \in SUBSET (SUBSET S) /\ \A s \in SUBSET S : s \in Bad => SumFunctionOnSet(f, s) \notin N
        OBVIOUS
    <2> HIDE DEF Bad
    <2> QED BY <1>2, <2>1, SubsetInduction
<1> QED
    BY <1>3

(* Any element may be taken out first: the sum does not depend on the order  *)
(* that CHOOSE picks.                                                        *)
LEMMA SumRemove ==
    ASSUME NEW f, NEW S, IsFiniteSet(S), \A x \in S : f[x] \in Int, NEW z \in S
    PROVE  SumFunctionOnSet(f, S) = f[z] + SumFunctionOnSet(f, S \ {z})
<1> DEFINE Removes(s, x) == SumFunctionOnSet(f, s) = f[x] + SumFunctionOnSet(f, s \ {x})
           Bad == {s \in SUBSET S : ~\A x \in s : Removes(s, x)}
<1>1. ASSUME NEW s \in SUBSET S, \A r \in SUBSET s : r # s => r \notin Bad, NEW x \in s
      PROVE  Removes(s, x)
    <2> DEFINE y == Pick(s)
               rest == (s \ {x}) \ {y}
    <2>1. y \in s
        BY PickInSet
    <2>2. IsFiniteSet(s)
        BY FS_Subset
    <2>3. Removes(s, y)
        BY <2>2, SumPick
    <2> HIDE DEF y
    <2>4. CASE x = y
        BY <2>3, <2>4
    <2>5. CASE x # y
        <3>1. s \ {x} \in SUBSET s /\ s \ {x} # s /\ y \in s \ {x}
            BY <2>1, <2>5
        <3>2. s \ {y} \in SUBSET s /\ s \ {y} # s /\ x \in s \ {y}
            BY <2>1, <2>5
        <3>3. Removes(s \ {x}, y) /\ Removes(s \ {y}, x)
            <4> HIDE DEF Removes
            <4> QED BY <1>1, <3>1, <3>2
        <3>4. (s \ {y}) \ {x} = rest
            OBVIOUS
        <3>5. f[x] \in Int /\ f[y] \in Int
            BY <2>1
        <3>6. SumFunctionOnSet(f, rest) \in Int
            <4>1. IsFiniteSet(rest) /\ \A u \in rest : f[u] \in Int
                BY FS_Subset
            <4> HIDE DEF rest
            <4> QED BY <4>1, SumType
        <3> HIDE DEF rest
        <3>7. SumFunctionOnSet(f, s \ {x}) = f[y] + SumFunctionOnSet(f, rest)
            BY <3>3 DEF rest
        <3>8. SumFunctionOnSet(f, s \ {y}) = f[x] + SumFunctionOnSet(f, rest)
            BY <3>3, <3>4
        <3> QED
            BY <2>3, <3>5, <3>6, <3>7, <3>8
    <2> QED
        BY <2>4, <2>5
<1> HIDE DEF Removes
<1>2. Bad = {}
    <2>1. Bad \in SUBSET (SUBSET S) /\ \A s \in SUBSET S : s \in Bad => ~\A x \in s : Removes(s, x)
        OBVIOUS
    <2> HIDE DEF Bad
    <2> QED BY <1>1, <2>1, SubsetInduction
<1>3. Removes(S, z)
    BY <1>2
<1> QED
    BY <1>3 DEF Removes

LEMMA SumInsert ==
    ASSUME NEW f, NEW S, IsFiniteSet(S), NEW z, z \notin S, f[z] \in Int, \A x \in S : f[x] \in Int
    PROVE  SumFunctionOnSet(f, S \cup {z}) = f[z] + SumFunctionOnSet(f, S)
<1> DEFINE U == S \cup {z}
<1>1. IsFiniteSet(U) /\ z \in U /\ U \ {z} = S /\ \A x \in U : f[x] \in Int
    BY FS_AddElement
<1> HIDE DEF U
<1>2. SumFunctionOnSet(f, U) = f[z] + SumFunctionOnSet(f, U \ {z})
    BY <1>1, SumRemove
<1> QED
    BY <1>1, <1>2 DEF U

(* Changing one value changes the sum by as much.                            *)
LEMMA SumUpdate ==
    ASSUME NEW f, NEW g, NEW S, IsFiniteSet(S), \A x \in S : f[x] \in Int /\ g[x] \in Int,
           NEW z \in S, \A x \in S \ {z} : f[x] = g[x]
    PROVE  SumFunctionOnSet(g, S) = SumFunctionOnSet(f, S) + g[z] - f[z]
<1> DEFINE U == S \ {z}
<1>1. IsFiniteSet(U) /\ \A x \in U : f[x] = g[x] /\ f[x] \in Int
    BY FS_RemoveElement
<1>2. SumFunctionOnSet(f, S) = f[z] + SumFunctionOnSet(f, U)
    BY SumRemove
<1>3. SumFunctionOnSet(g, S) = g[z] + SumFunctionOnSet(g, U)
    BY SumRemove
<1> HIDE DEF U
<1>4. SumFunctionOnSet(f, U) = SumFunctionOnSet(g, U) /\ SumFunctionOnSet(f, U) \in Int
    BY <1>1, SumEqual, SumType
<1> QED
    BY <1>2, <1>3, <1>4

(* The sum of a linear combination.                                          *)
LEMMA SumLinear ==
    ASSUME NEW f, NEW g, NEW h, NEW k \in Int, NEW S, IsFiniteSet(S),
           \A x \in S : f[x] \in Int /\ g[x] \in Int /\ h[x] = k * f[x] + g[x]
    PROVE  SumFunctionOnSet(h, S) = k * SumFunctionOnSet(f, S) + SumFunctionOnSet(g, S)
<1> DEFINE Combines(s) ==
        SumFunctionOnSet(h, s) = k * SumFunctionOnSet(f, s) + SumFunctionOnSet(g, s)
           Bad == {s \in SUBSET S : ~Combines(s)}
<1>1. ASSUME NEW s \in SUBSET S, \A r \in SUBSET s : r # s => r \notin Bad
      PROVE  Combines(s)
    <2>1. IsFiniteSet(s)
        BY FS_Subset
    <2>2. CASE s = {}
        BY <2>2, SumEmpty
    <2>3. CASE s # {}
        <3> DEFINE x == Pick(s)
                   r == s \ {x}
        <3>1. x \in s
            BY <2>3, PickInSet
        <3>2. /\ SumFunctionOnSet(f, s) = f[x] + SumFunctionOnSet(f, r)
              /\ SumFunctionOnSet(g, s) = g[x] + SumFunctionOnSet(g, r)
              /\ SumFunctionOnSet(h, s) = h[x] + SumFunctionOnSet(h, r)
            BY <2>1, <2>3, SumPick
        <3> HIDE DEF x
        <3>3. r \in SUBSET s /\ r # s /\ r \in SUBSET S /\ IsFiniteSet(r)
            BY <2>1, <3>1, FS_RemoveElement
        <3>4. f[x] \in Int /\ g[x] \in Int /\ h[x] = k * f[x] + g[x]
            BY <3>1
        <3> HIDE DEF r
        <3>5. Combines(r)
            <4> HIDE DEF Combines
            <4> QED BY <1>1, <3>3
        <3>6. SumFunctionOnSet(f, r) \in Int /\ SumFunctionOnSet(g, r) \in Int
            BY <3>3, SumType
        <3>7. k * (f[x] + SumFunctionOnSet(f, r)) = k * f[x] + k * SumFunctionOnSet(f, r)
            BY <3>4, <3>6
        <3>8. k * f[x] \in Int /\ k * SumFunctionOnSet(f, r) \in Int
            BY <3>4, <3>6
        <3> QED
            BY <3>2, <3>4, <3>5, <3>6, <3>7, <3>8
    <2> QED
        BY <2>2, <2>3
<1> HIDE DEF Combines
<1>2. Bad = {}
    <2>1. Bad \in SUBSET (SUBSET S) /\ \A s \in SUBSET S : s \in Bad => ~Combines(s)
        OBVIOUS
    <2> HIDE DEF Bad
    <2> QED BY <1>1, <2>1, SubsetInduction
<1>3. Combines(S)
    BY <1>2
<1> QED
    BY <1>3 DEF Combines

LEMMA SumAdd ==
    ASSUME NEW f, NEW g, NEW h, NEW S, IsFiniteSet(S),
           \A x \in S : f[x] \in Int /\ g[x] \in Int /\ h[x] = f[x] + g[x]
    PROVE  SumFunctionOnSet(h, S) = SumFunctionOnSet(f, S) + SumFunctionOnSet(g, S)
<1>1. \A x \in S : h[x] = 1 * f[x] + g[x]
    OBVIOUS
<1>2. SumFunctionOnSet(h, S) = 1 * SumFunctionOnSet(f, S) + SumFunctionOnSet(g, S)
    BY <1>1, SumLinear
<1>3. SumFunctionOnSet(f, S) \in Int
    BY SumType
<1> QED
    BY <1>2, <1>3

(* Larger values have the larger sum.                                        *)
LEMMA SumMonotone ==
    ASSUME NEW f, NEW g, NEW S, IsFiniteSet(S),
           \A x \in S : f[x] \in Int /\ g[x] \in Int /\ f[x] <= g[x]
    PROVE  SumFunctionOnSet(f, S) <= SumFunctionOnSet(g, S)
<1> DEFINE d == [x \in S |-> g[x] - f[x]]
<1>1. \A x \in S : d[x] \in Nat /\ g[x] = d[x] + f[x]
    OBVIOUS
<1> HIDE DEF d
<1>2. SumFunctionOnSet(d, S) \in Nat /\ SumFunctionOnSet(f, S) \in Int
    BY <1>1, SumType
<1>3. SumFunctionOnSet(g, S) = SumFunctionOnSet(d, S) + SumFunctionOnSet(f, S)
    BY <1>1, SumAdd
<1> QED
    BY <1>2, <1>3

LEMMA SumZero ==
    ASSUME NEW f, NEW S, IsFiniteSet(S), \A x \in S : f[x] = 0
    PROVE  SumFunctionOnSet(f, S) = 0
<1>1. \A x \in S : f[x] \in Int /\ f[x] = f[x] + f[x]
    OBVIOUS
<1>2. SumFunctionOnSet(f, S) \in Int
    BY <1>1, SumType
<1>3. SumFunctionOnSet(f, S) = SumFunctionOnSet(f, S) + SumFunctionOnSet(f, S)
    BY <1>1, SumAdd
<1>4. \A n \in Int : n = n + n => n = 0
    OBVIOUS
<1> QED
    BY <1>2, <1>3, <1>4

LEMMA SumScale ==
    ASSUME NEW f, NEW h, NEW k \in Int, NEW S, IsFiniteSet(S),
           \A x \in S : f[x] \in Int /\ h[x] = k * f[x]
    PROVE  SumFunctionOnSet(h, S) = k * SumFunctionOnSet(f, S)
<1> DEFINE zero == [x \in S |-> 0]
<1>1. \A x \in S : zero[x] = 0 /\ h[x] = k * f[x] + zero[x]
    OBVIOUS
<1> HIDE DEF zero
<1>2. SumFunctionOnSet(zero, S) = 0
    BY <1>1, SumZero
<1>3. SumFunctionOnSet(h, S) = k * SumFunctionOnSet(f, S) + SumFunctionOnSet(zero, S)
    BY <1>1, SumLinear
<1>4. SumFunctionOnSet(f, S) \in Int
    BY SumType
<1>5. k * SumFunctionOnSet(f, S) \in Int
    BY <1>4
<1> QED
    BY <1>2, <1>3, <1>5

(* No value exceeds the sum of natural numbers it is part of.                *)
LEMMA SumMember ==
    ASSUME NEW f, NEW S, IsFiniteSet(S), \A x \in S : f[x] \in Nat, NEW z \in S
    PROVE  f[z] <= SumFunctionOnSet(f, S)
<1>1. IsFiniteSet(S \ {z})
    BY FS_RemoveElement
<1>2. SumFunctionOnSet(f, S \ {z}) \in Nat
    BY <1>1, SumType
<1>3. SumFunctionOnSet(f, S) = f[z] + SumFunctionOnSet(f, S \ {z})
    BY SumRemove
<1> QED
    BY <1>2, <1>3

LEMMA SumOfOne ==
    ASSUME NEW f, NEW z, f[z] \in Int
    PROVE  SumFunctionOnSet(f, {z}) = f[z]
<1>1. SumFunctionOnSet(f, {} \cup {z}) = f[z] + SumFunctionOnSet(f, {})
    BY FS_EmptySet, SumInsert
<1> QED
    BY <1>1, SumEmpty
-----------------------------------------------------------------------------
(* The same for SumFunction, the sum over a function's whole domain, when a  *)
(* step changes the function at one or two points or its domain by one.      *)

LEMMA SumFunctionType ==
    ASSUME NEW S, IsFiniteSet(S), NEW N \in {Int, Nat}, NEW w \in [S -> N]
    PROVE  SumFunction(w) \in N
BY SumType DEF SumFunction

LEMMA SumChangeOne ==
    ASSUME NEW S, IsFiniteSet(S), NEW w \in [S -> Int], NEW v \in [S -> Int],
           NEW z \in S, \A x \in S \ {z} : v[x] = w[x]
    PROVE  SumFunction(v) = SumFunction(w) + v[z] - w[z]
BY SumUpdate DEF SumFunction

LEMMA SumChangeTwo ==
    ASSUME NEW S, IsFiniteSet(S), NEW w \in [S -> Int], NEW v \in [S -> Int],
           NEW y \in S, NEW z \in S, y # z, \A x \in S \ {y, z} : v[x] = w[x]
    PROVE  SumFunction(v) = SumFunction(w) + (v[y] - w[y]) + (v[z] - w[z])
<1> DEFINE u == [w EXCEPT ![y] = v[y]]
<1>1. u \in [S -> Int] /\ u[y] = v[y] /\ u[z] = w[z] /\ \A x \in S \ {y} : u[x] = w[x]
    OBVIOUS
<1>2. \A x \in S \ {z} : v[x] = u[x]
    OBVIOUS
<1> HIDE DEF u
<1>3. SumFunction(u) = SumFunction(w) + u[y] - w[y]
    BY <1>1, SumChangeOne
<1>4. SumFunction(v) = SumFunction(u) + v[z] - u[z]
    BY <1>1, <1>2, SumChangeOne
<1>5. SumFunction(w) \in Int
    BY SumFunctionType
<1> QED
    BY <1>1, <1>3, <1>4, <1>5

LEMMA SumGrow ==
    ASSUME NEW S, IsFiniteSet(S), NEW w \in [S -> Int], NEW z, z \notin S,
           NEW U, U = S \cup {z}, NEW v \in [U -> Int], \A x \in S : v[x] = w[x]
    PROVE  SumFunction(v) = SumFunction(w) + v[z]
<1>1. SumFunctionOnSet(v, S \cup {z}) = v[z] + SumFunctionOnSet(v, S)
    BY SumInsert
<1>2. SumFunctionOnSet(v, S) = SumFunctionOnSet(w, S)
    BY SumEqual
<1>3. SumFunctionOnSet(w, S) \in Int
    BY SumType
<1> QED
    BY <1>1, <1>2, <1>3 DEF SumFunction

LEMMA SumShrink ==
    ASSUME NEW S, IsFiniteSet(S), NEW w \in [S -> Int], NEW z \in S,
           NEW U, U = S \ {z}, NEW v \in [U -> Int], \A x \in U : v[x] = w[x]
    PROVE  SumFunction(v) = SumFunction(w) - w[z]
<1>1. IsFiniteSet(U) /\ DOMAIN v = U /\ \A x \in U : v[x] = w[x] /\ v[x] \in Int
    BY FS_RemoveElement
<1>2. SumFunctionOnSet(w, S) = w[z] + SumFunctionOnSet(w, U)
    BY SumRemove
<1>3. SumFunctionOnSet(v, U) = SumFunctionOnSet(w, U) /\ SumFunctionOnSet(v, U) \in Int
    BY <1>1, SumEqual, SumType
<1> QED
    BY <1>1, <1>2, <1>3 DEF SumFunction
-----------------------------------------------------------------------------
(* Rounding down: a natural number, at most the factor it scales when the    *)
(* other factor is at most the denominator.                                  *)
LEMMA MulDivDownType ==
    ASSUME NEW x \in Nat, NEW y \in Nat, NEW d \in Nat \ {0}
    PROVE  MulDivDown(x, y, d) \in Nat
<1>1. x * y \in Nat
    OBVIOUS
<1> DEFINE z == x * y
<1>2. z \in Nat => z \div d \in Nat
    <2> HIDE DEF z
    <2> QED OBVIOUS
<1> QED
    BY <1>1, <1>2 DEF MulDivDown

LEMMA MulDivUpType ==
    ASSUME NEW x \in Nat, NEW y \in Nat, NEW d \in Nat \ {0}
    PROVE  MulDivUp(x, y, d) \in Nat
<1>1. x * y \in Nat
    OBVIOUS
<1> DEFINE z == x * y
<1>2. z \in Nat => (z + d - 1) \div d \in Nat
    <2> HIDE DEF z
    <2> QED OBVIOUS
<1> QED
    BY <1>1, <1>2 DEF MulDivUp

(* A quotient is at most q when the dividend is less than (q + 1) divisors.  *)
LEMMA DivBound ==
    ASSUME NEW z \in Nat, NEW d \in Nat \ {0}, NEW q \in Nat, z <= q * d + d - 1
    PROVE  z \div d <= q
<1>1. z \div d \in Nat /\ d * (z \div d) <= z
    OBVIOUS
<1>2. SUFFICES ASSUME z \div d >= q + 1 PROVE FALSE
    BY <1>1
<1> DEFINE r == z \div d
<1>3. r \in Nat /\ r >= q + 1 /\ d * r <= z
    BY <1>1, <1>2
<1> HIDE DEF r
<1>4. d * r >= d * (q + 1)
    BY <1>3
<1>5. d * (q + 1) = q * d + d
    OBVIOUS
<1>6. d * r \in Int /\ q * d \in Int
    BY <1>3
<1> QED
    BY <1>3, <1>4, <1>5, <1>6

(* A quotient is at least q when the dividend holds q divisors.              *)
LEMMA DivLowerBound ==
    ASSUME NEW z \in Nat, NEW d \in Nat \ {0}, NEW q \in Nat, z >= q * d
    PROVE  z \div d >= q
<1> DEFINE r == z \div d
<1>1. r \in Nat /\ z < d * (r + 1)
    OBVIOUS
<1>2. SUFFICES ASSUME r + 1 <= q PROVE FALSE
    BY <1>1
<1> HIDE DEF r
<1>3. d * (r + 1) <= q * d
    BY <1>1, <1>2
<1>4. d * (r + 1) \in Int /\ q * d \in Int
    BY <1>1
<1> QED
    BY <1>1, <1>3, <1>4

(* A share of at most the whole is at most what it is a share of.            *)
LEMMA MulDivDownBound ==
    ASSUME NEW x \in Nat, NEW y \in Nat, NEW d \in Nat \ {0}, y <= d
    PROVE  MulDivDown(x, y, d) <= x
<1>1. x * y <= x * d
    OBVIOUS
<1>2. x * y \in Nat /\ x * d \in Nat
    OBVIOUS
<1>3. x * y <= x * d + d - 1
    BY <1>1, <1>2
<1> QED
    BY <1>2, <1>3, DivBound DEF MulDivDown

(* The same for rounding up.                                                 *)
LEMMA MulDivUpBound ==
    ASSUME NEW x \in Nat, NEW y \in Nat, NEW d \in Nat \ {0}, NEW q \in Nat, x * y <= q * d
    PROVE  MulDivUp(x, y, d) <= q
<1>1. x * y \in Nat /\ q * d \in Nat
    OBVIOUS
<1> DEFINE z == x * y + d - 1
<1>2. z \in Nat /\ z <= q * d + d - 1
    BY <1>1
<1>3. z \div d <= q
    <2> HIDE DEF z
    <2> QED BY <1>2, DivBound
<1> QED
    BY <1>3 DEF MulDivUp

LEMMA ProductsOrdered ==
    ASSUME NEW k \in Nat, NEW x \in Int, NEW y \in Int, x <= y
    PROVE  k * x <= k * y /\ x * k <= y * k /\ k * x \in Int /\ k * y \in Int
<1>1. y - x \in Nat
    OBVIOUS
<1> DEFINE d == y - x
<1>2. y = x + d /\ d \in Nat
    BY <1>1
<1> HIDE DEF d
<1>3. k * d \in Nat /\ k * x \in Int
    BY <1>2
<1>4. k * y = k * x + k * d
    BY <1>2
<1>5. x * k = k * x /\ y * k = k * y
    OBVIOUS
<1> QED
    BY <1>3, <1>4, <1>5

(* A positive factor of both sides may be dropped.                           *)
LEMMA FactorDrops ==
    ASSUME NEW k \in Nat \ {0}, NEW x \in Int, NEW y \in Int, k * x <= k * y
    PROVE  x <= y
<1> SUFFICES ASSUME y + 1 <= x PROVE FALSE
    OBVIOUS
<1>1. k * (y + 1) <= k * x
    BY ProductsOrdered
<1>2. k * (y + 1) = k * y + k /\ k * y \in Int /\ k * x \in Int
    OBVIOUS
<1> QED
    BY <1>1, <1>2

LEMMA MulDivDownCovered ==
    ASSUME NEW x \in Nat, NEW y \in Nat, NEW d \in Nat \ {0}
    PROVE  MulDivDown(x, y, d) * d <= x * y /\ d * MulDivDown(x, y, d) <= x * y
<1> DEFINE z == x * y
<1>1. z \in Nat
    OBVIOUS
<1>2. z \in Nat => d * (z \div d) <= z /\ z \div d \in Nat
    <2> HIDE DEF z
    <2> QED OBVIOUS
<1>3. \A q \in Nat : d * q = q * d
    OBVIOUS
<1> QED
    BY <1>1, <1>2, <1>3 DEF MulDivDown

LEMMA MulDivUpCovers ==
    ASSUME NEW x \in Nat, NEW y \in Nat, NEW d \in Nat \ {0}
    PROVE  MulDivUp(x, y, d) * d >= x * y
<1> DEFINE z == x * y
           q == (z + d - 1) \div d
<1>1. z \in Nat
    OBVIOUS
<1>2. z \in Nat => z + d - 1 < d * (q + 1) /\ q \in Nat
    <2> HIDE DEF z
    <2> QED OBVIOUS
<1>3. q \in Nat => d * (q + 1) = q * d + d /\ q * d \in Nat
    <2> HIDE DEF q
    <2> QED OBVIOUS
<1>4. q * d >= z
    <2>1. q \in Nat /\ z \in Nat /\ z + d - 1 < q * d + d /\ q * d \in Nat
        BY <1>1, <1>2, <1>3
    <2> HIDE DEF q, z
    <2> QED BY <2>1
<1> QED
    BY <1>4 DEF MulDivUp

LEMMA CapAtType ==
    ASSUME NEW x \in Nat, NEW cap \in Nat
    PROVE  CapAt(x, cap) \in Nat /\ CapAt(x, cap) <= x /\ CapAt(x, cap) <= cap
BY DEF CapAt
-----------------------------------------------------------------------------
(* The powers of two, counted as subsets.                                    *)
LEMMA PowersOfTwo ==
    ASSUME NEW n \in Nat
    PROVE  2^n \in Nat \ {0} /\ 2^(n + 1) = 2 * 2^n
<1> DEFINE S == 1 .. n
           U == 1 .. (n + 1)
           With == {s \cup {n + 1} : s \in SUBSET S}
<1>1. /\ IsFiniteSet(S) /\ IsFiniteSet(U) /\ Cardinality(S) = n /\ Cardinality(U) = n + 1
    BY FS_Interval
<1>2. /\ IsFiniteSet(SUBSET S) /\ Cardinality(SUBSET S) = 2^n
      /\ Cardinality(SUBSET U) = 2^(n + 1) /\ Cardinality(SUBSET S) \in Nat
    BY <1>1, FS_SUBSET, FS_CardinalityType
<1>3. n + 1 \notin S /\ U = S \cup {n + 1}
    OBVIOUS
<1>4. IsFiniteSet(With) /\ Cardinality(With) = Cardinality(SUBSET S)
    <2> DEFINE f == [s \in SUBSET S |-> s \cup {n + 1}]
    <2>1. \A s, r \in SUBSET S : f[s] = f[r] => s = r
        BY <1>3
    <2>2. f \in Injection(SUBSET S, With)
        <3>1. f \in [SUBSET S -> With]
            OBVIOUS
        <3> HIDE DEF f
        <3>2. IsInjective(f)
            BY <2>1, <3>1 DEF IsInjective
        <3> QED
            BY <3>1, <3>2 DEF Injection
    <2>3. f \in Surjection(SUBSET S, With)
        BY DEF Surjection
    <2>4. ExistsBijection(SUBSET S, With)
        BY <2>2, <2>3 DEF ExistsBijection, Bijection
    <2> QED
        BY <1>2, <2>4, FS_Bijection
<1>5. SUBSET U = (SUBSET S) \cup With
    <2>1. ASSUME NEW s \in SUBSET U
          PROVE  s \in (SUBSET S) \cup With
        <3>1. CASE n + 1 \in s
            <4>1. s = (s \ {n + 1}) \cup {n + 1} /\ s \ {n + 1} \in SUBSET S
                BY <1>3, <3>1
            <4> QED BY <4>1
        <3>2. CASE n + 1 \notin s
            BY <1>3, <3>2
        <3> QED BY <3>1, <3>2
    <2>2. \A s \in (SUBSET S) \cup With : s \in SUBSET U
        BY <1>3
    <2> QED
        BY <2>1, <2>2
<1>6. (SUBSET S) \cap With = {}
    BY <1>3
<1>7. Cardinality(SUBSET U) = Cardinality(SUBSET S) + Cardinality(With) - Cardinality({})
    <2> HIDE DEF S, U, With
    <2> QED BY <1>2, <1>4, <1>5, <1>6, FS_Union
<1>8. {} \in SUBSET S /\ Cardinality({}) = 0
    BY FS_EmptySet
<1>9. Cardinality(SUBSET S) # 0
    BY <1>2, <1>8, FS_EmptySet
<1> HIDE DEF S, U, With
<1> QED
    BY <1>2, <1>4, <1>7, <1>8, <1>9

(* The recursive function inside Pow.                                        *)
PowStep(base, power, g, k) ==
    IF k = 0 THEN [result |-> ONE_Q, squared |-> base]
    ELSE [result  |-> IF (power \div 2^(k - 1)) % 2 = 1
                      THEN MulDivDown(g[k - 1].result, g[k - 1].squared, ONE_Q)
                      ELSE g[k - 1].result,
          squared |-> MulDivDown(g[k - 1].squared, g[k - 1].squared, ONE_Q)]

PowTable(base, power) ==
    CHOOSE g : g = [k \in 0 .. EXPONENT_BITS |-> PowStep(base, power, g, k)]

LEMMA PowIsTable ==
    ASSUME NEW base, NEW power
    PROVE  Pow(base, power) = PowTable(base, power)[EXPONENT_BITS].result
BY DEF Pow, PowTable, PowStep

(* The recursion has a solution up to every bit.                             *)
LEMMA PowTableExists ==
    ASSUME NEW base, NEW power
    PROVE  \A n \in Nat : \E g : g = [k \in 0 .. n |-> PowStep(base, power, g, k)]
<1> DEFINE G == {n \in Nat : \E g : g = [k \in 0 .. n |-> PowStep(base, power, g, k)]}
<1>1. 0 \in G
    <2> DEFINE g == [k \in 0 .. 0 |-> [result |-> ONE_Q, squared |-> base]]
    <2>1. g = [k \in 0 .. 0 |-> PowStep(base, power, g, k)]
        BY DEF PowStep
    <2> QED
        BY <2>1
<1>2. ASSUME NEW n \in Nat, n \in G
      PROVE  n + 1 \in G
    <2>1. PICK g : g = [k \in 0 .. n |-> PowStep(base, power, g, k)]
        BY <1>2
    <2> DEFINE h == [k \in 0 .. (n + 1) |-> PowStep(base, power, g, k)]
    <2>2. \A k \in 0 .. n : h[k] = g[k]
        BY <2>1
    <2>3. \A k \in 0 .. (n + 1) : PowStep(base, power, g, k) = PowStep(base, power, h, k)
        <3>1. \A k \in 0 .. (n + 1) : k = 0 \/ k - 1 \in 0 .. n
            OBVIOUS
        <3> HIDE DEF h
        <3> QED
            BY <2>2, <3>1 DEF PowStep
    <2>4. h = [k \in 0 .. (n + 1) |-> PowStep(base, power, h, k)]
        BY <2>3
    <2> HIDE DEF h
    <2>5. n + 1 \in Nat /\ \E q : q = [k \in 0 .. (n + 1) |-> PowStep(base, power, q, k)]
        BY <2>4
    <2> QED
        BY <2>5
<1> HIDE DEF G
<1>3. \A n \in Nat : n \in G
    BY <1>1, <1>2, SetOfNaturals
<1> QED
    BY <1>3 DEF G

LEMMA PowTableValue ==
    ASSUME NEW base, NEW power, NEW i \in 0 .. EXPONENT_BITS
    PROVE  PowTable(base, power)[i] = PowStep(base, power, PowTable(base, power), i)
<1> DEFINE g == PowTable(base, power)
           n == EXPONENT_BITS
<1>1. \E h : h = [k \in 0 .. n |-> PowStep(base, power, h, k)]
    <2>1. n \in Nat
        BY FeeScaleAssumption
    <2>2. \A m \in Nat : \E h : h = [k \in 0 .. m |-> PowStep(base, power, h, k)]
        BY PowTableExists
    <2> HIDE DEF n
    <2> QED
        BY <2>1, <2>2, Zenon
<1>2. g = [k \in 0 .. EXPONENT_BITS |-> PowStep(base, power, g, k)]
    BY <1>1 DEF PowTable
<1> HIDE DEF g
<1>3. g[i] = PowStep(base, power, g, i)
    BY <1>2
<1> QED
    BY <1>3 DEF g

(* Rounded down products are ordered as their factors.                       *)
LEMMA MulDivDownMonotone ==
    ASSUME NEW x \in Nat, NEW y \in Nat, NEW u \in Nat, NEW v \in Nat, NEW d \in Nat \ {0},
           x <= u, y <= v
    PROVE  MulDivDown(x, y, d) <= MulDivDown(u, v, d)
<1> DEFINE q == MulDivDown(x, y, d)
<1>1. q \in Nat /\ q * d <= x * y
    BY MulDivDownType, MulDivDownCovered
<1>2. x * y <= u * v
    <2>1. x * y <= x * v /\ x * v <= u * v /\ x * y \in Int /\ x * v \in Int /\ u * v \in Int
        BY ProductsOrdered
    <2> QED BY <2>1
<1> DEFINE z == u * v
<1>3. z \in Nat /\ q * d \in Int /\ x * y \in Int
    BY <1>1
<1>4. z >= q * d
    BY <1>1, <1>2, <1>3
<1>5. z \div d >= q
    <2> HIDE DEF z, q
    <2> QED BY <1>1, <1>3, <1>4, DivLowerBound
<1>6. z \div d \in Nat
    <2> HIDE DEF z
    <2> QED BY <1>3
<1> HIDE DEF q
<1> QED
    BY <1>1, <1>5, <1>6 DEF MulDivDown, q

(* Shifting right by one bit more.                                           *)
LEMMA Halves ==
    ASSUME NEW e \in Nat, NEW k \in Nat
    PROVE  /\ e \div 2^k \in Nat
           /\ e \div 2^(k + 1) = (e \div 2^k) \div 2
<1> DEFINE p == 2^k
<1>1. p \in Nat \ {0} /\ 2^(k + 1) = 2 * p
    BY PowersOfTwo
<1> HIDE DEF p
<1> DEFINE q == e \div p
           h == q \div 2
<1>2. q \in Nat /\ p * q <= e /\ e < p * (q + 1)
    BY <1>1
<1> HIDE DEF q
<1>3. h \in Nat /\ 2 * h <= q /\ q <= 2 * h + 1
    BY <1>2
<1> HIDE DEF h
<1> DEFINE d == 2 * p
<1>4. d \in Nat \ {0}
    BY <1>1
<1>5. h * d <= e
    <2>1. p * (2 * h) <= p * q /\ p * (2 * h) = h * d
        BY <1>1, <1>2, <1>3, ProductsOrdered
    <2>2. p * q \in Int /\ h * d \in Int
        BY <1>1, <1>2, <1>3
    <2> QED BY <1>2, <2>1, <2>2
<1>6. e <= h * d + d - 1
    <2>1. p * (q + 1) <= p * (2 * h + 2)
        <3>1. q + 1 \in Int /\ 2 * h + 2 \in Int /\ q + 1 <= 2 * h + 2 /\ p \in Nat
            BY <1>1, <1>2, <1>3
        <3> QED BY <3>1, ProductsOrdered
    <2>2. p * (2 * h + 2) = h * d + d
        BY <1>1, <1>3
    <2>3. p * (q + 1) \in Int /\ h * d \in Int
        BY <1>1, <1>2, <1>3
    <2> QED BY <1>2, <1>4, <2>1, <2>2, <2>3
<1>7. e \div d \in Nat
    <2> HIDE DEF d
    <2> QED BY <1>4
<1>8. e \div d >= h /\ e \div d <= h
    <2> HIDE DEF d
    <2> QED BY <1>3, <1>4, <1>5, <1>6, DivLowerBound, DivBound
<1>9. e \div d = h
    BY <1>3, <1>7, <1>8
<1> QED
    BY <1>1, <1>2, <1>9 DEF q, h, p

LEMMA PowTableNext ==
    ASSUME NEW base, NEW power, NEW k \in Nat, k < EXPONENT_BITS
    PROVE  LET table == PowTable(base, power)
           IN  /\ table[k + 1].squared = MulDivDown(table[k].squared, table[k].squared, ONE_Q)
               /\ table[k + 1].result =
                    IF (power \div 2^k) % 2 = 1
                    THEN MulDivDown(table[k].result, table[k].squared, ONE_Q)
                    ELSE table[k].result
<1>1. k + 1 \in 0 .. EXPONENT_BITS /\ k + 1 # 0 /\ (k + 1) - 1 = k
    BY FeeScaleAssumption
<1>2. PowTable(base, power)[k + 1] = PowStep(base, power, PowTable(base, power), k + 1)
    BY <1>1, PowTableValue
<1> QED
    BY <1>1, <1>2 DEF PowStep

LEMMA PowTableFirst ==
    ASSUME NEW base, NEW power
    PROVE  PowTable(base, power)[0].result = ONE_Q /\ PowTable(base, power)[0].squared = base
<1>1. 0 \in 0 .. EXPONENT_BITS
    BY FeeScaleAssumption
<1>2. PowTable(base, power)[0] = PowStep(base, power, PowTable(base, power), 0)
    BY <1>1, PowTableValue
<1> QED
    BY <1>2 DEF PowStep

(* Powers of a number of at most one are at most one.                        *)
LEMMA PowTableType ==
    ASSUME NEW base \in 0 .. ONE_Q, NEW power
    PROVE  \A k \in 0 .. EXPONENT_BITS :
              /\ PowTable(base, power)[k].result \in 0 .. ONE_Q
              /\ PowTable(base, power)[k].squared \in 0 .. ONE_Q
<1> DEFINE table == PowTable(base, power)
           G == {n \in Nat : n <= EXPONENT_BITS =>
                    table[n].result \in 0 .. ONE_Q /\ table[n].squared \in 0 .. ONE_Q}
<1>0. ONE_Q \in Nat \ {0} /\ EXPONENT_BITS \in Nat
    BY OneQAssumption, FeeScaleAssumption
<1>1. \A x, y \in 0 .. ONE_Q : MulDivDown(x, y, ONE_Q) \in 0 .. ONE_Q
    <2> TAKE x \in 0 .. ONE_Q, y \in 0 .. ONE_Q
    <2>1. x \in Nat /\ y \in Nat /\ y <= ONE_Q /\ x <= ONE_Q
        BY <1>0
    <2>2. MulDivDown(x, y, ONE_Q) \in Nat /\ MulDivDown(x, y, ONE_Q) <= x
        BY <1>0, <2>1, MulDivDownType, MulDivDownBound
    <2> QED
        BY <1>0, <2>1, <2>2
<1>2. 0 \in G
    BY <1>0, PowTableFirst
<1>3. ASSUME NEW n \in Nat, n \in G
      PROVE  n + 1 \in G
    <2> SUFFICES ASSUME n + 1 <= EXPONENT_BITS
                 PROVE  table[n + 1].result \in 0 .. ONE_Q /\ table[n + 1].squared \in 0 .. ONE_Q
        OBVIOUS
    <2>1. n < EXPONENT_BITS /\ table[n].result \in 0 .. ONE_Q /\ table[n].squared \in 0 .. ONE_Q
        BY <1>0, <1>3
    <2> HIDE DEF table
    <2>2. /\ MulDivDown(table[n].result, table[n].squared, ONE_Q) \in 0 .. ONE_Q
          /\ MulDivDown(table[n].squared, table[n].squared, ONE_Q) \in 0 .. ONE_Q
        BY <1>1, <2>1
    <2> QED
        BY <2>1, <2>2, PowTableNext DEF table
<1> HIDE DEF G
<1>4. \A n \in Nat : n \in G
    BY <1>2, <1>3, SetOfNaturals
<1> QED
    BY <1>0, <1>4 DEF G

(* 2^k by a name: the provers reason about it from PowersOfTwo alone.        *)
TwoTo(k) == 2^k

LEMMA TwoToType ==
    ASSUME NEW k \in Nat
    PROVE  TwoTo(k) \in Nat \ {0}
BY PowersOfTwo DEF TwoTo

Bits(power, k) == power \div TwoTo(k)

LEMMA BitsHalve ==
    ASSUME NEW power \in Nat, NEW k \in Nat
    PROVE  Bits(power, k) \in Nat /\ Bits(power, k + 1) = Bits(power, k) \div 2
BY Halves DEF Bits, TwoTo

LEMMA PowTableBits ==
    ASSUME NEW base, NEW power, NEW k \in Nat, k < EXPONENT_BITS
    PROVE  LET table == PowTable(base, power)
           IN  /\ table[k + 1].squared = MulDivDown(table[k].squared, table[k].squared, ONE_Q)
               /\ table[k + 1].result =
                    IF Bits(power, k) % 2 = 1
                    THEN MulDivDown(table[k].result, table[k].squared, ONE_Q)
                    ELSE table[k].result
BY PowTableNext DEF Bits, TwoTo

(* One more in the exponent: up to the lowest zero bit of power, which it      *)
(* turns into a one, nothing was multiplied yet where power took every square; *)
(* from there on the bits are the same.                                      *)
Carrying(base, power, k) ==
    /\ Bits(power + 1, k) = Bits(power, k) + 1
    /\ PowTable(base, power + 1)[k].result = ONE_Q
    /\ PowTable(base, power)[k].squared <= PowTable(base, power)[k].result

Carried(base, power, k) ==
    /\ Bits(power + 1, k) = Bits(power, k)
    /\ PowTable(base, power + 1)[k].result <= PowTable(base, power)[k].result

LEMMA CarryStep ==
    ASSUME NEW base \in 0 .. ONE_Q, NEW power \in Nat, NEW k \in Nat, k < EXPONENT_BITS,
           PowTable(base, power + 1)[k].squared = PowTable(base, power)[k].squared,
           Carrying(base, power, k) \/ Carried(base, power, k)
    PROVE  /\ PowTable(base, power + 1)[k + 1].squared = PowTable(base, power)[k + 1].squared
           /\ Carrying(base, power, k + 1) \/ Carried(base, power, k + 1)
<1> DEFINE low == PowTable(base, power)
           high == PowTable(base, power + 1)
           square == low[k].squared
           x == Bits(power, k)
           y == Bits(power + 1, k)
           rx == low[k].result
           ry == high[k].result
<1>1. /\ x \in Nat /\ y \in Nat
      /\ Bits(power, k + 1) = x \div 2 /\ Bits(power + 1, k + 1) = y \div 2
    <2>1. power + 1 \in Nat
        OBVIOUS
    <2> QED BY <2>1, BitsHalve
<1>2. /\ ONE_Q \in Nat \ {0} /\ rx \in Nat /\ ry \in Nat /\ square \in Nat
      /\ rx <= ONE_Q /\ ry <= ONE_Q /\ square <= ONE_Q
    <2>1. k \in 0 .. EXPONENT_BITS
        BY FeeScaleAssumption
    <2>2. /\ rx \in 0 .. ONE_Q /\ ry \in 0 .. ONE_Q /\ square \in 0 .. ONE_Q
        BY <2>1, PowTableType
    <2> QED
        BY <2>2, OneQAssumption
<1>3. /\ low[k + 1].squared = MulDivDown(square, square, ONE_Q)
      /\ high[k + 1].squared = MulDivDown(square, square, ONE_Q)
      /\ low[k + 1].result = IF x % 2 = 1 THEN MulDivDown(rx, square, ONE_Q) ELSE rx
      /\ high[k + 1].result = IF y % 2 = 1 THEN MulDivDown(ry, square, ONE_Q) ELSE ry
    BY PowTableBits
<1>4. \/ y = x + 1 /\ ry = ONE_Q /\ square <= rx
      \/ y = x /\ ry <= rx
    BY DEF Carrying, Carried
<1>g. SUFFICES \/ /\ y \div 2 = x \div 2 + 1 /\ high[k + 1].result = ONE_Q
                  /\ low[k + 1].squared <= low[k + 1].result
               \/ y \div 2 = x \div 2 /\ high[k + 1].result <= low[k + 1].result
    BY <1>1, <1>3 DEF Carrying, Carried
<1> HIDE DEF low, high, square, x, y, rx, ry
<1>5. CASE y = x + 1 /\ ry = ONE_Q /\ square <= rx /\ x % 2 = 1
    <2>1. y \div 2 = x \div 2 + 1 /\ y % 2 # 1
        BY <1>1, <1>5
    <2>2. MulDivDown(square, square, ONE_Q) <= MulDivDown(rx, square, ONE_Q)
        BY <1>2, <1>5, MulDivDownMonotone
    <2> QED
        BY <1>3, <1>5, <2>1, <2>2
<1>6. CASE y = x + 1 /\ ry = ONE_Q /\ square <= rx /\ x % 2 # 1
    <2>1. y \div 2 = x \div 2 /\ y % 2 = 1
        BY <1>1, <1>6
    <2>2. MulDivDown(ONE_Q, square, ONE_Q) <= square
        <3>1. MulDivDown(ONE_Q, square, ONE_Q) = MulDivDown(square, ONE_Q, ONE_Q)
            <4>1. ONE_Q * square = square * ONE_Q
                BY <1>2
            <4> QED BY <4>1 DEF MulDivDown
        <3> QED
            BY <1>2, <3>1, MulDivDownBound
    <2>3. MulDivDown(ONE_Q, square, ONE_Q) \in Nat
        BY <1>2, MulDivDownType
    <2>4. MulDivDown(ONE_Q, square, ONE_Q) <= rx
        BY <1>2, <1>6, <2>2, <2>3
    <2> QED
        BY <1>3, <1>6, <2>1, <2>4
<1>7. CASE y = x /\ ry <= rx
    <2>1. MulDivDown(ry, square, ONE_Q) <= MulDivDown(rx, square, ONE_Q)
        BY <1>2, <1>7, MulDivDownMonotone
    <2> QED
        BY <1>3, <1>7, <2>1
<1> QED
    BY <1>4, <1>5, <1>6, <1>7

(* pow falls with the exponent, its truncations included.                    *)
LEMMA PowFallsByOne ==
    ASSUME NEW base \in 0 .. ONE_Q, NEW power \in Nat, power + 1 < TwoTo(EXPONENT_BITS)
    PROVE  Pow(base, power + 1) <= Pow(base, power)
<1> DEFINE B == EXPONENT_BITS
           G == {n \in Nat : n <= B =>
                    /\ PowTable(base, power + 1)[n].squared = PowTable(base, power)[n].squared
                    /\ Carrying(base, power, n) \/ Carried(base, power, n)}
<1>0. B \in Nat /\ ONE_Q \in Nat \ {0}
    BY FeeScaleAssumption, OneQAssumption
<1>1. 0 \in G
    <2>1. Bits(power, 0) = power /\ Bits(power + 1, 0) = power + 1
        <3>1. TwoTo(0) = 1
            BY DEF TwoTo
        <3> QED BY <3>1 DEF Bits
    <2>2. Carrying(base, power, 0)
        BY <1>0, <2>1, PowTableFirst DEF Carrying
    <2> QED
        BY <2>2, PowTableFirst
<1>2. ASSUME NEW n \in Nat, n \in G
      PROVE  n + 1 \in G
    <2>1. ASSUME n + 1 <= B
          PROVE  /\ PowTable(base, power + 1)[n + 1].squared = PowTable(base, power)[n + 1].squared
                 /\ Carrying(base, power, n + 1) \/ Carried(base, power, n + 1)
        <3>1. n < B /\ n <= B
            BY <1>0, <2>1
        <3> QED
            BY <1>2, <3>1, CarryStep
    <2> QED
        BY <2>1
<1> HIDE DEF G
<1>3. \A n \in Nat : n \in G
    BY <1>1, <1>2, SetOfNaturals
<1>4. Carrying(base, power, B) \/ Carried(base, power, B)
    BY <1>0, <1>3 DEF G
<1>5. ~Carrying(base, power, B)
    <2> DEFINE p == TwoTo(B)
    <2>1. p \in Nat \ {0} /\ power + 1 < p
        BY <1>0, TwoToType
    <2> HIDE DEF p
    <2>2. power \div p \in Nat /\ (power + 1) \div p = 0
        BY <2>1
    <2> QED
        BY <2>2 DEF Carrying, Bits, p
<1> QED
    BY <1>4, <1>5, PowIsTable DEF Carried

LEMMA PowFalls ==
    ASSUME NEW base \in 0 .. ONE_Q, NEW last \in Nat, last < TwoTo(EXPONENT_BITS),
           NEW power \in 0 .. last
    PROVE  /\ Pow(base, power) \in 0 .. ONE_Q /\ Pow(base, last) \in 0 .. ONE_Q
           /\ Pow(base, last) <= Pow(base, power)
<1>0. EXPONENT_BITS \in Nat /\ ONE_Q \in Nat \ {0} /\ TwoTo(EXPONENT_BITS) \in Nat
    BY FeeScaleAssumption, OneQAssumption, TwoToType
<1>1. \A e : Pow(base, e) \in 0 .. ONE_Q
    BY <1>0, PowTableType, PowIsTable
<1> DEFINE G == {n \in Nat : power + n <= last => Pow(base, power + n) <= Pow(base, power)}
<1>2. 0 \in G
    <2>1. power + 0 = power
        OBVIOUS
    <2> QED
        BY <1>0, <1>1, <2>1
<1>3. ASSUME NEW n \in Nat, n \in G
      PROVE  n + 1 \in G
    <2>1. ASSUME power + (n + 1) <= last
          PROVE  Pow(base, power + (n + 1)) <= Pow(base, power)
        <3>1. /\ power + n \in Nat /\ power + n <= last /\ (power + n) + 1 < TwoTo(EXPONENT_BITS)
              /\ power + (n + 1) = (power + n) + 1
            BY <1>0, <2>1
        <3>2. Pow(base, (power + n) + 1) <= Pow(base, power + n)
            BY <3>1, PowFallsByOne
        <3>3. Pow(base, power + n) <= Pow(base, power)
            BY <1>3, <3>1
        <3> QED
            BY <1>0, <1>1, <3>1, <3>2, <3>3
    <2> QED
        BY <2>1
<1> HIDE DEF G
<1>4. \A n \in Nat : n \in G
    BY <1>2, <1>3, SetOfNaturals
<1>5. last - power \in Nat /\ power + (last - power) = last
    OBVIOUS
<1> QED
    BY <1>1, <1>4, <1>5 DEF G
-----------------------------------------------------------------------------
(* What validate admits, of an exponential schedule and of every schedule.   *)
LEMMA ValidSchedule ==
    ASSUME NEW base_fee \in BaseFeeParameters, ValidBaseFee(base_fee)
    PROVE  /\ base_fee.mode = "Exponential" =>
                 /\ base_fee.reduction_factor <= BASIS_POINT_MAX
                 /\ base_fee.number_of_period < TwoTo(EXPONENT_BITS)
           /\ GetMinBaseFeeNumerator(base_fee) >= MIN_FEE_NUMERATOR
           /\ base_fee.cliff_fee_numerator <= MAX_FEE_NUMERATOR
BY DEF ValidBaseFee, TwoTo

LEMMA ReductionBaseType ==
    ASSUME NEW reduction_factor \in Nat, reduction_factor <= BASIS_POINT_MAX
    PROVE  ReductionBase(reduction_factor) \in 0 .. ONE_Q
<1> DEFINE x == MulDivDown(reduction_factor, ONE_Q, BASIS_POINT_MAX)
<1>1. ONE_Q \in Nat /\ BASIS_POINT_MAX \in Nat \ {0}
    BY OneQAssumption, FeeScaleAssumption
<1>2. x \in Nat
    BY <1>1, MulDivDownType
<1>3. x <= ONE_Q
    <2>1. ONE_Q * reduction_factor = reduction_factor * ONE_Q
        BY <1>1
    <2>2. x = MulDivDown(ONE_Q, reduction_factor, BASIS_POINT_MAX)
        BY <2>1 DEF MulDivDown
    <2> QED
        BY <1>1, <2>2, MulDivDownBound
<1> HIDE DEF x
<1>4. ONE_Q - x \in 0 .. ONE_Q
    BY <1>1, <1>2, <1>3
<1> QED
    BY <1>4 DEF ReductionBase, x

(* The fee of one period of a schedule.                                      *)
FeeOfPeriod(base_fee, period) ==
    IF base_fee.mode = "Linear"
    THEN base_fee.cliff_fee_numerator - period * base_fee.reduction_factor
    ELSE GetFeeInPeriod(base_fee.cliff_fee_numerator, base_fee.reduction_factor, period)

(* A later period has no higher fee.                                         *)
LEMMA FeeOfPeriodFalls ==
    ASSUME NEW base_fee \in BaseFeeParameters, ValidBaseFee(base_fee),
           NEW later \in 0 .. base_fee.number_of_period, NEW period \in 0 .. later
    PROVE  /\ FeeOfPeriod(base_fee, later) \in Int /\ FeeOfPeriod(base_fee, period) \in Int
           /\ FeeOfPeriod(base_fee, later) <= FeeOfPeriod(base_fee, period)
           /\ FeeOfPeriod(base_fee, period) <= base_fee.cliff_fee_numerator
<1> DEFINE cliff == base_fee.cliff_fee_numerator
           reduction == base_fee.reduction_factor
<1>1. /\ cliff \in Nat /\ reduction \in Nat /\ base_fee.number_of_period \in Nat
      /\ base_fee.mode \in {"Linear", "Exponential"} /\ ONE_Q \in Nat \ {0}
    BY OneQAssumption DEF BaseFeeParameters
<1>2. later \in Nat /\ period \in Nat /\ period <= later /\ later <= base_fee.number_of_period
    BY <1>1
<1>3. CASE base_fee.mode = "Linear"
    <2>1. /\ FeeOfPeriod(base_fee, later) = cliff - later * reduction
          /\ FeeOfPeriod(base_fee, period) = cliff - period * reduction
        BY <1>3 DEF FeeOfPeriod
    <2> HIDE DEF cliff, reduction
    <2>2. period * reduction <= later * reduction
        BY <1>1, <1>2, ProductsOrdered
    <2>3. period * reduction \in Nat /\ later * reduction \in Nat
        BY <1>1, <1>2
    <2> QED
        BY <1>1, <2>1, <2>2, <2>3 DEF cliff
<1>4. CASE base_fee.mode = "Exponential"
    <2>1. /\ FeeOfPeriod(base_fee, later) = GetFeeInPeriod(cliff, reduction, later)
          /\ FeeOfPeriod(base_fee, period) = GetFeeInPeriod(cliff, reduction, period)
        BY <1>4 DEF FeeOfPeriod
    <2>2. CASE reduction = 0
        BY <1>1, <2>1, <2>2 DEF GetFeeInPeriod
    <2>3. CASE reduction # 0
        <3> DEFINE base == ReductionBase(reduction)
                   high == Pow(base, period)
                   low == Pow(base, later)
        <3>1. reduction <= BASIS_POINT_MAX /\ base_fee.number_of_period < TwoTo(EXPONENT_BITS)
            BY <1>4, ValidSchedule
        <3>2. base \in 0 .. ONE_Q
            BY <1>1, <3>1, ReductionBaseType
        <3>3. later < TwoTo(EXPONENT_BITS)
            <4>1. TwoTo(EXPONENT_BITS) \in Nat
                BY TwoToType, FeeScaleAssumption
            <4> QED
                BY <1>1, <1>2, <3>1, <4>1
        <3> HIDE DEF base
        <3>4. high \in 0 .. ONE_Q /\ low \in 0 .. ONE_Q /\ low <= high
            BY <1>2, <3>2, <3>3, PowFalls
        <3>5. /\ FeeOfPeriod(base_fee, later) = MulDivDown(low, cliff, ONE_Q)
              /\ FeeOfPeriod(base_fee, period) = MulDivDown(high, cliff, ONE_Q)
            BY <2>1, <2>3 DEF GetFeeInPeriod, base
        <3> HIDE DEF high, low, cliff
        <3>6. high \in Nat /\ low \in Nat /\ high <= ONE_Q /\ cliff <= cliff
            BY <1>1, <3>4
        <3>7. /\ MulDivDown(low, cliff, ONE_Q) \in Nat /\ MulDivDown(high, cliff, ONE_Q) \in Nat
              /\ MulDivDown(low, cliff, ONE_Q) <= MulDivDown(high, cliff, ONE_Q)
            BY <1>1, <3>4, <3>6, MulDivDownType, MulDivDownMonotone
        <3>8. MulDivDown(high, cliff, ONE_Q) <= cliff
            <4>1. high * cliff = cliff * high
                BY <1>1, <3>6
            <4>2. MulDivDown(high, cliff, ONE_Q) = MulDivDown(cliff, high, ONE_Q)
                BY <4>1 DEF MulDivDown
            <4> QED
                BY <1>1, <3>6, <4>2, MulDivDownBound
        <3> QED
            BY <3>5, <3>7, <3>8 DEF cliff
    <2> QED
        BY <2>2, <2>3
<1> QED
    BY <1>1, <1>3, <1>4

LEMMA PassedPeriodType ==
    ASSUME NEW base_fee \in BaseFeeParameters, base_fee.period_frequency # 0,
           NEW activation_point \in Nat, NEW current_point \in Nat
    PROVE  PassedPeriod(base_fee, activation_point, current_point)
              \in 0 .. base_fee.number_of_period
<1>1. base_fee.number_of_period \in Nat /\ base_fee.period_frequency \in Nat \ {0}
    BY DEF BaseFeeParameters
<1>2. CASE current_point < activation_point
    BY <1>1, <1>2 DEF PassedPeriod
<1>3. CASE ~(current_point < activation_point)
    <2> DEFINE passed == (current_point - activation_point) \div base_fee.period_frequency
    <2>1. current_point - activation_point \in Nat
        BY <1>3
    <2>2. passed \in Nat
        BY <1>1, <2>1
    <2>3. PassedPeriod(base_fee, activation_point, current_point)
            = CapAt(passed, base_fee.number_of_period)
        BY <1>3 DEF PassedPeriod
    <2> HIDE DEF passed
    <2> QED
        BY <1>1, <2>2, <2>3 DEF CapAt
<1> QED
    BY <1>2, <1>3

LEMMA PassedPeriodGrows ==
    ASSUME NEW base_fee \in BaseFeeParameters, base_fee.period_frequency # 0,
           NEW activation_point \in Nat, NEW current_point \in Nat, NEW later \in Nat,
           activation_point <= current_point, current_point <= later
    PROVE  PassedPeriod(base_fee, activation_point, current_point)
              <= PassedPeriod(base_fee, activation_point, later)
<1> DEFINE frequency == base_fee.period_frequency
           x == current_point - activation_point
           y == later - activation_point
<1>1. base_fee.number_of_period \in Nat /\ frequency \in Nat \ {0}
    BY DEF BaseFeeParameters
<1>2. x \in Nat /\ y \in Nat /\ x <= y
    OBVIOUS
<1>3. /\ PassedPeriod(base_fee, activation_point, current_point)
            = CapAt(x \div frequency, base_fee.number_of_period)
      /\ PassedPeriod(base_fee, activation_point, later)
            = CapAt(y \div frequency, base_fee.number_of_period)
    BY DEF PassedPeriod
<1> HIDE DEF x, y, frequency
<1> DEFINE q == x \div frequency
           r == y \div frequency
<1>4. q \in Nat /\ r \in Nat /\ frequency * q <= x
    BY <1>1, <1>2
<1>5. q <= r
    <2>1. y >= q * frequency
        <3> HIDE DEF q
        <3>1. q * frequency = frequency * q /\ frequency * q \in Int
            BY <1>1, <1>4
        <3> QED BY <1>2, <1>4, <3>1
    <2> HIDE DEF q
    <2>2. y \div frequency >= q
        BY <1>1, <1>2, <1>4, <2>1, DivLowerBound
    <2> QED
        BY <1>4, <2>2
<1> HIDE DEF q, r
<1>6. CapAt(q, base_fee.number_of_period) <= CapAt(r, base_fee.number_of_period)
    BY <1>1, <1>4, <1>5 DEF CapAt
<1> QED
    BY <1>3, <1>6 DEF q, r

LEMMA BaseFeeOfPeriod ==
    ASSUME NEW base_fee \in BaseFeeParameters, NEW activation_point, NEW current_point
    PROVE  GetBaseFeeNumerator(base_fee, activation_point, current_point)
              = IF base_fee.period_frequency = 0 THEN base_fee.cliff_fee_numerator
                ELSE FeeOfPeriod(base_fee, PassedPeriod(base_fee, activation_point, current_point))
<1>1. base_fee.mode \in {"Linear", "Exponential"}
    BY DEF BaseFeeParameters
<1> QED
    BY <1>1 DEF GetBaseFeeNumerator, FeeOfPeriod

(* The last period has the fee that validate looked at.                      *)
LEMMA MinFeeOfPeriod ==
    ASSUME NEW base_fee \in BaseFeeParameters
    PROVE  GetMinBaseFeeNumerator(base_fee) = FeeOfPeriod(base_fee, base_fee.number_of_period)
<1>1. /\ base_fee.reduction_factor \in Nat /\ base_fee.number_of_period \in Nat
    BY DEF BaseFeeParameters
<1>2. base_fee.reduction_factor * base_fee.number_of_period
        = base_fee.number_of_period * base_fee.reduction_factor
    BY <1>1
<1> QED
    BY <1>2 DEF GetMinBaseFeeNumerator, FeeOfPeriod

(* Whatever base fee validate admits, at every moment the fee lies between   *)
(* the fee of the last period and that of the first, the two it looked at:   *)
(* the truncations of pow by squaring never push it out of the limits.       *)
THEOREM BaseFeeInBounds ==
    ASSUME NEW base_fee \in BaseFeeParameters, ValidBaseFee(base_fee),
           NEW activation_point \in Nat, NEW current_point \in Nat
    PROVE  LET fee == GetBaseFeeNumerator(base_fee, activation_point, current_point)
           IN  /\ fee \in GetMinBaseFeeNumerator(base_fee) .. base_fee.cliff_fee_numerator
               /\ fee \in MIN_FEE_NUMERATOR .. MAX_FEE_NUMERATOR
<1> DEFINE cliff == base_fee.cliff_fee_numerator
           last == base_fee.number_of_period
           least == GetMinBaseFeeNumerator(base_fee)
           fee == GetBaseFeeNumerator(base_fee, activation_point, current_point)
<1>1. /\ cliff \in Nat /\ last \in Nat
      /\ MIN_FEE_NUMERATOR \in Nat /\ MAX_FEE_NUMERATOR \in Nat
      /\ least >= MIN_FEE_NUMERATOR /\ cliff <= MAX_FEE_NUMERATOR
    BY ValidSchedule, FeeScaleAssumption DEF BaseFeeParameters
<1>2. least \in Int /\ least <= cliff
    <2>1. last \in 0 .. base_fee.number_of_period /\ last \in 0 .. last
        BY <1>1
    <2> QED
        BY <2>1, FeeOfPeriodFalls, MinFeeOfPeriod
<1>3. fee \in Int /\ least <= fee /\ fee <= cliff
    <2>1. CASE base_fee.period_frequency = 0
        BY <1>1, <1>2, <2>1, BaseFeeOfPeriod
    <2>2. CASE base_fee.period_frequency # 0
        <3> DEFINE period == PassedPeriod(base_fee, activation_point, current_point)
        <3>1. period \in 0 .. last
            BY <2>2, PassedPeriodType
        <3>2. fee = FeeOfPeriod(base_fee, period)
            BY <2>2, BaseFeeOfPeriod
        <3> HIDE DEF period
        <3>3. last \in 0 .. base_fee.number_of_period
            BY <1>1
        <3> QED
            BY <3>1, <3>2, <3>3, FeeOfPeriodFalls, MinFeeOfPeriod
    <2> QED
        BY <2>1, <2>2
<1> HIDE DEF least, fee, cliff
<1>4. fee \in least .. cliff /\ fee \in MIN_FEE_NUMERATOR .. MAX_FEE_NUMERATOR
    BY <1>1, <1>2, <1>3
<1> QED
    BY <1>4 DEF least, fee, cliff

(* From the activation point on a schedule only lowers the fee.              *)
LEMMA BaseFeeFalls ==
    ASSUME NEW base_fee \in BaseFeeParameters, ValidBaseFee(base_fee),
           NEW activation_point \in Nat, NEW current_point \in Nat, NEW later \in Nat,
           activation_point <= current_point, current_point <= later
    PROVE  GetBaseFeeNumerator(base_fee, activation_point, later)
              <= GetBaseFeeNumerator(base_fee, activation_point, current_point)
<1>1. base_fee.number_of_period \in Nat /\ base_fee.cliff_fee_numerator \in Nat
    BY DEF BaseFeeParameters
<1>2. CASE base_fee.period_frequency = 0
    BY <1>1, <1>2, BaseFeeOfPeriod
<1>3. CASE base_fee.period_frequency # 0
    <2> DEFINE x == PassedPeriod(base_fee, activation_point, current_point)
               y == PassedPeriod(base_fee, activation_point, later)
    <2>1. x \in 0 .. base_fee.number_of_period /\ y \in 0 .. base_fee.number_of_period /\ x <= y
        BY <1>3, PassedPeriodType, PassedPeriodGrows
    <2>2. /\ GetBaseFeeNumerator(base_fee, activation_point, current_point) = FeeOfPeriod(base_fee, x)
          /\ GetBaseFeeNumerator(base_fee, activation_point, later) = FeeOfPeriod(base_fee, y)
        BY <1>3, BaseFeeOfPeriod
    <2> HIDE DEF x, y
    <2>3. x \in 0 .. y
        BY <1>1, <2>1
    <2> QED
        BY <2>1, <2>2, <2>3, FeeOfPeriodFalls
<1> QED
    BY <1>2, <1>3
=============================================================================
