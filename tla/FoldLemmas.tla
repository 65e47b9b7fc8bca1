------------------------------ MODULE FoldLemmas ------------------------------
(***************************************************************************)
(* Sums over finite sets of integers, as Functions defines them, and       *)
(* selections from sequences: the recursions exist, the order of the       *)
(* additions does not matter, a term may be taken out, and a selection     *)
(* goes through a map and leaves out what is not in the set.  Induction is *)
(* by a least counterexample.                                              *)
(***************************************************************************)
EXTENDS Selections, Functions, FiniteSetTheorems, TLAPS

-----------------------------------------------------------------------------
(* Least counterexamples.                                                   *)

LEMMA NatLeast ==
  ASSUME NEW T \in SUBSET Nat, T # {}
  PROVE  \E m \in T : \A k \in T : m =< k
<1> DEFINE R == OpToRel(<, Nat)
<1>1. IsWellFoundedOn(R, Nat)
  BY NatLessThanWellFounded
<1>2. \A x, y \in Nat : <<y, x>> \in R <=> y < x
  BY DEF OpToRel
<1> HIDE DEF R
<1>3. PICK m \in T : \A y \in T : ~ (<<y, m>> \in R)
  BY <1>1, WFMin
<1>4. ASSUME NEW y \in T
      PROVE  m =< y
  <2>1. <<y, m>> \in R <=> y < m
    BY <1>2
  <2> QED BY <2>1, <1>3
<1> QED BY <1>4

\* The greatest element of a bounded set.
LEMMA NatGreatest ==
  ASSUME NEW b \in Nat, NEW T \in SUBSET (0..b), T # {}
  PROVE  \E m \in T : \A k \in T : k =< m
<1> DEFINE D == {b - k : k \in T}
<1>1. D \in SUBSET Nat /\ D # {}
  <2>1. \A k \in T : k \in Int /\ k =< b /\ b - k \in Nat
    OBVIOUS
  <2> QED BY <2>1
<1>2. PICK d \in D : \A e \in D : d =< e
  <2> HIDE DEF D
  <2> QED BY <1>1, NatLeast
<1>3. PICK m \in T : d = b - m
  OBVIOUS
<1>4. ASSUME NEW k \in T
      PROVE  k =< m
  <2>1. b - m =< b - k
    BY <1>2, <1>3
  <2>2. k \in Int /\ m \in Int
    BY <1>3
  <2> QED BY <2>1, <2>2
<1> QED BY <1>3, <1>4

\* A property of finite sets that fails somewhere fails first at a set from
\* which no element can be removed without repairing it.
LEMMA MinimalSet ==
  ASSUME NEW S, IsFiniteSet(S), NEW C \in SUBSET (SUBSET S), C # {}
  PROVE  \E m \in C : \A x \in m : m \ {x} \notin C
<1> DEFINE T == {Cardinality(s) : s \in C}
<1>1. \A s \in C : IsFiniteSet(s) /\ Cardinality(s) \in Nat
  BY FS_Subset, FS_CardinalityType
<1>2. T \in SUBSET Nat /\ T # {}
  BY <1>1
<1>3. PICK n \in T : \A k \in T : n =< k
  <2> HIDE DEF T
  <2> QED BY <1>2, NatLeast
<1>4. PICK m \in C : n = Cardinality(m)
  BY <1>3
<1>5. ASSUME NEW x \in m, m \ {x} \in C
      PROVE  FALSE
  <2>1. Cardinality(m \ {x}) = n - 1
    BY <1>1, <1>4, <1>5, FS_RemoveElement
  <2>2. n =< Cardinality(m \ {x})
    BY <1>3, <1>5
  <2>3. n \in Nat
    BY <1>2, <1>3
  <2> HIDE DEF T
  <2> QED BY <2>1, <2>2, <2>3
<1> QED BY <1>5

-----------------------------------------------------------------------------
(* The recursion of a sum.                                                  *)

Pick(s) == CHOOSE x \in s : TRUE
SumStep(f, g, s) == IF s = {} THEN 0 ELSE f[Pick(s)] + g[s \ {Pick(s)}]
PartialSums(f, S) == CHOOSE g : g = [s \in SUBSET S |-> SumStep(f, g, s)]

LEMMA SumIsPartial ==
  ASSUME NEW f, NEW S
  PROVE  SumFunctionOnSet(f, S) = PartialSums(f, S)[S]
BY DEF SumFunctionOnSet, FoldFunctionOnSet, MapThenFoldSet, PartialSums,
       SumStep, Pick

LEMMA PickType ==
  ASSUME NEW s, s # {}
  PROVE  Pick(s) \in s
BY DEF Pick

\* The sets of at most n elements.
UpToSize(S, n) == {s \in SUBSET S : Cardinality(s) =< n}

\* The sums of those exist.
HasSums(f, S, n) == \E g : g = [s \in UpToSize(S, n) |-> SumStep(f, g, s)]

LEMMA SumsUpToSize ==
  ASSUME NEW f, NEW S, IsFiniteSet(S), NEW n \in Nat
  PROVE  HasSums(f, S, n)
<1> DEFINE Exists(k) == HasSums(f, S, k)
<1> USE DEF HasSums
<1> DEFINE T == {k \in Nat : ~Exists(k)}
<1>0. \A s \in SUBSET S : IsFiniteSet(s) /\ Cardinality(s) \in Nat
  BY FS_Subset, FS_CardinalityType
<1>1. Exists(0)
  <2>1. \A s \in UpToSize(S, 0) : s = {}
    BY <1>0, FS_EmptySet DEF UpToSize
  <2> DEFINE g == [s \in UpToSize(S, 0) |-> 0]
  <2>2. g = [s \in UpToSize(S, 0) |-> SumStep(f, g, s)]
    BY <2>1 DEF SumStep
  <2> QED BY <2>2
<1>2. ASSUME NEW k \in Nat, Exists(k)
      PROVE  Exists(k + 1)
  <2>1. PICK g : g = [s \in UpToSize(S, k) |-> SumStep(f, g, s)]
    BY <1>2
  <2> DEFINE h == [s \in UpToSize(S, k + 1) |-> SumStep(f, g, s)]
  <2>2. \A s \in UpToSize(S, k) : s \in UpToSize(S, k + 1) /\ h[s] = g[s]
    <3> TAKE s \in UpToSize(S, k)
    <3>1. s \in UpToSize(S, k + 1)
      BY <1>0 DEF UpToSize
    <3> QED BY <2>1, <3>1
  <2>3. ASSUME NEW s \in UpToSize(S, k + 1), s # {}
        PROVE  s \ {Pick(s)} \in UpToSize(S, k)
    <3>1. s \in SUBSET S /\ IsFiniteSet(s) /\ Cardinality(s) =< k + 1
      BY <1>0 DEF UpToSize
    <3>2. Cardinality(s \ {Pick(s)}) = Cardinality(s) - 1
      BY <2>3, <3>1, PickType, FS_RemoveElement
    <3> QED BY <1>0, <3>1, <3>2 DEF UpToSize
  <2>4. \A s \in UpToSize(S, k + 1) : SumStep(f, g, s) = SumStep(f, h, s)
    <3> TAKE s \in UpToSize(S, k + 1)
    <3>1. CASE s = {}
      BY <3>1 DEF SumStep
    <3>2. CASE s # {}
      <4>1. h[s \ {Pick(s)}] = g[s \ {Pick(s)}]
        BY <2>2, <2>3, <3>2
      <4> HIDE DEF h
      <4> QED BY <4>1 DEF SumStep
    <3> QED BY <3>1, <3>2
  <2>5. h = [s \in UpToSize(S, k + 1) |-> SumStep(f, h, s)]
    BY <2>4
  <2> QED BY <2>5
<1> HIDE DEF HasSums
<1>3. T = {}
  <2> SUFFICES ASSUME T # {} PROVE FALSE
    OBVIOUS
  <2>1. PICK m \in T : \A k \in T : m =< k
    BY NatLeast
  <2>2. m # 0 /\ m - 1 \in Nat
    BY <1>1, <2>1
  <2>3. Exists(m - 1)
    BY <2>1, <2>2
  <2> QED BY <1>2, <2>1, <2>2, <2>3
<1> QED BY <1>3

\* The partial sums satisfy their recursion.
LEMMA PartialSumsRecursion ==
  ASSUME NEW f, NEW S, IsFiniteSet(S)
  PROVE  \A s \in SUBSET S :
           PartialSums(f, S)[s] = SumStep(f, PartialSums(f, S), s)
<1>1. Cardinality(S) \in Nat /\ UpToSize(S, Cardinality(S)) = SUBSET S
  BY FS_Subset, FS_CardinalityType DEF UpToSize
<1>2. \E g : g = [s \in SUBSET S |-> SumStep(f, g, s)]
  <2>1. HasSums(f, S, Cardinality(S))
    BY <1>1, SumsUpToSize
  <2> QED BY <1>1, <2>1, Zenon DEF HasSums
<1>3. PartialSums(f, S) = [s \in SUBSET S |-> SumStep(f, PartialSums(f, S), s)]
  BY <1>2 DEF PartialSums
<1> QED BY <1>3

\* They do not depend on the set they are part of, nor on terms outside it.
LEMMA PartialSumsSame ==
  ASSUME NEW f, NEW e, NEW S, NEW T, IsFiniteSet(S), IsFiniteSet(T),
         NEW U \in SUBSET (S \cap T), \A x \in U : f[x] = e[x]
  PROVE  PartialSums(f, S)[U] = PartialSums(e, T)[U]
<1> DEFINE Same(s) == PartialSums(f, S)[s] = PartialSums(e, T)[s]
<1> DEFINE C == {s \in SUBSET U : ~Same(s)}
<1>1. ASSUME NEW s \in SUBSET U, s # {}, Same(s \ {Pick(s)})
      PROVE  Same(s)
  <2>1. Pick(s) \in U
    BY <1>1, PickType
  <2>2. /\ PartialSums(f, S)[s] = SumStep(f, PartialSums(f, S), s)
        /\ PartialSums(e, T)[s] = SumStep(e, PartialSums(e, T), s)
    BY PartialSumsRecursion
  <2> QED BY <1>1, <2>1, <2>2 DEF SumStep
<1>2. Same({})
  <2>1. /\ PartialSums(f, S)[{}] = SumStep(f, PartialSums(f, S), {})
        /\ PartialSums(e, T)[{}] = SumStep(e, PartialSums(e, T), {})
    BY PartialSumsRecursion
  <2>2. \A g : SumStep(f, g, {}) = 0 /\ SumStep(e, g, {}) = 0
    BY DEF SumStep
  <2> QED BY <2>1, <2>2
<1> HIDE DEF Same
<1>3. C = {}
  <2> SUFFICES ASSUME C # {} PROVE FALSE
    OBVIOUS
  <2>1. IsFiniteSet(U)
    BY FS_Subset
  <2>2. PICK m \in C : \A x \in m : m \ {x} \notin C
    BY <2>1, MinimalSet
  <2>3. m # {}
    BY <1>2
  <2>4. m \ {Pick(m)} \in SUBSET U /\ m \ {Pick(m)} \notin C
    BY <2>2, <2>3, PickType
  <2> QED BY <1>1, <2>2, <2>3, <2>4
<1> QED BY <1>3 DEF Same

-----------------------------------------------------------------------------
(* Sums.                                                                    *)

LEMMA SumEmpty ==
  ASSUME NEW f
  PROVE  SumFunctionOnSet(f, {}) = 0
BY SumIsPartial, PartialSumsRecursion, FS_EmptySet DEF SumStep

\* Two functions that agree on a set have the same sum there.
LEMMA SumSame ==
  ASSUME NEW f, NEW e, NEW S, IsFiniteSet(S), \A x \in S : f[x] = e[x]
  PROVE  SumFunctionOnSet(f, S) = SumFunctionOnSet(e, S)
BY SumIsPartial, PartialSumsSame

\* The recursion removes one element of its own choice.
LEMMA SumPick ==
  ASSUME NEW f, NEW S, IsFiniteSet(S), S # {}
  PROVE  SumFunctionOnSet(f, S)
           = f[Pick(S)] + SumFunctionOnSet(f, S \ {Pick(S)})
<1>1. IsFiniteSet(S \ {Pick(S)})
  BY FS_Subset
<1>2. PartialSums(f, S)[S \ {Pick(S)}]
        = PartialSums(f, S \ {Pick(S)})[S \ {Pick(S)}]
  BY <1>1, PartialSumsSame
<1>3. PartialSums(f, S)[S] = SumStep(f, PartialSums(f, S), S)
  BY PartialSumsRecursion
<1> QED BY <1>2, <1>3, SumIsPartial DEF SumStep

LEMMA SumType ==
  ASSUME NEW f, NEW S, IsFiniteSet(S), \A x \in S : f[x] \in Int
  PROVE  SumFunctionOnSet(f, S) \in Int
<1> DEFINE C == {s \in SUBSET S : SumFunctionOnSet(f, s) \notin Int}
<1>1. C = {}
  <2> SUFFICES ASSUME C # {} PROVE FALSE
    OBVIOUS
  <2>1. PICK m \in C : \A x \in m : m \ {x} \notin C
    BY MinimalSet
  <2>2. m # {} /\ IsFiniteSet(m)
    <3>1. m \in SUBSET S
      OBVIOUS
    <3>2. SumFunctionOnSet(f, {}) = 0
      BY SumEmpty
    <3>3. m # {}
      BY <3>2
    <3> QED BY <3>1, <3>3, FS_Subset
  <2>3. Pick(m) \in m /\ m \ {Pick(m)} \in SUBSET S
    BY <2>2, PickType
  <2>4. SumFunctionOnSet(f, m \ {Pick(m)}) \in Int /\ f[Pick(m)] \in Int
    BY <2>1, <2>3
  <2>5. SumFunctionOnSet(f, m)
          = f[Pick(m)] + SumFunctionOnSet(f, m \ {Pick(m)})
    BY <2>2, SumPick
  <2>6. SumFunctionOnSet(f, m) \in Int
    <3> HIDE DEF C
    <3> QED BY <2>4, <2>5
  <2> QED BY <2>1, <2>6
<1> QED BY <1>1

\* Any element may be removed first.
LEMMA SumRemove ==
  ASSUME NEW f, NEW S, IsFiniteSet(S), \A x \in S : f[x] \in Int, NEW z \in S
  PROVE  SumFunctionOnSet(f, S) = f[z] + SumFunctionOnSet(f, S \ {z})
<1> DEFINE Sum(s) == SumFunctionOnSet(f, s)
<1> DEFINE Removes(s) == \A y \in s : Sum(s) = f[y] + Sum(s \ {y})
<1> DEFINE C == {s \in SUBSET S : ~Removes(s)}
<1>0. \A s \in SUBSET S : IsFiniteSet(s) /\ Sum(s) \in Int
  BY FS_Subset, SumType
<1>1. ASSUME NEW s \in SUBSET S, \A x \in s : Removes(s \ {x}), NEW y \in s
      PROVE  Sum(s) = f[y] + Sum(s \ {y})
  <2> DEFINE p == Pick(s)
  <2>1. p \in s
    BY PickType
  <2>2. Sum(s) = f[p] + Sum(s \ {p})
    BY <1>0, <2>1, SumPick
  <2> HIDE DEF p
  <2>3. CASE y = p
    BY <2>2, <2>3
  <2>4. CASE y # p
    <3>1. Sum(s \ {p}) = f[y] + Sum((s \ {p}) \ {y})
      BY <1>1, <2>1, <2>4
    <3>2. Sum(s \ {y}) = f[p] + Sum((s \ {y}) \ {p})
      BY <1>1, <2>1, <2>4
    <3>3. (s \ {y}) \ {p} = (s \ {p}) \ {y}
      OBVIOUS
    <3>4. f[p] \in Int /\ f[y] \in Int /\ Sum((s \ {p}) \ {y}) \in Int
      BY <1>0, <2>1
    <3>5. Sum(s \ {y}) = f[p] + Sum((s \ {p}) \ {y})
      BY <3>2, <3>3, Zenon
    <3>6. Sum(s) = f[p] + (f[y] + Sum((s \ {p}) \ {y}))
      BY <2>2, <3>1, Zenon
    <3>7. \A a, b, c \in Int : a + (b + c) = b + (a + c)
      OBVIOUS
    <3>8. Sum(s) = f[y] + (f[p] + Sum((s \ {p}) \ {y}))
      BY <3>4, <3>6, <3>7, Zenon
    <3> QED BY <3>5, <3>8, Zenon
  <2> QED BY <2>3, <2>4
<1>2. C = {}
  <2> SUFFICES ASSUME C # {} PROVE FALSE
    OBVIOUS
  <2>1. PICK m \in C : \A x \in m : m \ {x} \notin C
    BY MinimalSet
  <2>2. \A x \in m : Removes(m \ {x})
    BY <2>1
  <2> QED BY <1>1, <2>1, <2>2
<1> QED BY <1>2

\* Any element may be added last.
LEMMA SumAdd ==
  ASSUME NEW f, NEW S, IsFiniteSet(S), NEW z, z \notin S,
         \A x \in S \cup {z} : f[x] \in Int
  PROVE  SumFunctionOnSet(f, S \cup {z}) = SumFunctionOnSet(f, S) + f[z]
<1>1. IsFiniteSet(S \cup {z})
  BY FS_AddElement
<1>2. SumFunctionOnSet(f, S \cup {z})
        = f[z] + SumFunctionOnSet(f, (S \cup {z}) \ {z})
  BY <1>1, SumRemove
<1>3. (S \cup {z}) \ {z} = S
  OBVIOUS
<1>4. SumFunctionOnSet(f, S) \in Int
  BY SumType
<1>5. f[z] \in Int
  OBVIOUS
<1>6. SumFunctionOnSet(f, S \cup {z}) = f[z] + SumFunctionOnSet(f, S)
  BY <1>2, <1>3, Zenon
<1>7. \A a, b \in Int : a + b = b + a
  OBVIOUS
<1> QED BY <1>4, <1>5, <1>6, <1>7, Zenon

\* A sum of zeros, and a sum with one term.
LEMMA SumZero ==
  ASSUME NEW f, NEW S, IsFiniteSet(S), \A x \in S : f[x] = 0
  PROVE  SumFunctionOnSet(f, S) = 0
<1> DEFINE C == {s \in SUBSET S : SumFunctionOnSet(f, s) # 0}
<1>1. C = {}
  <2> SUFFICES ASSUME C # {} PROVE FALSE
    OBVIOUS
  <2>1. PICK m \in C : \A x \in m : m \ {x} \notin C
    BY MinimalSet
  <2>2. m # {} /\ IsFiniteSet(m)
    <3>1. m \in SUBSET S
      OBVIOUS
    <3>2. SumFunctionOnSet(f, {}) = 0
      BY SumEmpty
    <3>3. m # {}
      BY <3>2
    <3> QED BY <3>1, <3>3, FS_Subset
  <2>3. Pick(m) \in m
    BY <2>2, PickType
  <2>4. SumFunctionOnSet(f, m \ {Pick(m)}) = 0 /\ f[Pick(m)] = 0
    BY <2>1, <2>3
  <2>5. SumFunctionOnSet(f, m)
          = f[Pick(m)] + SumFunctionOnSet(f, m \ {Pick(m)})
    BY <2>2, SumPick
  <2> QED BY <2>1, <2>4, <2>5
<1> QED BY <1>1

LEMMA SumOfOne ==
  ASSUME NEW f, NEW S, IsFiniteSet(S), NEW p \in S, f[p] \in Int,
         \A x \in S \ {p} : f[x] = 0
  PROVE  SumFunctionOnSet(f, S) = f[p]
<1>1. SumFunctionOnSet(f, S) = f[p] + SumFunctionOnSet(f, S \ {p})
  <2>1. \A x \in S : f[x] \in Int
    OBVIOUS
  <2> QED BY <2>1, SumRemove
<1>2. SumFunctionOnSet(f, S \ {p}) = 0
  <2>1. IsFiniteSet(S \ {p})
    BY FS_Subset
  <2> QED BY <2>1, SumZero
<1> QED BY <1>1, <1>2

\* Larger terms make a larger sum.
LEMMA SumMonotone ==
  ASSUME NEW f, NEW e, NEW S, IsFiniteSet(S),
         \A x \in S : f[x] \in Int /\ e[x] \in Int /\ f[x] =< e[x]
  PROVE  SumFunctionOnSet(f, S) =< SumFunctionOnSet(e, S)
<1> DEFINE Less(s) == SumFunctionOnSet(f, s) =< SumFunctionOnSet(e, s)
<1> DEFINE C == {s \in SUBSET S : ~Less(s)}
<1>0. \A s \in SUBSET S : /\ IsFiniteSet(s)
                          /\ SumFunctionOnSet(f, s) \in Int
                          /\ SumFunctionOnSet(e, s) \in Int
  BY FS_Subset, SumType
<1>1. Less({})
  <2>1. SumFunctionOnSet(f, {}) = 0 /\ SumFunctionOnSet(e, {}) = 0
    BY SumEmpty
  <2> QED BY <2>1
<1>2. ASSUME NEW s \in SUBSET S, NEW p \in s, Less(s \ {p})
      PROVE  Less(s)
  <2>1. SumFunctionOnSet(f, s) = f[p] + SumFunctionOnSet(f, s \ {p})
    BY <1>0, SumRemove
  <2>2. SumFunctionOnSet(e, s) = e[p] + SumFunctionOnSet(e, s \ {p})
    BY <1>0, SumRemove
  <2>3. /\ SumFunctionOnSet(f, s \ {p}) \in Int
        /\ SumFunctionOnSet(e, s \ {p}) \in Int
        /\ f[p] \in Int /\ e[p] \in Int /\ f[p] =< e[p]
    BY <1>0
  <2>4. \A a, b, c, d \in Int : a =< b /\ c =< d => a + c =< b + d
    OBVIOUS
  <2>5. f[p] + SumFunctionOnSet(f, s \ {p}) =< e[p] + SumFunctionOnSet(e, s \ {p})
    BY <1>2, <2>3, <2>4
  <2> QED BY <2>1, <2>2, <2>5, Zenon
<1> HIDE DEF Less
<1>3. C = {}
  <2> SUFFICES ASSUME C # {} PROVE FALSE
    OBVIOUS
  <2>1. PICK m \in C : \A x \in m : m \ {x} \notin C
    BY MinimalSet
  <2>2. m # {} /\ m \in SUBSET S
    BY <1>1
  <2>3. PICK x \in m : TRUE
    BY <2>2
  <2>4. Less(m \ {x})
    BY <2>1, <2>2
  <2> QED BY <1>2, <2>1, <2>2, <2>4
<1> QED BY <1>3 DEF Less

\* The sum over a disjoint union.
LEMMA SumDisjoint ==
  ASSUME NEW f, NEW S, NEW T, IsFiniteSet(S), IsFiniteSet(T), S \cap T = {},
         \A x \in S \cup T : f[x] \in Int
  PROVE  SumFunctionOnSet(f, S \cup T)
           = SumFunctionOnSet(f, S) + SumFunctionOnSet(f, T)
<1> DEFINE Sum(s) == SumFunctionOnSet(f, s)
           Splits(u) == Sum(S \cup u) = Sum(S) + Sum(u)
           C == {u \in SUBSET T : ~Splits(u)}
<1>0. \A u \in SUBSET T : /\ IsFiniteSet(u) /\ IsFiniteSet(S \cup u)
                          /\ Sum(u) \in Int /\ Sum(S) \in Int
  BY FS_Subset, FS_Union, SumType
<1>1. Splits({})
  <2>1. Sum({}) = 0 /\ S \cup {} = S /\ Sum(S) \in Int
    BY <1>0, SumEmpty
  <2> HIDE DEF Sum
  <2> QED BY <2>1
<1>2. ASSUME NEW u \in SUBSET T, NEW p \in u, Splits(u \ {p})
      PROVE  Splits(u)
  <2>1. Sum(u) = f[p] + Sum(u \ {p})
    <3>1. IsFiniteSet(u) /\ \A x \in u : f[x] \in Int
      BY <1>0
    <3> HIDE DEF Sum
    <3>2. SumFunctionOnSet(f, u) = f[p] + SumFunctionOnSet(f, u \ {p})
      BY <3>1, SumRemove
    <3> QED BY <3>2 DEF Sum
  <2>2. Sum(S \cup u) = f[p] + Sum((S \cup u) \ {p})
    <3>1. /\ IsFiniteSet(S \cup u) /\ p \in S \cup u
          /\ \A x \in S \cup u : f[x] \in Int
      BY <1>0
    <3> HIDE DEF Sum
    <3>2. SumFunctionOnSet(f, S \cup u)
            = f[p] + SumFunctionOnSet(f, (S \cup u) \ {p})
      BY <3>1, SumRemove
    <3> QED BY <3>2 DEF Sum
  <2>3. (S \cup u) \ {p} = S \cup (u \ {p})
    OBVIOUS
  <2>4. f[p] \in Int /\ Sum(S) \in Int /\ Sum(u \ {p}) \in Int
    BY <1>0
  <2>5. Sum(S \cup (u \ {p})) = Sum(S) + Sum(u \ {p})
    BY <1>2
  <2>6. Sum(S \cup u) = f[p] + (Sum(S) + Sum(u \ {p}))
    BY <2>2, <2>3, <2>5, Zenon
  <2> HIDE DEF Sum
  <2> QED BY <2>1, <2>4, <2>6
<1> HIDE DEF Splits
<1>3. C = {}
  <2> SUFFICES ASSUME C # {} PROVE FALSE
    OBVIOUS
  <2>1. PICK m \in C : \A x \in m : m \ {x} \notin C
    BY MinimalSet
  <2>2. m # {} /\ m \in SUBSET T
    BY <1>1
  <2>3. PICK x \in m : TRUE
    BY <2>2
  <2>4. Splits(m \ {x})
    BY <2>1, <2>2
  <2> QED BY <1>2, <2>1, <2>2, <2>4
<1> QED BY <1>3 DEF Splits

\* e is a one-to-one renaming of the terms of f.
Renames(s, S, T) ==
  /\ \A x \in S : s[x] \in T
  /\ \A x, y \in S : s[x] = s[y] => x = y
  /\ \A y \in T : \E x \in S : s[x] = y

LEMMA SumRenamed ==
  ASSUME NEW f, NEW e, NEW s, NEW S, NEW T, IsFiniteSet(S), Renames(s, S, T),
         \A x \in S : e[x] = f[s[x]] /\ e[x] \in Int
  PROVE  /\ IsFiniteSet(T)
         /\ SumFunctionOnSet(e, S) = SumFunctionOnSet(f, T)
<1> DEFINE Image(u) == {s[x] : x \in u}
           Same(u) == SumFunctionOnSet(e, u) = SumFunctionOnSet(f, Image(u))
           C == {u \in SUBSET S : ~Same(u)}
           g == [x \in S |-> s[x]]
<1>0. /\ \A x \in S : s[x] \in T
      /\ \A x, y \in S : s[x] = s[y] => x = y
      /\ \A y \in T : \E x \in S : s[x] = y
  BY DEF Renames
<1>1. IsFiniteSet(T)
  <2>1. g \in Surjection(S, T)
    BY <1>0 DEF Surjection
  <2> QED BY <2>1, FS_Surjection
<1>2. \A u \in SUBSET S : /\ IsFiniteSet(u) /\ Image(u) \in SUBSET T
                          /\ IsFiniteSet(Image(u))
  BY <1>0, <1>1, FS_Subset
<1>3. Image(S) = T
  BY <1>0
<1>4. Same({})
  <2>1. Image({}) = {}
    OBVIOUS
  <2> QED BY <2>1, SumEmpty
<1>5. ASSUME NEW u \in SUBSET S, NEW p \in u, Same(u \ {p})
      PROVE  Same(u)
  <2>1. SumFunctionOnSet(e, u) = e[p] + SumFunctionOnSet(e, u \ {p})
    <3>1. IsFiniteSet(u)
      BY <1>2
    <3>2. \A x \in u : e[x] \in Int
      OBVIOUS
    <3> QED BY <3>1, <3>2, SumRemove
  <2>2. Image(u \ {p}) = Image(u) \ {s[p]}
    BY <1>0
  <2>3. s[p] \in Image(u) /\ \A y \in Image(u) : f[y] \in Int
    <3>1. s[p] \in Image(u)
      OBVIOUS
    <3>2. ASSUME NEW y \in Image(u)
          PROVE  f[y] \in Int
      <4>1. PICK x \in u : y = s[x]
        OBVIOUS
      <4>2. x \in S
        OBVIOUS
      <4> QED BY <4>1, <4>2
    <3> QED BY <3>1, <3>2, Zenon
  <2>4. SumFunctionOnSet(f, Image(u))
          = f[s[p]] + SumFunctionOnSet(f, Image(u) \ {s[p]})
    <3> HIDE DEF Image
    <3> QED BY <1>2, <2>3, SumRemove
  <2>5. e[p] = f[s[p]]
    OBVIOUS
  <2> QED BY <1>5, <2>1, <2>2, <2>4, <2>5, Zenon
<1> HIDE DEF Same
<1>6. C = {}
  <2> SUFFICES ASSUME C # {} PROVE FALSE
    OBVIOUS
  <2>1. PICK m \in C : \A x \in m : m \ {x} \notin C
    BY MinimalSet
  <2>2. m # {} /\ m \in SUBSET S
    BY <1>4
  <2>3. PICK x \in m : TRUE
    BY <2>2
  <2>4. Same(m \ {x})
    BY <2>1, <2>2
  <2> QED BY <1>5, <2>1, <2>2, <2>4
<1>7. Same(S)
  BY <1>6
<1> QED BY <1>1, <1>3, <1>7 DEF Same

LEMMA SumPlus ==
  ASSUME NEW f, NEW e, NEW h, NEW S, IsFiniteSet(S),
         \A x \in S : f[x] \in Int /\ e[x] \in Int /\ h[x] = f[x] + e[x]
  PROVE  SumFunctionOnSet(h, S)
           = SumFunctionOnSet(f, S) + SumFunctionOnSet(e, S)
<1> DEFINE Adds(u) == SumFunctionOnSet(h, u)
                        = SumFunctionOnSet(f, u) + SumFunctionOnSet(e, u)
           C == {u \in SUBSET S : ~Adds(u)}
<1>0. \A u \in SUBSET S : /\ IsFiniteSet(u)
                          /\ SumFunctionOnSet(f, u) \in Int
                          /\ SumFunctionOnSet(e, u) \in Int
  BY FS_Subset, SumType
<1>1. Adds({})
  <2>1. /\ SumFunctionOnSet(h, {}) = 0 /\ SumFunctionOnSet(f, {}) = 0
        /\ SumFunctionOnSet(e, {}) = 0
    BY SumEmpty
  <2> QED BY <2>1
<1>2. ASSUME NEW u \in SUBSET S, NEW p \in u, Adds(u \ {p})
      PROVE  Adds(u)
  <2>1. SumFunctionOnSet(f, u) = f[p] + SumFunctionOnSet(f, u \ {p})
    BY <1>0, SumRemove
  <2>2. SumFunctionOnSet(e, u) = e[p] + SumFunctionOnSet(e, u \ {p})
    BY <1>0, SumRemove
  <2>3. SumFunctionOnSet(h, u) = h[p] + SumFunctionOnSet(h, u \ {p})
    <3>1. \A x \in u : h[x] \in Int
      OBVIOUS
    <3> QED BY <1>0, <3>1, SumRemove
  <2>4. /\ SumFunctionOnSet(f, u \ {p}) \in Int
        /\ SumFunctionOnSet(e, u \ {p}) \in Int
        /\ f[p] \in Int /\ e[p] \in Int /\ h[p] = f[p] + e[p]
    BY <1>0
  <2>5. \A a, b, c, d \in Int : (a + b) + (c + d) = (a + c) + (b + d)
    OBVIOUS
  <2>6. SumFunctionOnSet(h, u \ {p}) = SumFunctionOnSet(f, u \ {p})
                                         + SumFunctionOnSet(e, u \ {p})
    BY <1>2
  <2>7. SumFunctionOnSet(h, u)
          = (f[p] + e[p]) + (SumFunctionOnSet(f, u \ {p})
                              + SumFunctionOnSet(e, u \ {p}))
    BY <2>3, <2>4, <2>6, Zenon
  <2>8. SumFunctionOnSet(h, u)
          = (f[p] + SumFunctionOnSet(f, u \ {p}))
             + (e[p] + SumFunctionOnSet(e, u \ {p}))
    <3> DEFINE a == f[p]
               b == e[p]
               c == SumFunctionOnSet(f, u \ {p})
               d == SumFunctionOnSet(e, u \ {p})
    <3>1. a \in Int /\ b \in Int /\ c \in Int /\ d \in Int
      BY <2>4
    <3>2. SumFunctionOnSet(h, u) = (a + b) + (c + d)
      BY <2>7
    <3> HIDE DEF a, b, c, d
    <3>3. SumFunctionOnSet(h, u) = (a + c) + (b + d)
      BY <2>5, <3>1, <3>2
    <3> QED BY <3>3 DEF a, b, c, d
  <2> QED BY <2>1, <2>2, <2>8, Zenon
<1> HIDE DEF Adds
<1>3. C = {}
  <2> SUFFICES ASSUME C # {} PROVE FALSE
    OBVIOUS
  <2>1. PICK m \in C : \A x \in m : m \ {x} \notin C
    BY MinimalSet
  <2>2. m # {} /\ m \in SUBSET S
    BY <1>1
  <2>3. PICK x \in m : TRUE
    BY <2>2
  <2>4. Adds(m \ {x})
    BY <2>1, <2>2
  <2> QED BY <1>2, <2>1, <2>2, <2>4
<1> QED BY <1>3 DEF Adds

LEMMA SumNegative ==
  ASSUME NEW f, NEW e, NEW S, IsFiniteSet(S),
         \A x \in S : f[x] \in Int /\ e[x] = -f[x]
  PROVE  SumFunctionOnSet(e, S) = -SumFunctionOnSet(f, S)
<1> DEFINE h == [x \in S |-> 0]
<1>1. \A x \in S : f[x] \in Int /\ e[x] \in Int /\ h[x] = f[x] + e[x]
  OBVIOUS
<1>2. SumFunctionOnSet(h, S) = SumFunctionOnSet(f, S) + SumFunctionOnSet(e, S)
  <2> HIDE DEF h
  <2> QED BY <1>1, SumPlus
<1>3. SumFunctionOnSet(h, S) = 0
  <2>1. \A x \in S : h[x] = 0
    OBVIOUS
  <2> QED BY <2>1, SumZero
<1>4. SumFunctionOnSet(f, S) \in Int /\ SumFunctionOnSet(e, S) \in Int
  BY <1>1, SumType
<1> HIDE DEF h
<1> QED BY <1>2, <1>3, <1>4

\* The sum of two sequences one after the other.
LEMMA SumOfConcat ==
  ASSUME NEW s \in Seq(Int), NEW t \in Seq(Int)
  PROVE  /\ SumFunction(s) \in Int /\ SumFunction(t) \in Int
         /\ SumFunction(s \o t) = SumFunction(s) + SumFunction(t)
<1> DEFINE m == Len(s)
           n == Len(t)
           u == s \o t
           shift == [i \in 1..n |-> m + i]
<1>1. /\ m \in Nat /\ n \in Nat /\ u \in Seq(Int) /\ Len(u) = m + n
      /\ DOMAIN s = 1..m /\ DOMAIN t = 1..n /\ DOMAIN u = 1..m + n
      /\ \A i \in 1..m : u[i] = s[i] /\ s[i] \in Int
      /\ \A i \in 1..n : u[m + i] = t[i] /\ t[i] \in Int
  OBVIOUS
<1>2. IsFiniteSet(1..m) /\ IsFiniteSet(1..n) /\ IsFiniteSet(m + 1..m + n)
  BY <1>1, FS_Interval
<1>3. SumFunctionOnSet(u, 1..m + n)
        = SumFunctionOnSet(u, 1..m) + SumFunctionOnSet(u, m + 1..m + n)
  <2>1. /\ 1..m + n = (1..m) \cup (m + 1..m + n)
        /\ (1..m) \cap (m + 1..m + n) = {}
    BY <1>1
  <2>2. \A i \in (1..m) \cup (m + 1..m + n) : u[i] \in Int
    BY <1>1, <2>1
  <2> HIDE DEF m, n, u
  <2>3. SumFunctionOnSet(u, (1..m) \cup (m + 1..m + n))
          = SumFunctionOnSet(u, 1..m) + SumFunctionOnSet(u, m + 1..m + n)
    BY <1>2, <2>1, <2>2, SumDisjoint
  <2> QED BY <2>1, <2>3, Zenon
<1>4. SumFunctionOnSet(u, 1..m) = SumFunctionOnSet(s, 1..m)
  <2> HIDE DEF m, n, u
  <2> QED BY <1>1, <1>2, SumSame
<1>5. SumFunctionOnSet(t, 1..n) = SumFunctionOnSet(u, m + 1..m + n)
  <2>1. \A i \in 1..n : shift[i] = m + i
    OBVIOUS
  <2> HIDE DEF m, n, u, shift
  <2>2. Renames(shift, 1..n, m + 1..m + n)
    <3>1. \A i \in 1..n : shift[i] \in m + 1..m + n
      BY <1>1, <2>1
    <3>2. \A i, j \in 1..n : shift[i] = shift[j] => i = j
      BY <1>1, <2>1
    <3>3. \A k \in m + 1..m + n : k - m \in 1..n /\ shift[k - m] = k
      BY <1>1, <2>1
    <3> QED BY <3>1, <3>2, <3>3 DEF Renames
  <2>3. \A i \in 1..n : t[i] = u[shift[i]] /\ t[i] \in Int
    BY <1>1, <2>1
  <2>4. IsFiniteSet(1..n)
    BY <1>2
  <2> DEFINE N == 1..n
             M == m + 1..m + n
  <2>5. Renames(shift, N, M) /\ IsFiniteSet(N)
        /\ \A i \in N : t[i] = u[shift[i]] /\ t[i] \in Int
    BY <2>2, <2>3, <2>4
  <2> HIDE DEF N, M
  <2>6. SumFunctionOnSet(t, N) = SumFunctionOnSet(u, M)
    BY <2>5, SumRenamed
  <2> QED BY <2>6 DEF N, M
<1>6. SumFunctionOnSet(s, 1..m) \in Int /\ SumFunctionOnSet(t, 1..n) \in Int
  <2> HIDE DEF m, n, u
  <2> QED BY <1>1, <1>2, SumType
<1> HIDE DEF m, n, u
<1> QED BY <1>1, <1>3, <1>4, <1>5, <1>6 DEF SumFunction, u

-----------------------------------------------------------------------------
(* Selections.                                                              *)

\* A set of numbers that has 0 and every successor has all.
LEMMA NatAll ==
  ASSUME NEW T, 0 \in T, \A k \in Nat : k \in T => k + 1 \in T
  PROVE  Nat \subseteq T
<1> DEFINE U == Nat \ T
<1>1. U = {}
  <2> SUFFICES ASSUME U # {} PROVE FALSE
    OBVIOUS
  <2>1. PICK m \in U : \A k \in U : m =< k
    BY NatLeast
  <2>2. m \in Nat /\ m # 0 /\ m \notin T
    BY <2>1
  <2>3. m - 1 \in Nat /\ (m - 1) + 1 = m
    BY <2>2
  <2>4. m - 1 \notin U
    BY <2>1, <2>3
  <2> QED BY <2>2, <2>3, <2>4
<1> QED BY <1>1

SelectStep(s, S, g, n) ==
  IF n = 0 THEN <<>>
  ELSE IF s[n] \in S THEN Append(g[n - 1], s[n]) ELSE g[n - 1]

Selected(s, S) ==
  CHOOSE g : g = [n \in 0..Len(s) |-> SelectStep(s, S, g, n)]

LEMMA SelectionIsSelected ==
  ASSUME NEW s, NEW S
  PROVE  Selection(s, S) = Selected(s, S)[Len(s)]
BY DEF Selection, Selected, SelectStep

HasSelected(s, S, k) ==
  \E g : g = [n \in 0..k |-> SelectStep(s, S, g, n)]

LEMMA SelectedUpTo ==
  ASSUME NEW s, NEW S, NEW k \in Nat
  PROVE  HasSelected(s, S, k)
<1> DEFINE T == {n \in Nat : HasSelected(s, S, n)}
<1>1. 0 \in T
  <2> DEFINE g == [n \in 0..0 |-> <<>>]
  <2>1. g = [n \in 0..0 |-> SelectStep(s, S, g, n)]
    BY DEF SelectStep
  <2> QED BY <2>1 DEF HasSelected
<1>2. ASSUME NEW m \in Nat, m \in T
      PROVE  m + 1 \in T
  <2>1. PICK g : g = [n \in 0..m |-> SelectStep(s, S, g, n)]
    BY <1>2 DEF HasSelected
  <2> DEFINE h == [n \in 0..m + 1 |-> SelectStep(s, S, g, n)]
  <2>2. \A n \in 0..m : n \in 0..m + 1 /\ h[n] = g[n]
    BY <2>1
  <2>3. \A n \in 0..m + 1 : SelectStep(s, S, g, n) = SelectStep(s, S, h, n)
    <3> TAKE n \in 0..m + 1
    <3>1. n # 0 => n - 1 \in 0..m
      OBVIOUS
    <3>2. n # 0 => h[n - 1] = g[n - 1]
      BY <2>2, <3>1
    <3> HIDE DEF h
    <3> QED BY <3>2 DEF SelectStep
  <2>4. h = [n \in 0..m + 1 |-> SelectStep(s, S, h, n)]
    BY <2>3
  <2>5. HasSelected(s, S, m + 1)
    <3> HIDE DEF h
    <3> QED BY <2>4, Zenon DEF HasSelected
  <2> QED BY <2>5
<1>3. Nat \subseteq T
  <2> HIDE DEF T
  <2> QED BY <1>1, <1>2, NatAll
<1> QED BY <1>3

LEMMA SelectedRecursion ==
  ASSUME NEW s, NEW S, Len(s) \in Nat
  PROVE  \A n \in 0..Len(s) :
           Selected(s, S)[n] = SelectStep(s, S, Selected(s, S), n)
<1>1. \E g : g = [n \in 0..Len(s) |-> SelectStep(s, S, g, n)]
  BY SelectedUpTo, Zenon DEF HasSelected
<1>2. Selected(s, S) = [n \in 0..Len(s) |-> SelectStep(s, S, Selected(s, S), n)]
  BY <1>1 DEF Selected
<1> QED BY <1>2

\* t starts with what F makes of s, R takes of that what S takes of s, and
\* nothing of the rest of t.
TakesAs(s, t, S, R, A, F) ==
  /\ s \in Seq(A) /\ Len(t) \in Nat /\ Len(s) =< Len(t)
  /\ \A i \in 1..Len(s) : /\ t[i] = F[s[i]]
                          /\ s[i] \in S <=> t[i] \in R
  /\ \A i \in Len(s) + 1..Len(t) : t[i] \notin R

LEMMA SelectionOfMap ==
  ASSUME NEW s, NEW t, NEW S, NEW R, NEW A, NEW F, TakesAs(s, t, S, R, A, F)
  PROVE  /\ Selection(s, S) \in Seq(A)
         /\ Selection(t, R) = [i \in DOMAIN Selection(s, S) |->
                                 F[Selection(s, S)[i]]]
<1> DEFINE f == Selected(s, S)
           g == Selected(t, R)
           Same(n) == f[n] \in Seq(A) /\ g[n] = [i \in DOMAIN f[n] |-> F[f[n][i]]]
           T == {n \in Nat : n =< Len(s) => Same(n)}
<1>0. /\ s \in Seq(A) /\ Len(s) \in Nat /\ Len(t) \in Nat /\ Len(s) =< Len(t)
      /\ \A i \in 1..Len(s) : s[i] \in A /\ t[i] = F[s[i]]
      /\ \A i \in 1..Len(s) : s[i] \in S <=> t[i] \in R
      /\ \A i \in Len(s) + 1..Len(t) : t[i] \notin R
  <2>1. /\ s \in Seq(A) /\ Len(t) \in Nat /\ Len(s) =< Len(t)
        /\ \A i \in 1..Len(s) : /\ t[i] = F[s[i]]
                                /\ s[i] \in S <=> t[i] \in R
        /\ \A i \in Len(s) + 1..Len(t) : t[i] \notin R
    BY DEF TakesAs
  <2> QED BY <2>1
<1>1. \A n \in 0..Len(s) : f[n] = SelectStep(s, S, f, n)
  BY <1>0, SelectedRecursion
<1>2. \A n \in 0..Len(t) : g[n] = SelectStep(t, R, g, n)
  BY <1>0, SelectedRecursion
<1> HIDE DEF f, g
<1>3. Same(0)
  <2>1. f[0] = <<>> /\ g[0] = <<>>
    BY <1>0, <1>1, <1>2 DEF SelectStep
  <2> QED BY <2>1
<1>4. ASSUME NEW n \in Nat, n + 1 =< Len(s), Same(n)
      PROVE  Same(n + 1)
  <2>1. n + 1 \in 0..Len(s) /\ n + 1 \in 1..Len(s) /\ n + 1 \in 0..Len(t)
        /\ (n + 1) - 1 = n /\ n + 1 # 0
    BY <1>0, <1>4
  <2>2. f[n + 1] = IF s[n + 1] \in S THEN Append(f[n], s[n + 1]) ELSE f[n]
    BY <1>1, <2>1 DEF SelectStep
  <2>3. g[n + 1] = IF t[n + 1] \in R THEN Append(g[n], t[n + 1]) ELSE g[n]
    BY <1>2, <2>1 DEF SelectStep
  <2>4. t[n + 1] = F[s[n + 1]] /\ (s[n + 1] \in S <=> t[n + 1] \in R)
        /\ s[n + 1] \in A
    BY <1>0, <2>1
  <2>5. CASE s[n + 1] \in S
    <3> DEFINE u == f[n]
               x == s[n + 1]
               v == g[n]
    <3>1. u \in Seq(A) /\ x \in A /\ v = [i \in DOMAIN u |-> F[u[i]]]
      BY <1>4, <2>4
    <3>2. f[n + 1] = Append(u, x) /\ g[n + 1] = Append(v, F[x])
      BY <2>2, <2>3, <2>4, <2>5
    <3> HIDE DEF u, x, v
    <3>3. Append(u, x) \in Seq(A)
          /\ Append(v, F[x])
               = [i \in DOMAIN Append(u, x) |-> F[Append(u, x)[i]]]
      BY <3>1
    <3> QED BY <3>2, <3>3
  <2>6. CASE s[n + 1] \notin S
    BY <1>4, <2>2, <2>3, <2>4, <2>6
  <2> QED BY <2>5, <2>6
<1>5. Same(Len(s))
  <2>1. 0 \in T
    BY <1>3
  <2>2. ASSUME NEW k \in Nat, k \in T
        PROVE  k + 1 \in T
    <3> HIDE DEF Same
    <3> QED BY <1>0, <1>4, <2>2
  <2>3. Nat \subseteq T
    <3> HIDE DEF T
    <3> QED BY <2>1, <2>2, NatAll
  <2> QED BY <1>0, <2>3
<1>6. g[Len(t)] = g[Len(s)]
  <2> DEFINE Rest == {n \in Nat : Len(s) + n =< Len(t) =>
                                    g[Len(s) + n] = g[Len(s)]}
  <2>1. 0 \in Rest
    BY <1>0
  <2>2. ASSUME NEW n \in Nat, n \in Rest
        PROVE  n + 1 \in Rest
    <3> SUFFICES ASSUME Len(s) + (n + 1) =< Len(t)
                 PROVE  g[Len(s) + (n + 1)] = g[Len(s)]
      OBVIOUS
    <3>1. /\ Len(s) + (n + 1) \in 0..Len(t)
          /\ Len(s) + (n + 1) \in Len(s) + 1..Len(t)
          /\ Len(s) + (n + 1) # 0
          /\ (Len(s) + (n + 1)) - 1 = Len(s) + n
          /\ Len(s) + n =< Len(t)
      BY <1>0
    <3>2. g[Len(s) + (n + 1)] = g[Len(s) + n]
      BY <1>0, <1>2, <3>1 DEF SelectStep
    <3> QED BY <2>2, <3>1, <3>2
  <2>3. Nat \subseteq Rest
    <3> HIDE DEF Rest
    <3> QED BY <2>1, <2>2, NatAll
  <2>4. Len(t) - Len(s) \in Nat /\ Len(s) + (Len(t) - Len(s)) = Len(t)
    BY <1>0
  <2> QED BY <2>3, <2>4
<1>7. Selection(s, S) = f[Len(s)] /\ Selection(t, R) = g[Len(t)]
  BY SelectionIsSelected DEF f, g
<1> QED BY <1>5, <1>6, <1>7

\* What takes everything takes the sequence, and what is selected is of the set.
LEMMA SelectionOfAll ==
  ASSUME NEW A, NEW s \in Seq(A), NEW S, \A i \in 1..Len(s) : s[i] \in S
  PROVE  Selection(s, S) = s
<1> DEFINE f == Selected(s, S)
           T == {n \in Nat : n =< Len(s) => f[n] = SubSeq(s, 1, n)}
<1>1. \A n \in 0..Len(s) : f[n] = SelectStep(s, S, f, n)
  BY SelectedRecursion
<1> HIDE DEF f
<1>2. 0 \in T
  <2>1. 0 \in 0..Len(s) /\ f[0] = <<>>
    BY <1>1 DEF SelectStep
  <2>2. SubSeq(s, 1, 0) = <<>>
    OBVIOUS
  <2> QED BY <2>1, <2>2
<1>3. ASSUME NEW n \in Nat, n \in T
      PROVE  n + 1 \in T
  <2> SUFFICES ASSUME n + 1 =< Len(s)
               PROVE  f[n + 1] = SubSeq(s, 1, n + 1)
    OBVIOUS
  <2>1. n + 1 \in 0..Len(s) /\ n + 1 \in 1..Len(s) /\ n + 1 # 0
        /\ (n + 1) - 1 = n /\ n =< Len(s)
    OBVIOUS
  <2>2. f[n + 1] = Append(f[n], s[n + 1])
    BY <1>1, <2>1 DEF SelectStep
  <2>3. f[n] = SubSeq(s, 1, n)
    BY <1>3, <2>1
  <2>4. Append(SubSeq(s, 1, n), s[n + 1]) = SubSeq(s, 1, n + 1)
    BY <2>1
  <2> QED BY <2>2, <2>3, <2>4
<1>4. Nat \subseteq T
  <2> HIDE DEF T
  <2> QED BY <1>2, <1>3, NatAll
<1>5. f[Len(s)] = SubSeq(s, 1, Len(s))
  BY <1>4
<1>6. SubSeq(s, 1, Len(s)) = s
  OBVIOUS
<1> QED BY <1>5, <1>6, SelectionIsSelected DEF f

LEMMA SelectionType ==
  ASSUME NEW A, NEW s \in Seq(A), NEW S
  PROVE  Selection(s, S) \in Seq(A \cap S)
<1> DEFINE f == Selected(s, S)
           T == {n \in Nat : n =< Len(s) => f[n] \in Seq(A \cap S)}
<1>1. \A n \in 0..Len(s) : f[n] = SelectStep(s, S, f, n)
  BY SelectedRecursion
<1> HIDE DEF f
<1>2. 0 \in T
  <2>1. 0 \in 0..Len(s) /\ f[0] = <<>>
    BY <1>1 DEF SelectStep
  <2>2. <<>> \in Seq(A \cap S)
    OBVIOUS
  <2> QED BY <2>1, <2>2
<1>3. ASSUME NEW n \in Nat, n \in T
      PROVE  n + 1 \in T
  <2> SUFFICES ASSUME n + 1 =< Len(s)
               PROVE  f[n + 1] \in Seq(A \cap S)
    OBVIOUS
  <2>1. n + 1 \in 0..Len(s) /\ n + 1 \in 1..Len(s) /\ n + 1 # 0
        /\ (n + 1) - 1 = n /\ n =< Len(s)
    OBVIOUS
  <2>2. f[n + 1] = IF s[n + 1] \in S THEN Append(f[n], s[n + 1]) ELSE f[n]
    BY <1>1, <2>1 DEF SelectStep
  <2>3. f[n] \in Seq(A \cap S) /\ s[n + 1] \in A
    BY <1>3, <2>1
  <2> QED BY <2>2, <2>3
<1>4. Nat \subseteq T
  <2> HIDE DEF T
  <2> QED BY <1>2, <1>3, NatAll
<1>5. f[Len(s)] \in Seq(A \cap S)
  BY <1>4
<1> QED BY <1>5, SelectionIsSelected DEF f

\* What is taken from two sequences one after the other.
LEMMA SelectionOfConcat ==
  ASSUME NEW A, NEW s \in Seq(A), NEW t \in Seq(A), NEW S, NEW Q, NEW R,
         \A i \in 1..Len(s) : s[i] \in S <=> s[i] \in Q,
         \A i \in 1..Len(t) : t[i] \in S <=> t[i] \in R
  PROVE  /\ Selection(s, Q) \in Seq(A) /\ Selection(t, R) \in Seq(A)
         /\ Selection(s \o t, S) = Selection(s, Q) \o Selection(t, R)
<1>0. \A v, w \in Seq(A), x \in A : Append(v \o w, x) = v \o Append(w, x)
  <2> TAKE v, w \in Seq(A), x \in A
  <2> DEFINE l == Append(v \o w, x)
             r == v \o Append(w, x)
  <2>1. l \in Seq(A) /\ r \in Seq(A) /\ Len(l) = Len(r)
    OBVIOUS
  <2>2. \A i \in 1..Len(l) : l[i] = r[i]
    OBVIOUS
  <2> HIDE DEF l, r
  <2>3. l = r
    BY <2>1, <2>2
  <2> QED BY <2>3 DEF l, r
<1> DEFINE u == s \o t
           m == Len(s)
           f == Selected(u, S)
           g == Selected(s, Q)
           h == Selected(t, R)
<1>1. /\ m \in Nat /\ Len(t) \in Nat /\ u \in Seq(A) /\ Len(u) = m + Len(t)
      /\ \A i \in 1..m : u[i] = s[i] /\ s[i] \in A
      /\ \A i \in 1..Len(t) : u[m + i] = t[i] /\ t[i] \in A
  OBVIOUS
<1>2. \A n \in 0..Len(u) : f[n] = SelectStep(u, S, f, n)
  <2>1. Len(u) \in Nat
    BY <1>1
  <2> HIDE DEF u
  <2> QED BY <2>1, SelectedRecursion
<1>3. \A n \in 0..m : g[n] = SelectStep(s, Q, g, n)
  <2>1. Len(s) \in Nat
    BY <1>1
  <2> QED BY <2>1, SelectedRecursion
<1>4. \A n \in 0..Len(t) : h[n] = SelectStep(t, R, h, n)
  <2>1. Len(t) \in Nat
    BY <1>1
  <2> QED BY <2>1, SelectedRecursion
<1>5. /\ \A i \in 1..m : u[i] \in S <=> s[i] \in Q
      /\ \A i \in 1..Len(t) : u[m + i] \in S <=> t[i] \in R
  BY <1>1
<1> HIDE DEF f, g, h, u, m
<1> DEFINE Same(n) == f[n] = g[n] /\ g[n] \in Seq(A)
           Joined(n) == h[n] \in Seq(A) /\ f[m + n] = g[m] \o h[n]
           First == {n \in Nat : n =< m => Same(n)}
           Second == {n \in Nat : n =< Len(t) => Joined(n)}
<1>6. Nat \subseteq First
  <2>1. 0 \in First
    <3>1. 0 \in 0..Len(u) /\ 0 \in 0..m
      BY <1>1
    <3>2. f[0] = <<>> /\ g[0] = <<>>
      BY <1>2, <1>3, <3>1 DEF SelectStep
    <3>3. Same(0)
      BY <3>2
    <3> HIDE DEF Same
    <3> QED BY <3>3
  <2>2. ASSUME NEW n \in Nat, n \in First
        PROVE  n + 1 \in First
    <3> SUFFICES ASSUME n + 1 =< m
                 PROVE  Same(n + 1)
      OBVIOUS
    <3>1. /\ n + 1 \in 0..Len(u) /\ n + 1 \in 0..m /\ n + 1 \in 1..m
          /\ n + 1 # 0 /\ (n + 1) - 1 = n /\ n =< m
      BY <1>1
    <3>2. f[n + 1] = IF u[n + 1] \in S THEN Append(f[n], u[n + 1]) ELSE f[n]
      BY <1>2, <3>1 DEF SelectStep
    <3>3. g[n + 1] = IF s[n + 1] \in Q THEN Append(g[n], s[n + 1]) ELSE g[n]
      BY <1>3, <3>1 DEF SelectStep
    <3>4. /\ u[n + 1] = s[n + 1] /\ s[n + 1] \in A
          /\ u[n + 1] \in S <=> s[n + 1] \in Q
      BY <1>1, <1>5, <3>1
    <3>5. f[n] = g[n] /\ g[n] \in Seq(A)
      BY <2>2, <3>1
    <3> QED BY <3>2, <3>3, <3>4, <3>5
  <2> HIDE DEF First
  <2> QED BY <2>1, <2>2, NatAll
<1>7. f[m] = g[m] /\ g[m] \in Seq(A)
  BY <1>1, <1>6
<1> HIDE DEF First
<1>8. Nat \subseteq Second
  <2>1. 0 \in Second
    <3>1. 0 \in 0..Len(t)
      BY <1>1
    <3>2. h[0] = <<>>
      BY <1>4, <3>1 DEF SelectStep
    <3>3. m + 0 = m /\ g[m] \o <<>> = g[m]
      BY <1>1, <1>7
    <3>4. Joined(0)
      BY <1>7, <3>2, <3>3
    <3> HIDE DEF Joined
    <3> QED BY <3>4
  <2>2. ASSUME NEW n \in Nat, n \in Second
        PROVE  n + 1 \in Second
    <3> SUFFICES ASSUME n + 1 =< Len(t)
                 PROVE  Joined(n + 1)
      <4> HIDE DEF Joined
      <4> QED OBVIOUS
    <3>1. /\ m + (n + 1) \in 0..Len(u) /\ n + 1 \in 0..Len(t) /\ n + 1 \in 1..Len(t)
          /\ n + 1 # 0 /\ (n + 1) - 1 = n /\ n =< Len(t)
          /\ m + (n + 1) # 0 /\ (m + (n + 1)) - 1 = m + n
      BY <1>1
    <3>2. f[m + (n + 1)] = IF u[m + (n + 1)] \in S
                           THEN Append(f[m + n], u[m + (n + 1)]) ELSE f[m + n]
      BY <1>2, <3>1 DEF SelectStep
    <3>3. h[n + 1] = IF t[n + 1] \in R THEN Append(h[n], t[n + 1]) ELSE h[n]
      BY <1>4, <3>1 DEF SelectStep
    <3>4. /\ u[m + (n + 1)] = t[n + 1] /\ t[n + 1] \in A
          /\ u[m + (n + 1)] \in S <=> t[n + 1] \in R
      BY <1>1, <1>5, <3>1
    <3>5. f[m + n] = g[m] \o h[n] /\ h[n] \in Seq(A)
      <4>1. Joined(n)
        <5> HIDE DEF Joined
        <5> QED BY <2>2, <3>1
      <4> QED BY <4>1
    <3>7. Append(g[m] \o h[n], t[n + 1]) = g[m] \o Append(h[n], t[n + 1])
      <4>1. g[m] \in Seq(A) /\ h[n] \in Seq(A) /\ t[n + 1] \in A
        BY <1>7, <3>4, <3>5
      <4> DEFINE v == g[m]
                 w == h[n]
                 x == t[n + 1]
      <4>2. v \in Seq(A) /\ w \in Seq(A) /\ x \in A
        BY <4>1
      <4> HIDE DEF v, w, x
      <4>3. Append(v \o w, x) = v \o Append(w, x)
        BY <1>0, <4>2
      <4> QED BY <4>3 DEF v, w, x
    <3>8. Append(h[n], t[n + 1]) \in Seq(A)
      BY <3>4, <3>5
    <3> QED BY <3>2, <3>3, <3>4, <3>5, <3>7, <3>8
  <2> HIDE DEF Second
  <2> QED BY <2>1, <2>2, NatAll
<1>9. f[Len(u)] = g[m] \o h[Len(t)] /\ h[Len(t)] \in Seq(A)
  <2>1. Joined(Len(t))
    <3> HIDE DEF Joined
    <3> QED BY <1>1, <1>8
  <2> QED BY <1>1, <2>1
<1>10. /\ Selection(s, Q) = g[m] /\ Selection(t, R) = h[Len(t)]
       /\ Selection(s \o t, S) = f[Len(u)]
  BY SelectionIsSelected DEF f, g, h, u, m
<1> QED BY <1>7, <1>9, <1>10

\* The numbers taken from 1..k are those of the set, each once.
LEMMA SelectionOfIndexes ==
  ASSUME NEW k \in Nat, NEW S
  PROVE  LET sel == Selection([i \in 1..k |-> i], S)
         IN  /\ sel \in Seq((1..k) \cap S)
             /\ Renames(sel, 1..Len(sel), (1..k) \cap S)
<1> DEFINE s == [i \in 1..k |-> i]
           f == Selected(s, S)
           Good(n) == /\ f[n] \in Seq((1..n) \cap S)
                      /\ Renames(f[n], 1..Len(f[n]), (1..n) \cap S)
           T == {n \in Nat : n =< k => Good(n)}
<1>1. s \in Seq(1..k) /\ Len(s) = k /\ \A i \in 1..k : s[i] = i
  OBVIOUS
<1>2. \A n \in 0..k : f[n] = SelectStep(s, S, f, n)
  <2> HIDE DEF s
  <2> QED BY <1>1, SelectedRecursion
<1> HIDE DEF f, s
<1>3. 0 \in T
  <2>1. f[0] = <<>>
    BY <1>2 DEF SelectStep
  <2>2. /\ <<>> \in Seq((1..0) \cap S) /\ 1..Len(<<>>) = {}
        /\ (1..0) \cap S = {}
    OBVIOUS
  <2>3. Good(0)
    BY <2>1, <2>2 DEF Renames
  <2> HIDE DEF Good
  <2> QED BY <2>3
<1>4. ASSUME NEW n \in Nat, n \in T
      PROVE  n + 1 \in T
  <2> SUFFICES ASSUME n + 1 =< k
               PROVE  Good(n + 1)
    OBVIOUS
  <2>1. /\ n + 1 \in 0..k /\ n + 1 \in 1..k /\ n + 1 # 0
        /\ (n + 1) - 1 = n /\ n =< k
    OBVIOUS
  <2>2. f[n + 1] = IF n + 1 \in S THEN Append(f[n], n + 1) ELSE f[n]
    BY <1>1, <1>2, <2>1 DEF SelectStep
  <2>3. Good(n)
    BY <1>4, <2>1
  <2>4. CASE n + 1 \notin S
    <3>1. (1..n + 1) \cap S = (1..n) \cap S
      BY <2>4
    <3> QED BY <2>2, <2>3, <2>4, <3>1
  <2>5. CASE n + 1 \in S
    <3> DEFINE g == f[n]
               h == Append(g, n + 1)
               l == Len(g)
    <3>0. g \in Seq((1..n) \cap S) /\ Renames(g, 1..l, (1..n) \cap S)
      BY <2>3
    <3>1. /\ g \in Seq((1..n) \cap S) /\ l \in Nat
          /\ \A i \in 1..l : g[i] \in (1..n) \cap S
          /\ \A i, j \in 1..l : g[i] = g[j] => i = j
          /\ \A y \in (1..n) \cap S : \E i \in 1..l : g[i] = y
      <4> HIDE DEF g
      <4> QED BY <3>0 DEF Renames
    <3> HIDE DEF g
    <3>2. g \in Seq((1..n + 1) \cap S)
      <4>1. (1..n) \cap S \subseteq (1..n + 1) \cap S
        OBVIOUS
      <4> QED BY <3>1, <4>1
    <3>3. n + 1 \in (1..n + 1) \cap S
      BY <2>5
    <3>4. /\ h \in Seq((1..n + 1) \cap S) /\ Len(h) = l + 1
          /\ \A i \in 1..l : h[i] = g[i]
          /\ h[l + 1] = n + 1
      BY <3>2, <3>3
    <3>5. f[n + 1] = h
      BY <2>2, <2>5 DEF g
    <3> HIDE DEF h, l
    <3>6. \A i \in 1..l + 1 : i \in 1..l \/ i = l + 1
      BY <3>1
    <3>7. \A i \in 1..l + 1 : h[i] \in (1..n + 1) \cap S
      BY <3>1, <3>3, <3>4, <3>6
    <3>8. \A i, j \in 1..l + 1 : h[i] = h[j] => i = j
      BY <3>1, <3>4, <3>6
    <3>9. \A y \in (1..n + 1) \cap S : \E i \in 1..l + 1 : h[i] = y
      <4> TAKE y \in (1..n + 1) \cap S
      <4>1. CASE y = n + 1
        BY <3>1, <3>4, <4>1
      <4>2. CASE y # n + 1
        <5>1. y \in (1..n) \cap S
          BY <4>2
        <5>2. PICK i \in 1..l : g[i] = y
          BY <3>1, <5>1
        <5>3. i \in 1..l + 1
          BY <3>1
        <5> QED BY <3>4, <5>2, <5>3
      <4> QED BY <4>1, <4>2
    <3> QED BY <3>4, <3>5, <3>7, <3>8, <3>9 DEF Renames
  <2> QED BY <2>4, <2>5
<1>5. Good(k)
  <2>1. Nat \subseteq T
    <3> HIDE DEF T
    <3> QED BY <1>3, <1>4, NatAll
  <2> HIDE DEF Good
  <2> QED BY <2>1
<1>6. Selection(s, S) = f[k]
  BY <1>1, SelectionIsSelected DEF f
<1> QED BY <1>5, <1>6 DEF s
=============================================================================
