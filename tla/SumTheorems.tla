----------------------------- MODULE SumTheorems -----------------------------
(***************************************************************************)
(* What SumFunctionOnSet of the community module Functions computes, for   *)
(* every finite set: the facts the conservation proofs of ProvingVault,    *)
(* FundDistributor and MerkleGov rest on.                                  *)
(*                                                                         *)
(* The library's induction theorems take a predicate as a parameter.  The  *)
(* inductions below are over a set of counterexamples instead, whose       *)
(* minimal element WFMin gives.                                            *)
(***************************************************************************)
EXTENDS Functions, FiniteSetTheorems, TLAPS

\* The element a sum takes first, and one step of the recursion behind
\* SumFunctionOnSet; Partial is the function that recursion defines.
Pick(s) == CHOOSE x \in s : TRUE
SumStep(f, g, s) == IF s = {} THEN 0 ELSE f[Pick(s)] + g[s \ {Pick(s)}]
Partial(f, S) == CHOOSE g : g = [s \in SUBSET S |-> SumStep(f, g, s)]

-----------------------------------------------------------------------------
(* Induction.                                                              *)

\* A set of numbers that holds 0 and every successor holds them all.
LEMMA NumbersByInduction ==
    ASSUME NEW P \in SUBSET Nat, 0 \in P, \A n \in P : n + 1 \in P
    PROVE  P = Nat
<1> DEFINE T == {1..n : n \in Nat \ P}
<1>1. SUFFICES ASSUME Nat \ P # {} PROVE FALSE
  OBVIOUS
<1>2. T \subseteq FiniteSubsetsOf(Nat) /\ T # {}
  <2>1. ASSUME NEW n \in Nat PROVE 1..n \in FiniteSubsetsOf(Nat)
    <3>1. IsFiniteSet(1..n)
      BY FS_Interval
    <3> QED
      BY <3>1 DEF FiniteSubsetsOf
  <2> QED
    BY <1>1, <2>1
<1> HIDE DEF T
<1>3. PICK t \in T : \A u \in T : <<u, t>> \notin StrictSubsetOrdering(Nat)
  BY <1>2, WFMin, FS_StrictSubsetOrderingWellFounded
<1>4. PICK n \in Nat \ P : t = 1..n
  BY DEF T
<1>5. n - 1 \in Nat \ P
  OBVIOUS
<1>6. 1..(n - 1) \in T
  BY <1>5 DEF T
<1>7. <<1..(n - 1), t>> \in StrictSubsetOrdering(Nat)
  <2>1. 1..(n - 1) \subseteq 1..n /\ n \in 1..n /\ n \notin 1..(n - 1)
    BY <1>5
  <2>2. 1..(n - 1) \in SUBSET Nat /\ 1..n \in SUBSET Nat
    BY <1>5
  <2> QED
    BY <1>4, <2>1, <2>2 DEF StrictSubsetOrdering
<1> QED
  BY <1>3, <1>6, <1>7

\* A set of subsets of a finite set that holds the empty one, and with every
\* subset each larger one by an element, holds them all.
LEMMA SubsetsByInduction ==
    ASSUME NEW S, IsFiniteSet(S), NEW P \in SUBSET (SUBSET S), {} \in P,
           \A s \in P : \A x \in S \ s : s \cup {x} \in P
    PROVE  P = SUBSET S
<1> DEFINE T == (SUBSET S) \ P
<1>1. SUFFICES ASSUME T # {} PROVE FALSE
  OBVIOUS
<1>2. T \subseteq FiniteSubsetsOf(S)
  BY FS_FiniteSubsetsOfFinite
<1> HIDE DEF T
<1>3. PICK t \in T : \A u \in T : <<u, t>> \notin StrictSubsetOrdering(S)
  BY <1>1, <1>2, WFMin, FS_StrictSubsetOrderingWellFounded
<1>4. t \in SUBSET S /\ t \notin P /\ t # {}
  BY DEF T
<1>5. PICK x \in t : TRUE
  BY <1>4
<1>6. t \ {x} \in T
  <2>1. x \in S \ (t \ {x}) /\ t = (t \ {x}) \cup {x}
    BY <1>4
  <2> QED
    BY <1>4, <2>1 DEF T
<1>7. <<t \ {x}, t>> \in StrictSubsetOrdering(S)
  BY <1>4 DEF StrictSubsetOrdering
<1> QED
  BY <1>3, <1>6, <1>7

-----------------------------------------------------------------------------
(* The recursion is well defined, and its order does not matter.           *)

LEMMA SumIsPartial ==
    ASSUME NEW f, NEW S
    PROVE  SumFunctionOnSet(f, S) = Partial(f, S)[S]
BY Zenon DEF SumFunctionOnSet, FoldFunctionOnSet, MapThenFoldSet, Partial,
             SumStep, Pick

\* Some function satisfies the recursion on every subset of a finite set.
LEMMA PartialRecursion ==
    ASSUME NEW f, NEW S, IsFiniteSet(S)
    PROVE  \A s \in SUBSET S : Partial(f, S)[s] = SumStep(f, Partial(f, S), s)
<1> DEFINE Upto(n, h) == \A s \in SUBSET S :
                            Cardinality(s) <= n => h[s] = SumStep(f, h, s)
           P == {n \in Nat : \E h : Upto(n, h)}
<1>1. \A s \in SUBSET S : IsFiniteSet(s) /\ Cardinality(s) \in Nat
  BY FS_Subset, FS_CardinalityType
<1>2. \A s \in SUBSET S : s # {} =>
         /\ Pick(s) \in s /\ s \ {Pick(s)} \in SUBSET S
         /\ Cardinality(s) # 0
         /\ Cardinality(s \ {Pick(s)}) = Cardinality(s) - 1
  BY <1>1, FS_RemoveElement, FS_EmptySet DEF Pick
<1>3. Cardinality({}) = 0 /\ {} \in SUBSET S
  BY FS_EmptySet
<1>4. 0 \in P
  <2> DEFINE h == [s \in SUBSET S |-> 0]
  <2>1. ASSUME NEW s \in SUBSET S, Cardinality(s) <= 0
        PROVE  h[s] = SumStep(f, h, s)
    <3>1. Cardinality(s) = 0
      BY <1>1, <2>1
    <3>2. s = {}
      BY <1>2, <3>1
    <3> QED
      BY <3>2 DEF SumStep
  <2> QED
    BY <2>1
<1>5. ASSUME NEW n \in P PROVE n + 1 \in P
  <2>1. PICK h : Upto(n, h)
    OBVIOUS
  <2> DEFINE k == [s \in SUBSET S |->
                      IF Cardinality(s) <= n THEN h[s] ELSE SumStep(f, h, s)]
  <2>2. ASSUME NEW s \in SUBSET S, Cardinality(s) <= n + 1
        PROVE  k[s] = SumStep(f, k, s)
    <3>1. k[s] = SumStep(f, h, s)
      BY <2>1
    <3>2. CASE s = {}
      BY <3>1, <3>2 DEF SumStep
    <3>3. CASE s # {}
      <4>1. s \ {Pick(s)} \in SUBSET S /\ Cardinality(s \ {Pick(s)}) <= n
        BY <1>1, <1>2, <2>2, <3>3
      <4>2. k[s \ {Pick(s)}] = h[s \ {Pick(s)}]
        BY <4>1
      <4> HIDE DEF k
      <4> QED
        BY <3>1, <3>3, <4>2 DEF SumStep
    <3> QED
      BY <3>2, <3>3
  <2> HIDE DEF k
  <2>3. Upto(n + 1, k)
    BY <2>2
  <2> QED
    BY <2>3
<1>6. P = Nat
  <2> HIDE DEF P
  <2>1. P \in SUBSET Nat
    BY DEF P
  <2> QED
    BY <1>4, <1>5, <2>1, NumbersByInduction
<1>7. PICK h : Upto(Cardinality(S), h)
  BY <1>1, <1>6
<1> DEFINE k == [s \in SUBSET S |-> h[s]]
<1>8. ASSUME NEW s \in SUBSET S PROVE k[s] = SumStep(f, k, s)
  <2>1. h[s] = SumStep(f, h, s)
    BY <1>1, <1>7, FS_Subset
  <2> QED
    BY <1>2, <2>1 DEF SumStep
<1>9. k = [s \in SUBSET S |-> SumStep(f, k, s)]
  BY <1>8
<1> HIDE DEF k
<1>10. Partial(f, S) = [s \in SUBSET S |-> SumStep(f, Partial(f, S), s)]
  BY <1>9, Zenon DEF Partial
<1> QED
  BY <1>10

\* A larger set's recursion agrees on the subsets of a smaller one.
LEMMA PartialAgrees ==
    ASSUME NEW f, NEW S, IsFiniteSet(S), NEW T \in SUBSET S
    PROVE  SumFunctionOnSet(f, T) = Partial(f, S)[T]
<1> DEFINE P == {t \in SUBSET T : Partial(f, T)[t] = Partial(f, S)[t]}
<1>1. IsFiniteSet(T)
  BY FS_Subset
<1>2. /\ \A t \in SUBSET T : Partial(f, T)[t] = SumStep(f, Partial(f, T), t)
      /\ \A t \in SUBSET T : Partial(f, S)[t] = SumStep(f, Partial(f, S), t)
  <2>1. \A t \in SUBSET T : Partial(f, T)[t] = SumStep(f, Partial(f, T), t)
    BY <1>1, PartialRecursion
  <2>2. \A t \in SUBSET S : Partial(f, S)[t] = SumStep(f, Partial(f, S), t)
    BY PartialRecursion
  <2> QED
    BY <2>1, <2>2
<1> DEFINE D == (SUBSET T) \ P
<1>3. SUFFICES ASSUME D # {} PROVE FALSE
  BY SumIsPartial
<1>4. D \subseteq FiniteSubsetsOf(T)
  BY <1>1, FS_FiniteSubsetsOfFinite
<1>5. PICK t \in D : \A u \in D : <<u, t>> \notin StrictSubsetOrdering(T)
  <2> HIDE DEF D
  <2> QED
    BY <1>3, <1>4, WFMin, FS_StrictSubsetOrderingWellFounded
<1>6. t \in SUBSET T /\ Partial(f, T)[t] # Partial(f, S)[t]
  OBVIOUS
<1>7. t # {}
  BY <1>2, <1>6 DEF SumStep
<1>8. Pick(t) \in t
  BY <1>7 DEF Pick
<1>9. <<t \ {Pick(t)}, t>> \in StrictSubsetOrdering(T)
  BY <1>6, <1>8 DEF StrictSubsetOrdering
<1>10. Partial(f, T)[t \ {Pick(t)}] = Partial(f, S)[t \ {Pick(t)}]
  BY <1>5, <1>6, <1>9
<1> QED
  BY <1>2, <1>6, <1>7, <1>10 DEF SumStep

\* The sum over a subset, by the recursion of the whole set.
LEMMA PartialStep ==
    ASSUME NEW f, NEW S, IsFiniteSet(S), NEW T \in SUBSET S
    PROVE  SumFunctionOnSet(f, T) =
              IF T = {} THEN 0
              ELSE f[Pick(T)] + SumFunctionOnSet(f, T \ {Pick(T)})
<1>1. Partial(f, S)[T] = SumStep(f, Partial(f, S), T)
  BY PartialRecursion
<1>2. /\ SumFunctionOnSet(f, T) = Partial(f, S)[T]
      /\ SumFunctionOnSet(f, T \ {Pick(T)}) = Partial(f, S)[T \ {Pick(T)}]
  BY PartialAgrees
<1> QED
  BY <1>1, <1>2 DEF SumStep

\* The empty sum is zero.
LEMMA SumOfNone == ASSUME NEW f PROVE SumFunctionOnSet(f, {}) = 0
BY FS_EmptySet, PartialStep

\* A sum of integers is an integer.
LEMMA SumIsInt ==
    ASSUME NEW f, NEW S, IsFiniteSet(S), \A x \in S : f[x] \in Int
    PROVE  SumFunctionOnSet(f, S) \in Int
<1> DEFINE P == {s \in SUBSET S : SumFunctionOnSet(f, s) \in Int}
           D == (SUBSET S) \ P
<1>1. SUFFICES ASSUME D # {} PROVE FALSE
  OBVIOUS
<1>2. D \subseteq FiniteSubsetsOf(S)
  BY FS_FiniteSubsetsOfFinite
<1>3. PICK t \in D : \A u \in D : <<u, t>> \notin StrictSubsetOrdering(S)
  <2> HIDE DEF D
  <2> QED
    BY <1>1, <1>2, WFMin, FS_StrictSubsetOrderingWellFounded
<1>4. t \in SUBSET S /\ SumFunctionOnSet(f, t) \notin Int
  OBVIOUS
<1>5. SumFunctionOnSet(f, t) =
         IF t = {} THEN 0 ELSE f[Pick(t)] + SumFunctionOnSet(f, t \ {Pick(t)})
  BY <1>4, PartialStep
<1>6. t # {} /\ Pick(t) \in t
  BY <1>4, <1>5 DEF Pick
<1>7. <<t \ {Pick(t)}, t>> \in StrictSubsetOrdering(S)
  BY <1>4, <1>6 DEF StrictSubsetOrdering
<1>8. SumFunctionOnSet(f, t \ {Pick(t)}) \in Int
  BY <1>3, <1>4, <1>7
<1> QED
  BY <1>4, <1>5, <1>6, <1>8

\* A sum is the value at any one element plus the sum over the others: the
\* order in which the recursion takes them does not matter.
LEMMA SumWithout ==
    ASSUME NEW f, NEW S, IsFiniteSet(S), \A x \in S : f[x] \in Int,
           NEW y \in S
    PROVE  SumFunctionOnSet(f, S) = f[y] + SumFunctionOnSet(f, S \ {y})
<1> DEFINE P == {s \in SUBSET S : \A x \in s :
                    SumFunctionOnSet(f, s) =
                       f[x] + SumFunctionOnSet(f, s \ {x})}
           D == (SUBSET S) \ P
<1>1. SUFFICES ASSUME D # {} PROVE FALSE
  OBVIOUS
<1>2. D \subseteq FiniteSubsetsOf(S)
  BY FS_FiniteSubsetsOfFinite
<1>3. PICK t \in D : \A u \in D : <<u, t>> \notin StrictSubsetOrdering(S)
  <2> HIDE DEF D
  <2> QED
    BY <1>1, <1>2, WFMin, FS_StrictSubsetOrderingWellFounded
<1>4. PICK x \in t : SumFunctionOnSet(f, t)
                        # f[x] + SumFunctionOnSet(f, t \ {x})
  OBVIOUS
<1> DEFINE p == Pick(t)
<1>5. p \in t /\ t \in SUBSET S
  BY <1>4 DEF Pick
<1>6. SumFunctionOnSet(f, t) = f[p] + SumFunctionOnSet(f, t \ {p})
  BY <1>4, <1>5, PartialStep
<1>7. x # p
  BY <1>4, <1>6
<1>8. t \ {p} \in P /\ t \ {x} \in P
  <2>1. ASSUME NEW z \in t PROVE t \ {z} \in P
    <3>1. <<t \ {z}, t>> \in StrictSubsetOrdering(S) /\ t \ {z} \in SUBSET S
      BY <1>5 DEF StrictSubsetOrdering
    <3> HIDE DEF P
    <3> QED
      BY <1>3, <3>1
  <2> QED
    BY <1>4, <1>5, <2>1
<1>9. /\ SumFunctionOnSet(f, t \ {p}) =
            f[x] + SumFunctionOnSet(f, (t \ {p}) \ {x})
      /\ SumFunctionOnSet(f, t \ {x}) =
            f[p] + SumFunctionOnSet(f, (t \ {x}) \ {p})
  BY <1>5, <1>7, <1>8
<1>10. (t \ {p}) \ {x} = (t \ {x}) \ {p}
  OBVIOUS
<1>11. /\ f[x] \in Int /\ f[p] \in Int
       /\ SumFunctionOnSet(f, (t \ {x}) \ {p}) \in Int
  <2>1. IsFiniteSet((t \ {x}) \ {p}) /\ \A z \in (t \ {x}) \ {p} : f[z] \in Int
    BY <1>5, FS_Subset
  <2> QED
    BY <1>5, <2>1, SumIsInt
<1> HIDE DEF P, D, p
<1>12. SumFunctionOnSet(f, t) = f[p] + (f[x] + SumFunctionOnSet(f, (t \ {x}) \ {p}))
  BY <1>6, <1>9, <1>10
<1>13. f[x] + SumFunctionOnSet(f, t \ {x}) =
          f[x] + (f[p] + SumFunctionOnSet(f, (t \ {x}) \ {p}))
  BY <1>9
<1> QED
  BY <1>4, <1>11, <1>12, <1>13

\* Adding an element to a set adds its value to the sum.
LEMMA SumWith ==
    ASSUME NEW f, NEW S, IsFiniteSet(S), NEW y, y \notin S,
           \A x \in S \cup {y} : f[x] \in Int
    PROVE  SumFunctionOnSet(f, S \cup {y}) = f[y] + SumFunctionOnSet(f, S)
<1>1. IsFiniteSet(S \cup {y})
  BY FS_AddElement
<1>2. (S \cup {y}) \ {y} = S /\ y \in S \cup {y}
  OBVIOUS
<1> QED
  BY <1>1, <1>2, SumWithout

-----------------------------------------------------------------------------
(* Comparing sums.                                                         *)

\* A bound that holds element by element, each side scaled by a constant,
\* holds of the sums.
LEMMA SumScaledBound ==
    ASSUME NEW S, IsFiniteSet(S), NEW f, NEW g, NEW a \in Int, NEW b \in Int,
           \A x \in S : f[x] \in Int /\ g[x] \in Int /\ a * f[x] <= b * g[x]
    PROVE  a * SumFunctionOnSet(f, S) <= b * SumFunctionOnSet(g, S)
<1> DEFINE P == {s \in SUBSET S : a * SumFunctionOnSet(f, s)
                                     <= b * SumFunctionOnSet(g, s)}
<1>1. {} \in P
  BY SumOfNone
<1>2. ASSUME NEW s \in P, NEW x \in S \ s PROVE s \cup {x} \in P
  <2> DEFINE F == SumFunctionOnSet(f, s)
             G == SumFunctionOnSet(g, s)
  <2>1. IsFiniteSet(s)
    BY FS_Subset
  <2>2. F \in Int /\ G \in Int /\ a * F <= b * G
    BY <2>1, SumIsInt
  <2>3. /\ SumFunctionOnSet(f, s \cup {x}) = f[x] + F
        /\ SumFunctionOnSet(g, s \cup {x}) = g[x] + G
    BY <2>1, SumWith
  <2> HIDE DEF F, G
  <2>4. a * f[x] <= b * g[x] /\ f[x] \in Int /\ g[x] \in Int
    OBVIOUS
  <2>5. a * (f[x] + F) <= b * (g[x] + G)
    BY <2>2, <2>4
  <2> QED
    BY <2>3, <2>5
<1>3. P = SUBSET S
  <2> HIDE DEF P
  <2>1. P \in SUBSET (SUBSET S)
    BY DEF P
  <2> QED
    BY <1>1, <1>2, <2>1, SubsetsByInduction
<1> QED
  BY <1>3

\* Term by term no larger, no larger in sum.
LEMMA SumMonotone ==
    ASSUME NEW S, IsFiniteSet(S), NEW f, NEW g,
           \A x \in S : f[x] \in Int /\ g[x] \in Int /\ f[x] <= g[x]
    PROVE  SumFunctionOnSet(f, S) <= SumFunctionOnSet(g, S)
<1>1. \A x \in S : 1 * f[x] <= 1 * g[x]
  OBVIOUS
<1>2. 1 * SumFunctionOnSet(f, S) <= 1 * SumFunctionOnSet(g, S)
  BY <1>1, SumScaledBound
<1> QED
  BY <1>2, SumIsInt

\* Only the values on the set count.
LEMMA SumSame ==
    ASSUME NEW S, IsFiniteSet(S), NEW f, NEW g,
           \A x \in S : f[x] \in Int /\ f[x] = g[x]
    PROVE  SumFunctionOnSet(f, S) = SumFunctionOnSet(g, S)
<1>1. SumFunctionOnSet(f, S) <= SumFunctionOnSet(g, S)
  BY SumMonotone
<1>2. SumFunctionOnSet(g, S) <= SumFunctionOnSet(f, S)
  BY SumMonotone
<1> QED
  BY <1>1, <1>2, SumIsInt

\* Changing one value changes the sum by the difference.
LEMMA SumChange ==
    ASSUME NEW S, IsFiniteSet(S), NEW f, NEW g, NEW y \in S,
           \A x \in S : f[x] \in Int /\ g[x] \in Int,
           \A x \in S \ {y} : g[x] = f[x]
    PROVE  SumFunctionOnSet(g, S) = SumFunctionOnSet(f, S) + g[y] - f[y]
<1>1. IsFiniteSet(S \ {y})
  BY FS_RemoveElement
<1>2. SumFunctionOnSet(f, S \ {y}) = SumFunctionOnSet(g, S \ {y})
  BY <1>1, SumSame
<1>3. /\ SumFunctionOnSet(f, S) = f[y] + SumFunctionOnSet(f, S \ {y})
      /\ SumFunctionOnSet(g, S) = g[y] + SumFunctionOnSet(g, S \ {y})
  BY SumWithout
<1>4. SumFunctionOnSet(f, S \ {y}) \in Int
  BY <1>1, SumIsInt
<1> QED
  BY <1>2, <1>3, <1>4

\* A sum of naturals is one, and at least each of its terms.
LEMMA SumOfNats ==
    ASSUME NEW S, IsFiniteSet(S), NEW f, \A x \in S : f[x] \in Nat
    PROVE  /\ SumFunctionOnSet(f, S) \in Nat
           /\ \A y \in S : f[y] <= SumFunctionOnSet(f, S)
<1>1. ASSUME NEW T \in SUBSET S PROVE SumFunctionOnSet(f, T) \in Nat
  <2> DEFINE z == [x \in T |-> 0]
  <2>1. IsFiniteSet(T)
    BY FS_Subset
  <2>2. \A x \in T : z[x] \in Int /\ f[x] \in Int /\ 0 * f[x] <= 1 * z[x]
                     /\ z[x] <= f[x] /\ 0 * z[x] <= 0 * f[x]
                     /\ 1 * z[x] <= 0 * f[x]
    OBVIOUS
  <2> HIDE DEF z
  <2>3. /\ SumFunctionOnSet(z, T) <= SumFunctionOnSet(f, T)
        /\ SumFunctionOnSet(z, T) \in Int /\ SumFunctionOnSet(f, T) \in Int
    BY <2>1, <2>2, SumMonotone, SumIsInt
  <2>4. 0 * SumFunctionOnSet(f, T) <= 1 * SumFunctionOnSet(z, T)
    BY <2>1, <2>2, SumScaledBound
  <2> QED
    BY <2>3, <2>4
<1>2. ASSUME NEW y \in S PROVE f[y] <= SumFunctionOnSet(f, S)
  <2>1. SumFunctionOnSet(f, S) = f[y] + SumFunctionOnSet(f, S \ {y})
    BY SumWithout
  <2> QED
    BY <1>1, <2>1
<1> QED
  BY <1>1, <1>2

\* A sum of zeros is zero.
LEMMA SumOfZeros ==
    ASSUME NEW S, IsFiniteSet(S), NEW f, \A x \in S : f[x] = 0
    PROVE  SumFunctionOnSet(f, S) = 0
<1>1. \A x \in S : f[x] \in Int /\ 1 * f[x] <= 0 * f[x] /\ f[x] \in Nat
  OBVIOUS
<1>2. 1 * SumFunctionOnSet(f, S) <= 0 * SumFunctionOnSet(f, S)
  BY <1>1, SumScaledBound
<1> QED
  BY <1>1, <1>2, SumOfNats

\* The sum over two sets without a common element is the sum of their sums.
LEMMA SumDisjoint ==
    ASSUME NEW S, IsFiniteSet(S), NEW T, IsFiniteSet(T), S \cap T = {},
           NEW f, \A x \in S \cup T : f[x] \in Int
    PROVE  SumFunctionOnSet(f, S \cup T)
              = SumFunctionOnSet(f, S) + SumFunctionOnSet(f, T)
<1> DEFINE P == {s \in SUBSET S : SumFunctionOnSet(f, s \cup T)
                    = SumFunctionOnSet(f, s) + SumFunctionOnSet(f, T)}
<1>1. {} \in P
  <2>1. SumFunctionOnSet(f, T) \in Int /\ SumFunctionOnSet(f, {}) = 0
    BY SumIsInt, SumOfNone
  <2>2. {} \cup T = T
    OBVIOUS
  <2> QED
    BY <2>1, <2>2
<1>2. ASSUME NEW s \in P, NEW x \in S \ s PROVE s \cup {x} \in P
  <2>1. IsFiniteSet(s) /\ IsFiniteSet(s \cup T)
    BY FS_Subset, FS_Union
  <2>2. /\ x \notin s \cup T /\ (s \cup {x}) \cup T = (s \cup T) \cup {x}
        /\ \A y \in (s \cup T) \cup {x} : f[y] \in Int
    OBVIOUS
  <2>3. SumFunctionOnSet(f, s \cup {x}) = f[x] + SumFunctionOnSet(f, s)
    BY <2>1, <2>2, SumWith
  <2>4. SumFunctionOnSet(f, (s \cup T) \cup {x}) = f[x] + SumFunctionOnSet(f, s \cup T)
    BY <2>1, <2>2, SumWith
  <2>5. /\ SumFunctionOnSet(f, s) \in Int /\ SumFunctionOnSet(f, T) \in Int
        /\ f[x] \in Int
    BY <2>1, SumIsInt
  <2>6. SumFunctionOnSet(f, s \cup T)
           = SumFunctionOnSet(f, s) + SumFunctionOnSet(f, T)
    OBVIOUS
  <2>7. SumFunctionOnSet(f, (s \cup {x}) \cup T)
           = SumFunctionOnSet(f, s \cup {x}) + SumFunctionOnSet(f, T)
    <3>1. f[x] + SumFunctionOnSet(f, s \cup T)
             = (f[x] + SumFunctionOnSet(f, s)) + SumFunctionOnSet(f, T)
      BY <2>5, <2>6
    <3> QED
      BY <2>2, <2>3, <2>4, <3>1
  <2> QED
    BY <2>7
<1>3. P = SUBSET S
  <2> HIDE DEF P
  <2>1. P \in SUBSET (SUBSET S)
    BY DEF P
  <2> QED
    BY <1>1, <1>2, <2>1, SubsetsByInduction
<1> QED
  BY <1>3

\* A part sums to no more than the whole when nothing is below zero.
LEMMA SumOfPart ==
    ASSUME NEW T, IsFiniteSet(T), NEW S \in SUBSET T, NEW f,
           \A x \in T : f[x] \in Nat
    PROVE  SumFunctionOnSet(f, S) <= SumFunctionOnSet(f, T)
<1>1. IsFiniteSet(S) /\ IsFiniteSet(T \ S)
  BY FS_Subset
<1>2. S \cup (T \ S) = T /\ S \cap (T \ S) = {}
  OBVIOUS
<1>3. \A x \in S \cup (T \ S) : f[x] \in Int
  OBVIOUS
<1>4. SumFunctionOnSet(f, S \cup (T \ S))
         = SumFunctionOnSet(f, S) + SumFunctionOnSet(f, T \ S)
  BY <1>1, <1>2, <1>3, SumDisjoint
<1>5. SumFunctionOnSet(f, S) \in Nat /\ SumFunctionOnSet(f, T \ S) \in Nat
  BY <1>1, SumOfNats
<1>6. SumFunctionOnSet(f, T)
         = SumFunctionOnSet(f, S) + SumFunctionOnSet(f, T \ S)
  BY <1>2, <1>4
<1> QED
  BY <1>5, <1>6

\* Values that have each a term of their own in another sum of numbers sum to
\* no more than it does.
LEMMA SumInjected ==
    ASSUME NEW S, IsFiniteSet(S), NEW T, IsFiniteSet(T), NEW f, NEW g, NEW h,
           \A x \in S : h[x] \in T /\ f[x] = g[h[x]],
           \A x, y \in S : h[x] = h[y] => x = y,
           \A t \in T : g[t] \in Nat
    PROVE  SumFunctionOnSet(f, S) <= SumFunctionOnSet(g, T)
<1> DEFINE Of(s) == {t \in T : \E x \in s : t = h[x]}
           P == {s \in SUBSET S : SumFunctionOnSet(f, s) = SumFunctionOnSet(g, Of(s))}
<1>1. {} \in P
  <2>1. Of({}) = {}
    OBVIOUS
  <2> QED
    BY <2>1, SumOfNone
<1>2. ASSUME NEW s \in P, NEW x \in S \ s PROVE s \cup {x} \in P
  <2>1. Of(s \cup {x}) = Of(s) \cup {h[x]} /\ h[x] \notin Of(s)
    OBVIOUS
  <2>2. Of(s) \in SUBSET T /\ h[x] \in T
    OBVIOUS
  <2>3. IsFiniteSet(s) /\ IsFiniteSet(Of(s))
    BY <2>2, FS_Subset
  <2>4. SumFunctionOnSet(f, s) = SumFunctionOnSet(g, Of(s))
    OBVIOUS
  <2>5. /\ \A y \in s \cup {x} : f[y] \in Int
        /\ \A t \in T : g[t] \in Int
        /\ f[x] = g[h[x]]
    OBVIOUS
  <2> HIDE DEF Of
  <2>6. SumFunctionOnSet(f, s \cup {x}) = f[x] + SumFunctionOnSet(f, s)
    BY <2>3, <2>5, SumWith
  <2>7. SumFunctionOnSet(g, Of(s) \cup {h[x]}) = g[h[x]] + SumFunctionOnSet(g, Of(s))
    <3>1. \A t \in Of(s) \cup {h[x]} : g[t] \in Int
      BY <2>2, <2>5
    <3> QED
      BY <2>1, <2>3, <3>1, SumWith
  <2> QED
    BY <2>1, <2>4, <2>5, <2>6, <2>7
<1>3. P = SUBSET S
  <2> HIDE DEF P
  <2>1. P \in SUBSET (SUBSET S)
    BY DEF P
  <2> QED
    BY <1>1, <1>2, <2>1, SubsetsByInduction
<1>4. SumFunctionOnSet(f, S) = SumFunctionOnSet(g, Of(S))
  <2>1. S \in P
    BY <1>3
  <2> QED
    BY <2>1
<1>5. SumFunctionOnSet(g, Of(S)) <= SumFunctionOnSet(g, T)
  <2>1. Of(S) \in SUBSET T
    OBVIOUS
  <2> HIDE DEF Of
  <2> QED
    BY <2>1, SumOfPart
<1> QED
  BY <1>4, <1>5
=============================================================================
