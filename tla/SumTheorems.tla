---------------------------- MODULE SumTheorems ----------------------------
(***************************************************************************)
(* What the proofs need of sums: SumFunctionOnSet of the community modules *)
(* is a fold, a recursive function on the subsets of a set that takes the  *)
(* elements in the order of CHOOSE.  It has a value for every finite set,  *)
(* and the order does not matter.  The induction is by the number of       *)
(* elements, in the form of sets.                                          *)
(***************************************************************************)
EXTENDS Integers, Functions, FiniteSets, FiniteSetTheorems, NaturalsInduction,
        WellFoundedInduction, TLAPS

(***************************************************************************)
(* Induction, in the form of sets.                                         *)
(***************************************************************************)

\* A set of natural numbers has a smallest one.
LEMMA SmallestOf ==
  ASSUME NEW T \in SUBSET Nat, T # {}
  PROVE  \E x \in T : \A y \in T : x <= y
PROOF
<1> DEFINE R == {ss \in Nat \X Nat : ss[1] < ss[2]}
<1>1. OpToRel(<, Nat) = R
  BY DEF OpToRel
<1>2. IsWellFoundedOn(R, Nat)
  BY <1>1, NatLessThanWellFounded
<1>3. PICK x \in T : \A y \in T : ~ (<<y, x>> \in R)
  <2> HIDE DEF R
  <2> QED
    BY <1>2, WFMin
<1>4. ASSUME NEW y \in T PROVE x <= y
  <2>1. <<y, x>> \in Nat \X Nat /\ <<y, x>> \notin R
    BY <1>3
  <2>2. ~ (<<y, x>>[1] < <<y, x>>[2])
    BY <2>1
  <2> QED
    BY <2>2
<1> QED
  BY <1>4

\* A set with 0 that has the successor of each of its numbers has all numbers.
LEMMA InductionOnSet ==
  ASSUME NEW S, 0 \in S, \A n \in Nat : n \in S => n + 1 \in S
  PROVE  Nat \subseteq S
PROOF
<1> SUFFICES ASSUME Nat \ S # {} PROVE FALSE
  OBVIOUS
<1>1. PICK x \in Nat \ S : \A y \in Nat \ S : x <= y
  BY SmallestOf
<1>2. x # 0 /\ x - 1 \in Nat
  BY <1>1
<1>3. x - 1 \in S
  BY <1>1, <1>2
<1> QED
  BY <1>1, <1>2, <1>3

\* A family of finite sets that has the empty set, and every finite subset of
\* U all of whose subsets with one element less it has, has them all.
LEMMA FiniteInduction ==
  ASSUME NEW U, NEW F, {} \in F,
         \A T \in SUBSET U :
           IsFiniteSet(T) /\ T # {} /\ (\A x \in T : T \ {x} \in F) => T \in F
  PROVE  \A T \in SUBSET U : IsFiniteSet(T) => T \in F
PROOF
<1> DEFINE I == {n \in Nat : \A T \in SUBSET U :
                               IsFiniteSet(T) /\ Cardinality(T) = n => T \in F}
<1>1. 0 \in I
  BY FS_EmptySet
<1>2. ASSUME NEW n \in Nat, n \in I PROVE n + 1 \in I
  <2> SUFFICES ASSUME NEW T \in SUBSET U, IsFiniteSet(T), Cardinality(T) = n + 1
               PROVE  T \in F
    OBVIOUS
  <2>1. T # {}
    BY FS_EmptySet
  <2>2. ASSUME NEW x \in T PROVE T \ {x} \in F
    <3>1. /\ IsFiniteSet(T \ {x})
          /\ Cardinality(T \ {x}) = IF x \in T THEN Cardinality(T) - 1 ELSE Cardinality(T)
      BY FS_RemoveElement, Zenon
    <3>2. Cardinality(T \ {x}) = n
      BY <3>1
    <3> QED
      BY <1>2, <3>1, <3>2
  <2> QED
    BY <2>1, <2>2
<1>3. Nat \subseteq I
  <2> HIDE DEF I
  <2> QED
    BY <1>1, <1>2, InductionOnSet
<1> QED
  BY <1>3, FS_CardinalityType

-----------------------------------------------------------------------------
(***************************************************************************)
(* The recursion.                                                          *)
(***************************************************************************)

\* The element that the fold takes first, and the value of a set by those of
\* the smaller ones.
pick(T) == CHOOSE x \in T : TRUE

sumStep(f, sum, T) == IF T = {} THEN 0 ELSE f[pick(T)] + sum[T \ {pick(T)}]

isSum(f, sum, S) == sum = [T \in SUBSET S |-> sumStep(f, sum, T)]

\* A finite set has such a function.
LEMMA SumExists ==
  ASSUME NEW f, NEW S, IsFiniteSet(S)
  PROVE  \E sum : isSum(f, sum, S)
PROOF
<1> DEFINE D(n) == {T \in SUBSET S : Cardinality(T) <= n}
           good(k, n) == k = [T \in D(n) |-> sumStep(f, k, T)]
           I == {n \in Nat : \E k : good(k, n)}
<1>0. \A T \in SUBSET S : IsFiniteSet(T) /\ Cardinality(T) \in Nat
  BY FS_Subset, FS_CardinalityType
<1>1. 0 \in I
  <2> DEFINE k == [T \in D(0) |-> 0]
  <2>1. ASSUME NEW T \in D(0) PROVE T = {}
    <3>1. IsFiniteSet(T) /\ Cardinality(T) = 0
      BY <1>0
    <3> QED
      BY <3>1, FS_EmptySet
  <2>2. \A T \in D(0) : sumStep(f, k, T) = 0
    BY <2>1 DEF sumStep
  <2>3. good(k, 0)
    <3> HIDE DEF D
    <3> QED
      BY <2>2
  <2>4. \E l : good(l, 0)
    <3> HIDE DEF good, k
    <3> QED
      BY <2>3
  <2> QED
    BY <2>4
<1>2. ASSUME NEW n \in Nat, n \in I PROVE n + 1 \in I
  <2>1. PICK k : good(k, n)
    BY <1>2
  <2> DEFINE l == [T \in D(n + 1) |-> IF T \in D(n) THEN k[T] ELSE sumStep(f, k, T)]
  <2>2. ASSUME NEW T \in D(n + 1) PROVE l[T] = sumStep(f, l, T)
    <3>1. T # {} => T \ {pick(T)} \in D(n)
      <4> SUFFICES ASSUME T # {} PROVE T \ {pick(T)} \in D(n)
        OBVIOUS
      <4>1. pick(T) \in T
        BY DEF pick
      <4>2. Cardinality(T \ {pick(T)}) = Cardinality(T) - 1
        BY <1>0, <4>1, FS_RemoveElement
      <4> QED
        BY <1>0, <4>2
    <3>2. D(n) \subseteq D(n + 1)
      BY <1>0
    <3> HIDE DEF D
    <3>3. T # {} => l[T \ {pick(T)}] = k[T \ {pick(T)}]
      BY <3>1, <3>2
    <3>4. sumStep(f, l, T) = sumStep(f, k, T)
      BY <3>3 DEF sumStep
    <3>5. T \in D(n) => k[T] = sumStep(f, k, T)
      BY <2>1
    <3>6. l[T] = sumStep(f, k, T)
      BY <3>5
    <3> QED
      BY <3>4, <3>6
  <2>3. good(l, n + 1)
    <3> HIDE DEF D
    <3> QED
      BY <2>2
  <2>4. \E m : good(m, n + 1)
    <3> HIDE DEF good, l
    <3> QED
      BY <2>3
  <2> HIDE DEF good
  <2> QED
    BY <2>4
<1>3. Cardinality(S) \in I
  <2> HIDE DEF I
  <2>1. Nat \subseteq I
    BY <1>1, <1>2, InductionOnSet
  <2>2. Cardinality(S) \in Nat
    BY FS_CardinalityType
  <2> QED
    BY <2>1, <2>2
<1>4. PICK k : good(k, Cardinality(S))
  BY <1>3
<1>5. D(Cardinality(S)) = SUBSET S
  BY FS_Subset
<1> QED
  BY <1>4, <1>5 DEF isSum

\* It is the only one, also on the subsets of a larger set.
LEMMA SumUnique ==
  ASSUME NEW f, NEW S, IsFiniteSet(S), NEW V, S \subseteq V, NEW k, NEW l,
         isSum(f, k, V), isSum(f, l, S)
  PROVE  k[S] = l[S]
PROOF
<1> DEFINE F == {T \in SUBSET S : k[T] = l[T]}
<1>0. \A T \in SUBSET S : k[T] = sumStep(f, k, T) /\ l[T] = sumStep(f, l, T)
  BY DEF isSum
<1>1. {} \in F
  BY <1>0 DEF sumStep
<1>2. ASSUME NEW T \in SUBSET S, IsFiniteSet(T), T # {}, \A x \in T : T \ {x} \in F
      PROVE  T \in F
  <2>1. pick(T) \in T
    BY <1>2 DEF pick
  <2>2. k[T \ {pick(T)}] = l[T \ {pick(T)}]
    BY <1>2, <2>1
  <2> QED
    BY <1>0, <2>2 DEF sumStep
<1> HIDE DEF F
<1>3. \A T \in SUBSET S : IsFiniteSet(T) => T \in F
  BY <1>1, <1>2, FiniteInduction
<1> QED
  BY <1>3 DEF F

\* The fold is such a function.
LEMMA SumIs ==
  ASSUME NEW f, NEW S, IsFiniteSet(S)
  PROVE  \E k : isSum(f, k, S) /\ SumFunctionOnSet(f, S) = k[S]
PROOF
<1> DEFINE k == CHOOSE sum : isSum(f, sum, S)
<1>1. isSum(f, k, S)
  BY SumExists
<1>2. SumFunctionOnSet(f, S) = k[S]
  BY DEF SumFunctionOnSet, FoldFunctionOnSet, MapThenFoldSet, isSum, sumStep, pick
<1> QED
  BY <1>1, <1>2

-----------------------------------------------------------------------------
(***************************************************************************)
(* Sums.                                                                   *)
(***************************************************************************)

\* The sum over no elements.
LEMMA SumEmpty ==
  ASSUME NEW f
  PROVE  SumFunctionOnSet(f, {}) = 0
PROOF
<1>1. PICK k : isSum(f, k, {}) /\ SumFunctionOnSet(f, {}) = k[{}]
  BY SumIs, FS_EmptySet
<1> QED
  BY <1>1 DEF isSum, sumStep

\* The element that is taken first.
LEMMA SumFirst ==
  ASSUME NEW f, NEW S, IsFiniteSet(S), S # {}
  PROVE  /\ pick(S) \in S
         /\ SumFunctionOnSet(f, S) = f[pick(S)] + SumFunctionOnSet(f, S \ {pick(S)})
PROOF
<1>1. pick(S) \in S
  BY DEF pick
<1> DEFINE R == S \ {pick(S)}
<1>2. PICK k : isSum(f, k, S) /\ SumFunctionOnSet(f, S) = k[S]
  BY SumIs
<1>3. IsFiniteSet(R)
  BY FS_Subset
<1>4. PICK l : isSum(f, l, R) /\ SumFunctionOnSet(f, R) = l[R]
  BY <1>3, SumIs
<1>5. k[R] = l[R]
  BY <1>2, <1>3, <1>4, SumUnique
<1>6. k[S] = f[pick(S)] + k[R]
  BY <1>2 DEF isSum, sumStep
<1> QED
  BY <1>1, <1>2, <1>4, <1>5, <1>6

\* The sum of integers is one.
LEMMA SumInt ==
  ASSUME NEW f, NEW S, IsFiniteSet(S), \A x \in S : f[x] \in Int
  PROVE  SumFunctionOnSet(f, S) \in Int
PROOF
<1> DEFINE F == {T \in SUBSET S : SumFunctionOnSet(f, T) \in Int}
<1>1. {} \in F
  BY SumEmpty
<1>2. ASSUME NEW T \in SUBSET S, IsFiniteSet(T), T # {}, \A x \in T : T \ {x} \in F
      PROVE  T \in F
  <2>1. /\ pick(T) \in T
        /\ SumFunctionOnSet(f, T) = f[pick(T)] + SumFunctionOnSet(f, T \ {pick(T)})
    BY <1>2, SumFirst
  <2>2. SumFunctionOnSet(f, T \ {pick(T)}) \in Int /\ f[pick(T)] \in Int
    BY <1>2, <2>1
  <2> QED
    BY <2>1, <2>2
<1> HIDE DEF F
<1>3. \A T \in SUBSET S : IsFiniteSet(T) => T \in F
  BY <1>1, <1>2, FiniteInduction
<1> QED
  BY <1>3 DEF F

\* Any element may be taken first.
LEMMA SumElement ==
  ASSUME NEW f, NEW S, IsFiniteSet(S), \A x \in S : f[x] \in Int, NEW y \in S
  PROVE  SumFunctionOnSet(f, S) = f[y] + SumFunctionOnSet(f, S \ {y})
PROOF
<1> DEFINE F == {T \in SUBSET S : \A z \in T :
                   SumFunctionOnSet(f, T) = f[z] + SumFunctionOnSet(f, T \ {z})}
<1>1. {} \in F
  OBVIOUS
<1>2. ASSUME NEW T \in SUBSET S, IsFiniteSet(T), T # {}, \A x \in T : T \ {x} \in F
      PROVE  T \in F
  <2> SUFFICES ASSUME NEW z \in T
               PROVE  SumFunctionOnSet(f, T) = f[z] + SumFunctionOnSet(f, T \ {z})
    OBVIOUS
  <2> DEFINE p == pick(T)
             R == (T \ {p}) \ {z}
  <2>1. p \in T /\ SumFunctionOnSet(f, T) = f[p] + SumFunctionOnSet(f, T \ {p})
    BY <1>2, SumFirst
  <2> HIDE DEF p
  <2>2. CASE z = p
    BY <2>1, <2>2
  <2>3. CASE z # p
    <3>1. SumFunctionOnSet(f, T \ {p}) = f[z] + SumFunctionOnSet(f, R)
      BY <1>2, <2>1, <2>3
    <3>2. (T \ {z}) \ {p} = R
      OBVIOUS
    <3>3. SumFunctionOnSet(f, T \ {z}) = f[p] + SumFunctionOnSet(f, R)
      BY <1>2, <2>1, <2>3, <3>2
    <3>4. IsFiniteSet(R) /\ R \subseteq S
      BY <1>2, FS_Subset
    <3>5. SumFunctionOnSet(f, R) \in Int
      BY <3>4, SumInt
    <3>6. f[p] \in Int /\ f[z] \in Int
      BY <2>1
    <3> QED
      BY <2>1, <3>1, <3>3, <3>5, <3>6
  <2> QED
    BY <2>2, <2>3
<1> HIDE DEF F
<1>3. \A T \in SUBSET S : IsFiniteSet(T) => T \in F
  BY <1>1, <1>2, FiniteInduction
<1> QED
  BY <1>3 DEF F

\* One element more, the form most proofs use.
LEMMA SumMore ==
  ASSUME NEW f, NEW S, IsFiniteSet(S), \A x \in S : f[x] \in Int,
         NEW y, y \notin S, f[y] \in Int
  PROVE  SumFunctionOnSet(f, S \cup {y}) = f[y] + SumFunctionOnSet(f, S)
PROOF
<1> DEFINE T == S \cup {y}
<1>1. IsFiniteSet(T) /\ y \in T /\ \A x \in T : f[x] \in Int
  BY FS_AddElement
<1>2. T \ {y} = S
  OBVIOUS
<1> HIDE DEF T
<1>3. SumFunctionOnSet(f, T) = f[y] + SumFunctionOnSet(f, T \ {y})
  BY <1>1, SumElement
<1> QED
  BY <1>2, <1>3 DEF T

\* Two disjoint sets.
LEMMA SumUnion ==
  ASSUME NEW f, NEW S, NEW T, IsFiniteSet(S), IsFiniteSet(T), S \cap T = {},
         \A x \in S \cup T : f[x] \in Int
  PROVE  SumFunctionOnSet(f, S \cup T)
           = SumFunctionOnSet(f, S) + SumFunctionOnSet(f, T)
PROOF
<1> DEFINE F == {R \in SUBSET T : SumFunctionOnSet(f, S \cup R)
                                    = SumFunctionOnSet(f, S) + SumFunctionOnSet(f, R)}
<1>0. SumFunctionOnSet(f, S) \in Int
  BY SumInt
<1>1. {} \in F
  BY <1>0, SumEmpty
<1>2. ASSUME NEW R \in SUBSET T, IsFiniteSet(R), R # {}, \A x \in R : R \ {x} \in F
      PROVE  R \in F
  <2>1. PICK y \in R : TRUE
    BY <1>2
  <2> DEFINE Q == R \ {y}
             a == SumFunctionOnSet(f, S)
             b == SumFunctionOnSet(f, Q)
  <2>2. IsFiniteSet(Q) /\ IsFiniteSet(S \cup R) /\ f[y] \in Int
    BY <1>2, FS_Subset, FS_Union
  <2>3. SumFunctionOnSet(f, R) = f[y] + b
    BY <1>2, SumElement
  <2>4. (S \cup R) \ {y} = S \cup Q
    OBVIOUS
  <2>5. SumFunctionOnSet(f, S \cup R) = f[y] + SumFunctionOnSet(f, S \cup Q)
    <3> DEFINE W == S \cup R
    <3>1. IsFiniteSet(W) /\ y \in W /\ \A x \in W : f[x] \in Int
      BY <2>2
    <3>2. SumFunctionOnSet(f, W) = f[y] + SumFunctionOnSet(f, W \ {y})
      <4> HIDE DEF W
      <4> QED
        BY <3>1, SumElement
    <3> QED
      BY <2>4, <3>2
  <2>6. SumFunctionOnSet(f, S \cup Q) = a + b
    BY <1>2
  <2>7. b \in Int
    BY <2>2, SumInt
  <2>8. SumFunctionOnSet(f, S \cup R) = a + SumFunctionOnSet(f, R)
    <3> HIDE DEF a, b
    <3> QED
      BY <1>0, <2>2, <2>3, <2>5, <2>6, <2>7 DEF a
  <2> QED
    BY <2>8
<1> HIDE DEF F
<1>3. \A R \in SUBSET T : IsFiniteSet(R) => R \in F
  BY <1>1, <1>2, FiniteInduction
<1> QED
  BY <1>3 DEF F

\* Functions that agree on a set have the same sum over it.
LEMMA SumSame ==
  ASSUME NEW f, NEW g, NEW S, IsFiniteSet(S), \A x \in S : f[x] = g[x]
  PROVE  SumFunctionOnSet(f, S) = SumFunctionOnSet(g, S)
PROOF
<1> DEFINE F == {T \in SUBSET S : SumFunctionOnSet(f, T) = SumFunctionOnSet(g, T)}
<1>1. {} \in F
  BY SumEmpty
<1>2. ASSUME NEW T \in SUBSET S, IsFiniteSet(T), T # {}, \A x \in T : T \ {x} \in F
      PROVE  T \in F
  <2>1. /\ pick(T) \in T
        /\ SumFunctionOnSet(f, T) = f[pick(T)] + SumFunctionOnSet(f, T \ {pick(T)})
        /\ SumFunctionOnSet(g, T) = g[pick(T)] + SumFunctionOnSet(g, T \ {pick(T)})
    BY <1>2, SumFirst
  <2>2. SumFunctionOnSet(f, T \ {pick(T)}) = SumFunctionOnSet(g, T \ {pick(T)})
    BY <1>2, <2>1
  <2> QED
    BY <2>1, <2>2
<1> HIDE DEF F
<1>3. \A T \in SUBSET S : IsFiniteSet(T) => T \in F
  BY <1>1, <1>2, FiniteInduction
<1> QED
  BY <1>3 DEF F

\* Functions that differ in one place.
LEMMA SumChange ==
  ASSUME NEW f, NEW g, NEW S, IsFiniteSet(S), \A x \in S : f[x] \in Int, NEW y \in S,
         g[y] \in Int, \A x \in S \ {y} : f[x] = g[x]
  PROVE  SumFunctionOnSet(g, S) = SumFunctionOnSet(f, S) + g[y] - f[y]
PROOF
<1> DEFINE T == S \ {y}
<1>1. IsFiniteSet(T)
  BY FS_Subset
<1>2. SumFunctionOnSet(f, S) = f[y] + SumFunctionOnSet(f, T)
  BY SumElement
<1>3. \A x \in S : g[x] \in Int
  OBVIOUS
<1>4. SumFunctionOnSet(g, S) = g[y] + SumFunctionOnSet(g, T)
  BY <1>3, SumElement
<1>5. SumFunctionOnSet(f, T) = SumFunctionOnSet(g, T)
  BY <1>1, SumSame
<1>6. SumFunctionOnSet(f, T) \in Int /\ f[y] \in Int
  BY <1>1, SumInt
<1> HIDE DEF T
<1> QED
  BY <1>2, <1>4, <1>5, <1>6

\* A sum of natural numbers is one, and is at least each of them.
LEMMA SumNat ==
  ASSUME NEW f, NEW S, IsFiniteSet(S), \A x \in S : f[x] \in Nat
  PROVE  /\ SumFunctionOnSet(f, S) \in Nat
         /\ \A x \in S : f[x] <= SumFunctionOnSet(f, S)
PROOF
<1> DEFINE F == {T \in SUBSET S : SumFunctionOnSet(f, T) \in Nat}
<1>1. {} \in F
  BY SumEmpty
<1>2. ASSUME NEW T \in SUBSET S, IsFiniteSet(T), T # {}, \A x \in T : T \ {x} \in F
      PROVE  T \in F
  <2>1. /\ pick(T) \in T
        /\ SumFunctionOnSet(f, T) = f[pick(T)] + SumFunctionOnSet(f, T \ {pick(T)})
    BY <1>2, SumFirst
  <2>2. SumFunctionOnSet(f, T \ {pick(T)}) \in Nat /\ f[pick(T)] \in Nat
    BY <1>2, <2>1
  <2> QED
    BY <2>1, <2>2
<1> HIDE DEF F
<1>3. \A T \in SUBSET S : IsFiniteSet(T) => T \in F
  BY <1>1, <1>2, FiniteInduction
<1>4. ASSUME NEW x \in S PROVE f[x] <= SumFunctionOnSet(f, S)
  <2>1. SumFunctionOnSet(f, S) = f[x] + SumFunctionOnSet(f, S \ {x})
    BY SumElement
  <2>2. SumFunctionOnSet(f, S \ {x}) \in Nat
    BY <1>3, FS_Subset DEF F
  <2> QED
    BY <2>1, <2>2
<1> QED
  BY <1>3, <1>4 DEF F

\* Where all are 0.
LEMMA SumZero ==
  ASSUME NEW f, NEW S, IsFiniteSet(S), \A x \in S : f[x] = 0
  PROVE  SumFunctionOnSet(f, S) = 0
PROOF
<1> DEFINE F == {T \in SUBSET S : SumFunctionOnSet(f, T) = 0}
<1>1. {} \in F
  BY SumEmpty
<1>2. ASSUME NEW T \in SUBSET S, IsFiniteSet(T), T # {}, \A x \in T : T \ {x} \in F
      PROVE  T \in F
  <2>1. /\ pick(T) \in T
        /\ SumFunctionOnSet(f, T) = f[pick(T)] + SumFunctionOnSet(f, T \ {pick(T)})
    BY <1>2, SumFirst
  <2> QED
    BY <1>2, <2>1
<1> HIDE DEF F
<1>3. \A T \in SUBSET S : IsFiniteSet(T) => T \in F
  BY <1>1, <1>2, FiniteInduction
<1> QED
  BY <1>3 DEF F

\* The elements of a set that are of class k.
classOf(class, S, k) == {x \in S : class[x] = k}

\* A sum is the sum of the sums over the classes of its elements.
LEMMA SumClasses ==
  ASSUME NEW f, NEW S, IsFiniteSet(S), \A x \in S : f[x] \in Int,
         NEW K, IsFiniteSet(K), NEW class, \A x \in S : class[x] \in K,
         NEW g, \A k \in K : g[k] = SumFunctionOnSet(f, classOf(class, S, k))
  PROVE  SumFunctionOnSet(g, K) = SumFunctionOnSet(f, S)
PROOF
<1> DEFINE of(L) == {x \in S : class[x] \in L}
           F == {L \in SUBSET K : SumFunctionOnSet(g, L) = SumFunctionOnSet(f, of(L))}
<1>0. \A L : IsFiniteSet(of(L)) /\ SumFunctionOnSet(f, of(L)) \in Int
  <2> TAKE L
  <2>1. of(L) \subseteq S
    OBVIOUS
  <2> HIDE DEF of
  <2>2. IsFiniteSet(of(L))
    BY <2>1, FS_Subset
  <2> QED
    BY <2>1, <2>2, SumInt
<1>1. {} \in F
  <2>1. of({}) = {}
    OBVIOUS
  <2> QED
    BY <2>1, SumEmpty
<1>2. ASSUME NEW L \in SUBSET K, IsFiniteSet(L), L # {}, \A k \in L : L \ {k} \in F
      PROVE  L \in F
  <2>1. PICK k \in L : TRUE
    BY <1>2
  <2> DEFINE M == L \ {k}
  <2>2. of({k}) = classOf(class, S, k)
    BY DEF classOf
  <2>3. g[k] = SumFunctionOnSet(f, of({k}))
    BY <2>2
  <2>4. of(L) = of(M) \cup of({k}) /\ of(M) \cap of({k}) = {} /\ of(L) \subseteq S
    OBVIOUS
  <2>5. \A j \in L : g[j] \in Int
    <3> TAKE j \in L
    <3>1. of({j}) = classOf(class, S, j)
      BY DEF classOf
    <3>2. g[j] = SumFunctionOnSet(f, of({j}))
      BY <3>1
    <3> HIDE DEF of
    <3> QED
      BY <1>0, <3>2
  <2>6. SumFunctionOnSet(g, L) = g[k] + SumFunctionOnSet(g, M)
    BY <1>2, <2>5, SumElement
  <2>7. SumFunctionOnSet(g, M) = SumFunctionOnSet(f, of(M))
    BY <1>2
  <2> HIDE DEF of, M
  <2>8. SumFunctionOnSet(f, of(L))
          = SumFunctionOnSet(f, of(M)) + SumFunctionOnSet(f, of({k}))
    <3>1. \A x \in of(M) \cup of({k}) : f[x] \in Int
      BY <2>4
    <3>2. IsFiniteSet(of(M)) /\ IsFiniteSet(of({k}))
      BY <1>0
    <3>3. SumFunctionOnSet(f, of(M) \cup of({k}))
            = SumFunctionOnSet(f, of(M)) + SumFunctionOnSet(f, of({k}))
      BY <2>4, <3>1, <3>2, SumUnion
    <3> QED
      BY <2>4, <3>3
  <2>9. SumFunctionOnSet(f, of(M)) \in Int /\ SumFunctionOnSet(f, of({k})) \in Int
    BY <1>0
  <2>10. SumFunctionOnSet(g, L) = SumFunctionOnSet(f, of(L))
    BY <2>3, <2>6, <2>7, <2>8, <2>9
  <2> QED
    BY <2>10
<1> HIDE DEF F
<1>3. \A L \in SUBSET K : IsFiniteSet(L) => L \in F
  BY <1>1, <1>2, FiniteInduction
<1>4. of(K) = S
  OBVIOUS
<1>5. SumFunctionOnSet(g, K) = SumFunctionOnSet(f, of(K))
  BY <1>3 DEF F
<1> QED
  BY <1>4, <1>5

=============================================================================
