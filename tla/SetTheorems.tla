------------------------------- MODULE SetTheorems -------------------------------
(* What several proofs need to know of sets of numbers, finite sets, and the *)
(* sums over them.  The library's induction over finite sets is about an     *)
(* operator; here it is about the set of subsets for which a claim holds, and *)
(* rests on a least counterexample.                                          *)
EXTENDS FiniteSetsExt, FiniteSetTheorems, WellFoundedInduction, TLAPS

-----------------------------------------------------------------------------
(* Numbers.                                                                  *)

(* Every nonempty set of numbers has a least one, and Min finds it.          *)
LEMMA LeastNumber ==
    ASSUME NEW S \in SUBSET Nat, S # {}
    PROVE  Min(S) \in S /\ \A s \in S : Min(S) <= s
<1> DEFINE R == OpToRel(<, Nat)
<1>1. \A a, b \in Nat : a < b => <<a, b>> \in R
  BY DEF OpToRel
<1>2. IsWellFoundedOn(R, Nat)
  BY NatLessThanWellFounded
<1> HIDE DEF R
<1>3. PICK x \in S : \A y \in S : <<y, x>> \notin R
  BY <1>2, WFMin
<1>4. \A y \in S : x <= y
  <2> TAKE y \in S
  <2>1. ~(y < x)
    BY <1>1, <1>3
  <2> QED
    BY <2>1
<1> QED
  BY <1>4 DEF Min

(* Max finds the greatest number of a set, when there is one.                *)
LEMMA GreatestNumber ==
    ASSUME NEW S, NEW m \in S, \A s \in S : m >= s
    PROVE  Max(S) \in S /\ \A s \in S : Max(S) >= s
  BY DEF Max

(* A nonempty set of numbers with a bound has a greatest one.                *)
LEMMA BoundedHasMax ==
    ASSUME NEW S \in SUBSET Nat, S # {}, NEW b \in Nat, \A s \in S : s <= b
    PROVE  Max(S) \in S /\ \A s \in S : s <= Max(S)
<1> DEFINE U == {u \in Nat : \A s \in S : s <= u}
<1> U \subseteq Nat /\ b \in U
  OBVIOUS
<1>1. Min(U) \in U /\ \A u \in U : Min(U) <= u
  <2> HIDE DEF U
  <2> QED
    BY LeastNumber
<1>2. Min(U) \in Nat /\ \A s \in S : s <= Min(U)
  BY <1>1
<1> HIDE DEF U
<1>3. Min(U) \in S
  <2>1. SUFFICES ASSUME Min(U) \notin S
                 PROVE  FALSE
    OBVIOUS
  <2>2. \A s \in S : s <= Min(U) - 1
    BY <1>2, <2>1
  <2>3. Min(U) - 1 \in Nat
    <3>1. PICK s \in S : s <= Min(U) - 1
      BY <2>2
    <3> QED
      BY <1>2, <3>1
  <2>4. Min(U) - 1 \in U
    BY <2>2, <2>3 DEF U
  <2> QED
    BY <1>1, <1>2, <2>4
<1>4. \A s \in S : Min(U) >= s
  BY <1>2
<1>5. Max(S) \in S /\ \A s \in S : Max(S) >= s
  BY <1>3, <1>4, GreatestNumber
<1> QED
  BY <1>5

-----------------------------------------------------------------------------
(* Sets of few members.                                                      *)

(* A set whose members are all the same has at most one.                     *)
LEMMA AtMostOne ==
    ASSUME NEW S, \A x, y \in S : x = y
    PROVE  IsFiniteSet(S) /\ Cardinality(S) <= 1
<1>1. CASE S = {}
  <2>1. IsFiniteSet({}) /\ Cardinality({}) = 0
    BY FS_EmptySet
  <2> QED
    BY <1>1, <2>1
<1>2. CASE S # {}
  <2>1. PICK x \in S : TRUE
    BY <1>2
  <2>2. S = {x}
    BY <2>1
  <2>3. IsFiniteSet({x}) /\ Cardinality({x}) = 1
    BY FS_Singleton
  <2> QED
    BY <2>2, <2>3
<1> QED
  BY <1>1, <1>2

(* A set without four different members has at most three.                   *)
LEMMA AtMostThree ==
    ASSUME NEW S,
           \A a, b, c, d \in S : a = b \/ a = c \/ a = d \/ b = c \/ b = d \/ c = d
    PROVE  Cardinality(S) <= 3
<1>1. \A T : \A x : (\A y, z \in T \ {x} : y = z)
          => IsFiniteSet(T) /\ Cardinality(T) \in Nat /\ Cardinality(T) <= 2
  <2>1. SUFFICES ASSUME NEW T, NEW x, \A y, z \in T \ {x} : y = z
                 PROVE  IsFiniteSet(T) /\ Cardinality(T) \in Nat /\ Cardinality(T) <= 2
    OBVIOUS
  <2>2. IsFiniteSet(T \ {x}) /\ Cardinality(T \ {x}) <= 1
    BY <2>1, AtMostOne
  <2>3. Cardinality(T \ {x}) \in Nat
    BY <2>2, FS_CardinalityType
  <2>4. CASE x \in T
    <3>1. T = (T \ {x}) \cup {x}
      BY <2>4
    <3>2. /\ IsFiniteSet((T \ {x}) \cup {x})
          /\ Cardinality((T \ {x}) \cup {x}) = Cardinality(T \ {x}) + 1
      BY <2>2, FS_AddElement
    <3> QED
      BY <2>2, <2>3, <3>1, <3>2
  <2>5. CASE x \notin T
    <3>1. T \ {x} = T
      BY <2>5
    <3> QED
      BY <2>2, <2>3, <3>1
  <2> QED
    BY <2>4, <2>5
<1>2. CASE \A x, y \in S : x = y
  <2>1. IsFiniteSet(S) /\ Cardinality(S) <= 1
    BY <1>2, AtMostOne
  <2> QED
    BY <2>1, FS_CardinalityType
<1>3. CASE ~ \A x, y \in S : x = y
  <2>1. PICK x, y \in S : x # y
    BY <1>3
  <2>2. \A u, v \in (S \ {x}) \ {y} : u = v
    BY <2>1
  <2>3. /\ IsFiniteSet(S \ {x}) /\ Cardinality(S \ {x}) \in Nat
        /\ Cardinality(S \ {x}) <= 2
    BY <1>1, <2>2
  <2>4. S = (S \ {x}) \cup {x}
    BY <2>1
  <2>5. Cardinality((S \ {x}) \cup {x}) = Cardinality(S \ {x}) + 1
    BY <2>3, FS_AddElement
  <2> QED
    BY <2>3, <2>4, <2>5
<1> QED
  BY <1>2, <1>3
-----------------------------------------------------------------------------
(* Induction over a finite set.                                              *)

(* If a subset is in G whenever all smaller ones are, the set is.            *)
LEMMA BySize ==
    ASSUME NEW S, IsFiniteSet(S), NEW G,
           \A T \in SUBSET S :
              (\A U \in SUBSET S : Cardinality(U) < Cardinality(T) => U \in G) => T \in G
    PROVE  \A T \in SUBSET S : T \in G
<1> DEFINE Sizes == {Cardinality(T) : T \in {U \in SUBSET S : U \notin G}}
<1>1. \A T \in SUBSET S : Cardinality(T) \in Nat
  BY FS_Subset, FS_CardinalityType
<1>2. SUFFICES ASSUME NEW R \in SUBSET S, R \notin G
               PROVE  FALSE
  OBVIOUS
<1>3. Sizes \in SUBSET Nat /\ Sizes # {}
  BY <1>1, <1>2
<1>4. Min(Sizes) \in Sizes /\ \A n \in Sizes : Min(Sizes) <= n
  <2> HIDE DEF Sizes
  <2> QED
    BY <1>3, LeastNumber
<1>5. PICK T \in SUBSET S : T \notin G /\ Cardinality(T) = Min(Sizes)
  BY <1>4
<1>6. \A U \in SUBSET S : Cardinality(U) < Cardinality(T) => U \in G
  <2> SUFFICES ASSUME NEW U \in SUBSET S, Cardinality(U) < Cardinality(T), U \notin G
               PROVE  FALSE
    OBVIOUS
  <2>1. Cardinality(U) \in Sizes
    OBVIOUS
  <2>2. Cardinality(T) <= Cardinality(U)
    BY <1>4, <1>5, <2>1
  <2> QED
    BY <1>1, <2>2
<1> QED
  BY <1>5, <1>6

(* If the empty set is in G, and each set in G with one element more, the    *)
(* whole set is.                                                             *)
LEMMA ByElements ==
    ASSUME NEW S, IsFiniteSet(S), NEW G, {} \in G,
           \A T \in SUBSET S : \A x \in S \ T : T \in G => T \cup {x} \in G
    PROVE  S \in G
<1>1. ASSUME NEW T \in SUBSET S,
             \A U \in SUBSET S : Cardinality(U) < Cardinality(T) => U \in G
      PROVE  T \in G
  <2>1. CASE T = {}
    BY <2>1
  <2>2. ASSUME NEW x \in T PROVE T \in G
    <3>1. IsFiniteSet(T) /\ Cardinality(T) \in Nat
      BY FS_Subset, FS_CardinalityType
    <3>2. Cardinality(T \ {x}) = Cardinality(T) - 1
      BY <3>1, FS_RemoveElement
    <3>3. T \ {x} \in G
      BY <1>1, <3>1, <3>2
    <3>4. T = (T \ {x}) \cup {x} /\ x \in S \ (T \ {x})
      OBVIOUS
    <3> QED
      BY <3>3, <3>4
  <2> QED
    BY <2>1, <2>2
<1> QED
  BY <1>1, BySize

-----------------------------------------------------------------------------
(* The sum of the library is a recursive function on subsets.                *)

Pick(s) == CHOOSE x \in s : TRUE

\* h gives the sum of f over the members of C.
Iterates(h, f, C) ==
    h = [s \in C |-> IF s = {} THEN 0 ELSE f[Pick(s)] + h[s \ {Pick(s)}]]

LEMMA SumIterates ==
    ASSUME NEW f, NEW S
    PROVE  SumFunctionOnSet(f, S) = (CHOOSE h : Iterates(h, f, SUBSET S))[S]
  BY DEF SumFunctionOnSet, FoldFunctionOnSet, MapThenFoldSet, Iterates, Pick

(* There is such a function: it is built up with the size of the subsets.    *)
LEMMA IterationExists ==
    ASSUME NEW f, NEW S, IsFiniteSet(S)
    PROVE  \E h : Iterates(h, f, SUBSET S)
<1> DEFINE UpTo(n) == {T \in SUBSET S : Cardinality(T) <= n}
           Bad == {n \in Nat : ~\E h : Iterates(h, f, UpTo(n))}
<1>1. \A T \in SUBSET S : IsFiniteSet(T) /\ Cardinality(T) \in Nat
  BY FS_Subset, FS_CardinalityType
<1>2. \A T \in SUBSET S : T # {} => /\ Pick(T) \in T
                                    /\ T \ {Pick(T)} \in SUBSET S
                                    /\ Cardinality(T \ {Pick(T)}) = Cardinality(T) - 1
  BY <1>1, FS_RemoveElement DEF Pick
<1>3. \E h : Iterates(h, f, UpTo(0))
  <2>1. \A T \in UpTo(0) : T = {}
    BY <1>1, FS_EmptySet
  <2> DEFINE h == [T \in UpTo(0) |-> 0]
  <2>2. Iterates(h, f, UpTo(0))
    BY <2>1 DEF Iterates
  <2> QED
    BY <2>2
<1>4. ASSUME NEW n \in Nat, NEW h, Iterates(h, f, UpTo(n))
      PROVE  \E k : Iterates(k, f, UpTo(n + 1))
  <2> DEFINE k == [s \in UpTo(n + 1) |-> IF s = {} THEN 0 ELSE f[Pick(s)] + h[s \ {Pick(s)}]]
  <2>1. \A s \in UpTo(n + 1) : s # {} => s \ {Pick(s)} \in UpTo(n)
    BY <1>1, <1>2
  <2>2. UpTo(n) \subseteq UpTo(n + 1)
    BY <1>1
  <2>3. \A s \in UpTo(n) : k[s] = h[s]
    BY <1>4, <2>2 DEF Iterates
  <2>4. k = [s \in UpTo(n + 1) |-> IF s = {} THEN 0 ELSE f[Pick(s)] + k[s \ {Pick(s)}]]
    <3>1. \A s \in UpTo(n + 1) : s # {} => k[s \ {Pick(s)}] = h[s \ {Pick(s)}]
      BY <2>1, <2>3
    <3> QED
      BY <3>1
  <2> QED
    BY <2>4 DEF Iterates
<1>5. Bad = {}
  <2> SUFFICES ASSUME Bad # {} PROVE FALSE
    OBVIOUS
  <2>1. Min(Bad) \in Bad /\ \A n \in Bad : Min(Bad) <= n
    <3>1. Bad \in SUBSET Nat
      OBVIOUS
    <3> HIDE DEF Bad
    <3> QED
      BY <3>1, LeastNumber
  <2>2. PICK m \in Nat : m = Min(Bad) /\ m \in Bad
    BY <2>1
  <2>3. m # 0
    BY <1>3, <2>2
  <2>4. m - 1 \in Nat /\ m - 1 \notin Bad /\ m = (m - 1) + 1
    <3> HIDE DEF Bad
    <3>1. m - 1 \in Nat /\ m = (m - 1) + 1 /\ ~(m <= m - 1)
      BY <2>3
    <3> QED
      BY <2>1, <2>2, <3>1
  <2>5. \E h : Iterates(h, f, UpTo(m - 1))
    BY <2>4
  <2> HIDE DEF UpTo
  <2>6. \E h : Iterates(h, f, UpTo((m - 1) + 1))
    BY <1>4, <2>4, <2>5
  <2>7. \E h : Iterates(h, f, UpTo(m))
    BY <2>4, <2>6
  <2> QED
    BY <2>2, <2>7
<1>6. PICK c \in Nat : c = Cardinality(S)
  BY FS_CardinalityType
<1>7. UpTo(c) = SUBSET S
  BY <1>6, FS_Subset
<1>8. c \notin Bad
  BY <1>5
<1> HIDE DEF UpTo
<1>9. \E h : Iterates(h, f, UpTo(c))
  BY <1>8
<1> QED
  BY <1>7, <1>9

(* Two of them agree where what is summed agrees.                            *)
LEMMA IterationsAgree ==
    ASSUME NEW f, NEW g, NEW S, NEW R, IsFiniteSet(S), NEW h, NEW k,
           Iterates(h, f, SUBSET S), Iterates(k, g, SUBSET R)
    PROVE  \A T \in SUBSET (S \cap R) : (\A x \in T : f[x] = g[x]) => h[T] = k[T]
<1> DEFINE C == S \cap R
           G == {T \in SUBSET C : (\A x \in T : f[x] = g[x]) => h[T] = k[T]}
<1>1. IsFiniteSet(C)
  BY FS_Intersection
<1>2. ASSUME NEW T \in SUBSET C,
             \A U \in SUBSET C : Cardinality(U) < Cardinality(T) => U \in G
      PROVE  T \in G
  <2> SUFFICES ASSUME \A x \in T : f[x] = g[x] PROVE h[T] = k[T]
    OBVIOUS
  <2>1. CASE T = {}
    BY <2>1 DEF Iterates
  <2>2. CASE T # {}
    <3> DEFINE U == T \ {Pick(T)}
    <3>1. Pick(T) \in T
      BY <2>2 DEF Pick
    <3>2. IsFiniteSet(T) /\ Cardinality(T) \in Nat
      BY <1>1, FS_Subset, FS_CardinalityType
    <3>3. Cardinality(U) < Cardinality(T)
      <4>1. \A p \in T : Cardinality(T \ {p}) = Cardinality(T) - 1
        BY <3>2, FS_RemoveElement
      <4> QED
        BY <3>1, <3>2, <4>1
    <3>4. U \in G
      BY <1>2, <3>3
    <3>5. h[U] = k[U]
      BY <3>4
    <3>6. h[T] = f[Pick(T)] + h[U] /\ k[T] = g[Pick(T)] + k[U]
      BY <2>2 DEF Iterates
    <3> QED
      BY <3>1, <3>5, <3>6
  <2> QED
    BY <2>1, <2>2
<1>3. \A T \in SUBSET C : T \in G
  <2> HIDE DEF G, C
  <2> QED
    BY <1>1, <1>2, BySize
<1> QED
  BY <1>3

(* The sum over the empty set, and over another one.                         *)
LEMMA SumUnfolds ==
    ASSUME NEW f, NEW S, IsFiniteSet(S)
    PROVE  /\ S = {} => SumFunctionOnSet(f, S) = 0
           /\ S # {} => SumFunctionOnSet(f, S) = f[Pick(S)] + SumFunctionOnSet(f, S \ {Pick(S)})
<1>1. \A T : IsFiniteSet(T) =>
        \E h : Iterates(h, f, SUBSET T) /\ SumFunctionOnSet(f, T) = h[T]
  BY IterationExists, SumIterates
<1>2. PICK h : Iterates(h, f, SUBSET S) /\ SumFunctionOnSet(f, S) = h[S]
  BY <1>1
<1>3. PICK R : R = S \ {Pick(S)}
  OBVIOUS
<1>4. IsFiniteSet(R) /\ R \in SUBSET (S \cap R)
  BY <1>3, FS_RemoveElement
<1>5. PICK k : Iterates(k, f, SUBSET R) /\ SumFunctionOnSet(f, R) = k[R]
  BY <1>1, <1>4
<1>6. h[R] = k[R]
  BY <1>2, <1>4, <1>5, IterationsAgree
<1>7. h[S] = IF S = {} THEN 0 ELSE f[Pick(S)] + h[R]
  <2>1. S \in SUBSET S /\ h = [s \in SUBSET S |->
            IF s = {} THEN 0 ELSE f[Pick(s)] + h[s \ {Pick(s)}]]
    BY <1>2 DEF Iterates
  <2> QED
    BY <1>3, <2>1
<1> QED
  BY <1>2, <1>3, <1>5, <1>6, <1>7

(* Sums over a set are equal when what is summed is.                         *)
LEMMA SumEqual ==
    ASSUME NEW f, NEW g, NEW S, IsFiniteSet(S), \A x \in S : f[x] = g[x]
    PROVE  SumFunctionOnSet(f, S) = SumFunctionOnSet(g, S)
<1> DEFINE h == CHOOSE i : Iterates(i, f, SUBSET S)
           k == CHOOSE i : Iterates(i, g, SUBSET S)
<1>1. Iterates(h, f, SUBSET S) /\ Iterates(k, g, SUBSET S)
  BY IterationExists
<1>2. SumFunctionOnSet(f, S) = h[S] /\ SumFunctionOnSet(g, S) = k[S]
  BY SumIterates
<1> HIDE DEF h, k
<1> QED
  BY <1>1, <1>2, IterationsAgree

-----------------------------------------------------------------------------
(* Sums of numbers.                                                          *)

LEMMA SumType ==
    ASSUME NEW S, IsFiniteSet(S), NEW f, \A x \in S : f[x] \in Int
    PROVE  /\ SumFunctionOnSet(f, S) \in Int
           /\ (\A x \in S : f[x] \in Nat) => SumFunctionOnSet(f, S) \in Nat
<1> DEFINE G == {T \in SUBSET S : /\ SumFunctionOnSet(f, T) \in Int
                                  /\ (\A x \in T : f[x] \in Nat) => SumFunctionOnSet(f, T) \in Nat}
<1>1. ASSUME NEW T \in SUBSET S,
             \A U \in SUBSET S : Cardinality(U) < Cardinality(T) => U \in G
      PROVE  T \in G
  <2>1. IsFiniteSet(T) /\ Cardinality(T) \in Nat
    BY FS_Subset, FS_CardinalityType
  <2>2. CASE T = {}
    <3>1. SumFunctionOnSet(f, T) = 0
      BY <2>1, <2>2, SumUnfolds
    <3> QED
      BY <3>1
  <2>3. CASE T # {}
    <3>1. Pick(T) \in T
      BY <2>3 DEF Pick
    <3>2. Cardinality(T \ {Pick(T)}) < Cardinality(T)
      <4>1. \A p \in T : Cardinality(T \ {p}) = Cardinality(T) - 1
        BY <2>1, FS_RemoveElement
      <4> QED
        BY <2>1, <3>1, <4>1
    <3>3. T \ {Pick(T)} \in G
      BY <1>1, <3>2
    <3>4. SumFunctionOnSet(f, T) = f[Pick(T)] + SumFunctionOnSet(f, T \ {Pick(T)})
      BY <2>1, <2>3, SumUnfolds
    <3> QED
      BY <3>1, <3>3, <3>4
  <2> QED
    BY <2>2, <2>3
<1>2. \A T \in SUBSET S : T \in G
  <2> HIDE DEF G
  <2> QED
    BY <1>1, BySize
<1>3. S \in G
  BY <1>2
<1> QED
  BY <1>3

(* Any element may be taken out first.                                       *)
LEMMA SumTakeOut ==
    ASSUME NEW S, IsFiniteSet(S), NEW f, \A x \in S : f[x] \in Int
    PROVE  \A x \in S : SumFunctionOnSet(f, S) = f[x] + SumFunctionOnSet(f, S \ {x})
<1> DEFINE G == {T \in SUBSET S :
                    \A x \in T : SumFunctionOnSet(f, T) = f[x] + SumFunctionOnSet(f, T \ {x})}
<1>1. \A T \in SUBSET S : IsFiniteSet(T) /\ Cardinality(T) \in Nat
  BY FS_Subset, FS_CardinalityType
<1>2. ASSUME NEW T \in SUBSET S,
             \A U \in SUBSET S : Cardinality(U) < Cardinality(T) => U \in G
      PROVE  T \in G
  <2> SUFFICES ASSUME NEW x \in T
               PROVE  SumFunctionOnSet(f, T) = f[x] + SumFunctionOnSet(f, T \ {x})
    OBVIOUS
  <2>1. PICK p \in T : p = Pick(T)
    BY DEF Pick
  <2>2. SumFunctionOnSet(f, T) = f[p] + SumFunctionOnSet(f, T \ {p})
    BY <1>1, <2>1, SumUnfolds
  <2>3. CASE x = p
    BY <2>2, <2>3
  <2>4. CASE x # p
    <3> DEFINE B == (T \ {p}) \ {x}
    <3>1. Cardinality(T \ {p}) < Cardinality(T) /\ Cardinality(T \ {x}) < Cardinality(T)
      BY <1>1, FS_RemoveElement
    <3>2. T \ {p} \in G /\ T \ {x} \in G
      BY <1>2, <3>1
    <3>3. SumFunctionOnSet(f, T \ {p}) = f[x] + SumFunctionOnSet(f, B)
      BY <2>4, <3>2
    <3>4. SumFunctionOnSet(f, T \ {x}) = f[p] + SumFunctionOnSet(f, B)
      <4>1. (T \ {x}) \ {p} = B /\ p \in T \ {x}
        BY <2>4
      <4> QED
        BY <3>2, <4>1
    <3>5. SumFunctionOnSet(f, B) \in Int /\ f[x] \in Int /\ f[p] \in Int
      BY <1>1, SumType
    <3> HIDE DEF B
    <3> QED
      BY <2>2, <3>3, <3>4, <3>5
  <2> QED
    BY <2>3, <2>4
<1>3. \A T \in SUBSET S : T \in G
  <2> HIDE DEF G
  <2> QED
    BY <1>2, BySize
<1>4. S \in G
  BY <1>3
<1> QED
  BY <1>4

(* An element more.                                                          *)
LEMMA SumAdd ==
    ASSUME NEW S, IsFiniteSet(S), NEW x, x \notin S, NEW f, \A y \in S \cup {x} : f[y] \in Int
    PROVE  SumFunctionOnSet(f, S \cup {x}) = f[x] + SumFunctionOnSet(f, S)
<1>1. PICK T : T = S \cup {x}
  OBVIOUS
<1>2. IsFiniteSet(T) /\ x \in T /\ T \ {x} = S
  BY <1>1, FS_AddElement
<1>3. SumFunctionOnSet(f, T) = f[x] + SumFunctionOnSet(f, T \ {x})
  BY <1>1, <1>2, SumTakeOut
<1> QED
  BY <1>1, <1>2, <1>3

(* One number and no number.                                                 *)
LEMMA SumOfFew ==
    ASSUME NEW f
    PROVE  /\ SumFunctionOnSet(f, {}) = 0
           /\ \A x : f[x] \in Int => SumFunctionOnSet(f, {x}) = f[x]
<1>1. SumFunctionOnSet(f, {}) = 0
  BY SumUnfolds, FS_EmptySet
<1>2. ASSUME NEW x, f[x] \in Int PROVE SumFunctionOnSet(f, {x}) = f[x]
  <2>1. SumFunctionOnSet(f, {} \cup {x}) = f[x] + SumFunctionOnSet(f, {})
    BY <1>2, SumAdd, FS_EmptySet
  <2>2. {} \cup {x} = {x}
    OBVIOUS
  <2> QED
    BY <1>1, <1>2, <2>1, <2>2
<1> QED
  BY <1>1, <1>2

(* The sum over two sets that have no member in common.                      *)
LEMMA SumUnion ==
    ASSUME NEW S, IsFiniteSet(S), NEW T, IsFiniteSet(T), S \cap T = {},
           NEW f, \A x \in S \cup T : f[x] \in Int
    PROVE  SumFunctionOnSet(f, S \cup T) = SumFunctionOnSet(f, S) + SumFunctionOnSet(f, T)
<1> DEFINE G == {U \in SUBSET T :
                    SumFunctionOnSet(f, S \cup U) = SumFunctionOnSet(f, S) + SumFunctionOnSet(f, U)}
<1>1. {} \in G
  <2>1. SumFunctionOnSet(f, S) \in Int
    BY SumType
  <2>2. S \cup {} = S
    OBVIOUS
  <2>3. SumFunctionOnSet(f, S \cup {}) = SumFunctionOnSet(f, S) + SumFunctionOnSet(f, {})
    BY <2>1, <2>2, SumOfFew
  <2> QED
    BY <2>3
<1>2. ASSUME NEW U \in SUBSET T, NEW x \in T \ U, U \in G
      PROVE  U \cup {x} \in G
  <2>1. IsFiniteSet(U) /\ IsFiniteSet(S \cup U)
    BY FS_Subset, FS_Union
  <2>2. SumFunctionOnSet(f, U \cup {x}) = f[x] + SumFunctionOnSet(f, U)
    BY <2>1, SumAdd
  <2>3. SumFunctionOnSet(f, (S \cup U) \cup {x}) = f[x] + SumFunctionOnSet(f, S \cup U)
    BY <2>1, SumAdd
  <2>4. SumFunctionOnSet(f, S \cup (U \cup {x})) = f[x] + SumFunctionOnSet(f, S \cup U)
    <3>1. (S \cup U) \cup {x} = S \cup (U \cup {x})
      OBVIOUS
    <3> QED
      BY <2>3, <3>1
  <2>5. SumFunctionOnSet(f, S \cup U) = SumFunctionOnSet(f, S) + SumFunctionOnSet(f, U)
    BY <1>2
  <2>6. SumFunctionOnSet(f, S) \in Int /\ SumFunctionOnSet(f, U) \in Int /\ f[x] \in Int
    BY <2>1, SumType
  <2>7. SumFunctionOnSet(f, S \cup (U \cup {x}))
           = SumFunctionOnSet(f, S) + SumFunctionOnSet(f, U \cup {x})
    BY <2>2, <2>4, <2>5, <2>6
  <2> QED
    BY <2>7
<1>3. T \in G
  <2> HIDE DEF G
  <2> QED
    BY <1>1, <1>2, ByElements
<1> QED
  BY <1>3

(* A sum counts its elements when each is one.                               *)
LEMMA SumOfOnes ==
    ASSUME NEW S, IsFiniteSet(S), NEW f, \A x \in S : f[x] = 1
    PROVE  SumFunctionOnSet(f, S) = Cardinality(S)
<1> DEFINE G == {T \in SUBSET S : SumFunctionOnSet(f, T) = Cardinality(T)}
<1>1. {} \in G
  BY SumOfFew, FS_EmptySet
<1>2. ASSUME NEW T \in SUBSET S, NEW x \in S \ T, T \in G
      PROVE  T \cup {x} \in G
  <2>1. IsFiniteSet(T) /\ Cardinality(T) \in Nat /\ \A y \in S : f[y] \in Int
    BY FS_Subset, FS_CardinalityType
  <2>2. SumFunctionOnSet(f, T \cup {x}) = f[x] + SumFunctionOnSet(f, T)
    BY <2>1, SumAdd
  <2>3. Cardinality(T \cup {x}) = Cardinality(T) + 1
    BY <2>1, FS_AddElement
  <2>4. SumFunctionOnSet(f, T) = Cardinality(T) /\ f[x] = 1
    BY <1>2
  <2>5. SumFunctionOnSet(f, T \cup {x}) = Cardinality(T \cup {x})
    BY <2>1, <2>2, <2>3, <2>4
  <2> QED
    BY <2>5
<1>3. S \in G
  <2> HIDE DEF G
  <2> QED
    BY <1>1, <1>2, ByElements
<1> QED
  BY <1>3

(* Terms may be added separately.                                            *)
LEMMA SumPlus ==
    ASSUME NEW S, IsFiniteSet(S), NEW f, NEW g, NEW h,
           \A x \in S : f[x] \in Int /\ g[x] \in Int /\ h[x] = f[x] + g[x]
    PROVE  SumFunctionOnSet(h, S) = SumFunctionOnSet(f, S) + SumFunctionOnSet(g, S)
<1> DEFINE G == {T \in SUBSET S :
                    SumFunctionOnSet(h, T) = SumFunctionOnSet(f, T) + SumFunctionOnSet(g, T)}
<1>1. {} \in G
  BY SumOfFew
<1>2. ASSUME NEW T \in SUBSET S, NEW x \in S \ T, T \in G
      PROVE  T \cup {x} \in G
  <2>1. IsFiniteSet(T) /\ \A y \in S : h[y] \in Int
    BY FS_Subset
  <2>2. SumFunctionOnSet(h, T \cup {x}) = h[x] + SumFunctionOnSet(h, T)
    BY <2>1, SumAdd
  <2>3. SumFunctionOnSet(f, T \cup {x}) = f[x] + SumFunctionOnSet(f, T)
    BY <2>1, SumAdd
  <2>4. SumFunctionOnSet(g, T \cup {x}) = g[x] + SumFunctionOnSet(g, T)
    BY <2>1, SumAdd
  <2>5. SumFunctionOnSet(f, T) \in Int /\ SumFunctionOnSet(g, T) \in Int
    BY <2>1, SumType
  <2>6. h[x] = f[x] + g[x] /\ f[x] \in Int /\ g[x] \in Int
    OBVIOUS
  <2>7. SumFunctionOnSet(h, T) = SumFunctionOnSet(f, T) + SumFunctionOnSet(g, T)
    BY <1>2
  <2>8. SumFunctionOnSet(h, T \cup {x})
           = SumFunctionOnSet(f, T \cup {x}) + SumFunctionOnSet(g, T \cup {x})
    BY <2>2, <2>3, <2>4, <2>5, <2>6, <2>7
  <2> QED
    BY <2>8
<1>3. S \in G
  <2> HIDE DEF G
  <2> QED
    BY <1>1, <1>2, ByElements
<1> QED
  BY <1>3

(* A sum may be taken group by group.                                        *)
LEMMA SumByGroups ==
    ASSUME NEW S, IsFiniteSet(S), NEW f, \A x \in S : f[x] \in Int,
           NEW K, IsFiniteSet(K), NEW c, \A x \in S : c[x] \in K,
           NEW q, \A k \in K : q[k] = {x \in S : c[x] = k},
           NEW h, \A k \in K : h[k] = SumFunctionOnSet(f, q[k])
    PROVE  SumFunctionOnSet(f, S) = SumFunctionOnSet(h, K)
<1> DEFINE In(L) == {x \in S : c[x] \in L}
           G == {L \in SUBSET K : SumFunctionOnSet(f, In(L)) = SumFunctionOnSet(h, L)}
<1>1. {} \in G
  <2>1. In({}) = {}
    OBVIOUS
  <2>2. SumFunctionOnSet(f, In({})) = SumFunctionOnSet(h, {})
    BY <2>1, SumOfFew
  <2> QED
    BY <2>2
<1>2. ASSUME NEW L \in SUBSET K, NEW k \in K \ L, L \in G
      PROVE  L \cup {k} \in G
  <2>1. IsFiniteSet(In(L)) /\ IsFiniteSet(In({k})) /\ IsFiniteSet(L)
    BY FS_Subset
  <2>2. In(L \cup {k}) = In(L) \cup In({k}) /\ In(L) \cap In({k}) = {}
    OBVIOUS
  <2>3. In(L) \subseteq S /\ In({k}) \subseteq S /\ In({k}) = q[k]
    OBVIOUS
  <2>4. SumFunctionOnSet(f, In(L)) = SumFunctionOnSet(h, L)
    BY <1>2
  <2>5. \A m \in K : h[m] \in Int
    <3> TAKE m \in K
    <3>1. IsFiniteSet(q[m]) /\ q[m] \subseteq S
      BY FS_Subset
    <3>2. SumFunctionOnSet(f, q[m]) \in Int
      BY <3>1, SumType
    <3> QED
      BY <3>2
  <2>6. SumFunctionOnSet(h, L \cup {k}) = h[k] + SumFunctionOnSet(h, L)
    BY <2>1, <2>5, SumAdd
  <2>7. SumFunctionOnSet(h, L) \in Int
    BY <2>1, <2>5, SumType
  <2>8. SumFunctionOnSet(f, In({k})) = h[k]
    <3>1. h[k] = SumFunctionOnSet(f, q[k])
      OBVIOUS
    <3> HIDE DEF In
    <3> QED
      BY <2>3, <3>1
  <2>9. \A x \in In(L) \cup In({k}) : f[x] \in Int
    OBVIOUS
  <2> HIDE DEF In
  <2>10. SumFunctionOnSet(f, In(L) \cup In({k}))
           = SumFunctionOnSet(f, In(L)) + SumFunctionOnSet(f, In({k}))
    <3>1. PICK A, B : A = In(L) /\ B = In({k})
      OBVIOUS
    <3>2. /\ IsFiniteSet(A) /\ IsFiniteSet(B) /\ A \cap B = {}
          /\ \A x \in A \cup B : f[x] \in Int
      BY <2>1, <2>2, <2>9, <3>1
    <3>3. SumFunctionOnSet(f, A \cup B) = SumFunctionOnSet(f, A) + SumFunctionOnSet(f, B)
      BY <3>2, SumUnion
    <3> QED
      BY <3>1, <3>3
  <2>11. SumFunctionOnSet(f, In(L \cup {k}))
            = SumFunctionOnSet(f, In(L)) + SumFunctionOnSet(f, In({k}))
    BY <2>2, <2>10
  <2>12. SumFunctionOnSet(f, In(L \cup {k})) = SumFunctionOnSet(h, L \cup {k})
    BY <2>4, <2>5, <2>6, <2>7, <2>8, <2>11
  <2> QED
    BY <2>12 DEF In
<1>3. K \in G
  <2> HIDE DEF G
  <2> QED
    BY <1>1, <1>2, ByElements
<1>4. In(K) = S
  OBVIOUS
<1> QED
  BY <1>3, <1>4

(* A sum of zeros.                                                           *)
LEMMA SumOfZeros ==
    ASSUME NEW S, IsFiniteSet(S), NEW f, \A x \in S : f[x] = 0
    PROVE  SumFunctionOnSet(f, S) = 0
<1>1. \A x \in S : f[x] \in Int /\ f[x] = f[x] + f[x]
  OBVIOUS
<1>2. PICK n : n = SumFunctionOnSet(f, S)
  OBVIOUS
<1>3. n = n + n
  BY <1>1, <1>2, SumPlus
<1>4. n \in Int
  BY <1>1, <1>2, SumType
<1>5. n = 0
  BY <1>3, <1>4
<1> QED
  BY <1>2, <1>5
=============================================================================
