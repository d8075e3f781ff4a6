------------------------------- MODULE DbcSums -------------------------------
(***************************************************************************)
(* Facts about MapThenSumSet, the sum of Val over a finite set, for the    *)
(* proofs about amounts: consensus.rs and validation.rs add up outputs,    *)
(* fees and rewards with iterators, whose order must not matter.           *)
(*                                                                         *)
(* The library defines the sum by recursion, and its induction theorem     *)
(* takes a predicate as a parameter, which the provers cannot fill in.     *)
(* FiniteInduction below takes a SET of sets instead; it is what makes     *)
(* these facts provable.  An instance of this module is one sum.           *)
(***************************************************************************)
EXTENDS FiniteSetsExt, FiniteSetTheorems, TLAPS

CONSTANT Val(_)

Sum(S) == MapThenSumSet(Val, S)

\* What CHOOSE takes out first.
First(S) == CHOOSE x \in S : TRUE

\* g adds up the subsets of S, as the recursive function of the library does.
AddsUp(g, S) ==
    g = [T \in SUBSET S |-> IF T = {} THEN 0 ELSE Val(First(T)) + g[T \ {First(T)}]]

-----------------------------------------------------------------------------

\* Induction over the subsets of a finite set, the inductive hypothesis being
\* membership in F.
LEMMA StrongInduction ==
    ASSUME NEW S, IsFiniteSet(S), NEW F,
           \A T \in SUBSET S : (\A U \in SUBSET T : U # T => U \in F) => T \in F
    PROVE  S \in F
<1> DEFINE Bad == {T \in SUBSET S : T \notin F}
           Less == StrictSubsetOrdering(S)
<1>1. SUFFICES ASSUME S \notin F
               PROVE  FALSE
  OBVIOUS
<1>2. Bad # {} /\ Bad \subseteq SUBSET S
  BY <1>1
<1>3. IsWellFoundedOn(Less, SUBSET S)
  BY FS_StrictSubsetOrderingWellFounded, FS_FiniteSubsetsOfFinite
<1>4. PICK T \in Bad : \A U \in Bad : ~(<<U, T>> \in Less)
  <2> HIDE DEF Bad, Less
  <2> QED
    BY <1>2, <1>3, WFMin
<1>5. \A U \in SUBSET T : U # T => U \in F
  BY <1>4 DEF StrictSubsetOrdering
<1> QED
  BY <1>4, <1>5

\* The same, one element at a time.
LEMMA FiniteInduction ==
    ASSUME NEW S, IsFiniteSet(S), NEW F,
           {} \in F,
           \A T \in SUBSET S : \A x \in T : T \ {x} \in F => T \in F
    PROVE  S \in F
<1>1. ASSUME NEW T \in SUBSET S, \A U \in SUBSET T : U # T => U \in F
      PROVE  T \in F
  <2>1. CASE T = {}
    BY <2>1
  <2>2. CASE T # {}
    <3>1. PICK x : x \in T
      BY <2>2
    <3>2. T \ {x} \in F
      BY <1>1, <3>1
    <3> QED
      BY <3>1, <3>2
  <2> QED
    BY <2>1, <2>2
<1> QED
  BY <1>1, StrongInduction, Zenon

-----------------------------------------------------------------------------
(* The recursive definition defines a function, and the sums agree.        *)

LEMMA FirstIn == ASSUME NEW S, S # {} PROVE First(S) \in S
  BY DEF First

\* Two functions that add up agree on every finite set of both.
LEMMA AddsUpOnce ==
    ASSUME NEW A, NEW B, NEW g, NEW h, AddsUp(g, A), AddsUp(h, B),
           NEW S, IsFiniteSet(S), S \subseteq A, S \subseteq B
    PROVE  g[S] = h[S]
<1> DEFINE F == {T \in SUBSET S : g[T] = h[T]}
<1>1. ASSUME NEW T \in SUBSET S, \A U \in SUBSET T : U # T => U \in F
      PROVE  T \in F
  <2>1. /\ g[T] = IF T = {} THEN 0 ELSE Val(First(T)) + g[T \ {First(T)}]
        /\ h[T] = IF T = {} THEN 0 ELSE Val(First(T)) + h[T \ {First(T)}]
    <3>1. T \in SUBSET A /\ T \in SUBSET B
      OBVIOUS
    <3> QED
      BY <3>1, Zenon DEF AddsUp
  <2>2. T # {} => T \ {First(T)} \in F
    BY <1>1, FirstIn
  <2> QED
    BY <2>1, <2>2
<1>2. S \in F
  <2> HIDE DEF F
  <2> QED
    BY <1>1, StrongInduction, Zenon
<1> QED
  BY <1>2

\* Every finite set has a function that adds up its subsets.
LEMMA AddsUpExists ==
    ASSUME NEW S, IsFiniteSet(S)
    PROVE  \E g : AddsUp(g, S)
<1> DEFINE F == {T \in SUBSET S : \E g : AddsUp(g, T)}
<1>1. ASSUME NEW T \in SUBSET S, \A U \in SUBSET T : U # T => U \in F
      PROVE  T \in F
  <2> DEFINE adder(U) == CHOOSE g : AddsUp(g, U)
             rest == T \ {First(T)}
             h == [U \in SUBSET T |->
                     IF U # T THEN adder(U)[U]
                     ELSE IF T = {} THEN 0 ELSE Val(First(T)) + adder(rest)[rest]]
  <2>1. \A U \in SUBSET T : U # T => AddsUp(adder(U), U)
    BY <1>1
  <2>2. ASSUME NEW U \in SUBSET T
        PROVE  h[U] = IF U = {} THEN 0 ELSE Val(First(U)) + h[U \ {First(U)}]
    <3>1. CASE U = T
      <4>1. T # {} => rest # T /\ rest \in SUBSET T
        BY FirstIn
      <4> QED
        BY <3>1, <4>1
    <3>2. CASE U # T /\ U = {}
      <4>1. AddsUp(adder(U), U)
        BY <2>1, <3>2
      <4>2. adder(U)[U] = 0
        <5> HIDE DEF adder
        <5> QED
          BY <3>2, <4>1 DEF AddsUp
      <4> QED
        BY <3>2, <4>2
    <3>3. CASE U # T /\ U # {}
      <4> DEFINE V == U \ {First(U)}
      <4>1. First(U) \in U
        BY <3>3, FirstIn
      <4>2. V \in SUBSET T /\ V # T /\ V \subseteq U
        BY <4>1
      <4>3. AddsUp(adder(U), U) /\ AddsUp(adder(V), V)
        BY <2>1, <3>3, <4>2
      <4>4. IsFiniteSet(V)
        BY <4>2, FS_Subset
      <4>5. adder(U)[V] = adder(V)[V]
        <5> HIDE DEF adder, V
        <5> QED
          BY <4>2, <4>3, <4>4, AddsUpOnce
      <4>6. adder(U)[U] = Val(First(U)) + adder(U)[V]
        <5> HIDE DEF adder
        <5> QED
          BY <3>3, <4>3, Zenon DEF AddsUp
      <4>7. h[U] = adder(U)[U] /\ h[V] = adder(V)[V]
        BY <3>3, <4>2
      <4> QED
        BY <3>3, <4>5, <4>6, <4>7
    <3> QED
      BY <3>1, <3>2, <3>3
  <2>3. AddsUp(h, T)
    <3> HIDE DEF h
    <3>1. h = [U \in SUBSET T |-> h[U]]
      BY DEF h
    <3> QED
      BY <2>2, <3>1, Zenon DEF AddsUp
  <2> QED
    BY <2>3
<1>2. S \in F
  <2> HIDE DEF F
  <2> QED
    BY <1>1, StrongInduction, Zenon
<1> QED
  BY <1>2

\* The sum is what such a function says of the whole set.
LEMMA SumAddsUp ==
    ASSUME NEW S, IsFiniteSet(S)
    PROVE  \E g : AddsUp(g, S) /\ Sum(S) = g[S]
<1>1. \E g : AddsUp(g, S)
  BY AddsUpExists
<1> QED
  BY <1>1, Zenon DEF Sum, MapThenSumSet, MapThenFoldSet, AddsUp, First

-----------------------------------------------------------------------------
(* What sums are used for.                                                 *)

LEMMA SumEmpty == Sum({}) = 0
<1>1. PICK g : AddsUp(g, {}) /\ Sum({}) = g[{}]
  BY SumAddsUp, FS_EmptySet
<1> QED
  BY <1>1, Zenon DEF AddsUp

\* The first element is taken out.
LEMMA SumFirst ==
    ASSUME NEW S, IsFiniteSet(S), S # {}
    PROVE  Sum(S) = Val(First(S)) + Sum(S \ {First(S)})
<1> DEFINE R == S \ {First(S)}
<1>1. IsFiniteSet(R) /\ R \subseteq S
  BY FS_Subset
<1>2. PICK g : AddsUp(g, S) /\ Sum(S) = g[S]
  BY SumAddsUp
<1>3. PICK h : AddsUp(h, R) /\ Sum(R) = h[R]
  BY <1>1, SumAddsUp
<1>4. g[R] = h[R]
  <2> HIDE DEF R
  <2> QED
    BY <1>1, <1>2, <1>3, AddsUpOnce
<1>5. g[S] = Val(First(S)) + g[R]
  BY <1>2, Zenon DEF AddsUp
<1> QED
  BY <1>2, <1>3, <1>4, <1>5

\* A sum of integers is an integer.
LEMMA SumType ==
    ASSUME NEW S, IsFiniteSet(S), \A x \in S : Val(x) \in Int
    PROVE  Sum(S) \in Int
<1> DEFINE F == {T \in SUBSET S : Sum(T) \in Int}
<1>1. ASSUME NEW T \in SUBSET S, \A U \in SUBSET T : U # T => U \in F
      PROVE  T \in F
  <2>1. CASE T = {}
    BY <2>1, SumEmpty
  <2>2. CASE T # {}
    <3>1. First(T) \in T /\ T \ {First(T)} \in F
      BY <1>1, <2>2, FirstIn
    <3>2. IsFiniteSet(T)
      BY FS_Subset
    <3> QED
      BY <2>2, <3>1, <3>2, SumFirst
  <2> QED
    BY <2>1, <2>2
<1>2. S \in F
  <2> HIDE DEF F
  <2> QED
    BY <1>1, StrongInduction, Zenon
<1> QED
  BY <1>2

\* Any element can be taken out: the order does not matter.
LEMMA SumRemove ==
    ASSUME NEW S, IsFiniteSet(S), \A x \in S : Val(x) \in Int, NEW z \in S
    PROVE  Sum(S) = Val(z) + Sum(S \ {z})
<1> DEFINE F == {T \in SUBSET S : \A x \in T : Sum(T) = Val(x) + Sum(T \ {x})}
<1>1. ASSUME NEW T \in SUBSET S, \A U \in SUBSET T : U # T => U \in F, NEW x \in T
      PROVE  Sum(T) = Val(x) + Sum(T \ {x})
  <2> DEFINE y == First(T)
  <2>1. y \in T /\ Sum(T) = Val(y) + Sum(T \ {y})
    BY FS_Subset, FirstIn, SumFirst
  <2>2. CASE x = y
    BY <2>1, <2>2
  <2>3. CASE x # y
    <3> HIDE DEF y
    <3>1. /\ T \ {y} \in F /\ x \in T \ {y}
          /\ T \ {x} \in F /\ y \in T \ {x}
      BY <1>1, <2>1, <2>3
    <3>2. /\ Sum(T \ {y}) = Val(x) + Sum((T \ {y}) \ {x})
          /\ Sum(T \ {x}) = Val(y) + Sum((T \ {x}) \ {y})
      BY <3>1
    <3>3. (T \ {y}) \ {x} = (T \ {x}) \ {y}
      OBVIOUS
    <3>4. Sum((T \ {x}) \ {y}) \in Int
      <4>1. (T \ {x}) \ {y} \in SUBSET S
        OBVIOUS
      <4>2. IsFiniteSet((T \ {x}) \ {y})
        BY <4>1, FS_Subset
      <4> QED
        BY <4>1, <4>2, SumType
    <3>5. Val(x) \in Int /\ Val(y) \in Int
      BY <2>1
    <3>6. Sum(T) = Val(y) + (Val(x) + Sum((T \ {x}) \ {y}))
      BY <2>1, <3>2, <3>3, Zenon
    <3>7. Val(x) + Sum(T \ {x}) = Val(x) + (Val(y) + Sum((T \ {x}) \ {y}))
      BY <3>2, Zenon
    <3> QED
      BY <3>4, <3>5, <3>6, <3>7
  <2> QED
    BY <2>2, <2>3
<1>2. S \in F
  <2>1. \A T \in SUBSET S : (\A U \in SUBSET T : U # T => U \in F) => T \in F
    BY <1>1
  <2> HIDE DEF F
  <2> QED
    BY <2>1, StrongInduction, Zenon
<1> QED
  BY <1>2

\* An element is added.
LEMMA SumAdd ==
    ASSUME NEW S, IsFiniteSet(S), NEW x, x \notin S, \A y \in S \cup {x} : Val(y) \in Int
    PROVE  Sum(S \cup {x}) = Sum(S) + Val(x)
<1>1. IsFiniteSet(S \cup {x}) /\ (S \cup {x}) \ {x} = S
  BY FS_AddElement
<1>2. Sum(S) \in Int
  BY SumType
<1> QED
  BY <1>1, <1>2, SumRemove

\* The sum over two sets that share nothing.
LEMMA SumUnion ==
    ASSUME NEW S, IsFiniteSet(S), NEW R, IsFiniteSet(R), S \cap R = {},
           \A x \in S \cup R : Val(x) \in Int
    PROVE  Sum(S \cup R) = Sum(S) + Sum(R)
<1> DEFINE F == {T \in SUBSET R : Sum(S \cup T) = Sum(S) + Sum(T)}
<1>1. {} \in F
  <2>1. Sum(S) \in Int /\ S \cup {} = S
    BY SumType
  <2> QED
    BY <2>1, SumEmpty
<1>2. ASSUME NEW T \in SUBSET R, NEW x \in T, T \ {x} \in F
      PROVE  T \in F
  <2> DEFINE U == T \ {x}
  <2>1. IsFiniteSet(U) /\ IsFiniteSet(S \cup U) /\ x \notin U /\ x \notin S \cup U
    BY FS_Subset, FS_Union
  <2>2. T = U \cup {x} /\ S \cup T = (S \cup U) \cup {x}
    OBVIOUS
  <2>3. Sum(S) \in Int /\ Sum(U) \in Int /\ Val(x) \in Int
    BY <2>1, SumType
  <2>4. Sum(T) = Sum(U) + Val(x) /\ Sum(S \cup T) = Sum(S \cup U) + Val(x)
    <3> HIDE DEF U
    <3> QED
      BY <2>1, <2>2, SumAdd
  <2> QED
    BY <1>2, <2>3, <2>4
<1>3. R \in F
  <2>1. \A T \in SUBSET R : \A x \in T : T \ {x} \in F => T \in F
    BY <1>2
  <2> HIDE DEF F
  <2> QED
    BY <1>1, <2>1, FiniteInduction, Zenon
<1> QED
  BY <1>3

\* A part and the rest.
LEMMA SumDifference ==
    ASSUME NEW S, IsFiniteSet(S), NEW R \in SUBSET S, \A x \in S : Val(x) \in Int
    PROVE  /\ Sum(S) = Sum(R) + Sum(S \ R)
           /\ Sum(S \ R) = Sum(S) - Sum(R)
<1>1. /\ IsFiniteSet(R) /\ IsFiniteSet(S \ R)
      /\ R \cup (S \ R) = S /\ R \cap (S \ R) = {}
  BY FS_Subset
<1>2. Sum(S) = Sum(R) + Sum(S \ R)
  BY <1>1, SumUnion
<1>3. Sum(R) \in Int /\ Sum(S \ R) \in Int
  BY <1>1, SumType
<1> QED
  BY <1>2, <1>3

\* A sum of natural numbers is one, and grows with the set.
LEMMA SumNat ==
    ASSUME NEW S, IsFiniteSet(S), \A x \in S : Val(x) \in Nat
    PROVE  Sum(S) \in Nat
<1> DEFINE F == {T \in SUBSET S : Sum(T) \in Nat}
<1>1. {} \in F
  BY SumEmpty
<1>2. ASSUME NEW T \in SUBSET S, NEW x \in T, T \ {x} \in F
      PROVE  T \in F
  <2>1. Sum(T) = Val(x) + Sum(T \ {x})
    BY FS_Subset, SumRemove
  <2> QED
    BY <1>2, <2>1
<1>3. S \in F
  <2>1. \A T \in SUBSET S : \A x \in T : T \ {x} \in F => T \in F
    BY <1>2
  <2> HIDE DEF F
  <2> QED
    BY <1>1, <2>1, FiniteInduction, Zenon
<1> QED
  BY <1>3

LEMMA SumGrows ==
    ASSUME NEW S, IsFiniteSet(S), NEW R \in SUBSET S, \A x \in S : Val(x) \in Nat
    PROVE  Sum(R) <= Sum(S)
<1>1. Sum(R) \in Nat /\ Sum(S \ R) \in Nat
  BY FS_Subset, SumNat
<1> QED
  BY <1>1, SumDifference

\* Two sets together are worth no more than each of them added up.
LEMMA SumCover ==
    ASSUME NEW S, IsFiniteSet(S), NEW R, IsFiniteSet(R), \A x \in S \cup R : Val(x) \in Nat
    PROVE  Sum(S \cup R) <= Sum(S) + Sum(R)
<1>1. /\ S \cup R = S \cup (R \ S) /\ S \cap (R \ S) = {}
      /\ IsFiniteSet(R \ S) /\ R \ S \in SUBSET R
      /\ \A x \in S \cup (R \ S) : Val(x) \in Int
  BY FS_Subset
<1>2. Sum(S \cup R) = Sum(S) + Sum(R \ S)
  <2>1. Sum(S \cup (R \ S)) = Sum(S) + Sum(R \ S)
    BY <1>1, SumUnion
  <2> QED
    BY <1>1, <2>1
<1>3. Sum(R \ S) <= Sum(R)
  BY <1>1, SumGrows
<1>4. Sum(S) \in Nat /\ Sum(R) \in Nat /\ Sum(R \ S) \in Nat
  BY <1>1, SumNat
<1> QED
  BY <1>2, <1>3, <1>4
=============================================================================
