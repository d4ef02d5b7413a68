-------------------------- MODULE NaturalRecursion ---------------------------
(***************************************************************************)
(* Least numbers, induction over a set and recursive functions, stated     *)
(* without an operator parameter so that the provers can apply them.       *)
(***************************************************************************)
EXTENDS Naturals, FiniteSets, FiniteSetTheorems, WellFoundedInduction, TLAPS

\* A set of natural numbers has a least one.
LEMMA Least ==
  ASSUME NEW S \in SUBSET Nat, S # {}
  PROVE  \E n \in S : \A m \in S : n <= m
<1> DEFINE R == OpToRel(<, Nat)
<1>1. IsWellFoundedOn(R, Nat)
  BY NatLessThanWellFounded
<1>2. \A x, y \in Nat : y < x => <<y, x>> \in R
  BY DEF OpToRel
<1> HIDE DEF R
<1>3. PICK x \in S : \A y \in S : ~ (<<y, x>> \in R)
  BY <1>1, WFMin
<1>4. \A y \in S : ~ (y < x)
  BY <1>2, <1>3
<1> QED BY <1>4

\* A set of numbers with a bound has a greatest one.
LEMMA Greatest ==
  ASSUME NEW n \in Nat, NEW S \in SUBSET (0..n), S # {}
  PROVE  \E k \in S : \A m \in S : m <= k
<1> DEFINE T == {n - k : k \in S}
<1>1. T \in SUBSET Nat /\ T # {}
  <2>1. \A k \in S : n - k \in Nat
    OBVIOUS
  <2> QED BY <2>1
<1>2. PICK d \in T : \A e \in T : d <= e
  BY <1>1, Least
<1>3. PICK k \in S : d = n - k
  BY <1>2
<1>4. \A m \in S : n - k <= n - m
  BY <1>2, <1>3
<1> QED BY <1>4

\* Induction, over a set.
LEMMA Induction ==
  ASSUME NEW S, 0 \in S, \A n \in Nat : n \in S => n + 1 \in S
  PROVE  Nat \subseteq S
<1> SUFFICES ASSUME Nat \ S # {} PROVE FALSE
  OBVIOUS
<1>1. PICK n \in Nat \ S : \A m \in Nat \ S : n <= m
  BY Least
<1>2. n # 0 /\ n - 1 \in Nat
  OBVIOUS
<1>3. n - 1 \in S
  BY <1>1, <1>2
<1>4. n - 1 + 1 = n
  OBVIOUS
<1> QED BY <1>2, <1>3, <1>4

\* f starts with a, and each value comes from the one before it.
Recurs(f, a, l, step) == f[0] = a /\ \A i \in 1..l : f[i] = step[i][f[i - 1]]

\* A recursive function over 0..l exists, whatever its step.
LEMMA Recursion ==
  ASSUME NEW A, NEW a \in A, NEW l \in Nat, NEW step \in [1..l -> [A -> A]]
  PROVE  \E f \in [0..l -> A] : Recurs(f, a, l, step)
<1> DEFINE Upto(k) == \E f \in [0..k -> A] : f[0] = a /\ \A i \in 1..k : f[i] = step[i][f[i - 1]]
           S == {k \in Nat : k <= l => Upto(k)}
<1>1. 0 \in S
  <2> DEFINE f == [i \in 0..0 |-> a]
  <2>1. f \in [0..0 -> A] /\ f[0] = a /\ 1..0 = {}
    OBVIOUS
  <2> HIDE DEF f
  <2> QED BY <2>1
<1>2. ASSUME NEW k \in Nat, k \in S
      PROVE  k + 1 \in S
  <2> SUFFICES ASSUME k + 1 <= l PROVE Upto(k + 1)
    OBVIOUS
  <2>1. PICK f \in [0..k -> A] : f[0] = a /\ \A i \in 1..k : f[i] = step[i][f[i - 1]]
    BY <1>2
  <2> DEFINE g == [i \in 0..(k + 1) |-> IF i = k + 1 THEN step[k + 1][f[k]] ELSE f[i]]
  <2>2. step[k + 1] \in [A -> A] /\ f[k] \in A
    BY <2>1
  <2>3. g \in [0..(k + 1) -> A]
    BY <2>1, <2>2
  <2>4. g[0] = a /\ g[k + 1] = step[k + 1][f[k]] /\ \A i \in 0..k : g[i] = f[i]
    BY <2>1
  <2> HIDE DEF g
  <2>5. ASSUME NEW i \in 1..(k + 1)
        PROVE  g[i] = step[i][g[i - 1]]
    <3>1. CASE i = k + 1
      <4>1. i - 1 = k /\ k \in 0..k
        BY <3>1
      <4> QED BY <2>4, <3>1, <4>1
    <3>2. CASE i \in 1..k
      <4>1. i \in 0..k /\ i - 1 \in 0..k
        BY <3>2
      <4> QED BY <2>1, <2>4, <3>2, <4>1
    <3> QED BY <3>1, <3>2
  <2> QED BY <2>3, <2>4, <2>5
<1> HIDE DEF S
<1>3. Nat \subseteq S
  BY <1>1, <1>2, Induction
<1> QED BY <1>3 DEF S, Recurs

-----------------------------------------------------------------------------
(* The folds of the community modules take the elements of a finite set one at a time, *)
(* in the order of a choice function.                                                   *)

\* pick names an element of every non-empty part of S.
Picks(pick, S) == \A T \in SUBSET S : T # {} => pick[T] \in T

\* What holds of the empty set, and of every part once it holds without the element picked
\* from it, holds of every part.
LEMMA PickInduction ==
  ASSUME NEW S, IsFiniteSet(S), NEW pick, Picks(pick, S), NEW P, {} \in P,
         \A T \in SUBSET S : T # {} /\ T \ {pick[T]} \in P => T \in P
  PROVE  SUBSET S \subseteq P
<1> DEFINE N == {n \in Nat : \A T \in SUBSET S : Cardinality(T) = n => T \in P}
<1>1. \A T \in SUBSET S : IsFiniteSet(T)
  BY FS_Subset
<1>2. 0 \in N
  BY <1>1, FS_EmptySet
<1>3. ASSUME NEW n \in Nat, n \in N
      PROVE  n + 1 \in N
  <2> SUFFICES ASSUME NEW T \in SUBSET S, Cardinality(T) = n + 1
               PROVE  T \in P
    OBVIOUS
  <2>1. T # {} /\ IsFiniteSet(T)
    BY <1>1, FS_EmptySet
  <2>2. pick[T] \in T
    BY <2>1 DEF Picks
  <2>3. Cardinality(T \ {pick[T]}) = n
    <3>1. Cardinality(T \ {pick[T]}) = Cardinality(T) - 1
      BY <2>1, <2>2, FS_RemoveElement, Zenon
    <3> QED BY <3>1
  <2> QED BY <1>3, <2>1, <2>3
<1> HIDE DEF N
<1>4. Nat \subseteq N
  BY <1>2, <1>3, Induction
<1>5. ASSUME NEW T \in SUBSET S
      PROVE  T \in P
  BY <1>1, <1>4, FS_CardinalityType DEF N
<1> QED BY <1>5

\* A fold, as the function of the parts of S that its definition chooses.
FoldedBy(f, a, pick, step, S) ==
  \A T \in SUBSET S : f[T] = IF T = {} THEN a ELSE step[pick[T]][f[T \ {pick[T]}]]

\* There is such a function.
LEMMA SetRecursion ==
  ASSUME NEW S, IsFiniteSet(S), NEW pick, Picks(pick, S), NEW A, NEW a \in A,
         NEW step \in [S -> [A -> A]]
  PROVE  \E f \in [SUBSET S -> A] : FoldedBy(f, a, pick, step, S)
<1> DEFINE F == [SUBSET S -> A]
           l == Cardinality(S)
           next == [g \in F |-> [T \in SUBSET S |->
                      IF T = {} THEN a ELSE step[pick[T]][g[T \ {pick[T]}]]]]
           steps == [i \in 1..l |-> next]
           base == [T \in SUBSET S |-> a]
<1>1. l \in Nat /\ \A T \in SUBSET S : IsFiniteSet(T) /\ Cardinality(T) \in 0..l
  <2>1. l \in Nat
    BY FS_CardinalityType
  <2>2. ASSUME NEW T \in SUBSET S
        PROVE  IsFiniteSet(T) /\ Cardinality(T) \in 0..l
    <3>1. IsFiniteSet(T) /\ Cardinality(T) <= l
      BY FS_Subset
    <3> QED BY <2>1, <3>1, FS_CardinalityType
  <2> QED BY <2>1, <2>2
<1>2. next \in [F -> F]
  <2>1. ASSUME NEW g \in F, NEW T \in SUBSET S, T # {}
        PROVE  step[pick[T]][g[T \ {pick[T]}]] \in A
    <3>1. pick[T] \in S
      BY <2>1 DEF Picks
    <3> QED BY <2>1, <3>1
  <2> QED BY <2>1
<1>3. \A g \in F, T \in SUBSET S :
        next[g][T] = IF T = {} THEN a ELSE step[pick[T]][g[T \ {pick[T]}]]
  OBVIOUS
<1>4. base \in F /\ \A T \in SUBSET S : base[T] = a
  OBVIOUS
<1> HIDE DEF next, base, l
<1>5. steps \in [1..l -> [F -> F]] /\ \A i \in 1..l : steps[i] = next
  BY <1>2
<1> HIDE DEF steps
<1>6. PICK h \in [0..l -> F] : Recurs(h, base, l, steps)
  BY <1>1, <1>4, <1>5, Recursion
<1>7. \A i \in 1..l : h[i] = next[h[i - 1]] /\ h[i - 1] \in F
  <2>1. \A i \in 1..l : i - 1 \in 0..l
    BY <1>1
  <2> QED BY <1>5, <1>6, <2>1 DEF Recurs
<1> DEFINE P == {T \in SUBSET S : \A i \in Cardinality(T)..l : h[i][T] = h[l][T]}
<1>8. {} \in P
  <2>1. ASSUME NEW i \in 0..l
        PROVE  h[i][{}] = a
    <3>1. CASE i = 0
      BY <1>4, <1>6, <3>1 DEF Recurs
    <3>2. CASE i \in 1..l
      <4>1. h[i] = next[h[i - 1]] /\ h[i - 1] \in F /\ {} \in SUBSET S
        BY <1>7, <3>2
      <4>2. next[h[i - 1]][{}] = a
        BY <1>3, <4>1
      <4> QED BY <4>1, <4>2
    <3> QED BY <1>1, <3>1, <3>2
  <2>2. l \in 0..l /\ Cardinality({}) = 0
    BY <1>1, FS_EmptySet
  <2> QED BY <2>1, <2>2
<1>9. ASSUME NEW T \in SUBSET S, T # {}, T \ {pick[T]} \in P
      PROVE  T \in P
  <2> DEFINE U == T \ {pick[T]}
  <2>1. pick[T] \in T /\ U \in SUBSET S
    BY <1>9 DEF Picks
  <2>2. Cardinality(U) = Cardinality(T) - 1 /\ Cardinality(T) \in 1..l
    <3>1. Cardinality(U) = Cardinality(T) - 1
      BY <1>1, <2>1, FS_RemoveElement, Zenon
    <3>2. Cardinality(T) # 0 /\ Cardinality(T) \in 0..l
      BY <1>1, <1>9, FS_EmptySet
    <3> QED BY <1>1, <3>1, <3>2
  <2>3. ASSUME NEW i \in Cardinality(T)..l
        PROVE  h[i][T] = h[l][T]
    <3>1. i \in 1..l /\ l \in 1..l /\ i - 1 \in Cardinality(U)..l /\ l - 1 \in Cardinality(U)..l
      BY <1>1, <2>2
    <3>2. h[i - 1][U] = h[l][U] /\ h[l - 1][U] = h[l][U]
      BY <1>9, <3>1
    <3>3. h[i][T] = step[pick[T]][h[i - 1][U]] /\ h[l][T] = step[pick[T]][h[l - 1][U]]
      <4>1. h[i] = next[h[i - 1]] /\ h[i - 1] \in F
        BY <1>7, <3>1
      <4>2. h[l] = next[h[l - 1]] /\ h[l - 1] \in F
        BY <1>7, <3>1
      <4>3. \A g \in F : next[g][T] = step[pick[T]][g[U]]
        BY <1>3, <1>9
      <4> HIDE DEF F, U
      <4> QED BY <4>1, <4>2, <4>3
    <3> QED BY <3>2, <3>3
  <2> QED BY <2>3
<1> HIDE DEF P
<1>10. SUBSET S \subseteq P
  BY <1>8, <1>9, PickInduction
<1>11. h[l] \in F
  <2>1. l \in 0..l
    BY <1>1
  <2> QED BY <1>6, <2>1
<1>12. ASSUME NEW T \in SUBSET S
       PROVE  h[l][T] = IF T = {} THEN a ELSE step[pick[T]][h[l][T \ {pick[T]}]]
  <2>1. CASE T = {}
    <3>1. Cardinality(T) = 0 /\ 0 \in 0..l
      BY <1>1, <2>1, FS_EmptySet
    <3>2. h[0][T] = h[l][T]
      BY <1>10, <3>1 DEF P
    <3> QED BY <1>4, <1>6, <2>1, <3>2 DEF Recurs
  <2>2. CASE T # {}
    <3>1. pick[T] \in T /\ T \ {pick[T]} \in SUBSET S
      BY <2>2 DEF Picks
    <3>2. Cardinality(T \ {pick[T]}) = Cardinality(T) - 1 /\ Cardinality(T) \in 1..l
      <4>1. Cardinality(T \ {pick[T]}) = Cardinality(T) - 1
        BY <1>1, <3>1, FS_RemoveElement, Zenon
      <4>2. Cardinality(T) # 0 /\ Cardinality(T) \in 0..l
        BY <1>1, <2>2, FS_EmptySet
      <4> QED BY <1>1, <4>1, <4>2
    <3>3. l \in 1..l /\ l - 1 \in Cardinality(T \ {pick[T]})..l
      BY <1>1, <3>2
    <3>4. h[l - 1][T \ {pick[T]}] = h[l][T \ {pick[T]}]
      BY <1>10, <3>1, <3>3 DEF P
    <3>5. h[l] = next[h[l - 1]] /\ h[l - 1] \in F
      BY <1>7, <3>3
    <3>6. next[h[l - 1]][T] = step[pick[T]][h[l - 1][T \ {pick[T]}]]
      BY <1>3, <2>2, <3>5
    <3> QED BY <2>2, <3>4, <3>5, <3>6
  <2> QED BY <2>1, <2>2
<1> QED BY <1>11, <1>12 DEF FoldedBy

\* A fold stays in a set that its start is in and its steps do not leave.
LEMMA FoldStays ==
  ASSUME NEW S, IsFiniteSet(S), NEW pick, Picks(pick, S), NEW A, NEW g, g[{}] \in A,
         \A T \in SUBSET S : T # {} /\ g[T \ {pick[T]}] \in A => g[T] \in A
  PROVE  \A T \in SUBSET S : g[T] \in A
<1> DEFINE P == {T \in SUBSET S : g[T] \in A}
<1>1. {} \in P
  OBVIOUS
<1>2. \A T \in SUBSET S : T # {} /\ T \ {pick[T]} \in P => T \in P
  OBVIOUS
<1> HIDE DEF P
<1>3. SUBSET S \subseteq P
  BY <1>1, <1>2, PickInduction
<1> QED BY <1>3 DEF P
=============================================================================
