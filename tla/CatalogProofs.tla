--------------------------- MODULE CatalogProofs ---------------------------
(***************************************************************************)
(* A scan of the instances of a template is complete and in order, however *)
(* long it takes and whatever is created and destroyed meanwhile; and a    *)
(* handle finds what it created.  For every map of routes, every set of    *)
(* calls and every size of a page.  First the orders, the pages, split and *)
(* join, each on its own; then the scan.                                   *)
(***************************************************************************)
EXTENDS Catalog, NaturalRecursion

-----------------------------------------------------------------------------
(* The order of strings and of keys. *)

\* R is a strict total order of A.
Orders(R, A) ==
  /\ \A x \in A : <<x, x>> \notin R
  /\ \A x, y, z \in A : <<x, y>> \in R /\ <<y, z>> \in R => <<x, z>> \in R
  /\ \A x, y \in A : x = y \/ <<x, y>> \in R \/ <<y, x>> \in R

\* The order of sequences whose elements R orders.
Lex(R, s, t) ==
  \E i \in 1..Len(t) :
    /\ i <= Len(s) + 1
    /\ \A j \in 1..(i - 1) : s[j] = t[j]
    /\ i <= Len(s) => <<s[i], t[i]>> \in R

\* Sequences of the same length with the same elements.
LEMMA SameSequence ==
  ASSUME NEW A, NEW s \in Seq(A), NEW t \in Seq(A), Len(s) = Len(t),
         \A i \in 1..Len(s) : s[i] = t[i]
  PROVE  s = t
OBVIOUS

LEMMA LexTransitive ==
  ASSUME NEW A, NEW R, Orders(R, A), NEW s \in Seq(A), NEW t \in Seq(A), NEW u \in Seq(A),
         Lex(R, s, t), Lex(R, t, u)
  PROVE  Lex(R, s, u)
<1>1. PICK i \in 1..Len(t) :
        /\ i <= Len(s) + 1
        /\ \A j \in 1..(i - 1) : s[j] = t[j]
        /\ i <= Len(s) => <<s[i], t[i]>> \in R
  BY DEF Lex
<1>2. PICK k \in 1..Len(u) :
        /\ k <= Len(t) + 1
        /\ \A j \in 1..(k - 1) : t[j] = u[j]
        /\ k <= Len(t) => <<t[k], u[k]>> \in R
  BY DEF Lex
<1>3. Len(s) \in Nat /\ Len(t) \in Nat /\ Len(u) \in Nat
  OBVIOUS
<1>4. CASE i < k
  <2>1. i \in 1..Len(u) /\ t[i] = u[i]
    BY <1>2, <1>3, <1>4
  <2>2. \A j \in 1..(i - 1) : s[j] = u[j]
    BY <1>1, <1>2, <1>3, <1>4
  <2> QED BY <1>1, <2>1, <2>2 DEF Lex
<1>5. CASE i = k
  <2>1. \A j \in 1..(i - 1) : s[j] = u[j]
    BY <1>1, <1>2, <1>5
  <2>2. ASSUME i <= Len(s)
        PROVE  <<s[i], u[i]>> \in R
    <3>1. s[i] \in A /\ t[i] \in A /\ u[i] \in A
      BY <1>5, <2>2
    <3> QED BY <1>1, <1>2, <1>5, <2>2, <3>1 DEF Orders
  <2> QED BY <1>1, <1>5, <2>1, <2>2 DEF Lex
<1>6. CASE k < i
  <2>1. k <= Len(s) /\ k <= Len(t) /\ s[k] = t[k]
    BY <1>1, <1>3, <1>6
  <2>2. \A j \in 1..(k - 1) : s[j] = u[j]
    BY <1>1, <1>2, <1>3, <1>6
  <2>3. k <= Len(s) + 1 /\ <<s[k], u[k]>> \in R
    BY <1>2, <1>3, <2>1
  <2> QED BY <2>2, <2>3 DEF Lex
<1> QED BY <1>3, <1>4, <1>5, <1>6

\* A sequence comes before its extensions.
LEMMA LexShorter ==
  ASSUME NEW A, NEW R, NEW s \in Seq(A), NEW t \in Seq(A), Len(s) < Len(t),
         \A i \in 1..Len(s) : s[i] = t[i]
  PROVE  Lex(R, s, t)
<1>1. PICK n \in 1..Len(t) : n = Len(s) + 1
  OBVIOUS
<1>2. n <= Len(s) + 1 /\ ~(n <= Len(s)) /\ \A j \in 1..(n - 1) : s[j] = t[j]
  BY <1>1
<1> QED BY <1>2 DEF Lex

LEMMA LexTotal ==
  ASSUME NEW A, NEW R, Orders(R, A), NEW s \in Seq(A), NEW t \in Seq(A), s # t
  PROVE  Lex(R, s, t) \/ Lex(R, t, s)
<1> DEFINE D == {i \in Nat \ {0} : i <= Len(s) /\ i <= Len(t) /\ s[i] # t[i]}
<1>1. Len(s) \in Nat /\ Len(t) \in Nat
  OBVIOUS
<1>2. CASE D = {}
  <2>1. \A i \in 1..Len(s) : i <= Len(t) => s[i] = t[i]
    BY <1>1, <1>2
  <2>2. Len(s) # Len(t)
    BY <2>1, SameSequence
  <2>3. CASE Len(s) < Len(t)
    BY <1>1, <2>1, <2>3, LexShorter
  <2>4. CASE Len(t) < Len(s)
    <3>1. \A i \in 1..Len(t) : t[i] = s[i]
      BY <1>1, <2>1, <2>4
    <3> QED BY <2>4, <3>1, LexShorter
  <2> QED BY <1>1, <2>2, <2>3, <2>4
<1>3. CASE D # {}
  <2>1. PICK i \in D : \A k \in D : i <= k
    <3>1. D \in SUBSET Nat
      OBVIOUS
    <3> HIDE DEF D
    <3> QED BY <1>3, <3>1, Least
  <2>2. i \in 1..Len(s) /\ i \in 1..Len(t) /\ s[i] # t[i]
    BY <1>1, <2>1
  <2>3. \A j \in 1..(i - 1) : s[j] = t[j]
    BY <1>1, <2>1, <2>2
  <2>4. <<s[i], t[i]>> \in R \/ <<t[i], s[i]>> \in R
    <3>1. s[i] \in A /\ t[i] \in A
      BY <2>2
    <3> QED BY <2>2, <3>1 DEF Orders
  <2>5. i <= Len(s) + 1 /\ i <= Len(t) + 1
    BY <1>1, <2>2
  <2> HIDE DEF D
  <2> QED BY <2>2, <2>3, <2>4, <2>5 DEF Lex
<1> QED BY <1>2, <1>3

LEMMA LexOrders ==
  ASSUME NEW A, NEW R, Orders(R, A)
  PROVE  Orders({p \in Seq(A) \X Seq(A) : Lex(R, p[1], p[2])}, Seq(A))
<1> DEFINE L == {p \in Seq(A) \X Seq(A) : Lex(R, p[1], p[2])}
<1>1. ASSUME NEW s \in Seq(A), Lex(R, s, s)
      PROVE  FALSE
  <2>1. PICK i \in 1..Len(s) : <<s[i], s[i]>> \in R
    BY <1>1 DEF Lex
  <2> QED BY <2>1 DEF Orders
<1>2. \A s, t \in Seq(A) : <<s, t>> \in L <=> Lex(R, s, t)
  OBVIOUS
<1> HIDE DEF L
<1>3. Orders(L, Seq(A))
  BY <1>1, <1>2, LexTransitive, LexTotal DEF Orders
<1> QED BY <1>3 DEF L

Smaller == {p \in Nat \X Nat : p[1] < p[2]}
StringOrder == {p \in Seq(Nat) \X Seq(Nat) : Before(p[1], p[2])}
KeyOrder == {p \in Seq(Seq(Nat)) \X Seq(Seq(Nat)) : KeyBefore(p[1], p[2])}

\* Both comparisons are strict total orders.
LEMMA StringsOrdered ==
  /\ Orders(StringOrder, Seq(Nat))
  /\ \A s, t \in Seq(Nat) : <<s, t>> \in StringOrder <=> Before(s, t)
<1>1. Orders(Smaller, Nat)
  BY DEF Orders, Smaller
<1>2. ASSUME NEW s \in Seq(Nat), NEW t \in Seq(Nat)
      PROVE  Before(s, t) <=> Lex(Smaller, s, t)
  <2>1. \A i \in 1..Len(t) : i <= Len(s) => (s[i] < t[i] <=> <<s[i], t[i]>> \in Smaller)
    BY DEF Smaller
  <2> QED BY <2>1 DEF Before, Lex
<1>3. StringOrder = {p \in Seq(Nat) \X Seq(Nat) : Lex(Smaller, p[1], p[2])}
  BY <1>2 DEF StringOrder
<1> QED BY <1>1, <1>3, LexOrders DEF StringOrder

LEMMA KeysOrdered ==
  /\ Orders(KeyOrder, Seq(Seq(Nat)))
  /\ \A k, l \in Seq(Seq(Nat)) : <<k, l>> \in KeyOrder <=> KeyBefore(k, l)
<1>1. ASSUME NEW k \in Seq(Seq(Nat)), NEW l \in Seq(Seq(Nat))
      PROVE  KeyBefore(k, l) <=> Lex(StringOrder, k, l)
  <2>1. \A i \in 1..Len(l) : i <= Len(k) => (Before(k[i], l[i]) <=> <<k[i], l[i]>> \in StringOrder)
    BY StringsOrdered
  <2> QED BY <2>1 DEF KeyBefore, Lex
<1>2. KeyOrder = {p \in Seq(Seq(Nat)) \X Seq(Seq(Nat)) : Lex(StringOrder, p[1], p[2])}
  BY <1>1 DEF KeyOrder
<1> QED BY <1>2, StringsOrdered, LexOrders DEF KeyOrder

-----------------------------------------------------------------------------
(* The elements of a finite set in order. *)

\* The rank of an element is the number of those before it; every rank is taken.
LEMMA Ranked ==
  ASSUME NEW A, NEW R, Orders(R, A), NEW S \in SUBSET A, IsFiniteSet(S),
         NEW n, n = Cardinality(S),
         NEW rank, rank = [x \in S |-> Cardinality({y \in S : <<y, x>> \in R})]
  PROVE  /\ n \in Nat /\ rank \in [S -> 0..(n - 1)]
         /\ \A i \in 1..n : \E x \in S : rank[x] = i - 1
         /\ \A x, y \in S : rank[x] < rank[y] => <<x, y>> \in R
         /\ \A x, y \in S : rank[x] = rank[y] => x = y
<1> DEFINE below(x) == {y \in S : <<y, x>> \in R}
<1>0. \A x, y \in S : x = y \/ <<x, y>> \in R \/ <<y, x>> \in R
  BY DEF Orders
<1>1. n \in Nat
  BY FS_CardinalityType
<1>2. ASSUME NEW x \in S
      PROVE  IsFiniteSet(below(x)) /\ rank[x] = Cardinality(below(x)) /\ rank[x] \in 0..(n - 1)
  <2>1. below(x) \in SUBSET (S \ {x})
    BY DEF Orders
  <2>2. IsFiniteSet(S \ {x}) /\ Cardinality(S \ {x}) = n - 1
    BY FS_RemoveElement
  <2>3. rank[x] = Cardinality(below(x))
    OBVIOUS
  <2> HIDE DEF below
  <2>4. IsFiniteSet(below(x)) /\ Cardinality(below(x)) <= n - 1
    BY <2>1, <2>2, FS_Subset
  <2>5. Cardinality(below(x)) \in Nat
    BY <2>4, FS_CardinalityType
  <2> QED BY <1>1, <2>3, <2>4, <2>5
<1>3. ASSUME NEW x \in S, NEW y \in S, <<x, y>> \in R
      PROVE  rank[x] < rank[y]
  <2>1. below(x) \cup {x} \subseteq below(y) /\ x \notin below(x)
    BY <1>3 DEF Orders
  <2> HIDE DEF below
  <2>2. /\ IsFiniteSet(below(x) \cup {x})
        /\ Cardinality(below(x) \cup {x}) = Cardinality(below(x)) + 1
    BY <1>2, <2>1, FS_AddElement
  <2>3. Cardinality(below(x) \cup {x}) <= Cardinality(below(y))
    BY <1>2, <2>1, FS_Subset
  <2>4. rank[x] \in Nat /\ rank[y] \in Nat
    <3>1. rank[x] \in 0..(n - 1) /\ rank[y] \in 0..(n - 1)
      BY <1>2
    <3> QED BY <1>1, <3>1
  <2> QED BY <1>2, <2>2, <2>3, <2>4
<1>4. rank \in [S -> 0..(n - 1)]
  BY <1>2
<1> HIDE DEF below
<1>5. \A x, y \in S : rank[x] < rank[y] => <<x, y>> \in R
  <2> SUFFICES ASSUME NEW x \in S, NEW y \in S, rank[x] < rank[y]
               PROVE  <<x, y>> \in R
    OBVIOUS
  <2>1. rank[x] \in 0..(n - 1) /\ rank[y] \in 0..(n - 1)
    BY <1>2
  <2>2. x # y
    <3> SUFFICES ASSUME x = y PROVE FALSE
      OBVIOUS
    <3> QED BY <1>1, <2>1
  <2>3. <<y, x>> \notin R
    <3> SUFFICES ASSUME <<y, x>> \in R PROVE FALSE
      OBVIOUS
    <3>1. rank[y] < rank[x]
      BY <1>3
    <3> QED BY <1>1, <2>1, <3>1
  <2> QED BY <1>0, <2>2, <2>3
<1>6. \A x, y \in S : rank[x] = rank[y] => x = y
  <2> SUFFICES ASSUME NEW x \in S, NEW y \in S, rank[x] = rank[y]
               PROVE  x = y
    OBVIOUS
  <2>1. rank[x] \in 0..(n - 1) /\ rank[y] \in 0..(n - 1)
    BY <1>2
  <2>2. ASSUME <<x, y>> \in R PROVE FALSE
    <3>1. rank[x] < rank[y]
      BY <1>3, <2>2
    <3> QED BY <1>1, <2>1, <3>1
  <2>3. ASSUME <<y, x>> \in R PROVE FALSE
    <3>1. rank[y] < rank[x]
      BY <1>3, <2>3
    <3> QED BY <1>1, <2>1, <3>1
  <2> QED BY <1>0, <2>2, <2>3
<1>7. ASSUME NEW i \in 1..n
      PROVE  \E x \in S : rank[x] = i - 1
  <2>1. IsFiniteSet(0..(n - 1)) /\ Cardinality(0..(n - 1)) = n
    <3>1. 0 \in Int /\ n - 1 \in Int
      BY <1>1
    <3>2. IsFiniteSet(0..(n - 1)) /\ Cardinality(0..(n - 1)) = IF 0 > n - 1 THEN 0 ELSE (n - 1) - 0 + 1
      BY <3>1, FS_Interval
    <3> QED BY <1>1, <3>2
  <2>2. rank \in Injection(S, 0..(n - 1))
    BY <1>4, <1>6 DEF Injection, IsInjective
  <2>3. rank \in Surjection(S, 0..(n - 1))
    BY <2>1, <2>2, FS_Injection
  <2>4. i - 1 \in 0..(n - 1)
    BY <1>1
  <2> QED BY <2>3, <2>4 DEF Surjection
<1> QED BY <1>1, <1>4, <1>5, <1>6, <1>7

RankOf(S, R) == [x \in S |-> Cardinality({y \in S : <<y, x>> \in R})]

\* So there is an element of each rank.
LEMMA EveryRank ==
  ASSUME NEW A, NEW R, Orders(R, A), NEW S \in SUBSET A, IsFiniteSet(S)
  PROVE  \A i \in 1..Cardinality(S) : \E x \in S : RankOf(S, R)[x] = i - 1
<1> DEFINE n == Cardinality(S)
           rank == RankOf(S, R)
<1>1. n = Cardinality(S) /\ rank = [x \in S |-> Cardinality({y \in S : <<y, x>> \in R})]
  BY DEF RankOf
<1> HIDE DEF n, rank
<1>2. \A i \in 1..n : \E x \in S : rank[x] = i - 1
  BY <1>1, Ranked
<1> QED BY <1>2 DEF n, rank

\* s lists the elements of S, each once, in the order R.
Lists(s, S, R) ==
  /\ s \in [1..Cardinality(S) -> S] /\ Cardinality(S) \in Nat
  /\ \A x \in S : \E i \in 1..Cardinality(S) : s[i] = x
  /\ \A i, j \in 1..Cardinality(S) : i < j => <<s[i], s[j]>> \in R

LEMMA ListedByRank ==
  ASSUME NEW A, NEW R, Orders(R, A), NEW S \in SUBSET A, IsFiniteSet(S),
         NEW s, DOMAIN s = 1..Cardinality(S), s = [i \in 1..Cardinality(S) |-> s[i]],
         \A i \in 1..Cardinality(S) :
           s[i] \in S /\ Cardinality({y \in S : <<y, s[i]>> \in R}) = i - 1
  PROVE  Lists(s, S, R)
<1> DEFINE n == Cardinality(S)
           rank == [x \in S |-> Cardinality({y \in S : <<y, x>> \in R})]
<1>1. \A i \in 1..n : rank[s[i]] = i - 1
  OBVIOUS
<1>a. n = Cardinality(S) /\ rank = [x \in S |-> Cardinality({y \in S : <<y, x>> \in R})]
  OBVIOUS
<1> HIDE DEF rank, n
<1>2. /\ n \in Nat /\ rank \in [S -> 0..(n - 1)]
      /\ \A i \in 1..n : \E x \in S : rank[x] = i - 1
      /\ \A x, y \in S : rank[x] < rank[y] => <<x, y>> \in R
      /\ \A x, y \in S : rank[x] = rank[y] => x = y
  BY <1>a, Ranked
<1>3. s \in [1..n -> S]
  BY DEF n
<1>4. \A x \in S : \E i \in 1..n : s[i] = x
  <2> SUFFICES ASSUME NEW x \in S PROVE \E i \in 1..n : s[i] = x
    OBVIOUS
  <2>1. rank[x] \in 0..(n - 1)
    BY <1>2
  <2>2. PICK i \in 1..n : i = rank[x] + 1
    BY <1>2, <2>1
  <2>3. rank[s[i]] = i - 1 /\ s[i] \in S
    BY <1>1, <1>3
  <2>4. rank[s[i]] = rank[x]
    BY <2>1, <2>2, <2>3
  <2> QED BY <1>2, <2>3, <2>4
<1>5. \A i, j \in 1..n : i < j => <<s[i], s[j]>> \in R
  <2> SUFFICES ASSUME NEW i \in 1..n, NEW j \in 1..n, i < j
               PROVE  <<s[i], s[j]>> \in R
    OBVIOUS
  <2>1. s[i] \in S /\ s[j] \in S
    BY <1>3
  <2>2. rank[s[i]] = i - 1 /\ rank[s[j]] = j - 1
    BY <1>1
  <2>3. rank[s[i]] < rank[s[j]]
    BY <1>2, <2>2
  <2> QED BY <1>2, <2>1, <2>3
<1> QED BY <1>2, <1>3, <1>4, <1>5 DEF Lists, n

\* Keys as a storage sorts them.
LEMMA KeysListed ==
  ASSUME NEW S \in SUBSET Seq(Seq(Nat)), IsFiniteSet(S)
  PROVE  Lists(Sorted(S, KeyBefore), S, KeyOrder)
<1> DEFINE n == Cardinality(S)
           s == Sorted(S, KeyBefore)
           rank == RankOf(S, KeyOrder)
<1>0. Orders(KeyOrder, Seq(Seq(Nat)))
  BY KeysOrdered
<1>a. \A k, l \in Seq(Seq(Nat)) : <<k, l>> \in KeyOrder <=> KeyBefore(k, l)
  BY KeysOrdered
<1>1. \A x \in S : Cardinality({y \in S : KeyBefore(y, x)}) = rank[x]
  <2> SUFFICES ASSUME NEW x \in S
               PROVE  {y \in S : KeyBefore(y, x)} = {y \in S : <<y, x>> \in KeyOrder}
    BY DEF RankOf
  <2> QED BY <1>a
<1>2. s = [i \in 1..n |-> CHOOSE x \in S : Cardinality({y \in S : KeyBefore(y, x)}) = i - 1]
  BY DEF Sorted
<1>3. \A i \in 1..n : \E x \in S : rank[x] = i - 1
  BY <1>0, EveryRank
<1> HIDE DEF rank, s, n
<1>4. \A i \in 1..n : \E x \in S : Cardinality({y \in S : KeyBefore(y, x)}) = i - 1
  BY <1>1, <1>3
<1>5. ASSUME NEW i \in 1..n
      PROVE  s[i] \in S /\ Cardinality({y \in S : KeyBefore(y, s[i])}) = i - 1
  <2>1. s[i] = CHOOSE x \in S : Cardinality({y \in S : KeyBefore(y, x)}) = i - 1
    BY <1>2
  <2> QED BY <1>4, <2>1
<1>6. \A i \in 1..n : s[i] \in S /\ rank[s[i]] = i - 1
  BY <1>1, <1>5
<1>7. \A i \in 1..n : s[i] \in S /\ Cardinality({y \in S : <<y, s[i]>> \in KeyOrder}) = i - 1
  BY <1>6 DEF rank, RankOf
<1>8. DOMAIN s = 1..n /\ s = [i \in 1..n |-> s[i]]
  <2> DEFINE e(i) == CHOOSE x \in S : Cardinality({y \in S : KeyBefore(y, x)}) = i - 1
  <2>1. s = [i \in 1..n |-> e(i)]
    BY <1>2
  <2> HIDE DEF e
  <2> QED BY <2>1
<1> QED BY <1>0, <1>7, <1>8, ListedByRank DEF s, n

-----------------------------------------------------------------------------
(* A page. *)

\* p has the first m of the n keys of s, and the last of them as its cursor if there are more.
Begins(p, s, S, n, m) ==
  /\ p.keys \in [1..m -> S] /\ p.keys \in Seq(S)
  /\ \A i \in 1..m : p.keys[i] = s[i]
  /\ m < n => m >= 1
  /\ p.cursor = IF m < n THEN s[m] ELSE None

\* A page is a beginning of the keys, with something on it if there is anything.
LEMMA Beginning ==
  ASSUME NEW S, NEW n \in Nat, NEW s \in [1..n -> S], NEW limit,
         limit = None \/ limit \in Nat \ {0}, NEW p, p = PageOf(s, limit)
  PROVE  \E m \in 0..n : Begins(p, s, S, n, m)
<1> DEFINE page == IF limit = None THEN s ELSE Sliced(s, limit)
           cursor == IF page # << >> /\ Len(page) < Len(s) THEN page[Len(page)] ELSE None
<1>1. s \in Seq(S) /\ Len(s) = n /\ DOMAIN s = 1..n
  OBVIOUS
<1>2. p = [keys |-> page, cursor |-> cursor]
  BY DEF PageOf
<1>3. CASE limit = None \/ limit > Len(s)
  <2>1. page = s
    BY <1>1, <1>3 DEF Sliced
  <2>2. cursor = None
    BY <1>1, <2>1
  <2> HIDE DEF page, cursor
  <2>3. Begins(p, s, S, n, n)
    BY <1>1, <1>2, <2>1, <2>2 DEF Begins
  <2> QED BY <2>3
<1>4. CASE limit # None /\ ~(limit > Len(s))
  <2>1. limit \in Nat /\ limit >= 1 /\ limit <= n
    BY <1>1, <1>4
  <2>2. page = SubSeq(s, 1, limit)
    BY <1>1, <1>4, <2>1 DEF Sliced
  <2>3. /\ page \in Seq(S) /\ Len(page) = limit /\ page \in [1..limit -> S]
        /\ \A i \in 1..limit : page[i] = s[i]
    <3> HIDE DEF page
    <3>1. page = [i \in 1..limit |-> s[i]]
      BY <1>1, <2>1, <2>2
    <3>2. \A i \in 1..limit : s[i] \in S
      BY <2>1
    <3> QED BY <2>1, <3>1, <3>2
  <2>4. page # << >>
    BY <2>1, <2>3
  <2>5. cursor = IF limit < n THEN s[limit] ELSE None
    BY <1>1, <2>1, <2>3, <2>4
  <2> HIDE DEF page, cursor
  <2>6. Begins(p, s, S, n, limit)
    BY <1>2, <2>1, <2>3, <2>5 DEF Begins
  <2> QED BY <2>1, <2>6
<1> QED BY <1>3, <1>4

\* The keys that a scan from a cursor is about.
Ahead(keys, prefix, cursor) ==
  {k \in keys : HasPrefix(k, prefix) /\ (cursor = None \/ KeyBefore(cursor, k))}

\* A page has some of the keys it is about, in order, and leaves none behind: one that it
\* does not have comes after its cursor.
Serves(page, S) ==
  /\ page.keys \in Seq(S) /\ page.cursor \in S \cup {None}
  /\ \A i, j \in DOMAIN page.keys : i < j => KeyBefore(page.keys[i], page.keys[j])
  /\ page.cursor # None =>
       \A i \in DOMAIN page.keys :
         page.keys[i] = page.cursor \/ KeyBefore(page.keys[i], page.cursor)
  /\ \A k \in S :
       \/ \E i \in DOMAIN page.keys : page.keys[i] = k
       \/ page.cursor # None /\ KeyBefore(page.cursor, k)

LEMMA PageHas ==
  ASSUME NEW keys \in SUBSET Seq(Seq(Nat)), IsFiniteSet(keys), NEW prefix, NEW cursor, NEW limit,
         limit = None \/ limit \in Nat \ {0},
         NEW page, page = MemoryPage(keys, prefix, None, cursor, limit)
  PROVE  Serves(page, Ahead(keys, prefix, cursor))
<1> DEFINE S == Ahead(keys, prefix, cursor)
           s == Sorted(S, KeyBefore)
           n == Cardinality(S)
<1>1. S \in SUBSET keys /\ S \in SUBSET Seq(Seq(Nat)) /\ IsFiniteSet(S)
  <2>1. S \in SUBSET keys
    BY DEF Ahead
  <2> QED BY <2>1, FS_Subset
<1>2. page = PageOf(s, limit)
  <2>1. S = {k \in keys : /\ HasPrefix(k, prefix)
                          /\ cursor = None \/ KeyBefore(cursor, k)
                          /\ None = None \/ ~KeyBefore(k, None)}
    BY DEF Ahead
  <2> QED BY <2>1 DEF MemoryPage
<1> HIDE DEF S, Serves
<1>3. /\ s \in [1..n -> S] /\ n \in Nat
      /\ \A x \in S : \E i \in 1..n : s[i] = x
      /\ \A i, j \in 1..n : i < j => <<s[i], s[j]>> \in KeyOrder
  BY <1>1, KeysListed DEF Lists
<1> HIDE DEF s, n
<1>4. \A i, j \in 1..n : i < j => KeyBefore(s[i], s[j])
  BY <1>1, <1>3, KeysOrdered
<1>a. PICK m \in 0..n : Begins(page, s, S, n, m)
  BY <1>2, <1>3, Beginning
<1>5. /\ page.keys \in [1..m -> S] /\ page.keys \in Seq(S)
      /\ \A i \in 1..m : page.keys[i] = s[i]
      /\ m < n => m >= 1
      /\ page.cursor = IF m < n THEN s[m] ELSE None
  BY <1>a DEF Begins
<1>6. DOMAIN page.keys = 1..m /\ m \in Nat /\ m <= n
  BY <1>3, <1>5
<1>7. \A i, j \in DOMAIN page.keys : i < j => KeyBefore(page.keys[i], page.keys[j])
  <2> SUFFICES ASSUME NEW i \in DOMAIN page.keys, NEW j \in DOMAIN page.keys, i < j
               PROVE  KeyBefore(page.keys[i], page.keys[j])
    OBVIOUS
  <2>0. i \in 1..m /\ j \in 1..m
    BY <1>6
  <2>1. i \in 1..n /\ j \in 1..n
    BY <1>3, <1>6, <2>0
  <2>2. page.keys[i] = s[i] /\ page.keys[j] = s[j]
    BY <1>5, <2>0
  <2> QED BY <1>4, <2>1, <2>2
<1>8. CASE m = n
  <2>1. page.cursor = None
    BY <1>3, <1>5, <1>8
  <2>2. \A k \in S : \E i \in DOMAIN page.keys : page.keys[i] = k
    BY <1>3, <1>5, <1>6, <1>8
  <2> QED BY <1>5, <1>7, <2>1, <2>2 DEF S, Serves
<1>9. CASE m < n
  <2>1. m \in 1..n /\ page.cursor = s[m] /\ page.cursor \in S
    BY <1>3, <1>5, <1>6, <1>9
  <2>2. page.cursor # None
    BY <1>1, <2>1, CatalogAssumption
  <2>3. ASSUME NEW i \in DOMAIN page.keys
        PROVE  page.keys[i] = page.cursor \/ KeyBefore(page.keys[i], page.cursor)
    <3>1. i \in 1..m /\ i \in 1..n /\ page.keys[i] = s[i]
      BY <1>3, <1>5, <1>6
    <3>2. CASE i = m
      BY <2>1, <3>1, <3>2
    <3>3. CASE i < m
      BY <1>4, <2>1, <3>1, <3>3
    <3> QED BY <3>1, <3>2, <3>3
  <2>4. ASSUME NEW k \in S
        PROVE  (\E i \in DOMAIN page.keys : page.keys[i] = k) \/ KeyBefore(page.cursor, k)
    <3>1. PICK i \in 1..n : s[i] = k
      BY <1>3
    <3>2. CASE i <= m
      <4>1. i \in DOMAIN page.keys /\ page.keys[i] = k
        BY <1>5, <1>6, <3>1, <3>2
      <4> QED BY <4>1
    <3>3. CASE m < i
      BY <1>4, <2>1, <3>1, <3>3
    <3> QED BY <1>3, <1>6, <3>1, <3>2, <3>3
  <2> QED BY <1>5, <1>7, <2>1, <2>2, <2>3, <2>4 DEF S, Serves
<1> QED BY <1>3, <1>5, <1>8, <1>9

-----------------------------------------------------------------------------
(* split("/"): the strings between the slashes. *)

\* Numbers in order.
LEMMA NumbersListed ==
  ASSUME NEW S \in SUBSET Nat, IsFiniteSet(S)
  PROVE  Lists(Sorted(S, <), S, Smaller)
<1> DEFINE n == Cardinality(S)
           s == Sorted(S, <)
           rank == RankOf(S, Smaller)
<1>0. Orders(Smaller, Nat)
  BY DEF Orders, Smaller
<1>a. \A k, l \in Nat : <<k, l>> \in Smaller <=> k < l
  BY DEF Smaller
<1>1. \A x \in S : Cardinality({y \in S : y < x}) = rank[x]
  <2> SUFFICES ASSUME NEW x \in S
               PROVE  {y \in S : y < x} = {y \in S : <<y, x>> \in Smaller}
    BY DEF RankOf
  <2> QED BY <1>a
<1>2. s = [i \in 1..n |-> CHOOSE x \in S : Cardinality({y \in S : y < x}) = i - 1]
  BY DEF Sorted
<1>3. \A i \in 1..n : \E x \in S : rank[x] = i - 1
  <2>1. PICK A, Q, T : A = Nat /\ Q = Smaller /\ T = S
    OBVIOUS
  <2>2. T \in SUBSET A /\ Orders(Q, A) /\ IsFiniteSet(T)
    BY <1>0, <2>1
  <2>3. \A i \in 1..Cardinality(T) : \E x \in T : RankOf(T, Q)[x] = i - 1
    BY <2>2, EveryRank
  <2> QED BY <2>1, <2>3
<1> HIDE DEF rank, s, n
<1>4. \A i \in 1..n : \E x \in S : Cardinality({y \in S : y < x}) = i - 1
  BY <1>1, <1>3
<1>5. ASSUME NEW i \in 1..n
      PROVE  s[i] \in S /\ Cardinality({y \in S : y < s[i]}) = i - 1
  <2>1. s[i] = CHOOSE x \in S : Cardinality({y \in S : y < x}) = i - 1
    BY <1>2
  <2> QED BY <1>4, <2>1
<1>6. \A i \in 1..n : s[i] \in S /\ rank[s[i]] = i - 1
  BY <1>1, <1>5
<1>7. \A i \in 1..n : s[i] \in S /\ Cardinality({y \in S : <<y, s[i]>> \in Smaller}) = i - 1
  BY <1>6 DEF rank, RankOf
<1>8. DOMAIN s = 1..n /\ s = [i \in 1..n |-> s[i]]
  <2> DEFINE e(i) == CHOOSE x \in S : Cardinality({y \in S : y < x}) = i - 1
  <2>1. s = [i \in 1..n |-> e(i)]
    BY <1>2
  <2> HIDE DEF e
  <2> QED BY <2>1
<1> QED BY <1>0, <1>7, <1>8, ListedByRank DEF s, n

\* A set is listed in one way only.
LEMMA ListedOnce ==
  ASSUME NEW A, NEW R, Orders(R, A), NEW S \in SUBSET A, NEW s, NEW t,
         Lists(s, S, R), Lists(t, S, R)
  PROVE  s = t
<1> DEFINE n == Cardinality(S)
           D == {i \in 1..n : s[i] # t[i]}
<1>1. n \in Nat /\ s \in [1..n -> S] /\ t \in [1..n -> S]
  BY DEF Lists
<1>2. CASE D = {}
  BY <1>1, <1>2
<1>3. CASE D # {}
  <2>1. PICK i \in D : \A k \in D : i <= k
    <3>1. D \in SUBSET Nat
      BY <1>1
    <3> HIDE DEF D
    <3> QED BY <1>3, <3>1, Least
  <2>2. i \in 1..n /\ s[i] # t[i] /\ \A k \in 1..n : k < i => s[k] = t[k]
    BY <1>1, <2>1
  <2>3. s[i] \in S /\ t[i] \in S
    BY <1>1, <2>2
  <2>4. PICK j \in 1..n : t[j] = s[i]
    BY <2>3 DEF Lists
  <2>5. PICK k \in 1..n : s[k] = t[i]
    BY <2>3 DEF Lists
  <2> HIDE DEF D, n
  <2>a. /\ \A p, q \in 1..n : p < q => <<s[p], s[q]>> \in R
        /\ \A p, q \in 1..n : p < q => <<t[p], t[q]>> \in R
    BY DEF Lists, n
  <2>b. \A x \in S : <<x, x>> \notin R
    BY DEF Orders
  <2>c. \A x, y \in S : <<x, y>> \in R /\ <<y, x>> \in R => FALSE
    BY DEF Orders
  <2>6. ~(j < i)
    <3> SUFFICES ASSUME j < i PROVE FALSE
      OBVIOUS
    <3>1. s[j] = s[i]
      BY <2>2, <2>4
    <3>2. <<s[j], s[i]>> \in R
      BY <2>2, <2>a
    <3> QED BY <2>3, <2>b, <3>1, <3>2
  <2>7. ~(k < i)
    <3> SUFFICES ASSUME k < i PROVE FALSE
      OBVIOUS
    <3>1. t[k] = t[i]
      BY <2>2, <2>5
    <3>2. <<t[k], t[i]>> \in R
      BY <2>2, <2>a
    <3> QED BY <2>3, <2>b, <3>1, <3>2
  <2>8. i < j /\ i < k
    BY <1>1, <2>2, <2>4, <2>5, <2>6, <2>7
  <2>9. <<t[i], s[i]>> \in R /\ <<s[i], t[i]>> \in R
    BY <2>2, <2>4, <2>5, <2>8, <2>a
  <2> QED BY <2>3, <2>9, <2>c
<1> QED BY <1>2, <1>3

\* Where a string is cut.
Cuts(s) == {0, Len(s) + 1} \cup {i \in DOMAIN s : s[i] = Slash}

\* The list of the cuts of s.
CutAt(s) == Sorted(Cuts(s), <)

LEMMA CutsListed ==
  ASSUME NEW s \in Seq(Nat)
  PROVE  /\ Cuts(s) \in SUBSET (0..(Len(s) + 1)) /\ IsFiniteSet(Cuts(s))
         /\ Lists(CutAt(s), Cuts(s), Smaller)
         /\ Segments(s) = [i \in 1..(Len(CutAt(s)) - 1) |->
                             SubSeq(s, CutAt(s)[i] + 1, CutAt(s)[i + 1] - 1)]
<1>1. Len(s) \in Nat /\ DOMAIN s = 1..Len(s)
  OBVIOUS
<1>2. Cuts(s) \in SUBSET (0..(Len(s) + 1))
  BY <1>1 DEF Cuts
<1>3. IsFiniteSet(0..(Len(s) + 1))
  BY <1>1, FS_Interval
<1>4. IsFiniteSet(Cuts(s))
  BY <1>2, <1>3, FS_Subset
<1>5. Cuts(s) \in SUBSET Nat
  BY <1>1, <1>2
<1> QED BY <1>2, <1>4, <1>5, NumbersListed DEF Segments, CutAt, Cuts

\* A part of a string.
LEMMA PartOf ==
  ASSUME NEW s \in Seq(Nat), NEW a \in Nat, NEW b \in Nat, a < b, b <= Len(s) + 1
  PROVE  /\ SubSeq(s, a + 1, b - 1) \in Seq(Nat)
         /\ Len(SubSeq(s, a + 1, b - 1)) = b - 1 - a
         /\ \A q \in 1..(b - 1 - a) : SubSeq(s, a + 1, b - 1)[q] = s[a + q]
<1>1. PICK m, n \in Nat : m = a + 1 /\ n = b - 1
  OBVIOUS
<1>2. m \in 1..(Len(s) + 1) /\ n \in 0..Len(s) /\ m <= n + 1
  BY <1>1
<1>3. SubSeq(s, m, n) \in Seq(Nat) /\ Len(SubSeq(s, m, n)) = n - m + 1
  BY <1>2
<1>4. \A q \in 1..(n - m + 1) : SubSeq(s, m, n)[q] = s[m + q - 1]
  BY <1>2
<1>5. n - m + 1 = b - 1 - a /\ \A q \in Nat : m + q - 1 = a + q
  BY <1>1
<1> HIDE <1>4
<1> QED BY <1>1, <1>3, <1>4, <1>5

\* The segments of a string are strings without a slash.
LEMMA SegmentsAre ==
  ASSUME NEW s \in Seq(Nat)
  PROVE  /\ Segments(s) \in Seq(Seq(Nat)) /\ Len(Segments(s)) >= 1
         /\ \A i \in DOMAIN Segments(s) :
              \A q \in DOMAIN Segments(s)[i] : Segments(s)[i][q] # Slash
<1> DEFINE C == Cuts(s)
           c == CutAt(s)
           m == Cardinality(C)
           l == Len(s)
<1>1. l \in Nat /\ DOMAIN s = 1..l
  OBVIOUS
<1>2. /\ C \in SUBSET (0..(l + 1))
      /\ 0 \in C /\ l + 1 \in C /\ \A i \in 1..l : s[i] = Slash => i \in C
  BY <1>1, CutsListed DEF Cuts
<1>3. /\ c \in [1..m -> C] /\ m \in Nat
      /\ \A x \in C : \E i \in 1..m : c[i] = x
      /\ \A i, j \in 1..m : i < j => <<c[i], c[j]>> \in Smaller
  BY CutsListed DEF Lists
<1>4. Segments(s) = [i \in 1..(Len(c) - 1) |-> SubSeq(s, c[i] + 1, c[i + 1] - 1)]
  BY CutsListed
<1> HIDE DEF C, c, m, l
<1>5. \A i, j \in 1..m : i < j => c[i] < c[j]
  <2>1. \A x, y : <<x, y>> \in Smaller => x < y
    BY DEF Smaller
  <2> QED BY <1>3, <2>1
<1>6. Len(c) = m /\ \A i \in 1..m : c[i] \in 0..(l + 1)
  <2>1. c \in [1..m -> C] /\ m \in Nat
    BY <1>3
  <2>2. Len(c) = m
    BY <2>1
  <2> QED BY <1>2, <2>1, <2>2
<1>7. m >= 2
  <2>1. PICK i \in 1..m : c[i] = 0
    BY <1>2, <1>3
  <2>2. PICK j \in 1..m : c[j] = l + 1
    BY <1>2, <1>3
  <2>3. i # j
    BY <1>1, <2>1, <2>2
  <2> QED BY <1>3, <2>3
<1> DEFINE seg(i) == SubSeq(s, c[i] + 1, c[i + 1] - 1)
<1>8. ASSUME NEW i \in 1..(m - 1)
      PROVE  /\ seg(i) \in Seq(Nat) /\ Len(seg(i)) = c[i + 1] - 1 - c[i]
             /\ \A q \in 1..(c[i + 1] - 1 - c[i]) : seg(i)[q] = s[c[i] + q]
             /\ c[i] \in Nat /\ c[i + 1] \in Nat /\ c[i] < c[i + 1] /\ c[i + 1] <= l + 1
  <2>1. i \in 1..m /\ i + 1 \in 1..m /\ i < i + 1
    BY <1>3
  <2>2. c[i] \in Nat /\ c[i + 1] \in Nat /\ c[i] < c[i + 1] /\ c[i + 1] <= l + 1
    BY <1>1, <1>5, <1>6, <2>1
  <2>3. PICK a, b \in Nat : a = c[i] /\ b = c[i + 1]
    BY <2>2
  <2>4. /\ SubSeq(s, a + 1, b - 1) \in Seq(Nat)
        /\ Len(SubSeq(s, a + 1, b - 1)) = b - 1 - a
        /\ \A q \in 1..(b - 1 - a) : SubSeq(s, a + 1, b - 1)[q] = s[a + q]
    BY <2>2, <2>3, PartOf DEF l
  <2> QED BY <2>2, <2>3, <2>4
<1>9. Segments(s) = [i \in 1..(m - 1) |-> seg(i)]
  BY <1>4, <1>6
<1> HIDE DEF seg
<1>10. Segments(s) \in Seq(Seq(Nat)) /\ Len(Segments(s)) = m - 1 /\ DOMAIN Segments(s) = 1..(m - 1)
  BY <1>3, <1>7, <1>8, <1>9
<1>11. ASSUME NEW i \in 1..(m - 1), NEW q \in DOMAIN seg(i), seg(i)[q] = Slash
       PROVE  FALSE
  <2>1. q \in 1..(c[i + 1] - 1 - c[i]) /\ c[i] \in Nat /\ c[i + 1] \in Nat /\ c[i + 1] <= l + 1
    BY <1>8, <1>11
  <2>2. PICK p \in 1..l : p = c[i] + q
    BY <1>1, <2>1
  <2>3. s[p] = Slash
    BY <1>8, <1>11, <2>1, <2>2
  <2>4. PICK j \in 1..m : c[j] = p
    BY <1>2, <1>3, <2>3
  <2>5. c[i] < c[j] /\ c[j] < c[i + 1]
    BY <2>1, <2>2, <2>4
  <2>6. i \in 1..m /\ i + 1 \in 1..m
    BY <1>3
  <2>7. ~(j < i) /\ j # i /\ ~(i + 1 < j) /\ j # i + 1
    <3>1. \A k \in 1..m : c[k] \in Nat
      BY <1>1, <1>6
    <3> QED BY <1>5, <2>5, <2>6, <3>1
  <2> QED BY <1>3, <2>6, <2>7
<1> QED BY <1>3, <1>7, <1>9, <1>10, <1>11

-----------------------------------------------------------------------------
(* join("/") *)

Glued(s, t) == s \o <<Slash>> \o t

\* Greatest elements, as the fold over a sequence picks them.
LEMMA MaxPicks ==
  ASSUME NEW l \in Nat
  PROVE  /\ \A T \in SUBSET (1..l) : T # {} => Max(T) \in T
         /\ \A i \in 1..l : Max(1..i) = i /\ (1..i) \ {i} = 1..(i - 1)
<1>1. ASSUME NEW T \in SUBSET (1..l), T # {}
      PROVE  Max(T) \in T
  <2>0. T \in SUBSET (0..l)
    OBVIOUS
  <2>1. PICK k \in T : \A m \in T : m <= k
    BY <1>1, <2>0, Greatest
  <2>2. \A m \in T : k >= m
    BY <2>1
  <2> QED BY <2>2 DEF Max
<1>2. ASSUME NEW i \in 1..l
      PROVE  Max(1..i) = i /\ (1..i) \ {i} = 1..(i - 1)
  <2>1. i \in 1..i /\ \A m \in 1..i : i >= m
    OBVIOUS
  <2>2. \A k \in 1..i : (\A m \in 1..i : k >= m) => k = i
    BY <2>1
  <2>3. Max(1..i) = i
    BY <2>1, <2>2 DEF Max
  <2>4. (1..i) \ {i} = 1..(i - 1)
    OBVIOUS
  <2> QED BY <2>3, <2>4
<1> QED BY <1>1, <1>2

\* The segments are glued one after the other.
GluedSteps(h, v, s) ==
  /\ h[0] = v /\ h[Len(s)] = FoldLeft(Glued, v, s)
  /\ \A i \in 1..Len(s) : h[i] = Glued(h[i - 1], s[i])

LEMMA JoinedSteps ==
  ASSUME NEW A, NEW G, NEW v \in G, NEW s \in Seq(A),
         \A e \in A, w \in G : Glued(w, e) \in G
  PROVE  \E h \in [0..Len(s) -> G] : GluedSteps(h, v, s)
<1> DEFINE l == Len(s)
           D == DOMAIN s
           pick == [T \in SUBSET D |-> Max(T)]
           step == [i \in D |-> [w \in G |-> Glued(w, s[i])]]
           It(f) == f = [T \in SUBSET D |-> IF T = {} THEN v
                           ELSE LET x == Max(T) IN Glued(f[T \ {x}], s[x])]
           g == CHOOSE f : It(f)
           h == [i \in 0..l |-> g[1..i]]
<1>1. l \in Nat /\ D = 1..l /\ IsFiniteSet(D) /\ \A i \in D : s[i] \in A
  <2>1. l \in Nat /\ D = 1..l
    OBVIOUS
  <2>2. IsFiniteSet(1..l)
    BY <2>1, FS_Interval
  <2>3. \A i \in D : s[i] \in A
    OBVIOUS
  <2> QED BY <2>1, <2>2, <2>3
<1>2. FoldLeft(Glued, v, s) = g[D]
  BY DEF FoldLeft, MapThenFoldSet
<1> HIDE DEF l, D
<1>3. \A T \in SUBSET D : pick[T] = Max(T)
  OBVIOUS
<1>4. Picks(pick, D)
  BY <1>1, <1>3, MaxPicks DEF Picks
<1>5. step \in [D -> [G -> G]] /\ \A i \in D, w \in G : step[i][w] = Glued(w, s[i])
  BY <1>1
<1> HIDE DEF pick, step
<1>6. PICK f \in [SUBSET D -> G] : FoldedBy(f, v, pick, step, D)
  BY <1>1, <1>4, <1>5, SetRecursion
<1>7. ASSUME NEW T \in SUBSET D
      PROVE  f[T] = IF T = {} THEN v
                     ELSE Glued(f[T \ {pick[T]}], s[pick[T]])
  <2>1. T # {} => pick[T] \in D /\ f[T \ {pick[T]}] \in G
    BY <1>4, <1>6 DEF Picks
  <2>2. f[T] = IF T = {} THEN v ELSE step[pick[T]][f[T \ {pick[T]}]]
    BY <1>6 DEF FoldedBy
  <2> QED BY <1>5, <2>1, <2>2
<1>8. It(f)
  BY <1>3, <1>6, <1>7
<1>9. It(g)
  BY <1>8
<1> HIDE DEF g
<1>10. \A T \in SUBSET D : g[T] = IF T = {} THEN v ELSE Glued(g[T \ {pick[T]}], s[pick[T]])
  BY <1>3, <1>9
<1>11. ASSUME NEW T \in SUBSET D, T # {}, g[T \ {pick[T]}] \in G
       PROVE  g[T] \in G
  <2>1. pick[T] \in D
    BY <1>4, <1>11 DEF Picks
  <2>2. Glued(g[T \ {pick[T]}], s[pick[T]]) \in G
    BY <1>1, <1>11, <2>1
  <2> QED BY <1>10, <1>11, <2>2
<1>12. g[{}] = v
  <2>1. {} \in SUBSET D
    OBVIOUS
  <2> QED BY <1>10, <2>1
<1>13. \A T \in SUBSET D : g[T] \in G
  BY <1>1, <1>4, <1>11, <1>12, FoldStays
<1>14. \A i \in 0..l : 1..i \in SUBSET D /\ h[i] = g[1..i]
  BY <1>1
<1>15. h \in [0..l -> G]
  BY <1>13, <1>14
<1>16. ASSUME NEW i \in 1..l
       PROVE  h[i] = Glued(h[i - 1], s[i])
  <2>1. 1..i \in SUBSET D /\ 1..i # {} /\ Max(1..i) = i /\ (1..i) \ {i} = 1..(i - 1)
    <3>1. Max(1..i) = i /\ (1..i) \ {i} = 1..(i - 1)
      BY <1>1, MaxPicks
    <3>2. i \in 1..i /\ 1..i \in SUBSET D
      BY <1>1
    <3> QED BY <3>1, <3>2
  <2>2. pick[1..i] = i
    BY <1>3, <2>1
  <2>3. g[1..i] = Glued(g[1..(i - 1)], s[i])
    BY <1>10, <2>1, <2>2
  <2>4. i \in 0..l /\ i - 1 \in 0..l
    BY <1>1
  <2> QED BY <1>14, <2>3, <2>4
<1>17. h[0] = v /\ h[l] = g[D]
  <2>1. 0 \in 0..l /\ l \in 0..l /\ 1..0 = {}
    BY <1>1
  <2> QED BY <1>1, <1>12, <1>14, <2>1
<1> HIDE DEF h
<1>18. GluedSteps(h, v, s)
  BY <1>2, <1>16, <1>17 DEF l, GluedSteps
<1> QED BY <1>15, <1>18 DEF l

\* What gluing gives.
LEMMA GluedAt ==
  ASSUME NEW s \in Seq(Nat), NEW t \in Seq(Nat)
  PROVE  /\ Glued(s, t) \in Seq(Nat) /\ Len(Glued(s, t)) = Len(s) + 1 + Len(t)
         /\ \A p \in 1..Len(s) : Glued(s, t)[p] = s[p]
         /\ Glued(s, t)[Len(s) + 1] = Slash
         /\ \A q \in 1..Len(t) : Glued(s, t)[Len(s) + 1 + q] = t[q]
<1> DEFINE r == s \o <<Slash>>
<1>1. Slash \in Nat
  BY CatalogAssumption
<1>2. /\ r \in Seq(Nat) /\ Len(r) = Len(s) + 1
      /\ \A p \in 1..Len(s) : r[p] = s[p]
      /\ r[Len(s) + 1] = Slash
  BY <1>1
<1>3. Glued(s, t) = r \o t
  BY DEF Glued
<1> HIDE DEF r
<1>4. /\ r \o t \in Seq(Nat) /\ Len(r \o t) = Len(r) + Len(t)
      /\ \A p \in 1..Len(r) : (r \o t)[p] = r[p]
      /\ \A q \in 1..Len(t) : (r \o t)[Len(r) + q] = t[q]
  <2>1. r \in Seq(Nat) /\ t \in Seq(Nat)
    BY <1>2
  <2>2. r \o t \in Seq(Nat) /\ Len(r \o t) = Len(r) + Len(t)
    BY <2>1
  <2>3. \A p \in 1..Len(r) : (r \o t)[p] = r[p]
    BY <2>1
  <2>4. \A q \in 1..Len(t) : (r \o t)[Len(r) + q] = t[q]
    BY <2>1
  <2> QED BY <2>2, <2>3, <2>4
<1>5. Len(s) \in Nat /\ Len(t) \in Nat
  OBVIOUS
<1>6. PICK x : x = r \o t
  OBVIOUS
<1>7. /\ x \in Seq(Nat) /\ Len(x) = Len(s) + 1 + Len(t)
      /\ \A p \in 1..Len(s) : x[p] = s[p]
      /\ x[Len(s) + 1] = Slash
      /\ \A q \in 1..Len(t) : x[Len(s) + 1 + q] = t[q]
  <2>1. Len(r) = Len(s) + 1 /\ Len(x) = Len(r) + Len(t) /\ x \in Seq(Nat)
    BY <1>2, <1>4, <1>6
  <2>2. \A p \in 1..Len(r) : x[p] = r[p]
    BY <1>4, <1>6
  <2>3. \A p \in 1..Len(s) : x[p] = s[p]
    BY <1>2, <1>5, <2>1, <2>2
  <2>4. x[Len(s) + 1] = Slash
    BY <1>2, <1>5, <2>1, <2>2
  <2>5. \A q \in 1..Len(t) : x[Len(r) + q] = t[q]
    BY <1>4, <1>6
  <2> QED BY <2>1, <2>3, <2>4, <2>5
<1> QED BY <1>3, <1>6, <1>7

\* How a string is joined, segment by segment; and where its segments end.
Joining(g, segs) ==
  /\ g \in [1..Len(segs) -> Seq(Nat)] /\ g[1] = segs[1]
  /\ \A i \in 2..Len(segs) : g[i] = Glued(g[i - 1], segs[i])

End(g, i) == IF i = 0 THEN 0 ELSE Len(g[i]) + 1

LEMMA JoiningOf ==
  ASSUME NEW segs \in Seq(Seq(Nat)), Len(segs) >= 1
  PROVE  \E g : Joining(g, segs) /\ Joined(segs) = g[Len(segs)]
<1> DEFINE v == Head(segs)
           s == Tail(segs)
           n == Len(segs)
<1>1. /\ n \in Nat /\ n >= 1 /\ v = segs[1] /\ v \in Seq(Nat)
      /\ s \in Seq(Seq(Nat)) /\ Len(s) = n - 1
      /\ \A i \in 1..(n - 1) : s[i] = segs[i + 1]
  OBVIOUS
<1>2. Joined(segs) = FoldLeft(Glued, v, s)
  BY DEF Joined, FoldLeft, MapThenFoldSet, Glued
<1>3. \A e, w \in Seq(Nat) : Glued(w, e) \in Seq(Nat)
  BY GluedAt
<1> HIDE DEF v, s, n
<1>a. PICK A, r : A = Seq(Nat) /\ r = s
  OBVIOUS
<1>b. v \in A /\ r \in Seq(A) /\ \A e, w \in A : Glued(w, e) \in A
  BY <1>1, <1>3, <1>a
<1>c. PICK h \in [0..Len(r) -> A] : GluedSteps(h, v, r)
  BY <1>b, JoinedSteps
<1>4. /\ h \in [0..Len(s) -> Seq(Nat)]
      /\ h[0] = v /\ h[Len(s)] = FoldLeft(Glued, v, s)
      /\ \A i \in 1..Len(s) : h[i] = Glued(h[i - 1], s[i])
  BY <1>a, <1>c DEF GluedSteps
<1> DEFINE g == [i \in 1..n |-> h[i - 1]]
<1>5. g \in [1..n -> Seq(Nat)] /\ g[1] = v /\ g[n] = FoldLeft(Glued, v, s)
  BY <1>1, <1>4
<1>6. ASSUME NEW i \in 2..n
      PROVE  g[i] = Glued(g[i - 1], segs[i])
  <2>1. PICK j \in 1..(n - 1) : j = i - 1
    BY <1>1
  <2>2. i \in 1..n /\ i - 1 \in 1..n /\ j \in 1..Len(s) /\ j + 1 = i
    BY <1>1, <2>1
  <2>3. g[i] = h[i - 1] /\ g[i - 1] = h[(i - 1) - 1]
    BY <2>2
  <2>4. g[i] = h[j] /\ g[i - 1] = h[j - 1] /\ s[j] = segs[i] /\ j \in 1..Len(s)
    BY <1>1, <2>1, <2>2, <2>3
  <2> QED BY <1>4, <2>4
<1> HIDE DEF g
<1>7. Joining(g, segs) /\ Joined(segs) = g[n]
  BY <1>1, <1>2, <1>5, <1>6 DEF Joining, n
<1> QED BY <1>7 DEF n

LEMMA EndsGrow ==
  ASSUME NEW segs \in Seq(Seq(Nat)), Len(segs) >= 1, NEW g, Joining(g, segs)
  PROVE  /\ \A i \in 0..Len(segs) : End(g, i) \in Nat
         /\ \A i \in 1..Len(segs) : End(g, i) = End(g, i - 1) + Len(segs[i]) + 1
         /\ \A i, j \in 0..Len(segs) : i < j => End(g, i) < End(g, j)
<1> DEFINE n == Len(segs)
<1>1. n \in Nat /\ n >= 1 /\ g \in [1..n -> Seq(Nat)] /\ \A i \in 1..n : segs[i] \in Seq(Nat)
  BY DEF Joining
<1>2. \A i \in 0..n : End(g, i) \in Nat
  BY <1>1 DEF End
<1>3. ASSUME NEW i \in 1..n
      PROVE  End(g, i) = End(g, i - 1) + Len(segs[i]) + 1
  <2>1. CASE i = 1
    BY <1>1, <2>1 DEF End, Joining
  <2>2. CASE i # 1
    <3>1. i \in 2..n /\ i - 1 \in 1..n /\ i # 0 /\ i - 1 # 0
      BY <1>1, <2>2
    <3>2. g[i] = Glued(g[i - 1], segs[i]) /\ g[i - 1] \in Seq(Nat) /\ segs[i] \in Seq(Nat)
      BY <1>1, <3>1 DEF Joining
    <3>3. Len(g[i]) = Len(g[i - 1]) + 1 + Len(segs[i])
      <4>1. PICK a, b : a = g[i - 1] /\ b = segs[i]
        OBVIOUS
      <4>2. Len(Glued(a, b)) = Len(a) + 1 + Len(b)
        BY <3>2, <4>1, GluedAt
      <4> QED BY <3>2, <4>1, <4>2
    <3>4. Len(g[i - 1]) \in Nat /\ Len(segs[i]) \in Nat
      BY <3>2
    <3> QED BY <3>1, <3>3, <3>4 DEF End
  <2> QED BY <2>1, <2>2
<1> DEFINE P == {k \in Nat : k <= n => \A i \in 0..n : i < k => End(g, i) < End(g, k)}
<1>4. 0 \in P
  BY <1>1
<1>5. ASSUME NEW k \in Nat, k \in P
      PROVE  k + 1 \in P
  <2> SUFFICES ASSUME k + 1 <= n, NEW i \in 0..n, i < k + 1
               PROVE  End(g, i) < End(g, k + 1)
    OBVIOUS
  <2>1. k + 1 \in 1..n /\ k \in 0..n /\ segs[k + 1] \in Seq(Nat)
    BY <1>1
  <2>2. End(g, k + 1) = End(g, k) + Len(segs[k + 1]) + 1
    <3>1. (k + 1) - 1 = k
      OBVIOUS
    <3> QED BY <1>3, <2>1, <3>1
  <2>3. Len(segs[k + 1]) \in Nat /\ End(g, k) \in Nat /\ End(g, i) \in Nat
    BY <1>2, <2>1
  <2>4. End(g, i) <= End(g, k)
    <3>1. CASE i = k
      BY <2>3, <3>1
    <3>2. CASE i < k
      BY <1>5, <2>1, <2>3, <3>2
    <3> QED BY <1>1, <3>1, <3>2
  <2> QED BY <2>2, <2>3, <2>4
<1> HIDE DEF P
<1>6. Nat \subseteq P
  BY <1>4, <1>5, Induction
<1>7. \A i, j \in 0..n : i < j => End(g, i) < End(g, j)
  BY <1>1, <1>6 DEF P
<1> QED BY <1>2, <1>3, <1>7

\* Where the elements of the first k segments are, and the slashes between them.
Laid(g, segs, k) ==
  /\ \A i \in 1..k : \A q \in 1..Len(segs[i]) : g[k][End(g, i - 1) + q] = segs[i][q]
  /\ \A i \in 1..(k - 1) : g[k][End(g, i)] = Slash
  /\ \A p \in 1..Len(g[k]) :
       \/ \E i \in 1..(k - 1) : p = End(g, i)
       \/ \E i \in 1..k : \E q \in 1..Len(segs[i]) : p = End(g, i - 1) + q

LEMMA LaidNext ==
  ASSUME NEW segs \in Seq(Seq(Nat)), Len(segs) >= 1, NEW g, Joining(g, segs),
         NEW k \in 1..(Len(segs) - 1), Laid(g, segs, k)
  PROVE  Laid(g, segs, k + 1)
<1> DEFINE n == Len(segs)
           s == g[k]
           t == segs[k + 1]
           r == g[k + 1]
           e == End(g, k)
<1>1. /\ n \in Nat /\ k \in 1..n /\ k + 1 \in 1..n /\ k + 1 \in 2..n /\ k \in 0..n
      /\ s \in Seq(Nat) /\ t \in Seq(Nat) /\ \A i \in 1..n : Len(segs[i]) \in Nat
  <2>1. /\ n \in Nat /\ k \in 1..n /\ k + 1 \in 1..n /\ k + 1 \in 2..n /\ k \in 0..n
        /\ \A i \in 1..n : segs[i] \in Seq(Nat)
    OBVIOUS
  <2>2. g \in [1..n -> Seq(Nat)]
    BY DEF Joining
  <2>3. \A i \in 1..n : Len(segs[i]) \in Nat
    BY <2>1
  <2> QED BY <2>1, <2>2, <2>3
<1>2. r = Glued(s, t)
  <2>1. (k + 1) - 1 = k
    OBVIOUS
  <2> QED BY <1>1, <2>1 DEF Joining
<1>3. /\ Len(r) = Len(s) + 1 + Len(t)
      /\ \A p \in 1..Len(s) : r[p] = s[p]
      /\ r[Len(s) + 1] = Slash
      /\ \A q \in 1..Len(t) : r[Len(s) + 1 + q] = t[q]
  <2>1. PICK a, b : a = s /\ b = t
    OBVIOUS
  <2>2. a \in Seq(Nat) /\ b \in Seq(Nat)
    BY <1>1, <2>1
  <2>3. /\ Len(Glued(a, b)) = Len(a) + 1 + Len(b)
        /\ \A p \in 1..Len(a) : Glued(a, b)[p] = a[p]
        /\ Glued(a, b)[Len(a) + 1] = Slash
        /\ \A q \in 1..Len(b) : Glued(a, b)[Len(a) + 1 + q] = b[q]
    BY <2>2, GluedAt
  <2>4. r = Glued(a, b)
    BY <1>2, <2>1
  <2> HIDE DEF s, t, r
  <2> QED BY <2>1, <2>3, <2>4
<1>4. e = Len(s) + 1 /\ Len(s) \in Nat /\ Len(t) \in Nat
  BY <1>1 DEF End
<1>5. /\ \A i \in 0..n : End(g, i) \in Nat
      /\ \A i \in 1..n : End(g, i) = End(g, i - 1) + Len(segs[i]) + 1
      /\ \A i, j \in 0..n : i < j => End(g, i) < End(g, j)
  BY EndsGrow
<1>6. /\ \A i \in 1..k : \A q \in 1..Len(segs[i]) : s[End(g, i - 1) + q] = segs[i][q]
      /\ \A i \in 1..(k - 1) : s[End(g, i)] = Slash
      /\ \A p \in 1..Len(s) :
           \/ \E i \in 1..(k - 1) : p = End(g, i)
           \/ \E i \in 1..k : \E q \in 1..Len(segs[i]) : p = End(g, i - 1) + q
  BY DEF Laid
<1>7. t = segs[k + 1] /\ e = End(g, k)
  OBVIOUS
<1> HIDE DEF n, s, t, r, e
<1>8. ASSUME NEW i \in 1..(k + 1), NEW q \in 1..Len(segs[i])
      PROVE  r[End(g, i - 1) + q] = segs[i][q]
  <2>1. CASE i = k + 1
    <3>1. i - 1 = k
      BY <2>1
    <3> QED BY <1>3, <1>4, <1>7, <2>1, <3>1
  <2>2. CASE i # k + 1
    <3>1. i \in 1..k /\ i \in 1..n /\ i \in 0..n /\ i - 1 \in 0..n
      BY <1>1, <2>2
    <3>2. End(g, i) = End(g, i - 1) + Len(segs[i]) + 1 /\ End(g, i - 1) \in Nat /\ End(g, i) \in Nat
      BY <1>5, <3>1
    <3>3. End(g, i) <= e /\ e \in Nat
      <4>1. CASE i = k
        BY <1>1, <1>5, <1>7, <4>1
      <4>2. CASE i < k
        BY <1>1, <1>5, <1>7, <3>1, <4>2
      <4> QED BY <3>1, <4>1, <4>2
    <3>4. PICK p : p = End(g, i - 1) + q
      OBVIOUS
    <3>5. p \in 1..Len(s)
      <4>1. PICK x, y, z, l : x = End(g, i - 1) /\ y = End(g, i) /\ z = Len(segs[i]) /\ l = Len(s)
        OBVIOUS
      <4>2. /\ x \in Nat /\ y \in Nat /\ z \in Nat /\ l \in Nat /\ q \in 1..z
            /\ y = x + z + 1 /\ y <= l + 1 /\ p = x + q
        BY <1>1, <1>4, <3>1, <3>2, <3>3, <3>4, <4>1
      <4>3. p \in 1..l
        BY <4>2
      <4> QED BY <4>1, <4>3
    <3> QED BY <1>3, <1>6, <3>1, <3>4, <3>5
  <2> QED BY <2>1, <2>2
<1>9. ASSUME NEW i \in 1..((k + 1) - 1)
      PROVE  r[End(g, i)] = Slash
  <2>1. CASE i = k
    BY <1>3, <1>4, <1>7, <2>1
  <2>2. CASE i # k
    <3>1. i \in 1..(k - 1) /\ i \in 0..n /\ i \in 1..n /\ i - 1 \in 0..n
      BY <1>1, <2>2
    <3>2. End(g, i) < e /\ e \in Nat /\ End(g, i) \in Nat
      <4>1. i < k /\ k \in 0..n
        BY <1>1, <3>1
      <4>2. End(g, i) < End(g, k) /\ End(g, k) \in Nat /\ End(g, i) \in Nat
        BY <1>5, <3>1, <4>1
      <4> QED BY <1>7, <4>2
    <3>3. End(g, i) = End(g, i - 1) + Len(segs[i]) + 1 /\ End(g, i - 1) \in Nat
      BY <1>5, <3>1
    <3>a. Len(segs[i]) \in Nat
      BY <1>1, <3>1
    <3>4. End(g, i) \in 1..Len(s)
      <4>1. PICK x, y, z, l : x = End(g, i - 1) /\ y = End(g, i) /\ z = Len(segs[i]) /\ l = Len(s)
        OBVIOUS
      <4>2. /\ x \in Nat /\ y \in Nat /\ z \in Nat /\ l \in Nat
            /\ y = x + z + 1 /\ y < l + 1
        BY <1>4, <3>2, <3>3, <3>a, <4>1
      <4>3. y \in 1..l
        BY <4>2
      <4> QED BY <4>1, <4>3
    <3>5. s[End(g, i)] = Slash
      BY <1>6, <3>1
    <3>6. PICK p : p = End(g, i)
      OBVIOUS
    <3>7. p \in 1..Len(s) /\ s[p] = Slash
      BY <3>4, <3>5, <3>6
    <3>8. r[p] = Slash
      BY <1>3, <3>7
    <3> QED BY <3>6, <3>8
  <2> QED BY <2>1, <2>2
<1>10. ASSUME NEW p \in 1..Len(r)
       PROVE  \/ \E i \in 1..((k + 1) - 1) : p = End(g, i)
              \/ \E i \in 1..(k + 1) : \E q \in 1..Len(segs[i]) : p = End(g, i - 1) + q
  <2>1. CASE p <= Len(s)
    <3>1. p \in 1..Len(s)
      BY <1>4, <2>1
    <3>2. CASE \E i \in 1..(k - 1) : p = End(g, i)
      <4>1. PICK i \in 1..(k - 1) : p = End(g, i)
        BY <3>2
      <4>2. i \in 1..((k + 1) - 1)
        BY <1>1
      <4> QED BY <4>1, <4>2
    <3>3. CASE \E i \in 1..k : \E q \in 1..Len(segs[i]) : p = End(g, i - 1) + q
      <4>1. PICK i \in 1..k : \E q \in 1..Len(segs[i]) : p = End(g, i - 1) + q
        BY <3>3
      <4>2. i \in 1..(k + 1)
        BY <1>1
      <4> QED BY <4>1, <4>2
    <3> QED BY <1>6, <3>1, <3>2, <3>3
  <2>2. CASE p = Len(s) + 1
    <3>1. k \in 1..((k + 1) - 1) /\ p = End(g, k)
      BY <1>1, <1>4, <1>7, <2>2
    <3> QED BY <3>1
  <2>3. CASE p > Len(s) + 1
    <3>1. PICK q \in 1..Len(t) : p = e + q
      <4>1. p - e \in 1..Len(t) /\ p = e + (p - e)
        BY <1>3, <1>4, <2>3
      <4> QED BY <4>1
    <3>2. PICK i \in 1..(k + 1) : i = k + 1 /\ i - 1 = k
      BY <1>1
    <3>3. q \in 1..Len(segs[i]) /\ p = End(g, i - 1) + q
      BY <1>7, <3>1, <3>2
    <3> QED BY <3>3
  <2> QED BY <1>3, <1>4, <2>1, <2>2, <2>3
<1> QED BY <1>8, <1>9, <1>10 DEF Laid, r

LEMMA LaidOut ==
  ASSUME NEW segs \in Seq(Seq(Nat)), Len(segs) >= 1, NEW g, Joining(g, segs)
  PROVE  Laid(g, segs, Len(segs))
<1> DEFINE n == Len(segs)
           P == {k \in Nat : k + 1 <= n => Laid(g, segs, k + 1)}
<1>1. n \in Nat /\ n >= 1
  OBVIOUS
<1>2. Laid(g, segs, 1)
  <2>1. g[1] = segs[1] /\ segs[1] \in Seq(Nat) /\ End(g, 0) = 0
    BY <1>1 DEF Joining, End
  <2>2. \A i \in 1..1 : i = 1 /\ i - 1 = 0
    OBVIOUS
  <2>3. \A q \in 1..Len(segs[1]) : 0 + q = q
    OBVIOUS
  <2>4. \A i \in 1..(1 - 1) : FALSE
    OBVIOUS
  <2>5. \A i \in 1..1 : \A q \in 1..Len(segs[i]) : g[1][End(g, i - 1) + q] = segs[i][q]
    BY <2>1, <2>2, <2>3
  <2>6. 1 \in 1..1 /\ 1 - 1 = 0
    OBVIOUS
  <2>7. \A p \in 1..Len(g[1]) : \E i \in 1..1 : \E q \in 1..Len(segs[i]) : p = End(g, i - 1) + q
    <3> SUFFICES ASSUME NEW p \in 1..Len(g[1])
                 PROVE  \E i \in 1..1 : \E q \in 1..Len(segs[i]) : p = End(g, i - 1) + q
      OBVIOUS
    <3>1. p \in 1..Len(segs[1]) /\ p = End(g, 1 - 1) + p
      BY <2>1, <2>6
    <3> QED BY <2>6, <3>1
  <2> QED BY <2>4, <2>5, <2>7 DEF Laid
<1>3. 0 \in P
  BY <1>2
<1>4. ASSUME NEW k \in Nat, k \in P
      PROVE  k + 1 \in P
  <2> SUFFICES ASSUME (k + 1) + 1 <= n
               PROVE  Laid(g, segs, (k + 1) + 1)
    OBVIOUS
  <2>1. k + 1 \in 1..(n - 1) /\ Laid(g, segs, k + 1)
    BY <1>1, <1>4
  <2> QED BY <2>1, LaidNext
<1> HIDE DEF P
<1>5. Nat \subseteq P
  BY <1>3, <1>4, Induction
<1>6. PICK k \in Nat : n = k + 1
  <2>1. n - 1 \in Nat /\ n = (n - 1) + 1
    BY <1>1
  <2> QED BY <2>1
<1>7. k \in P
  BY <1>5
<1> QED BY <1>1, <1>6, <1>7 DEF P

\* A joined string is cut where it was joined ...
LEMMA CutsOfJoined ==
  ASSUME NEW segs \in Seq(Seq(Nat)), Len(segs) >= 1,
         \A i \in DOMAIN segs : \A q \in DOMAIN segs[i] : segs[i][q] # Slash,
         NEW g, Joining(g, segs), NEW s, s = g[Len(segs)]
  PROVE  /\ s \in Seq(Nat)
         /\ Cuts(s) = {End(g, i) : i \in 0..Len(segs)}
         /\ CutAt(s) = [i \in 1..(Len(segs) + 1) |-> End(g, i - 1)]
<1> DEFINE n == Len(segs)
           d == [i \in 1..(n + 1) |-> End(g, i - 1)]
<1>1. /\ n \in Nat /\ n >= 1 /\ s \in Seq(Nat) /\ DOMAIN s = 1..Len(s) /\ Len(s) \in Nat
      /\ \A i \in 1..n : Len(segs[i]) \in Nat
  <2>1. n \in Nat /\ n >= 1 /\ n \in 1..n /\ \A i \in 1..n : segs[i] \in Seq(Nat)
    OBVIOUS
  <2>2. s \in Seq(Nat)
    BY <2>1 DEF Joining
  <2>3. \A i \in 1..n : Len(segs[i]) \in Nat
    BY <2>1
  <2>4. DOMAIN s = 1..Len(s) /\ Len(s) \in Nat
    BY <2>2
  <2> QED BY <2>1, <2>2, <2>3, <2>4
<1>2. /\ \A i \in 0..n : End(g, i) \in Nat
      /\ \A i \in 1..n : End(g, i) = End(g, i - 1) + Len(segs[i]) + 1
      /\ \A i, j \in 0..n : i < j => End(g, i) < End(g, j)
  BY EndsGrow
<1>3. /\ \A i \in 1..n : \A q \in 1..Len(segs[i]) : s[End(g, i - 1) + q] = segs[i][q]
      /\ \A i \in 1..(n - 1) : s[End(g, i)] = Slash
      /\ \A p \in 1..Len(s) :
           \/ \E i \in 1..(n - 1) : p = End(g, i)
           \/ \E i \in 1..n : \E q \in 1..Len(segs[i]) : p = End(g, i - 1) + q
  <2>1. Laid(g, segs, n) /\ g[n] = s
    BY LaidOut
  <2> HIDE DEF n
  <2> QED BY <2>1 DEF Laid
<1>4. End(g, 0) = 0 /\ End(g, n) = Len(s) + 1
  BY <1>1 DEF End
<1>5. \A i \in 1..n : \A q \in 1..Len(segs[i]) : segs[i][q] # Slash
  OBVIOUS
<1> HIDE DEF n, d
<1>6. ASSUME NEW i \in 0..n
      PROVE  End(g, i) \in Cuts(s)
  <2>1. CASE i = 0 \/ i = n
    BY <1>4, <2>1 DEF Cuts
  <2>2. CASE i # 0 /\ i # n
    <3>1. i \in 1..(n - 1) /\ 0 \in 0..n /\ n \in 0..n /\ 0 < i /\ i < n
      BY <1>1, <2>2
    <3>2. End(g, 0) < End(g, i) /\ End(g, i) < End(g, n) /\ End(g, i) \in Nat
      BY <1>2, <3>1
    <3>3. End(g, i) \in DOMAIN s
      BY <1>1, <1>4, <3>2
    <3> QED BY <1>3, <3>1, <3>3 DEF Cuts
  <2> QED BY <2>1, <2>2
<1>7. ASSUME NEW x \in Cuts(s)
      PROVE  \E i \in 0..n : x = End(g, i)
  <2>0. 0 \in 0..n /\ n \in 0..n
    BY <1>1
  <2>1. CASE x = 0 \/ x = Len(s) + 1
    BY <1>4, <2>0, <2>1
  <2>2. CASE x \in 1..Len(s) /\ s[x] = Slash
    <3>1. CASE \E i \in 1..(n - 1) : x = End(g, i)
      <4>1. PICK i \in 1..(n - 1) : x = End(g, i)
        BY <3>1
      <4>2. i \in 0..n
        BY <1>1
      <4> QED BY <4>1, <4>2
    <3>2. ASSUME NEW i \in 1..n, NEW q \in 1..Len(segs[i]), x = End(g, i - 1) + q
          PROVE  FALSE
      BY <1>3, <1>5, <2>2, <3>2
    <3> QED BY <1>3, <2>2, <3>1, <3>2
  <2> QED BY <1>1, <2>1, <2>2 DEF Cuts
<1>8. Cuts(s) = {End(g, i) : i \in 0..n}
  BY <1>6, <1>7
<1>9. /\ d \in [1..(n + 1) -> Cuts(s)]
      /\ \A x \in Cuts(s) : \E i \in 1..(n + 1) : d[i] = x
      /\ \A i, j \in 1..(n + 1) : i < j => d[i] < d[j]
      /\ \A i \in 1..(n + 1) : d[i] \in Nat
  <2>1. \A i \in 1..(n + 1) : i - 1 \in 0..n /\ d[i] = End(g, i - 1)
    BY <1>1 DEF d
  <2>2. d \in [1..(n + 1) -> Cuts(s)]
    <3>1. \A i \in 1..(n + 1) : End(g, i - 1) \in Cuts(s)
      BY <1>6, <2>1
    <3> QED BY <3>1 DEF d
  <2>3. ASSUME NEW x \in Cuts(s)
        PROVE  \E i \in 1..(n + 1) : d[i] = x
    <3>1. PICK i \in 0..n : x = End(g, i)
      BY <1>7
    <3>2. PICK j \in 1..(n + 1) : j = i + 1 /\ j - 1 = i
      BY <1>1
    <3> QED BY <2>1, <3>1, <3>2
  <2>4. ASSUME NEW i \in 1..(n + 1), NEW j \in 1..(n + 1), i < j
        PROVE  d[i] < d[j]
    <3>1. i - 1 \in 0..n /\ j - 1 \in 0..n /\ i - 1 < j - 1
      BY <1>1, <2>4
    <3>2. End(g, i - 1) < End(g, j - 1)
      BY <1>2, <3>1
    <3> QED BY <2>1, <3>2
  <2> QED BY <1>2, <2>1, <2>2, <2>3, <2>4
<1>10. Cardinality(Cuts(s)) = n + 1
  <2>1. d \in Bijection(1..(n + 1), Cuts(s))
    <3>1. \A i, j \in 1..(n + 1) : d[i] = d[j] => i = j
      <4> SUFFICES ASSUME NEW i \in 1..(n + 1), NEW j \in 1..(n + 1), i # j
                   PROVE  d[i] # d[j]
        OBVIOUS
      <4>1. i < j \/ j < i
        BY <1>1
      <4> QED BY <1>9, <4>1
    <3> QED BY <1>9, <3>1 DEF Bijection, Injection, Surjection, IsInjective
  <2>2. IsFiniteSet(1..(n + 1)) /\ Cardinality(1..(n + 1)) = n + 1
    <3>1. PICK m \in Int : m = n + 1 /\ m >= 1
      BY <1>1
    <3>2. 1 \in Int
      OBVIOUS
    <3>3. /\ IsFiniteSet(1..m)
          /\ Cardinality(1..m) = IF 1 > m THEN 0 ELSE m - 1 + 1
      BY <3>1, <3>2, FS_Interval
    <3>4. Cardinality(1..m) = m
      BY <3>1, <3>3
    <3> QED BY <3>1, <3>3, <3>4
  <2> QED BY <2>1, <2>2, FS_Bijection DEF ExistsBijection
<1>11. Lists(d, Cuts(s), Smaller)
  <2>1. \A i, j \in 1..(n + 1) : i < j => <<d[i], d[j]>> \in Smaller
    BY <1>9 DEF Smaller
  <2> QED BY <1>1, <1>9, <1>10, <2>1 DEF Lists
<1>12. CutAt(s) = d
  <2>1. Lists(CutAt(s), Cuts(s), Smaller) /\ Cuts(s) \in SUBSET (0..(Len(s) + 1))
    BY <1>1, CutsListed
  <2>2. Orders(Smaller, Nat)
    BY DEF Orders, Smaller
  <2>3. Cuts(s) \in SUBSET Nat
    BY <1>1, <2>1
  <2>4. PICK A : A = Nat
    OBVIOUS
  <2> QED BY <1>11, <2>1, <2>2, <2>3, <2>4, ListedOnce
<1> QED BY <1>1, <1>8, <1>12 DEF n, d

\* ... so that split("/") undoes join("/"), if no segment has a slash.
LEMMA SegmentsOfJoined ==
  ASSUME NEW segs \in Seq(Seq(Nat)), Len(segs) >= 1,
         \A i \in DOMAIN segs : \A q \in DOMAIN segs[i] : segs[i][q] # Slash
  PROVE  Joined(segs) \in Seq(Nat) /\ Segments(Joined(segs)) = segs
<1> DEFINE n == Len(segs)
           s == Joined(segs)
           c == CutAt(s)
<1>1. PICK g : Joining(g, segs) /\ s = g[n]
  BY JoiningOf
<1>2. /\ s \in Seq(Nat)
      /\ c = [i \in 1..(n + 1) |-> End(g, i - 1)]
  BY <1>1, CutsOfJoined
<1>3. Segments(s) = [i \in 1..(Len(c) - 1) |-> SubSeq(s, c[i] + 1, c[i + 1] - 1)]
  BY <1>2, CutsListed
<1>4. /\ n \in Nat /\ n >= 1 /\ \A i \in 1..n : segs[i] \in Seq(Nat) /\ Len(segs[i]) \in Nat
      /\ segs = [i \in 1..n |-> segs[i]]
  OBVIOUS
<1>5. /\ \A i \in 0..n : End(g, i) \in Nat
      /\ \A i \in 1..n : End(g, i) = End(g, i - 1) + Len(segs[i]) + 1
      /\ \A i, j \in 0..n : i < j => End(g, i) < End(g, j)
  BY <1>1, EndsGrow
<1>6. \A i \in 1..n : \A q \in 1..Len(segs[i]) : s[End(g, i - 1) + q] = segs[i][q]
  <2>1. Laid(g, segs, n) /\ g[n] = s
    BY <1>1, LaidOut
  <2> HIDE DEF n, s
  <2> QED BY <2>1 DEF Laid
<1>7. End(g, n) = Len(s) + 1
  BY <1>1, <1>4 DEF End
<1> HIDE DEF n, s, c
<1>8. Len(c) = n + 1
  BY <1>2, <1>4
<1>9. ASSUME NEW i \in 1..n
      PROVE  SubSeq(s, c[i] + 1, c[i + 1] - 1) = segs[i]
  <2>1. i \in 1..(n + 1) /\ i + 1 \in 1..(n + 1) /\ (i + 1) - 1 = i /\ i \in 0..n /\ i - 1 \in 0..n
    BY <1>4
  <2>2. c[i] = End(g, i - 1) /\ c[i + 1] = End(g, i)
    BY <1>2, <2>1
  <2>3. PICK a, b \in Nat : a = End(g, i - 1) /\ b = End(g, i)
    BY <1>5, <2>1
  <2>4. PICK t : t = segs[i]
    OBVIOUS
  <2>5. t \in Seq(Nat) /\ Len(t) \in Nat /\ b = a + Len(t) + 1
    BY <1>4, <1>5, <2>3, <2>4
  <2>6. b <= Len(s) + 1
    <3>1. i = n \/ i < n
      BY <1>4
    <3>2. n \in 0..n
      BY <1>4
    <3>3. End(g, i) <= End(g, n)
      BY <1>5, <2>1, <3>1, <3>2
    <3> QED BY <1>7, <2>3, <3>3
  <2>7. PICK x : x = SubSeq(s, a + 1, b - 1)
    OBVIOUS
  <2>8. x \in Seq(Nat) /\ Len(x) = b - 1 - a /\ \A q \in 1..(b - 1 - a) : x[q] = s[a + q]
    <3>1. a < b
      BY <2>5
    <3>2. s \in Seq(Nat) /\ a \in Nat /\ b \in Nat
      BY <1>2
    <3> QED BY <2>6, <2>7, <3>1, <3>2, PartOf
  <2>9. Len(x) = Len(t) /\ b - 1 - a = Len(t)
    BY <2>5, <2>8
  <2>10. \A q \in 1..Len(t) : s[a + q] = t[q]
    BY <1>6, <2>3, <2>4
  <2>11. \A q \in 1..Len(x) : x[q] = t[q]
    BY <2>8, <2>9, <2>10
  <2>12. x = t
    BY <2>5, <2>8, <2>9, <2>11, SameSequence
  <2> QED BY <2>2, <2>3, <2>4, <2>7, <2>12
<1>10. Segments(s) = [i \in 1..n |-> segs[i]]
  <2>1. 1..(Len(c) - 1) = 1..n
    BY <1>4, <1>8
  <2> DEFINE e(i) == SubSeq(s, c[i] + 1, c[i + 1] - 1)
  <2>2. Segments(s) = [i \in 1..n |-> e(i)]
    BY <1>3, <2>1
  <2>3. \A i \in 1..n : e(i) = segs[i]
    BY <1>9
  <2> HIDE DEF e
  <2> QED BY <2>2, <2>3
<1> QED BY <1>2, <1>4, <1>10 DEF s

-----------------------------------------------------------------------------
(* URIs and keys. *)

\* The first of some numbers.
LEMMA LeastOf ==
  ASSUME NEW S \in SUBSET Nat, S # {}
  PROVE  \E x \in S : \A y \in S : x <= y
<1> DEFINE P == {x \in Nat : \A y \in S : x <= y}
<1> SUFFICES ASSUME \A x \in S : \E y \in S : ~(x <= y)
             PROVE  FALSE
  OBVIOUS
<1>1. 0 \in P
  OBVIOUS
<1>2. ASSUME NEW x \in Nat, x \in P PROVE x + 1 \in P
  <2>1. x \notin S
    BY <1>2
  <2> SUFFICES ASSUME NEW y \in S PROVE x + 1 <= y
    BY <1>2
  <2>2. x <= y /\ x # y /\ y \in Nat
    BY <1>2, <2>1
  <2> QED BY <2>2
<1>3. PICK x \in Nat : x \in S
  OBVIOUS
<1> HIDE DEF P
<1>4. Nat \subseteq P
  BY <1>1, <1>2, Induction
<1>5. x + 1 \in P
  BY <1>4
<1> QED BY <1>3, <1>5 DEF P

\* And the last of those up to some number.
LEMMA GreatestOf ==
  ASSUME NEW n \in Nat, NEW S \in SUBSET (1..n), S # {}
  PROVE  \E x \in S : \A y \in S : y <= x
<1> DEFINE T == {n - x : x \in S}
<1>0. \A x \in S : x \in Nat /\ n - x \in Nat
  OBVIOUS
<1>1. T \in SUBSET Nat /\ T # {}
  BY <1>0
<1>2. PICK z \in T : \A y \in T : z <= y
  BY <1>1, LeastOf
<1>3. PICK x \in S : z = n - x
  OBVIOUS
<1>4. ASSUME NEW y \in S PROVE y <= x
  <2>1. n - x <= n - y
    BY <1>2, <1>3
  <2>2. x \in Nat /\ y \in Nat
    BY <1>0
  <2> QED BY <2>1, <2>2
<1> QED BY <1>4

\* The segments of a template.
LEMMA ShapeIs ==
  ASSUME NEW t \in DOMAIN Templates
  PROVE  /\ Shape[t] = Segments(Templates[t])
         /\ Shape[t] \in Seq(Seq(Nat)) /\ Len(Shape[t]) >= 1
         /\ \A i \in DOMAIN Shape[t] : \A q \in DOMAIN Shape[t][i] : Shape[t][i][q] # Slash
         /\ Params(t) \subseteq DOMAIN Shape[t]
<1>1. Templates[t] \in Seq(Nat)
  BY CatalogAssumption
<1>2. Shape[t] = Segments(Templates[t])
  BY DEF Shape
<1>3. Params(t) \subseteq DOMAIN Shape[t]
  BY DEF Params
<1> QED BY <1>1, <1>2, <1>3, SegmentsAre

\* The segments of the URI that the parameters of a handle make.
Filled(t, params) ==
  [i \in DOMAIN Shape[t] |->
     IF i \in Params(t) THEN params[NameOf(Shape[t][i])] ELSE Shape[t][i]]

LEMMA FilledIs ==
  ASSUME NEW h \in Handles
  PROVE  /\ Filled(h.route, h.params) \in Seq(Seq(Nat)) /\ h.route \in DOMAIN Templates
         /\ Len(Filled(h.route, h.params)) = Len(Shape[h.route])
         /\ Len(Shape[h.route]) >= 1
<1>1. h.route \in DOMAIN Templates /\ h.params \in [Names(h.route) -> Seq(Nat)]
  BY CatalogAssumption
<1>2. PICK t, p, n : t = h.route /\ p = h.params /\ n = Len(Shape[t])
  OBVIOUS
<1>3. /\ t \in DOMAIN Templates /\ p \in [Names(t) -> Seq(Nat)]
      /\ Shape[t] \in Seq(Seq(Nat)) /\ n \in Nat /\ n >= 1 /\ DOMAIN Shape[t] = 1..n
  BY <1>1, <1>2, ShapeIs
<1>4. \A i \in 1..n : Filled(t, p)[i] \in Seq(Nat)
  <2> SUFFICES ASSUME NEW i \in 1..n PROVE Filled(t, p)[i] \in Seq(Nat)
    OBVIOUS
  <2>1. Shape[t][i] \in Seq(Nat)
    BY <1>3
  <2>2. i \in Params(t) => NameOf(Shape[t][i]) \in Names(t)
    BY DEF Names
  <2> QED BY <1>3, <2>1, <2>2 DEF Filled
<1>5. Filled(t, p) = [i \in 1..n |-> Filled(t, p)[i]]
  BY <1>3 DEF Filled
<1>6. Filled(t, p) \in Seq(Seq(Nat)) /\ Len(Filled(t, p)) = n
  <2>1. PICK A, f : A = Seq(Nat) /\ f = Filled(t, p)
    OBVIOUS
  <2>2. f \in [1..n -> A]
    BY <1>4, <1>5, <2>1
  <2>3. f \in Seq(A) /\ Len(f) = n
    BY <1>3, <2>2
  <2> QED BY <2>1, <2>3
<1> QED BY <1>2, <1>3, <1>6

\* A URI is a string.
LEMMA AddressedIs ==
  ASSUME NEW u \in Addressed, u # None
  PROVE  u \in Seq(Nat)
<1>1. CASE \E h \in Handles : u = UriOf[h]
  <2>1. PICK h \in Handles : u = UriOf[h]
    BY <1>1
  <2>2. u = Resolve(h.route, h.params)
    BY <2>1 DEF UriOf
  <2>3. u = Joined(Filled(h.route, h.params))
    BY <2>2 DEF Resolve, Filled
  <2>4. PICK f : f = Filled(h.route, h.params)
    OBVIOUS
  <2>5. f \in Seq(Seq(Nat)) /\ Len(f) >= 1
    BY <2>4, FilledIs
  <2>6. PICK g : Joining(g, f) /\ u = g[Len(f)]
    BY <2>3, <2>4, <2>5, JoiningOf
  <2>7. Len(f) \in 1..Len(f)
    BY <2>5
  <2> QED BY <2>6, <2>7 DEF Joining
<1>2. CASE \E t \in DOMAIN Templates : u = Templates[t]
  BY <1>2, CatalogAssumption
<1> QED BY <1>1, <1>2 DEF Addressed

\* The first template that matches.
FirstMatch(uri, t) ==
  /\ t \in DOMAIN Templates /\ Matches(t, Segments(uri))
  /\ \A s \in DOMAIN Templates : Matches(s, Segments(uri)) => t <= s

LEMMA MatchIsFirst ==
  ASSUME NEW u \in Routed
  PROVE  \E t : FirstMatch(u, t) /\ Hit[u] = [route |-> t, params |-> Bound(t, Segments(u))]
<1> DEFINE hits == {t \in DOMAIN Templates : Matches(t, Segments(u))}
           t == CHOOSE x \in hits : \A s \in hits : x <= s
<1>1. Hit[u] = Match(u) /\ Match(u) # None
  BY DEF Routed, Hit
<1>2. hits # {} /\ Match(u) = [route |-> t, params |-> Bound(t, Segments(u))]
  BY <1>1 DEF Match
<1>3. hits \in SUBSET Nat
  <2>1. \A x \in DOMAIN Templates : x \in Nat
    BY CatalogAssumption
  <2> QED BY <2>1
<1> HIDE DEF hits
<1>4. \E x \in hits : \A s \in hits : x <= s
  BY <1>2, <1>3, LeastOf
<1>5. t \in hits /\ \A s \in hits : t <= s
  BY <1>4
<1> HIDE DEF t
<1>6. FirstMatch(u, t)
  BY <1>5 DEF FirstMatch, hits
<1> QED BY <1>1, <1>2, <1>6

\* The keys of a family's instances.
Family(t) == {k \in AllKeys : HasPrefix(k, <<Channel, Templates[t]>>)}

\* A key with two segments before the last.
LEMMA Threefold ==
  ASSUME NEW b, NEW c, NEW u, NEW p, NEW q
  PROVE  /\ Len(<<b, c, u>>) = 3 /\ <<b, c, u>>[3] = u /\ <<b, c, u>>[1] = b
         /\ <<b, c, u>>[2] = c
         /\ HasPrefix(<<b, c, u>>, <<p, q>>) <=> b = p /\ c = q
<1>1. Len(<<b, c, u>>) = 3 /\ Len(<<p, q>>) = 2
  OBVIOUS
<1>2. SubSeq(<<b, c, u>>, 1, 2) = <<b, c>>
  <2>1. PICK A, s, x : A = {b, c, u} /\ s = <<b, c, u>> /\ x = SubSeq(s, 1, 2)
    OBVIOUS
  <2>2. /\ s \in Seq(A) /\ Len(s) = 3 /\ s[1] = b /\ s[2] = c
        /\ <<b, c>> \in Seq(A) /\ Len(<<b, c>>) = 2
    BY <2>1
  <2>3. x \in Seq(A) /\ Len(x) = 2 /\ \A i \in 1..2 : x[i] = s[i]
    BY <2>1, <2>2
  <2>4. \A i \in 1..2 : x[i] = <<b, c>>[i]
    <3>1. x[1] = b /\ x[2] = c
      BY <2>2, <2>3
    <3> QED BY <3>1
  <2>5. x = <<b, c>>
    BY <2>2, <2>3, <2>4, SameSequence
  <2> QED BY <2>1, <2>5
<1> QED BY <1>1, <1>2 DEF HasPrefix

\* An instance is found in the family of its route, with its URI in its key; the host's own
\* keys are in none.
LEMMA KeysAre ==
  /\ AllKeys \subseteq Seq(Seq(Nat))
  /\ \A u \in Routed :
       /\ KeyOf[u] \in AllKeys /\ KeyOf[u][3] = u
       /\ Hit[u].route \in DOMAIN Templates
       /\ \A t \in DOMAIN Templates : KeyOf[u] \in Family(t) <=> Hit[u].route = t
  /\ \A t \in DOMAIN Templates : \A k \in Family(t) :
       k[3] \in Routed /\ KeyOf[k[3]] = k /\ Hit[k[3]].route = t
<1>1. ASSUME NEW u \in Routed
      PROVE  /\ KeyOf[u] \in Seq(Seq(Nat)) /\ KeyOf[u][3] = u
             /\ Hit[u].route \in DOMAIN Templates
             /\ \A t \in DOMAIN Templates :
                  HasPrefix(KeyOf[u], <<Channel, Templates[t]>>) <=> Hit[u].route = t
  <2>1. PICK s : FirstMatch(u, s) /\ Hit[u] = [route |-> s, params |-> Bound(s, Segments(u))]
    BY MatchIsFirst
  <2>2. Hit[u].route = s /\ s \in DOMAIN Templates
    BY <2>1 DEF FirstMatch
  <2>3. u \in Addressed /\ u # None
    BY DEF Routed, Hit
  <2>4. u \in Seq(Nat) /\ Channel \in Seq(Nat) /\ Templates[s] \in Seq(Nat)
    BY <2>2, <2>3, AddressedIs, CatalogAssumption
  <2>5. PICK A, k : A = Seq(Nat) /\ k = <<Channel, Templates[s], u>>
    OBVIOUS
  <2>6. k \in Seq(A)
    BY <2>4, <2>5
  <2>7. KeyOf[u] = k
    BY <2>2, <2>5 DEF KeyOf
  <2>8. \A t \in DOMAIN Templates :
          HasPrefix(k, <<Channel, Templates[t]>>) <=> Templates[s] = Templates[t]
    BY <2>5, Threefold
  <2>9. \A t \in DOMAIN Templates : Templates[s] = Templates[t] => s = t
    BY <2>2, NoDuplicates
  <2>10. k[3] = u
    BY <2>5, Threefold
  <2> QED BY <2>2, <2>5, <2>6, <2>7, <2>8, <2>9, <2>10
<1>2. AllKeys \subseteq Seq(Seq(Nat))
  BY <1>1, CatalogAssumption DEF AllKeys
<1>3. \A u \in Routed : KeyOf[u] \in AllKeys
  BY DEF AllKeys
<1>4. ASSUME NEW t \in DOMAIN Templates, NEW k \in Family(t)
      PROVE  k[3] \in Routed /\ KeyOf[k[3]] = k /\ Hit[k[3]].route = t
  <2>1. k \in AllKeys /\ HasPrefix(k, <<Channel, Templates[t]>>)
    BY DEF Family
  <2>2. k \notin HostKeys
    BY <2>1, CatalogAssumption
  <2>3. PICK u \in Routed : k = KeyOf[u]
    BY <2>1, <2>2 DEF AllKeys
  <2> QED BY <1>1, <2>1, <2>3
<1> QED BY <1>1, <1>2, <1>3, <1>4 DEF Family

\* Within a family, keys are in the order of their URIs.
LEMMA FamilyOrder ==
  ASSUME NEW t \in DOMAIN Templates, NEW k \in Family(t), NEW l \in Family(t), KeyBefore(k, l)
  PROVE  Before(k[3], l[3])
<1>1. PICK u, v : u = k[3] /\ v = l[3]
  OBVIOUS
<1>2. /\ k = <<Channel, Templates[t], u>> /\ l = <<Channel, Templates[t], v>>
  <2>1. /\ u \in Routed /\ KeyOf[u] = k /\ Hit[u].route = t
        /\ v \in Routed /\ KeyOf[v] = l /\ Hit[v].route = t
    BY <1>1, KeysAre
  <2> QED BY <2>1 DEF KeyOf
<1>3. Len(k) = 3 /\ Len(l) = 3 /\ k[1] = l[1] /\ k[2] = l[2]
  BY <1>2, Threefold
<1>4. k \in Seq(Seq(Nat)) /\ l \in Seq(Seq(Nat))
  BY KeysAre DEF Family
<1>5. PICK i \in 1..Len(l) : i <= Len(k) + 1 /\ (i <= Len(k) => Before(k[i], l[i]))
  BY DEF KeyBefore
<1>6. i \in {1, 2, 3} /\ i <= Len(k)
  BY <1>3, <1>5
<1>7. ~Before(k[1], l[1]) /\ ~Before(k[2], l[2])
  <2>1. k[1] \in Seq(Nat) /\ k[2] \in Seq(Nat)
    <3>1. PICK A : A = Seq(Nat)
      OBVIOUS
    <3>2. k \in Seq(A) /\ Len(k) = 3
      BY <1>3, <1>4, <3>1
    <3>3. k[1] \in A /\ k[2] \in A
      BY <3>2
    <3> QED BY <3>1, <3>3
  <2>2. \A s \in Seq(Nat) : ~Before(s, s)
    <3>1. \A s \in Seq(Nat) : <<s, s>> \notin StringOrder
      BY StringsOrdered DEF Orders
    <3> QED BY <3>1, StringsOrdered
  <2> QED BY <1>3, <2>1, <2>2
<1> QED BY <1>5, <1>6, <1>7

-----------------------------------------------------------------------------
(* A scan, while channels come and go. *)

\* The storage has keys of the host and of instances.
StoreIs == store \subseteq AllKeys /\ IsFiniteSet(store)

\* The key of what was yielded.
Taken(i) == KeyOf[yielded[i].uri]

\* What was yielded: instances of the family, in order.
YieldedIs(t) ==
  /\ yielded \in Seq([uri : Routed, params : {Hit[u].params : u \in Routed}])
  /\ \A i \in DOMAIN yielded :
       /\ Taken(i) \in Family(t) \cap seen
       /\ yielded[i].params = Hit[yielded[i].uri].params
  /\ \A i, j \in DOMAIN yielded : i < j => KeyBefore(Taken(i), Taken(j))

\* The page at hand goes on from there, up to its cursor if it has one.
PageIs(t) ==
  /\ scan.keys \in Seq(Family(t) \cap seen)
  /\ scan.cursor \in Family(t) \cup {None}
  /\ \A i, j \in DOMAIN scan.keys : i < j => KeyBefore(scan.keys[i], scan.keys[j])
  /\ \A i \in DOMAIN yielded, j \in DOMAIN scan.keys : KeyBefore(Taken(i), scan.keys[j])
  /\ scan.cursor # None =>
       /\ \A i \in DOMAIN yielded : Taken(i) = scan.cursor \/ KeyBefore(Taken(i), scan.cursor)
       /\ \A j \in DOMAIN scan.keys :
            scan.keys[j] = scan.cursor \/ KeyBefore(scan.keys[j], scan.cursor)

\* Of the keys that were there all along, none is behind that was not yielded.
NoneBehind(t) ==
  \A k \in kept \cap Family(t) :
    \/ \E i \in DOMAIN yielded : Taken(i) = k
    \/ \E j \in DOMAIN scan.keys : scan.keys[j] = k
    \/ scan.cursor # None /\ KeyBefore(scan.cursor, k)

ScanIs(t) ==
  /\ scan = [route |-> t, keys |-> scan.keys, cursor |-> scan.cursor]
  /\ kept \subseteq store /\ store \subseteq seen
  /\ YieldedIs(t) /\ PageIs(t) /\ NoneBehind(t)

Scanning == scan # None => \E t \in Listed : ScanIs(t)

\* How the keys of a family are ordered.
LEMMA FamilyOrdered ==
  ASSUME NEW t \in Listed
  PROVE  /\ \A k, l, m \in Family(t) : KeyBefore(k, l) /\ KeyBefore(l, m) => KeyBefore(k, m)
         /\ \A k, l \in Family(t) : KeyBefore(k, l) => k # l
<1>1. Family(t) \subseteq Seq(Seq(Nat))
  BY KeysAre DEF Family
<1>2. PICK K : K = Seq(Seq(Nat))
  OBVIOUS
<1>3. Orders(KeyOrder, K) /\ \A k, l \in K : <<k, l>> \in KeyOrder <=> KeyBefore(k, l)
  BY <1>2, KeysOrdered
<1> QED BY <1>1, <1>2, <1>3 DEF Orders

\* p is read from the cursor c on: what it has is there, and nothing is left behind.
Fetched(t, c, p) ==
  /\ p = [route |-> t, keys |-> p.keys, cursor |-> p.cursor]
  /\ p.keys \in Seq(Family(t) \cap store) /\ p.cursor \in (Family(t) \cap store) \cup {None}
  /\ \A i, j \in DOMAIN p.keys : i < j => KeyBefore(p.keys[i], p.keys[j])
  /\ \A j \in DOMAIN p.keys : c # None => KeyBefore(c, p.keys[j])
  /\ p.cursor # None =>
       /\ c # None => KeyBefore(c, p.cursor)
       /\ \A j \in DOMAIN p.keys : p.keys[j] = p.cursor \/ KeyBefore(p.keys[j], p.cursor)
  /\ \A k \in Family(t) \cap store : c = None \/ KeyBefore(c, k) =>
       \/ \E j \in DOMAIN p.keys : p.keys[j] = k
       \/ p.cursor # None /\ KeyBefore(p.cursor, k)

LEMMA FetchGives ==
  ASSUME StoreIs, NEW t \in Listed, NEW c \in Family(t) \cup {None}, NEW p, p = Fetch(t, c)
  PROVE  Fetched(t, c, p)
<1>1. PICK K, f, page, A : /\ K = Seq(Seq(Nat)) /\ f = <<Channel, Templates[t]>>
                           /\ page = MemoryPage(store, f, None, c, PageLimit)
                           /\ A = Ahead(store, f, c)
  OBVIOUS
<1>2. store \in SUBSET Seq(Seq(Nat)) /\ IsFiniteSet(store)
  BY KeysAre DEF StoreIs
<1>3. PageLimit = None \/ PageLimit \in Nat \ {0}
  BY CatalogAssumption
<1>4. Serves(page, A)
  BY <1>1, <1>2, <1>3, PageHas
<1>5. A = {k \in Family(t) \cap store : c = None \/ KeyBefore(c, k)}
  BY <1>1 DEF Ahead, Family, StoreIs
<1>6. p = [route |-> t, keys |-> p.keys, cursor |-> p.cursor] /\ p.keys = page.keys /\ p.cursor = page.cursor
  BY <1>1 DEF Fetch
<1>7. page.keys \in Seq(A) /\ A \subseteq Family(t) \cap store
  BY <1>4, <1>5 DEF Serves
<1>8. page.keys \in Seq(Family(t) \cap store) /\ \A j \in DOMAIN page.keys : page.keys[j] \in A
  <2>1. PICK q, B : q = page.keys /\ B = Family(t) \cap store
    OBVIOUS
  <2>2. q \in Seq(A) /\ A \subseteq B
    BY <1>7, <2>1
  <2>3. q \in Seq(B) /\ \A j \in DOMAIN q : q[j] \in A
    BY <2>2
  <2> QED BY <2>1, <2>3
<1>9. /\ p.cursor \in (Family(t) \cap store) \cup {None}
      /\ p.cursor # None /\ c # None => KeyBefore(c, p.cursor)
  BY <1>4, <1>5, <1>6 DEF Serves
<1>10. /\ \A i, j \in DOMAIN p.keys : i < j => KeyBefore(p.keys[i], p.keys[j])
       /\ p.cursor # None =>
            \A j \in DOMAIN p.keys : p.keys[j] = p.cursor \/ KeyBefore(p.keys[j], p.cursor)
  BY <1>4, <1>6 DEF Serves
<1>11. \A j \in DOMAIN p.keys : c # None => KeyBefore(c, p.keys[j])
  BY <1>5, <1>6, <1>8
<1>12. \A k \in Family(t) \cap store : c = None \/ KeyBefore(c, k) =>
         \/ \E j \in DOMAIN p.keys : p.keys[j] = k
         \/ p.cursor # None /\ KeyBefore(p.cursor, k)
  BY <1>4, <1>5, <1>6 DEF Serves
<1> QED BY <1>6, <1>8, <1>9, <1>10, <1>11, <1>12 DEF Fetched

\* A parameter is bound to one of the segments that its name stands for.
LEMMA BoundIs ==
  ASSUME NEW t \in DOMAIN Templates, NEW u \in Seq(Nat), Matches(t, Segments(u))
  PROVE  /\ Bound(t, Segments(u)) \in [Names(t) -> Seq(Nat)]
         /\ \A n \in Names(t) : \E i \in Params(t) :
              /\ i \in DOMAIN Segments(u) /\ NameOf(Shape[t][i]) = n
              /\ Bound(t, Segments(u))[n] = Segments(u)[i]
<1>1. PICK segs, l : segs = Segments(u) /\ l = Len(segs)
  OBVIOUS
<1>2. /\ segs \in Seq(Seq(Nat)) /\ l \in Nat /\ DOMAIN segs = 1..l
      /\ \A i \in 1..l : segs[i] \in Seq(Nat)
  <2>1. segs \in Seq(Seq(Nat))
    BY <1>1, SegmentsAre
  <2>2. PICK A : A = Seq(Nat)
    OBVIOUS
  <2>3. segs \in Seq(A)
    BY <2>1, <2>2
  <2>4. l \in Nat /\ DOMAIN segs = 1..l /\ \A i \in 1..l : segs[i] \in A
    BY <1>1, <2>3
  <2> QED BY <2>1, <2>2, <2>4
<1>3. Params(t) \in SUBSET (1..l)
  <2>1. Len(Shape[t]) = l /\ Params(t) \subseteq DOMAIN Shape[t] /\ Shape[t] \in Seq(Seq(Nat))
    BY <1>1, ShapeIs DEF Matches
  <2>2. PICK A, s : A = Seq(Nat) /\ s = Shape[t]
    OBVIOUS
  <2>3. s \in Seq(A) /\ Len(s) = l /\ Params(t) \subseteq DOMAIN s
    BY <2>1, <2>2
  <2> QED BY <2>3
<1> DEFINE At(n) == {i \in Params(t) : NameOf(Shape[t][i]) = n}
           Winner(n) == CHOOSE i \in At(n) : \A j \in At(n) : j <= i
<1>4. Bound(t, segs) = [n \in Names(t) |-> segs[Winner(n)]]
  BY DEF Bound
<1>5. ASSUME NEW n \in Names(t)
      PROVE  Winner(n) \in At(n)
  <2>1. At(n) # {} /\ At(n) \in SUBSET (1..l)
    BY <1>3 DEF Names
  <2>2. PICK S : S = At(n)
    OBVIOUS
  <2>3. \E x \in S : \A y \in S : y <= x
    BY <1>2, <2>1, <2>2, GreatestOf
  <2> HIDE DEF At
  <2> QED BY <2>2, <2>3
<1> HIDE DEF Winner
<1>6. \A n \in Names(t) : Winner(n) \in Params(t) /\ NameOf(Shape[t][Winner(n)]) = n
  BY <1>5
<1> HIDE DEF At
<1>7. \A n \in Names(t) : Winner(n) \in DOMAIN segs /\ segs[Winner(n)] \in Seq(Nat)
  BY <1>2, <1>3, <1>6
<1>8. Bound(t, segs) \in [Names(t) -> Seq(Nat)]
  BY <1>4, <1>7
<1>9. \A n \in Names(t) : Bound(t, segs)[n] = segs[Winner(n)]
  BY <1>4
<1> QED BY <1>1, <1>6, <1>7, <1>8, <1>9

\* What a template matches has a route.
LEMMA RoutedIf ==
  ASSUME NEW t \in DOMAIN Templates, NEW u \in Addressed, u # None, Matches(t, Segments(u))
  PROVE  u \in Routed
<1> DEFINE hits == {s \in DOMAIN Templates : Matches(s, Segments(u))}
           least == CHOOSE s \in hits : \A r \in hits : s <= r
<1>1. hits # {} /\ hits \in SUBSET Nat
  <2>1. \A x \in DOMAIN Templates : x \in Nat
    BY CatalogAssumption
  <2> QED BY <2>1
<1>2. Match(u) = [route |-> least, params |-> Bound(least, Segments(u))]
  BY <1>1 DEF Match
<1>3. least \in DOMAIN Templates /\ Matches(least, Segments(u))
  <2>1. PICK S : S = hits
    OBVIOUS
  <2>2. \E s \in S : \A r \in S : s <= r
    BY <1>1, <2>1, LeastOf
  <2>3. least \in hits
    <3> HIDE DEF hits
    <3> QED BY <2>1, <2>2
  <2> QED BY <2>3
<1> HIDE DEF least, hits
<1>4. Bound(least, Segments(u)) \in [Names(least) -> Seq(Nat)]
  BY <1>3, AddressedIs, BoundIs
<1>5. Match(u) \in [route : {least}, params : [Names(least) -> Seq(Nat)]]
  BY <1>2, <1>4
<1>6. Match(u) # None
  BY <1>3, <1>5, CatalogAssumption
<1> QED BY <1>6 DEF Routed, Hit

\* A singleton's URI is its template.
LEMMA SingletonRouted ==
  ASSUME NEW t \in DOMAIN Templates, Singleton(t)
  PROVE  Templates[t] \in Routed
<1>1. Templates[t] \in Addressed
  BY DEF Addressed
<1>2. Templates[t] # None
  BY CatalogAssumption
<1>3. Matches(t, Segments(Templates[t]))
  BY ShapeIs DEF Matches, Singleton
<1> QED BY <1>1, <1>2, <1>3, RoutedIf

\* What a change of the storage makes of it.
LEMMA WriteIs ==
  ASSUME StoreIs, Next
  PROVE  \/ UNCHANGED store
         \/ /\ store' \subseteq AllKeys /\ IsFiniteSet(store')
            /\ Write(store')
<1>1. ASSUME NEW u \in Routed, Write(store \cup {KeyOf[u]})
      PROVE  store' \subseteq AllKeys /\ IsFiniteSet(store') /\ Write(store')
  <2>1. store' = store \cup {KeyOf[u]}
    BY <1>1 DEF Write
  <2>2. KeyOf[u] \in AllKeys
    BY KeysAre
  <2>3. IsFiniteSet(store \cup {KeyOf[u]})
    BY FS_AddElement DEF StoreIs
  <2> QED BY <1>1, <2>1, <2>2, <2>3 DEF StoreIs
<1>2. ASSUME NEW k, Write(store \ {k})
      PROVE  store' \subseteq AllKeys /\ IsFiniteSet(store') /\ Write(store')
  <2>1. store' = store \ {k}
    BY <1>2 DEF Write
  <2>2. IsFiniteSet(store \ {k})
    BY FS_RemoveElement DEF StoreIs
  <2> QED BY <1>2, <2>1, <2>2 DEF StoreIs
<1>3. CASE \E h \in Handles : Create(h)
  BY <1>1, <1>3 DEF Create
<1>4. CASE \E h \in Handles : Destroy(h)
  BY <1>2, <1>4 DEF Destroy
<1>5. CASE \E t \in DOMAIN Templates : Touch(t)
  BY <1>1, <1>5, SingletonRouted DEF Touch
<1>6. CASE (\E t \in Listed : BeginList(t)) \/ Yield \/ NextPage \/ EndList
  BY <1>6 DEF BeginList, Yield, NextPage, EndList
<1> QED BY <1>3, <1>4, <1>5, <1>6 DEF Next

\* A channel is created, touched or destroyed.
LEMMA WriteKeeps ==
  ASSUME Scanning, Write(store')
  PROVE  Scanning'
<1> SUFFICES ASSUME scan' # None
             PROVE  \E t \in Listed : ScanIs(t)'
  BY DEF Scanning
<1>1. scan' = scan /\ yielded' = yielded /\ scan # None
  BY DEF Write
<1>2. kept' = kept \cap store' /\ seen' = seen \cup store'
  BY <1>1 DEF Write
<1>3. PICK t \in Listed : ScanIs(t)
  BY <1>1 DEF Scanning
<1>4. /\ scan = [route |-> t, keys |-> scan.keys, cursor |-> scan.cursor]
      /\ kept \subseteq store /\ store \subseteq seen
      /\ YieldedIs(t) /\ PageIs(t) /\ NoneBehind(t)
  BY <1>3 DEF ScanIs
<1>5. \A i : Taken(i)' = Taken(i)
  BY <1>1 DEF Taken
<1>6. YieldedIs(t)'
  BY <1>1, <1>2, <1>4, <1>5 DEF YieldedIs
<1>7. PageIs(t)'
  <2>1. scan.keys \in Seq(Family(t) \cap seen')
    <3>1. PICK A, B, s : A = Family(t) \cap seen /\ B = Family(t) \cap seen' /\ s = scan.keys
      OBVIOUS
    <3>2. s \in Seq(A) /\ A \subseteq B
      BY <1>2, <1>4, <3>1 DEF PageIs
    <3>3. s \in Seq(B)
      BY <3>2
    <3> QED BY <3>1, <3>3
  <2> QED BY <1>1, <1>4, <1>5, <2>1 DEF PageIs
<1>8. NoneBehind(t)'
  BY <1>1, <1>2, <1>4, <1>5 DEF NoneBehind
<1>9. ScanIs(t)'
  BY <1>1, <1>2, <1>4, <1>6, <1>7, <1>8 DEF ScanIs
<1> QED BY <1>9

\* The first page.
LEMMA BeginKeeps ==
  ASSUME StoreIs, NEW t \in Listed, BeginList(t)
  PROVE  Scanning'
<1> SUFFICES ScanIs(t)'
  BY DEF Scanning
<1>1. /\ scan' = Fetch(t, None) /\ yielded' = << >> /\ store' = store
      /\ kept' = store /\ seen' = store
  BY DEF BeginList
<1>2. PICK p : p = scan'
  OBVIOUS
<1>3. /\ p = [route |-> t, keys |-> p.keys, cursor |-> p.cursor]
      /\ p.keys \in Seq(Family(t) \cap store) /\ p.cursor \in (Family(t) \cap store) \cup {None}
      /\ \A i, j \in DOMAIN p.keys : i < j => KeyBefore(p.keys[i], p.keys[j])
      /\ p.cursor # None =>
           /\ \A j \in DOMAIN p.keys : p.keys[j] = p.cursor \/ KeyBefore(p.keys[j], p.cursor)
      /\ \A k \in Family(t) \cap store :
           \/ \E j \in DOMAIN p.keys : p.keys[j] = k
           \/ p.cursor # None /\ KeyBefore(p.cursor, k)
  <2>1. None \in Family(t) \cup {None} /\ p = Fetch(t, None)
    BY <1>1, <1>2
  <2>2. Fetched(t, None, p)
    BY <2>1, FetchGives
  <2> QED BY <2>2 DEF Fetched
<1>4. DOMAIN yielded' = {} /\ yielded' \in Seq([uri : Routed, params : {Hit[u].params : u \in Routed}])
  BY <1>1
<1>5. YieldedIs(t)'
  BY <1>4 DEF YieldedIs
<1>6. PageIs(t)'
  BY <1>1, <1>2, <1>3, <1>4 DEF PageIs
<1>7. NoneBehind(t)'
  BY <1>1, <1>2, <1>3, <1>4 DEF NoneBehind
<1> QED BY <1>1, <1>2, <1>3, <1>5, <1>6, <1>7 DEF ScanIs

\* The next page.
LEMMA NextPageKeeps ==
  ASSUME StoreIs, Scanning, NextPage
  PROVE  Scanning'
<1> SUFFICES ASSUME scan' # None
             PROVE  \E t \in Listed : ScanIs(t)'
  BY DEF Scanning
<1>0. PICK t \in Listed : ScanIs(t)
  BY DEF NextPage, Scanning
<1>1. PICK c : t = scan.route /\ c = scan.cursor
  BY <1>0 DEF ScanIs
<1>2. /\ scan # None /\ scan.keys = << >> /\ c # None /\ scan' = Fetch(t, c)
      /\ store' = store /\ yielded' = yielded /\ kept' = kept /\ seen' = seen
  BY <1>1 DEF NextPage
<1>3. t \in Listed /\ kept \subseteq store /\ store \subseteq seen
      /\ YieldedIs(t) /\ PageIs(t) /\ NoneBehind(t)
  BY <1>0 DEF ScanIs
<1>4. PICK p : p = scan'
  OBVIOUS
<1>5. c \in Family(t) /\ DOMAIN scan.keys = {}
  BY <1>1, <1>2, <1>3 DEF PageIs
<1>6. /\ p = [route |-> t, keys |-> p.keys, cursor |-> p.cursor]
      /\ p.keys \in Seq(Family(t) \cap store) /\ p.cursor \in (Family(t) \cap store) \cup {None}
      /\ \A i, j \in DOMAIN p.keys : i < j => KeyBefore(p.keys[i], p.keys[j])
      /\ \A j \in DOMAIN p.keys : KeyBefore(c, p.keys[j])
      /\ p.cursor # None =>
           /\ KeyBefore(c, p.cursor)
           /\ \A j \in DOMAIN p.keys : p.keys[j] = p.cursor \/ KeyBefore(p.keys[j], p.cursor)
      /\ \A k \in Family(t) \cap store : KeyBefore(c, k) =>
           \/ \E j \in DOMAIN p.keys : p.keys[j] = k
           \/ p.cursor # None /\ KeyBefore(p.cursor, k)
  <2>1. c \in Family(t) \cup {None} /\ p = Fetch(t, c)
    BY <1>2, <1>4, <1>5
  <2>2. Fetched(t, c, p)
    BY <1>3, <2>1, FetchGives
  <2> QED BY <1>2, <2>2 DEF Fetched
<1>7. \A i : Taken(i)' = Taken(i)
  BY <1>2 DEF Taken
<1>8. YieldedIs(t)'
  BY <1>2, <1>3, <1>7 DEF YieldedIs
<1>9. \A i \in DOMAIN yielded : Taken(i) \in Family(t) /\ (Taken(i) = c \/ KeyBefore(Taken(i), c))
  BY <1>1, <1>2, <1>3 DEF PageIs, YieldedIs
<1>10. \A k, l, m \in Family(t) : KeyBefore(k, l) /\ KeyBefore(l, m) => KeyBefore(k, m)
  BY <1>3, FamilyOrdered
<1>11. \A i \in DOMAIN yielded, k \in Family(t) : KeyBefore(c, k) => KeyBefore(Taken(i), k)
  BY <1>5, <1>9, <1>10
<1>12. PageIs(t)'
  <2>1. p.keys \in Seq(Family(t) \cap seen)
    <3>1. PICK A, B, s : A = Family(t) \cap store /\ B = Family(t) \cap seen /\ s = p.keys
      OBVIOUS
    <3>2. s \in Seq(A) /\ A \subseteq B
      BY <1>3, <1>6, <3>1
    <3>3. s \in Seq(B)
      BY <3>2
    <3> QED BY <3>1, <3>3
  <2>2. \A j \in DOMAIN p.keys : p.keys[j] \in Family(t)
    <3>1. PICK B, s : B = Family(t) \cap seen /\ s = p.keys
      OBVIOUS
    <3>2. s \in Seq(B)
      BY <2>1, <3>1
    <3>3. \A j \in DOMAIN s : s[j] \in B
      BY <3>2
    <3> QED BY <3>1, <3>3
  <2>3. \A i \in DOMAIN yielded, j \in DOMAIN p.keys : KeyBefore(Taken(i), p.keys[j])
    BY <1>6, <1>11, <2>2
  <2>4. p.cursor # None => \A i \in DOMAIN yielded : KeyBefore(Taken(i), p.cursor)
    BY <1>6, <1>11
  <2> QED BY <1>2, <1>4, <1>6, <1>7, <2>1, <2>3, <2>4 DEF PageIs
<1>13. NoneBehind(t)'
  <2> SUFFICES ASSUME NEW k \in kept \cap Family(t)
               PROVE  \/ \E i \in DOMAIN yielded : Taken(i) = k
                      \/ \E j \in DOMAIN p.keys : p.keys[j] = k
                      \/ p.cursor # None /\ KeyBefore(p.cursor, k)
    BY <1>2, <1>4, <1>7 DEF NoneBehind
  <2>1. CASE \E i \in DOMAIN yielded : Taken(i) = k
    BY <2>1
  <2>2. CASE KeyBefore(c, k)
    <3>1. k \in Family(t) \cap store
      BY <1>3
    <3> QED BY <1>6, <2>2, <3>1
  <2> QED BY <1>1, <1>3, <1>5, <2>1, <2>2 DEF NoneBehind
<1>14. ScanIs(t)'
  BY <1>2, <1>3, <1>4, <1>6, <1>8, <1>12, <1>13 DEF ScanIs
<1> QED BY <1>14

\* The next instance of the page.
LEMMA YieldKeeps ==
  ASSUME Scanning, Yield
  PROVE  Scanning'
<1>0. PICK t \in Listed : ScanIs(t)
  BY DEF Yield, Scanning
<1>1. /\ scan = [route |-> t, keys |-> scan.keys, cursor |-> scan.cursor]
      /\ kept \subseteq store /\ store \subseteq seen
      /\ YieldedIs(t) /\ PageIs(t) /\ NoneBehind(t) /\ scan.keys # << >>
  BY <1>0 DEF ScanIs, Yield
<1>2. PICK q, B, c : q = scan.keys /\ B = Family(t) \cap seen /\ c = scan.cursor
  OBVIOUS
<1>3. PICK m, k : m = Len(q) /\ k = Head(q)
  OBVIOUS
<1>4. /\ q \in Seq(B) /\ m \in Nat /\ m >= 1 /\ DOMAIN q = 1..m /\ k = q[1] /\ k \in B
      /\ Tail(q) \in Seq(B) /\ DOMAIN Tail(q) = 1..(m - 1)
      /\ \A j \in 1..(m - 1) : j + 1 \in 1..m /\ Tail(q)[j] = q[j + 1]
  <2>1. q \in Seq(B) /\ q # << >>
    BY <1>1, <1>2 DEF PageIs
  <2> QED BY <1>3, <2>1
<1>5. PICK u : u = k[3]
  OBVIOUS
<1>6. t \in DOMAIN Templates
  BY CatalogAssumption
<1>7. u \in Routed /\ KeyOf[u] = k /\ Hit[u].route = t
  BY <1>2, <1>4, <1>5, <1>6, KeysAre
<1>8. PICK e : e = [uri |-> u, params |-> Hit[u].params]
  OBVIOUS
<1>9. PICK Y, n : Y = [uri : Routed, params : {Hit[v].params : v \in Routed}] /\ n = Len(yielded)
  OBVIOUS
<1>10. /\ yielded \in Seq(Y) /\ e \in Y /\ n \in Nat /\ DOMAIN yielded = 1..n
       /\ e.uri = u /\ e.params = Hit[u].params
  <2>1. yielded \in Seq(Y)
    BY <1>1, <1>9 DEF YieldedIs
  <2> QED BY <1>7, <1>8, <1>9, <2>1
<1>11. /\ yielded' = Append(yielded, e) /\ UNCHANGED <<store, kept, seen>>
       /\ scan' = [route |-> t, keys |-> Tail(q), cursor |-> c]
  <2>1. /\ yielded' = Append(yielded, e) /\ UNCHANGED <<store, kept, seen>>
        /\ scan' = [scan EXCEPT !.keys = Tail(@)]
    BY <1>2, <1>3, <1>5, <1>8 DEF Yield
  <2>2. scan = [route |-> t, keys |-> q, cursor |-> c]
    BY <1>1, <1>2
  <2>3. PICK w : w = Tail(q)
    OBVIOUS
  <2>4. scan' = [scan EXCEPT !.keys = w]
    BY <1>2, <2>1, <2>3
  <2>5. scan' = [route |-> t, keys |-> w, cursor |-> c]
    BY <2>2, <2>4
  <2> QED BY <2>1, <2>3, <2>5
<1>12. PICK p : p = scan'
  OBVIOUS
<1>13. p = [route |-> t, keys |-> p.keys, cursor |-> p.cursor] /\ p.keys = Tail(q) /\ p.cursor = c
  BY <1>11, <1>12
<1>14. PICK y : y = yielded'
  OBVIOUS
<1>15. /\ y \in Seq(Y) /\ DOMAIN y = 1..(n + 1) /\ y[n + 1] = e
       /\ \A i \in 1..n : y[i] = yielded[i]
  BY <1>10, <1>11, <1>14
<1> DEFINE T(i) == KeyOf[y[i].uri]
<1>16. \A i : Taken(i)' = T(i)
  BY <1>14 DEF Taken
<1>17. /\ T(n + 1) = k /\ \A i \in 1..n : T(i) = Taken(i)
  BY <1>7, <1>10, <1>15 DEF Taken
<1> HIDE DEF T
<1>18. /\ \A i \in 1..n : KeyBefore(Taken(i), k)
       /\ \A j \in 1..(m - 1) : KeyBefore(k, Tail(q)[j])
  <2>1. /\ \A i, j \in 1..m : i < j => KeyBefore(q[i], q[j])
        /\ \A i \in 1..n, j \in 1..m : KeyBefore(Taken(i), q[j])
    BY <1>1, <1>2, <1>4, <1>10 DEF PageIs
  <2>2. 1 \in 1..m
    BY <1>4
  <2>3. \A i \in 1..n : KeyBefore(Taken(i), k)
    BY <1>4, <2>1, <2>2
  <2>4. ASSUME NEW j \in 1..(m - 1) PROVE KeyBefore(k, Tail(q)[j])
    <3>1. 1 < j + 1 /\ j + 1 \in 1..m /\ Tail(q)[j] = q[j + 1]
      BY <1>4
    <3> QED BY <1>4, <2>1, <2>2, <3>1
  <2> QED BY <2>3, <2>4
<1>19. \A i \in 1..(n + 1) : i = n + 1 \/ i \in 1..n
  BY <1>10
<1>20. YieldedIs(t)'
  <2>1. ASSUME NEW i \in 1..(n + 1)
        PROVE  T(i) \in B /\ y[i].params = Hit[y[i].uri].params
    <3>1. CASE i = n + 1
      BY <1>4, <1>10, <1>15, <1>17, <3>1
    <3>2. CASE i \in 1..n
      BY <1>1, <1>2, <1>10, <1>15, <1>17, <3>2 DEF YieldedIs
    <3> QED BY <1>19, <3>1, <3>2
  <2>2. ASSUME NEW i \in 1..(n + 1), NEW j \in 1..(n + 1), i < j
        PROVE  KeyBefore(T(i), T(j))
    <3>1. i \in 1..n
      BY <1>10, <2>2
    <3>2. CASE j = n + 1
      BY <1>17, <1>18, <3>1, <3>2
    <3>3. CASE j \in 1..n
      BY <1>1, <1>10, <1>17, <2>2, <3>1, <3>3 DEF YieldedIs
    <3> QED BY <1>19, <3>2, <3>3
  <2> QED BY <1>2, <1>9, <1>11, <1>14, <1>15, <1>16, <2>1, <2>2 DEF YieldedIs
<1>21. PageIs(t)'
  <2>1. c \in Family(t) \cup {None}
    BY <1>1, <1>2 DEF PageIs
  <2>2. ASSUME NEW i \in 1..(m - 1), NEW j \in 1..(m - 1), i < j
        PROVE  KeyBefore(Tail(q)[i], Tail(q)[j])
    <3>1. i + 1 \in 1..m /\ j + 1 \in 1..m /\ i + 1 < j + 1
      BY <1>4, <2>2
    <3>2. KeyBefore(q[i + 1], q[j + 1])
      BY <1>1, <1>2, <1>4, <3>1 DEF PageIs
    <3> QED BY <1>4, <3>2
  <2>3. ASSUME NEW i \in 1..(n + 1), NEW j \in 1..(m - 1)
        PROVE  KeyBefore(T(i), Tail(q)[j])
    <3>1. CASE i = n + 1
      BY <1>17, <1>18, <3>1
    <3>2. CASE i \in 1..n
      <4>1. j + 1 \in 1..m
        BY <1>4
      <4>2. KeyBefore(Taken(i), q[j + 1])
        BY <1>1, <1>2, <1>4, <1>10, <3>2, <4>1 DEF PageIs
      <4> QED BY <1>4, <1>17, <3>2, <4>2
    <3> QED BY <1>19, <3>1, <3>2
  <2>4. ASSUME c # None, NEW i \in 1..(n + 1)
        PROVE  T(i) = c \/ KeyBefore(T(i), c)
    <3>1. CASE i = n + 1
      <4>1. 1 \in 1..m
        BY <1>4
      <4>2. q[1] = c \/ KeyBefore(q[1], c)
        BY <1>1, <1>2, <1>4, <2>4, <4>1 DEF PageIs
      <4> QED BY <1>4, <1>17, <3>1, <4>2
    <3>2. CASE i \in 1..n
      BY <1>1, <1>2, <1>10, <1>17, <2>4, <3>2 DEF PageIs
    <3> QED BY <1>19, <3>1, <3>2
  <2>5. ASSUME c # None, NEW j \in 1..(m - 1)
        PROVE  Tail(q)[j] = c \/ KeyBefore(Tail(q)[j], c)
    <3>1. j + 1 \in 1..m
      BY <1>4
    <3> QED BY <1>1, <1>2, <1>4, <2>5, <3>1 DEF PageIs
  <2> QED BY <1>2, <1>4, <1>11, <1>12, <1>13, <1>14, <1>15, <1>16, <2>1, <2>2, <2>3, <2>4, <2>5
          DEF PageIs
<1>22. NoneBehind(t)'
  <2> SUFFICES ASSUME NEW x \in kept \cap Family(t)
               PROVE  \/ \E i \in 1..(n + 1) : T(i) = x
                      \/ \E j \in 1..(m - 1) : Tail(q)[j] = x
                      \/ c # None /\ KeyBefore(c, x)
    BY <1>4, <1>11, <1>12, <1>13, <1>14, <1>15, <1>16 DEF NoneBehind
  <2>1. ASSUME NEW i \in 1..n, Taken(i) = x
        PROVE  \E j \in 1..(n + 1) : T(j) = x
    <3>1. i \in 1..(n + 1)
      BY <1>10
    <3> QED BY <1>17, <2>1, <3>1
  <2>2. ASSUME NEW j \in 1..m, q[j] = x
        PROVE  (\E i \in 1..(n + 1) : T(i) = x) \/ \E i \in 1..(m - 1) : Tail(q)[i] = x
    <3>1. CASE j = 1
      <4>1. n + 1 \in 1..(n + 1)
        BY <1>10
      <4> QED BY <1>4, <1>17, <2>2, <3>1, <4>1
    <3>2. CASE j # 1
      <4>1. PICK i \in 1..(m - 1) : j = i + 1
        <5>1. j - 1 \in 1..(m - 1) /\ j = (j - 1) + 1
          BY <1>4, <3>2
        <5> QED BY <5>1
      <4> QED BY <1>4, <2>2, <4>1
    <3> QED BY <3>1, <3>2
  <2> QED BY <1>1, <1>2, <1>4, <1>10, <2>1, <2>2 DEF NoneBehind
<1>23. ScanIs(t)'
  BY <1>1, <1>11, <1>12, <1>13, <1>20, <1>21, <1>22 DEF ScanIs
<1> QED BY <1>23 DEF Scanning

\* A scan is as it should be.
LEMMA CatalogInvariant ==
  Spec => [](StoreIs /\ Scanning)
<1>1. Init => StoreIs /\ Scanning
  BY CatalogAssumption DEF Init, StoreIs, Scanning, AllKeys
<1>2. StoreIs /\ Scanning /\ [Next]_vars => (StoreIs /\ Scanning)'
  <2> SUFFICES ASSUME StoreIs, Scanning, [Next]_vars
               PROVE  (StoreIs /\ Scanning)'
    OBVIOUS
  <2>1. CASE UNCHANGED vars
    BY <2>1 DEF vars, StoreIs, Scanning, ScanIs, YieldedIs, PageIs, NoneBehind, Taken
  <2>2. CASE Next
    <3>1. StoreIs'
      BY <2>2, WriteIs DEF StoreIs
    <3>2. Scanning'
      <4>1. CASE (\E h \in Handles : Create(h) \/ Destroy(h)) \/ \E t \in DOMAIN Templates : Touch(t)
        <5>1. \E keys : Write(keys)
          BY <4>1 DEF Create, Destroy, Touch
        <5>2. Write(store')
          BY <5>1 DEF Write
        <5> QED BY <5>2, WriteKeeps
      <4>2. CASE \E t \in Listed : BeginList(t)
        BY <4>2, BeginKeeps
      <4>3. CASE Yield
        BY <4>3, YieldKeeps
      <4>4. CASE NextPage
        BY <4>4, NextPageKeeps
      <4>5. CASE EndList
        BY <4>5 DEF EndList, Scanning
      <4> QED BY <2>2, <4>1, <4>2, <4>3, <4>4, <4>5 DEF Next
    <3> QED BY <3>1, <3>2
  <2> QED BY <2>1, <2>2
<1> QED BY <1>1, <1>2, PTL DEF Spec

\* A scan that channels are created and destroyed under yields each instance at most once
\* and in the order of the keys, none that did not exist at some moment of the scan, and in
\* the end every one that existed all along: list() of hub.ts over the pages of storage.ts.
THEOREM ScanCompletes == Spec => []ScanIsComplete
<1>1. StoreIs /\ Scanning => ScanIsComplete
  <2> SUFFICES ASSUME StoreIs, Scanning, scan # None
               PROVE  /\ \A i, j \in DOMAIN yielded :
                           i < j => Before(yielded[i].uri, yielded[j].uri)
                      /\ Uris(yielded) \subseteq InstancesOf(scan.route, seen)
                      /\ Ended => InstancesOf(scan.route, kept) \subseteq Uris(yielded)
    BY DEF ScanIsComplete
  <2>1. PICK t \in Listed : ScanIs(t)
    BY DEF Scanning
  <2>2. /\ scan.route = t /\ kept \subseteq store /\ store \subseteq seen
        /\ YieldedIs(t) /\ PageIs(t) /\ NoneBehind(t) /\ t \in DOMAIN Templates
    BY <2>1, CatalogAssumption DEF ScanIs
  <2>3. ASSUME NEW i \in DOMAIN yielded
        PROVE  /\ Taken(i) \in Family(t) \cap seen /\ Taken(i)[3] = yielded[i].uri
    <3>1. PICK Y : Y = [uri : Routed, params : {Hit[u].params : u \in Routed}]
      OBVIOUS
    <3>2. yielded \in Seq(Y)
      BY <2>2, <3>1 DEF YieldedIs
    <3>3. yielded[i] \in Y
      BY <3>2
    <3>4. yielded[i].uri \in Routed
      BY <3>1, <3>3
    <3> QED BY <2>2, <3>4, KeysAre DEF YieldedIs, Taken
  <2>4. ASSUME NEW i \in DOMAIN yielded, NEW j \in DOMAIN yielded, i < j
        PROVE  Before(yielded[i].uri, yielded[j].uri)
    <3>1. KeyBefore(Taken(i), Taken(j))
      BY <2>2, <2>4 DEF YieldedIs
    <3>2. Before(Taken(i)[3], Taken(j)[3])
      BY <2>2, <2>3, <3>1, FamilyOrder
    <3> QED BY <2>3, <3>2
  <2>5. Uris(yielded) \subseteq InstancesOf(scan.route, seen)
    <3> SUFFICES ASSUME NEW i \in DOMAIN yielded
                 PROVE  yielded[i].uri \in InstancesOf(t, seen)
      BY <2>2 DEF Uris
    <3> QED BY <2>3 DEF InstancesOf, Family
  <2>6. ASSUME Ended, NEW k \in kept, HasPrefix(k, <<Channel, Templates[t]>>)
        PROVE  k[3] \in Uris(yielded)
    <3>1. k \in Family(t)
      BY <2>2, <2>6 DEF YieldedIs, Family, StoreIs
    <3>2. \E i \in DOMAIN yielded : Taken(i) = k
      BY <2>2, <2>6, <3>1 DEF Ended, NoneBehind
    <3> QED BY <2>3, <3>2 DEF Uris
  <2>7. Ended => InstancesOf(scan.route, kept) \subseteq Uris(yielded)
    BY <2>2, <2>6 DEF InstancesOf
  <2> QED BY <2>4, <2>5, <2>7
<1> QED BY <1>1, CatalogInvariant, PTL

\* A string that split("/") leaves whole has no slash.
LEMMA OnePiece ==
  ASSUME NEW s \in Seq(Nat), Len(Segments(s)) = 1
  PROVE  \A q \in DOMAIN s : s[q] # Slash
<1> SUFFICES ASSUME NEW q \in DOMAIN s, s[q] = Slash PROVE FALSE
  OBVIOUS
<1>1. /\ Lists(CutAt(s), Cuts(s), Smaller)
      /\ Segments(s) = [i \in 1..(Len(CutAt(s)) - 1) |->
                          SubSeq(s, CutAt(s)[i] + 1, CutAt(s)[i + 1] - 1)]
  BY CutsListed
<1>2. PICK c, n, S : c = CutAt(s) /\ n = Cardinality(S) /\ S = Cuts(s)
  OBVIOUS
<1>3. /\ n \in Nat /\ c \in [1..n -> S]
      /\ \A x \in S : \E i \in 1..n : c[i] = x
  BY <1>1, <1>2 DEF Lists
<1>4. Len(c) = n
  BY <1>3
<1>5. n = 2
  <2>1. PICK z : z = Segments(s)
    OBVIOUS
  <2>2. Len(z) = 1 /\ z = [i \in 1..(n - 1) |-> SubSeq(s, c[i] + 1, c[i + 1] - 1)]
    BY <1>1, <1>2, <1>4, <2>1
  <2>3. n - 1 \in Nat => Len(z) = n - 1
    BY <2>2
  <2>4. 0 \in S
    BY <1>2 DEF Cuts
  <2>5. n >= 1
    BY <1>3, <2>4
  <2> QED BY <1>3, <2>2, <2>3, <2>5
<1>6. 0 \in S /\ q \in S /\ Len(s) + 1 \in S /\ q \in 1..Len(s) /\ Len(s) \in Nat
  BY <1>2 DEF Cuts
<1>7. PICK i, j, k \in 1..2 : c[i] = 0 /\ c[j] = q /\ c[k] = Len(s) + 1
  BY <1>3, <1>5, <1>6
<1>8. i # j /\ j # k /\ i # k
  BY <1>6, <1>7
<1> QED BY <1>7, <1>8

\* What a handle's parameters make of its template is bound to them again.
LEMMA BackAgain ==
  ASSUME NEW h \in Handles, NEW u, u = UriOf[h], u # None,
         \A n \in DOMAIN h.params : Len(Segments(h.params[n])) = 1
  PROVE  /\ Matches(h.route, Segments(u)) /\ u \in Addressed
         /\ Bound(h.route, Segments(u)) = h.params
<1>1. PICK t, p, f : t = h.route /\ p = h.params /\ f = Filled(t, p)
  OBVIOUS
<1>2. /\ t \in DOMAIN Templates /\ p \in [Names(t) -> Seq(Nat)]
      /\ f \in Seq(Seq(Nat)) /\ Len(f) = Len(Shape[t]) /\ Len(f) >= 1
  BY <1>1, FilledIs, CatalogAssumption
<1>3. u = Joined(f) /\ \A n \in Names(t) : p[n] # << >>
  <2>1. u = Resolve(t, p)
    BY <1>1 DEF UriOf
  <2> QED BY <1>1, <2>1 DEF Resolve, Filled
<1>4. /\ Shape[t] \in Seq(Seq(Nat)) /\ DOMAIN f = DOMAIN Shape[t]
      /\ \A i \in DOMAIN Shape[t] :
           f[i] = IF i \in Params(t) THEN p[NameOf(Shape[t][i])] ELSE Shape[t][i]
  BY <1>1, <1>2, ShapeIs DEF Filled
<1>5. ASSUME NEW i \in DOMAIN f, NEW q \in DOMAIN f[i]
      PROVE  f[i][q] # Slash
  <2>1. CASE i \in Params(t)
    <3>1. NameOf(Shape[t][i]) \in Names(t)
      BY <2>1 DEF Names
    <3>2. PICK v : v = p[NameOf(Shape[t][i])]
      OBVIOUS
    <3>3. v \in Seq(Nat) /\ Len(Segments(v)) = 1 /\ f[i] = v
      BY <1>1, <1>2, <1>4, <2>1, <3>1, <3>2
    <3> QED BY <3>3, OnePiece
  <2>2. CASE i \notin Params(t)
    BY <1>2, <1>4, <2>2, ShapeIs
  <2> QED BY <2>1, <2>2
<1>6. u \in Seq(Nat) /\ Segments(u) = f
  <2>1. \A i \in DOMAIN f : \A q \in DOMAIN f[i] : f[i][q] # Slash
    BY <1>5
  <2> QED BY <1>2, <1>3, <2>1, SegmentsOfJoined
<1>7. \A i \in Params(t) : i \in DOMAIN f /\ f[i] = p[NameOf(Shape[t][i])] /\ NameOf(Shape[t][i]) \in Names(t)
  BY <1>2, <1>4, ShapeIs DEF Names
<1>8. Matches(t, f)
  <2>1. \A i \in DOMAIN f : IF i \in Params(t) THEN f[i] # << >> ELSE Shape[t][i] = f[i]
    BY <1>3, <1>4, <1>7
  <2> QED BY <1>2, <2>1 DEF Matches
<1>9. /\ Bound(t, f) \in [Names(t) -> Seq(Nat)]
      /\ \A n \in Names(t) : \E i \in Params(t) : NameOf(Shape[t][i]) = n /\ Bound(t, f)[n] = f[i]
  BY <1>2, <1>6, <1>8, BoundIs
<1>10. \A n \in Names(t) : Bound(t, f)[n] = p[n]
  BY <1>7, <1>9
<1>11. Bound(t, f) = p
  <2>1. PICK b, N, V : b = Bound(t, f) /\ N = Names(t) /\ V = Seq(Nat)
    OBVIOUS
  <2>2. b \in [N -> V] /\ p \in [N -> V] /\ \A n \in N : b[n] = p[n]
    BY <1>2, <1>9, <1>10, <2>1
  <2>3. b = p
    BY <2>2
  <2> QED BY <2>1, <2>3
<1>12. u \in Addressed
  BY DEF Addressed
<1> QED BY <1>1, <1>6, <1>8, <1>11, <1>12

\* The handle of a template lists what it has created, with the parameters it was created
\* with: as long as no earlier template matches the same URI, and no value has a slash.
\* resolveUri and matchRoute of routes.ts undo each other, and the scan misses nothing.
THEOREM HandleLists == Spec => []HandleFindsItsOwn
<1>1. StoreIs /\ Scanning => HandleFindsItsOwn
  <2> SUFFICES ASSUME StoreIs, Scanning, Ended, NEW h \in Handles, NEW u, u = UriOf[h],
                      h.route = scan.route, u \in Routed,
                      \A n \in DOMAIN h.params : Len(Segments(h.params[n])) = 1,
                      \A s \in 1..(h.route - 1) : ~Matches(s, Segments(u)),
                      KeyOf[u] \in kept
               PROVE  \E i \in DOMAIN yielded : yielded[i] = [uri |-> u, params |-> h.params]
    BY DEF HandleFindsItsOwn
  <2>1. u # None
    BY DEF Routed, Hit
  <2>2. Matches(h.route, Segments(u)) /\ Bound(h.route, Segments(u)) = h.params
    BY <2>1, BackAgain
  <2>3. PICK t : FirstMatch(u, t) /\ Hit[u] = [route |-> t, params |-> Bound(t, Segments(u))]
    BY MatchIsFirst
  <2>4. h.route \in DOMAIN Templates /\ t \in DOMAIN Templates /\ t <= h.route
    BY <2>2, <2>3, CatalogAssumption DEF FirstMatch
  <2>5. t = h.route
    <3>1. \A x \in DOMAIN Templates : x \in Nat /\ x >= 1
      BY CatalogAssumption
    <3>2. t \notin 1..(h.route - 1)
      BY <2>3 DEF FirstMatch
    <3> QED BY <2>4, <3>1, <3>2
  <2>6. Hit[u].route = t /\ Hit[u].params = h.params
    BY <2>2, <2>3, <2>5
  <2>7. PICK s \in Listed : ScanIs(s)
    BY DEF Ended, Scanning
  <2>8. s = t /\ YieldedIs(t) /\ NoneBehind(t)
    BY <2>5, <2>7 DEF ScanIs
  <2>9. KeyOf[u] \in kept \cap Family(t)
    BY <2>4, <2>6, KeysAre
  <2>10. PICK i \in DOMAIN yielded : Taken(i) = KeyOf[u]
    BY <2>8, <2>9 DEF Ended, NoneBehind
  <2>11. PICK Y : Y = [uri : Routed, params : {Hit[v].params : v \in Routed}]
    OBVIOUS
  <2>12. yielded \in Seq(Y)
    BY <2>8, <2>11 DEF YieldedIs
  <2>13. yielded[i] \in Y
    BY <2>12
  <2>14. /\ yielded[i].uri \in Routed
         /\ yielded[i] = [uri |-> yielded[i].uri, params |-> yielded[i].params]
    BY <2>11, <2>13
  <2>15. yielded[i].uri = u
    <3>1. PICK v : v = yielded[i].uri
      OBVIOUS
    <3>2. v \in Routed /\ KeyOf[v] = KeyOf[u]
      BY <2>10, <2>14, <3>1 DEF Taken
    <3>3. KeyOf[v][3] = v /\ KeyOf[u][3] = u
      BY <3>2, KeysAre
    <3> QED BY <3>1, <3>2, <3>3
  <2>16. yielded[i].params = h.params
    BY <2>6, <2>8, <2>15 DEF YieldedIs
  <2> QED BY <2>14, <2>15, <2>16
<1> QED BY <1>1, CatalogInvariant, PTL
=============================================================================
