----------------------------- MODULE Induction -----------------------------
(***************************************************************************)
(* Induction over sets of numbers and over finite sets, and what folds and *)
(* sums come to, in the form the other proofs cite: the predicate is a     *)
(* set, the elements of which have it, because an operator cannot be       *)
(* handed to a theorem here.  Then what the operators of the community     *)
(* modules on sequences return.                                            *)
(***************************************************************************)
EXTENDS Integers, FiniteSets, Functions, SequencesExt, WellFoundedInduction,
        FiniteSetTheorems, SequenceTheorems, TLAPS

\* A set of numbers that is not empty has a least element.
LEMMA Least ==
    ASSUME NEW T, T \subseteq Nat, T # {}
    PROVE  \E x \in T : \A y \in T : x <= y
<1> DEFINE R == {ss \in Nat \X Nat : ss[1] < ss[2]}
<1>1. IsWellFoundedOn(R, Nat) BY NatLessThanWellFounded DEF OpToRel
<1> HIDE DEF R
<1>2. PICK x \in T : \A y \in T : ~ (<<y, x>> \in R) BY <1>1, WFMin
<1>3. \A y \in T : ~(y < x) BY <1>2 DEF R
<1> QED BY <1>3

\* The same up to a number.
LEMMA UpTo ==
    ASSUME NEW N \in Nat, NEW S, 0 \in S, \A n \in 0 .. N : n \in S /\ n < N => n + 1 \in S
    PROVE  0 .. N \subseteq S
<1> DEFINE T == (0 .. N) \ S
<1> SUFFICES ASSUME T # {} PROVE FALSE OBVIOUS
<1>1. PICK x \in T : \A y \in T : x <= y
  <2>1. T \subseteq Nat OBVIOUS
  <2> HIDE DEF T
  <2> QED BY <2>1, Least
<1>2. x # 0 /\ x - 1 \in 0 .. N /\ x - 1 \notin T /\ x - 1 < N BY <1>1
<1> QED BY <1>1, <1>2

\* The ways to list a set of numbers from the least to the greatest.
IncreasingLists(T) ==
    {s \in [1 .. Cardinality(T) -> T] :
        \A i, j \in 1 .. Cardinality(T) : i < j => s[i] < s[j]}

LEMMA OneMoreListed ==
    ASSUME NEW U, IsFiniteSet(U), U \subseteq Nat, NEW x \in Nat,
           \A u \in U : u < x, NEW s \in IncreasingLists(U)
    PROVE  \E r \in IncreasingLists(U \cup {x}) : TRUE
<1> DEFINE k == Cardinality(U)
           r == [i \in 1 .. k + 1 |-> IF i = k + 1 THEN x ELSE s[i]]
<1>1. k \in Nat /\ Cardinality(U \cup {x}) = k + 1
  BY FS_CardinalityType, FS_AddElement
<1>2. s \in [1 .. k -> U] /\ \A i, j \in 1 .. k : i < j => s[i] < s[j]
  BY DEF IncreasingLists
<1> HIDE DEF k
<1>3. r \in [1 .. k + 1 -> U \cup {x}]
  <2> SUFFICES ASSUME NEW i \in 1 .. k + 1 PROVE r[i] \in U \cup {x} OBVIOUS
  <2>1. i # k + 1 => i \in 1 .. k BY <1>1
  <2> QED BY <1>2, <2>1
<1>4. ASSUME NEW i \in 1 .. k + 1, NEW j \in 1 .. k + 1, i < j PROVE r[i] < r[j]
  <2>1. i \in 1 .. k /\ r[i] = s[i] BY <1>1, <1>4
  <2>2. CASE j = k + 1
    <3>1. r[j] = x /\ s[i] \in U BY <1>2, <2>1, <2>2
    <3> QED BY <2>1, <3>1
  <2>3. CASE j # k + 1
    <3>1. j \in 1 .. k /\ r[j] = s[j] BY <1>1, <2>3
    <3>2. s[i] < s[j] BY <1>2, <1>4, <2>1, <3>1
    <3> QED BY <2>1, <3>1, <3>2
  <2> QED BY <2>2, <2>3
<1> HIDE DEF r
<1>5. r \in IncreasingLists(U \cup {x}) BY <1>1, <1>3, <1>4 DEF IncreasingLists
<1> QED BY <1>5

\* A set of numbers up to N can be listed so.
LEMMA Listed ==
    ASSUME NEW N \in Nat, NEW T \in SUBSET (1 .. N)
    PROVE  \E s \in IncreasingLists(T) : TRUE
<1> DEFINE Good == {n \in 0 .. N : \E s \in IncreasingLists(T \cap (1 .. n)) : TRUE}
<1>1. \A n \in 0 .. N : IsFiniteSet(T \cap (1 .. n))
  <2>1. IsFiniteSet(1 .. N) BY FS_Interval
  <2>2. IsFiniteSet(T) BY <2>1, FS_Subset
  <2> QED BY <2>2, FS_Intersection
<1>2. 0 \in Good
  <2>1. T \cap (1 .. 0) = {} OBVIOUS
  <2>2. 1 .. Cardinality({}) = {} BY FS_EmptySet
  <2>3. <<>> \in IncreasingLists({}) BY <2>2 DEF IncreasingLists
  <2> QED BY <2>1, <2>3
<1>3. ASSUME NEW n \in 0 .. N, n \in Good, n < N PROVE n + 1 \in Good
  <2> DEFINE U == T \cap (1 .. n)
  <2>1. PICK s \in IncreasingLists(U) : TRUE BY <1>3
  <2>2. CASE n + 1 \notin T
    <3>1. T \cap (1 .. (n + 1)) = U BY <2>2
    <3> QED BY <1>3, <2>1, <3>1
  <2>3. CASE n + 1 \in T
    <3>1. T \cap (1 .. (n + 1)) = U \cup {n + 1} BY <2>3
    <3>2. IsFiniteSet(U) /\ U \subseteq Nat /\ \A u \in U : u < n + 1 BY <1>1
    <3> HIDE DEF U
    <3>3. \E r \in IncreasingLists(U \cup {n + 1}) : TRUE
      <4>1. n + 1 \in Nat OBVIOUS
      <4> QED BY <2>1, <3>2, <4>1, OneMoreListed
    <3>4. n + 1 \in 0 .. N BY <1>3
    <3> QED BY <3>1, <3>3, <3>4
  <2> QED BY <2>2, <2>3
<1>4. N \in Good
  <2> HIDE DEF Good
  <2>1. 0 .. N \subseteq Good
    <3>1. \A n \in 0 .. N : n \in Good /\ n < N => n + 1 \in Good BY <1>3
    <3> QED BY <1>2, <3>1, UpTo
  <2> QED BY <2>1
<1>5. T \cap (1 .. N) = T OBVIOUS
<1> QED BY <1>4, <1>5

\* Such a list has all members of the set.
LEMMA AllListed ==
    ASSUME NEW T, IsFiniteSet(T), T \subseteq Nat, NEW s \in IncreasingLists(T)
    PROVE  \A t : t \in T <=> \E i \in 1 .. Cardinality(T) : s[i] = t
<1> DEFINE k == Cardinality(T)
<1>1. k \in Nat BY FS_CardinalityType
<1>2. s \in [1 .. k -> T] /\ \A i, j \in 1 .. k : i < j => s[i] < s[j]
  BY DEF IncreasingLists
<1>3. Cardinality(1 .. k) = k BY <1>1, FS_Interval
<1> HIDE DEF k
<1>4. ASSUME NEW i \in 1 .. k, NEW j \in 1 .. k, s[i] = s[j] PROVE i = j
  <2> SUFFICES ASSUME i # j PROVE FALSE OBVIOUS
  <2>1. s[i] \in Nat /\ s[j] \in Nat BY <1>2
  <2>2. i < j \/ j < i BY <1>1
  <2> QED BY <1>2, <1>4, <2>1, <2>2
<1>5. s \in Injection(1 .. k, T) BY <1>2, <1>4 DEF Injection, IsInjective
<1>6. s \in Surjection(1 .. k, T) BY <1>3, <1>5, FS_Injection DEF k
<1> QED BY <1>2, <1>6 DEF Surjection, k

\* The greatest of a set of numbers, as Max chooses it.
Greatest(s) == CHOOSE x \in s : \A y \in s : x >= y

LEMMA GreatestIs ==
    ASSUME NEW s, s \subseteq Int, NEW x \in s, \A y \in s : x >= y
    PROVE  Greatest(s) = x
<1>1. \E z \in s : \A y \in s : z >= y OBVIOUS
<1>2. Greatest(s) \in s /\ \A y \in s : Greatest(s) >= y BY <1>1 DEF Greatest
<1>3. Greatest(s) >= x /\ x >= Greatest(s) BY <1>2
<1>4. Greatest(s) \in Int /\ x \in Int BY <1>2
<1> HIDE DEF Greatest
<1> QED BY <1>3, <1>4

LEMMA GreatestIn ==
    ASSUME NEW n \in Nat, NEW s \in SUBSET (1 .. n), s # {}
    PROVE  Greatest(s) \in s
<1> DEFINE T == {n - x : x \in s}
<1>0. \A x \in s : x \in Int /\ n - x \in Nat OBVIOUS
<1>1. T \subseteq Nat /\ T # {} BY <1>0
<1>2. PICK t \in T : \A y \in T : t <= y
  <2> HIDE DEF T
  <2> QED BY <1>1, Least
<1>3. PICK x \in s : t = n - x BY <1>2
<1>4. \A y \in s : n - x <= n - y BY <1>2, <1>3
<1>5. \A y \in s : x >= y BY <1>0, <1>4
<1>6. s \subseteq Int BY <1>0
<1>7. Greatest(s) = x BY <1>5, <1>6, GreatestIs
<1> QED BY <1>7

\* A fold of the parts of the list, in the form FoldLeft has: with the empty part it
\* begins, and a part is one step more than the part without its last element.
FoldsTo(S, base, step, g) ==
    \A s \in SUBSET S :
        g[s] = IF s = {} THEN base ELSE step[Greatest(s)][g[s \ {Greatest(s)}]]

LEMMA OneMoreFolded ==
    ASSUME NEW S, NEW B, NEW base, NEW x, x \notin S,
           NEW step, \A b \in B : step[x][b] \in B,
           \A s \in SUBSET (S \cup {x}) : x \in s => Greatest(s) = x,
           NEW g \in [SUBSET S -> B], FoldsTo(S, base, step, g)
    PROVE  \E h \in [SUBSET (S \cup {x}) -> B] : FoldsTo(S \cup {x}, base, step, h)
<1> DEFINE P == SUBSET (S \cup {x})
           h == [s \in P |-> IF x \in s THEN step[x][g[s \ {x}]] ELSE g[s]]
<1>1. \A s \in P : s \ {x} \in SUBSET S OBVIOUS
<1>2. \A s \in P : \A y : s \ {y} \in P OBVIOUS
<1>3. \A s \in P : x \notin s => s \in SUBSET S OBVIOUS
<1>4. \A s \in P : x \in s => Greatest(s) = x OBVIOUS
<1> HIDE DEF P
<1>5. \A s \in P : h[s] = IF x \in s THEN step[x][g[s \ {x}]] ELSE g[s] BY Zenon
<1>6. \A s \in P : h[s] \in B
  <2> HIDE DEF h
  <2> SUFFICES ASSUME NEW s \in P PROVE h[s] \in B OBVIOUS
  <2>1. CASE x \in s
    <3>1. g[s \ {x}] \in B BY <1>1
    <3>2. step[x][g[s \ {x}]] \in B BY <3>1
    <3> QED BY <1>5, <2>1, <3>2
  <2>2. CASE x \notin s
    <3>1. g[s] \in B BY <1>3, <2>2
    <3> QED BY <1>5, <2>2, <3>1
  <2> QED BY <2>1, <2>2
<1>7. h \in [P -> B] BY <1>6
<1> HIDE DEF h
<1>8. ASSUME NEW s \in P
      PROVE  h[s] = IF s = {} THEN base ELSE step[Greatest(s)][h[s \ {Greatest(s)}]]
  <2>1. CASE x \in s
    <3>1. Greatest(s) = x BY <1>4, <2>1
    <3>2. s \ {x} \in P /\ x \notin s \ {x} BY <1>2
    <3>3. h[s \ {x}] = g[s \ {x}] BY <1>5, <3>2
    <3>4. h[s] = step[x][g[s \ {x}]] /\ s # {} BY <1>5, <2>1
    <3> QED BY <3>1, <3>3, <3>4
  <2>2. CASE x \notin s
    <3>1. h[s] = g[s] /\ s \in SUBSET S BY <1>3, <1>5, <2>2
    <3>2. s \ {Greatest(s)} \in P /\ x \notin s \ {Greatest(s)} BY <1>2, <2>2
    <3>3. h[s \ {Greatest(s)}] = g[s \ {Greatest(s)}] BY <1>5, <3>2
    <3>4. g[s] = IF s = {} THEN base ELSE step[Greatest(s)][g[s \ {Greatest(s)}]]
      BY <3>1 DEF FoldsTo
    <3> QED BY <3>1, <3>3, <3>4
  <2> QED BY <2>1, <2>2
<1>9. FoldsTo(S \cup {x}, base, step, h) BY <1>8 DEF FoldsTo, P
<1> QED BY <1>7, <1>9 DEF P

LEMMA FoldExists ==
    ASSUME NEW n \in Nat, NEW B, NEW base \in B,
           NEW step, \A i \in 1 .. n : \A b \in B : step[i][b] \in B
    PROVE  \E g \in [SUBSET (1 .. n) -> B] : FoldsTo(1 .. n, base, step, g)
<1> DEFINE Good == {m \in 0 .. n : \E g \in [SUBSET (1 .. m) -> B] :
                                       FoldsTo(1 .. m, base, step, g)}
<1>1. 0 \in Good
  <2> DEFINE P == SUBSET (1 .. 0)
             g == [s \in P |-> base]
  <2>1. \A s \in P : s = {} OBVIOUS
  <2> HIDE DEF P
  <2>2. g \in [P -> B] /\ \A s \in P : g[s] = base OBVIOUS
  <2> HIDE DEF g
  <2>3. FoldsTo(1 .. 0, base, step, g) BY <2>1, <2>2 DEF FoldsTo, P
  <2>4. \E f \in [P -> B] : FoldsTo(1 .. 0, base, step, f) BY <2>2, <2>3
  <2>5. \E f \in [SUBSET (1 .. 0) -> B] : FoldsTo(1 .. 0, base, step, f) BY <2>4 DEF P
  <2>6. 0 \in 0 .. n OBVIOUS
  <2> QED BY <2>5, <2>6
<1>2. ASSUME NEW m \in 0 .. n, m \in Good, m < n PROVE m + 1 \in Good
  <2>1. PICK g \in [SUBSET (1 .. m) -> B] : FoldsTo(1 .. m, base, step, g) BY <1>2
  <2>2. /\ m + 1 \in 0 .. n /\ m + 1 \in 1 .. n /\ m + 1 \notin 1 .. m
        /\ 1 .. (m + 1) = (1 .. m) \cup {m + 1}
    BY <1>2
  <2>3. ASSUME NEW s \in SUBSET ((1 .. m) \cup {m + 1}), m + 1 \in s
        PROVE  Greatest(s) = m + 1
    <3>1. s \subseteq Int /\ \A y \in s : m + 1 >= y OBVIOUS
    <3> QED BY <2>3, <3>1, GreatestIs
  <2>4. \A b \in B : step[m + 1][b] \in B BY <2>2
  <2>5. \E h \in [SUBSET ((1 .. m) \cup {m + 1}) -> B] :
           FoldsTo((1 .. m) \cup {m + 1}, base, step, h)
    BY <2>1, <2>2, <2>3, <2>4, OneMoreFolded
  <2> QED BY <2>2, <2>5
<1>3. n \in Good
  <2> HIDE DEF Good
  <2>1. 0 .. n \subseteq Good
    <3>1. \A m \in 0 .. n : m \in Good /\ m < n => m + 1 \in Good BY <1>2
    <3> QED BY <1>1, <3>1, UpTo
  <2> QED BY <2>1
<1> QED BY <1>3

\* The part of a list that a fold takes last.
LEMMA MaxIs ==
    ASSUME NEW n \in Nat, NEW d \in SUBSET (1 .. n), d # {}
    PROVE  Max(d) = Greatest(d) /\ Max(d) \in d
<1>1. Max(d) = Greatest(d) BY DEF Max, Greatest
<1> QED BY <1>1, GreatestIn

LEMMA FirstParts ==
    ASSUME NEW n \in Nat, NEW k \in 1 .. n
    PROVE  /\ 1 .. k \in SUBSET (1 .. n) /\ 1 .. k # {}
           /\ Max(1 .. k) = k /\ (1 .. k) \ {Max(1 .. k)} = 1 .. (k - 1)
<1>1. 1 .. k \subseteq Int /\ k \in 1 .. k /\ \A y \in 1 .. k : k >= y OBVIOUS
<1>2. Max(1 .. k) = k BY <1>1, GreatestIs DEF Max, Greatest
<1> QED BY <1>2

-----------------------------------------------------------------------------
(* Recursive functions *)

\* A function whose value at a place follows from those at places of lower rank.
Determined(S, V, rank, H) ==
    \A s \in S : \A f, g \in [S -> V] :
        (\A t \in S : rank[t] < rank[s] => f[t] = g[t]) => H[s][f] = H[s][g]

RecursesTo(S, H, n, rank, g) == \A s \in S : rank[s] < n => g[s] = H[s][g]

LEMMA RecursionUnique ==
    ASSUME NEW S, NEW V, NEW rank \in [S -> Nat], NEW H,
           Determined(S, V, rank, H),
           NEW n \in Nat, NEW f \in [S -> V], NEW g \in [S -> V],
           RecursesTo(S, H, n, rank, f), RecursesTo(S, H, n, rank, g)
    PROVE  \A s \in S : rank[s] < n => f[s] = g[s]
<1> DEFINE Bad == {rank[s] : s \in {t \in S : rank[t] < n /\ f[t] # g[t]}}
<1> SUFFICES ASSUME Bad # {} PROVE FALSE OBVIOUS
<1>1. PICK x \in Bad : \A y \in Bad : x <= y
  <2>1. Bad \subseteq Nat OBVIOUS
  <2> HIDE DEF Bad
  <2> QED BY <2>1, Least
<1>2. PICK s \in S : x = rank[s] /\ rank[s] < n /\ f[s] # g[s] BY <1>1
<1>3. \A t \in S : rank[t] < rank[s] => f[t] = g[t]
  <2> SUFFICES ASSUME NEW t \in S, rank[t] < rank[s], f[t] # g[t] PROVE FALSE OBVIOUS
  <2>0. rank[t] \in Nat /\ rank[s] \in Nat OBVIOUS
  <2>1. rank[t] \in Bad BY <1>2, <2>0
  <2>2. rank[s] <= rank[t] BY <1>1, <1>2, <2>1
  <2> QED BY <2>0, <2>2
<1>4. f[s] = H[s][f] /\ g[s] = H[s][g] BY <1>2 DEF RecursesTo
<1>5. H[s][f] = H[s][g] BY <1>3 DEF Determined
<1> QED BY <1>2, <1>4, <1>5

LEMMA RecursionUpTo ==
    ASSUME NEW S, NEW V, NEW v \in V, NEW rank \in [S -> Nat], NEW H,
           \A s \in S : \A g \in [S -> V] : H[s][g] \in V,
           Determined(S, V, rank, H),
           NEW n \in Nat
    PROVE  \E g \in [S -> V] : RecursesTo(S, H, n, rank, g)
<1> DEFINE Good == {m \in 0 .. n : \E g \in [S -> V] : RecursesTo(S, H, m, rank, g)}
<1>1. 0 \in Good
  <2> DEFINE g == [s \in S |-> v]
  <2>1. g \in [S -> V] OBVIOUS
  <2>2. RecursesTo(S, H, 0, rank, g) BY DEF RecursesTo
  <2> HIDE DEF g
  <2> QED BY <2>1, <2>2
<1>2. ASSUME NEW m \in 0 .. n, m \in Good, m < n PROVE m + 1 \in Good
  <2>1. PICK g \in [S -> V] : RecursesTo(S, H, m, rank, g) BY <1>2
  <2> DEFINE h == [s \in S |-> H[s][g]]
  <2>2. h \in [S -> V] OBVIOUS
  <2>3. \A s \in S : h[s] = H[s][g] OBVIOUS
  <2> HIDE DEF h
  <2>4. ASSUME NEW s \in S, rank[s] < m + 1 PROVE h[s] = H[s][h]
    <3>1. \A t \in S : rank[t] < rank[s] => h[t] = g[t]
      <4> SUFFICES ASSUME NEW t \in S, rank[t] < rank[s] PROVE h[t] = g[t] OBVIOUS
      <4>1. rank[t] < m
        <5>1. rank[t] \in Nat /\ rank[s] \in Nat OBVIOUS
        <5> QED BY <2>4, <5>1
      <4>2. g[t] = H[t][g] BY <2>1, <4>1 DEF RecursesTo
      <4> QED BY <2>3, <4>2
    <3>2. H[s][h] = H[s][g] BY <2>2, <3>1 DEF Determined
    <3> QED BY <2>3, <3>2
  <2>5. RecursesTo(S, H, m + 1, rank, h) BY <2>4 DEF RecursesTo
  <2>6. m + 1 \in 0 .. n BY <1>2
  <2> QED BY <2>2, <2>5, <2>6
<1>3. n \in Good
  <2> HIDE DEF Good
  <2>1. \A m \in 0 .. n : m \in Good /\ m < n => m + 1 \in Good BY <1>2
  <2>2. 0 .. n \subseteq Good BY <1>1, <2>1, UpTo
  <2> QED BY <2>2
<1> QED BY <1>3

LEMMA Recursion ==
    ASSUME NEW S, NEW V, NEW v \in V, NEW rank \in [S -> Nat], NEW H,
           \A s \in S : \A g \in [S -> V] : H[s][g] \in V,
           Determined(S, V, rank, H)
    PROVE  \E F \in [S -> V] : \A s \in S : F[s] = H[s][F]
<1> DEFINE upTo == [n \in Nat |-> CHOOSE g \in [S -> V] : RecursesTo(S, H, n, rank, g)]
           F == [s \in S |-> upTo[rank[s] + 1][s]]
<1>1. ASSUME NEW n \in Nat
      PROVE  upTo[n] \in [S -> V] /\ RecursesTo(S, H, n, rank, upTo[n])
  <2>1. \E g \in [S -> V] : RecursesTo(S, H, n, rank, g) BY RecursionUpTo
  <2> QED BY <2>1
<1> HIDE DEF upTo
<1>2. \A s \in S : rank[s] \in Nat /\ rank[s] + 1 \in Nat OBVIOUS
<1>3. F \in [S -> V] BY <1>1, <1>2
<1>4. \A s \in S : F[s] = upTo[rank[s] + 1][s] OBVIOUS
<1> HIDE DEF F
<1>5. ASSUME NEW s \in S PROVE F[s] = H[s][F]
  <2> DEFINE g == upTo[rank[s] + 1]
  <2>1. g \in [S -> V] /\ RecursesTo(S, H, rank[s] + 1, rank, g) BY <1>1, <1>2
  <2>2. \A t \in S : rank[t] < rank[s] => F[t] = g[t]
    <3> SUFFICES ASSUME NEW t \in S, rank[t] < rank[s] PROVE F[t] = g[t] OBVIOUS
    <3> DEFINE h == upTo[rank[t] + 1]
    <3>1. h \in [S -> V] /\ RecursesTo(S, H, rank[t] + 1, rank, h) BY <1>1, <1>2
    <3>2. F[t] = h[t] BY <1>4
    <3> HIDE DEF g, h
    <3>3. RecursesTo(S, H, rank[t] + 1, rank, g)
      <4>1. \A u \in S : rank[u] < rank[t] + 1 => rank[u] < rank[s] + 1 BY <1>2
      <4> QED BY <2>1, <4>1 DEF RecursesTo
    <3>4. rank[t] < rank[t] + 1 BY <1>2
    <3>5. \A u \in S : rank[u] < rank[t] + 1 => g[u] = h[u]
      <4> DEFINE n == rank[t] + 1
      <4>1. n \in Nat BY <1>2
      <4>2. RecursesTo(S, H, n, rank, g) /\ RecursesTo(S, H, n, rank, h) BY <3>1, <3>3
      <4>3. g \in [S -> V] /\ h \in [S -> V] BY <2>1, <3>1
      <4> HIDE DEF n
      <4>4. \A u \in S : rank[u] < n => g[u] = h[u] BY <4>1, <4>2, <4>3, RecursionUnique
      <4> QED BY <4>4 DEF n
    <3> QED BY <3>2, <3>4, <3>5
  <2>3. F[s] = g[s] BY <1>4
  <2> HIDE DEF g
  <2>4. g[s] = H[s][g]
    <3>1. rank[s] < rank[s] + 1 BY <1>2
    <3> QED BY <2>1, <3>1 DEF RecursesTo
  <2>5. H[s][F] = H[s][g] BY <1>3, <2>1, <2>2 DEF Determined
  <2> QED BY <2>3, <2>4, <2>5
<1> QED BY <1>3, <1>5

-----------------------------------------------------------------------------
(* Sums *)

\* Of the sets of a family of finite sets one has no other below it.
LEMMA LeastSubset ==
    ASSUME NEW S, IsFiniteSet(S), NEW Bad, Bad \subseteq SUBSET S, Bad # {}
    PROVE  \E T \in Bad : \A x \in T : T \ {x} \notin Bad
<1> DEFINE Sizes == {Cardinality(T) : T \in Bad}
<1>1. \A T \in Bad : IsFiniteSet(T) /\ Cardinality(T) \in Nat
  BY FS_Subset, FS_CardinalityType
<1>2. Sizes \subseteq Nat /\ Sizes # {} BY <1>1
<1>3. PICK k \in Sizes : \A y \in Sizes : k <= y
  <2> HIDE DEF Sizes
  <2> QED BY <1>2, Least
<1>4. PICK T \in Bad : \A U \in Bad : Cardinality(T) <= Cardinality(U) BY <1>3
<1>5. ASSUME NEW x \in T, T \ {x} \in Bad PROVE FALSE
  <2>1. IsFiniteSet(T) /\ Cardinality(T) \in Nat BY <1>1
  <2>2. Cardinality(T \ {x}) = Cardinality(T) - 1 BY <2>1, FS_RemoveElement
  <2>3. Cardinality(T) <= Cardinality(T \ {x}) BY <1>4, <1>5
  <2> QED BY <2>1, <2>2, <2>3
<1> QED BY <1>5

\* The element a sum takes next.
Pick(s) == CHOOSE x \in s : TRUE

\* What the sums over the subsets of a set are.
SumsUp(f, S, g) ==
    \A s \in SUBSET S : g[s] = IF s = {} THEN 0 ELSE f[Pick(s)] + g[s \ {Pick(s)}]

LEMMA NothingUp ==
    ASSUME NEW f, NEW S, NEW g, SumsUp(f, S, g)
    PROVE  g[{}] = 0
<1>1. {} \in SUBSET S OBVIOUS
<1> QED BY <1>1 DEF SumsUp

\* Sums over the subsets of at most m elements.
LEMMA SumsExist ==
    ASSUME NEW S, IsFiniteSet(S), NEW f, \A x \in S : f[x] \in Int
    PROVE  \E g \in [SUBSET S -> Int] : SumsUp(f, S, g)
<1> DEFINE n == Cardinality(S)
           Small(m) == {s \in SUBSET S : Cardinality(s) <= m}
           Good == {m \in 0 .. n : \E g \in [Small(m) -> Int] :
                      \A s \in Small(m) :
                         g[s] = IF s = {} THEN 0 ELSE f[Pick(s)] + g[s \ {Pick(s)}]}
<1>1. n \in Nat /\ \A s \in SUBSET S : IsFiniteSet(s) /\ Cardinality(s) \in 0 .. n
  BY FS_Subset, FS_CardinalityType
<1>2. ASSUME NEW s \in SUBSET S, s # {}
      PROVE  /\ Pick(s) \in s /\ f[Pick(s)] \in Int
             /\ Cardinality(s \ {Pick(s)}) = Cardinality(s) - 1
  <2>1. Pick(s) \in s BY <1>2 DEF Pick
  <2> QED BY <1>1, <2>1, FS_RemoveElement
<1>3. \A s \in SUBSET S : Cardinality(s) <= 0 <=> s = {}
  BY <1>1, FS_EmptySet
<1> HIDE DEF n
<1>4. 0 \in Good
  <2> DEFINE g == [s \in Small(0) |-> 0]
  <2>1. g \in [Small(0) -> Int] OBVIOUS
  <2>2. \A s \in Small(0) : s = {} BY <1>3
  <2>3. \A s \in Small(0) : g[s] = 0 OBVIOUS
  <2> HIDE DEF g
  <2>4. \E h \in [Small(0) -> Int] : \A s \in Small(0) :
           h[s] = IF s = {} THEN 0 ELSE f[Pick(s)] + h[s \ {Pick(s)}]
    BY <2>1, <2>2, <2>3
  <2>5. 0 \in 0 .. n BY <1>1
  <2> HIDE DEF Small
  <2> QED BY <2>4, <2>5
<1>5. ASSUME NEW m \in 0 .. n, m \in Good, m < n PROVE m + 1 \in Good
  <2>1. PICK g \in [Small(m) -> Int] : \A s \in Small(m) :
           g[s] = IF s = {} THEN 0 ELSE f[Pick(s)] + g[s \ {Pick(s)}]
    BY <1>5
  <2> DEFINE P == Small(m)
             Q == Small(m + 1)
             h == [s \in Q |-> IF s \in P THEN g[s] ELSE f[Pick(s)] + g[s \ {Pick(s)}]]
  <2>2. m \in Nat /\ m + 1 \in 0 .. n BY <1>1, <1>5
  <2>3. P \subseteq Q /\ P \subseteq SUBSET S /\ Q \subseteq SUBSET S BY <1>1, <2>2
  <2>4. \A s \in Q \ P : s # {} BY <1>1, <1>3, <2>2
  <2>5. \A s \in Q : s # {} => s \ {Pick(s)} \in P /\ s \ {Pick(s)} \in Q
    <3> SUFFICES ASSUME NEW s \in Q, s # {}
                 PROVE  s \ {Pick(s)} \in P /\ s \ {Pick(s)} \in Q
      OBVIOUS
    <3>1. /\ s \in SUBSET S /\ Cardinality(s) \in 0 .. n /\ Cardinality(s) <= m + 1
          /\ Cardinality(s \ {Pick(s)}) = Cardinality(s) - 1
      BY <1>1, <1>2
    <3>2. Cardinality(s \ {Pick(s)}) <= m /\ Cardinality(s \ {Pick(s)}) <= m + 1
      BY <1>1, <2>2, <3>1
    <3> QED BY <3>1, <3>2
  <2>6. \A s \in P : g[s] \in Int BY <2>1
  <2>7. \A s \in P : g[s] = IF s = {} THEN 0 ELSE f[Pick(s)] + g[s \ {Pick(s)}] BY <2>1
  <2> HIDE DEF P, Q
  <2>8. \A s \in Q \ P : f[Pick(s)] + g[s \ {Pick(s)}] \in Int
    BY <1>2, <2>3, <2>4, <2>5, <2>6
  <2>9. h \in [Q -> Int] BY <2>6, <2>8
  <2>10. /\ \A s \in P : h[s] = g[s]
         /\ \A s \in Q \ P : h[s] = f[Pick(s)] + g[s \ {Pick(s)}]
    BY <2>3
  <2> HIDE DEF h
  <2>11. \A s \in Q : h[s] = IF s = {} THEN 0 ELSE f[Pick(s)] + h[s \ {Pick(s)}]
    BY <2>3, <2>4, <2>5, <2>7, <2>10
  <2>12. \E g1 \in [Q -> Int] : \A s \in Q :
            g1[s] = IF s = {} THEN 0 ELSE f[Pick(s)] + g1[s \ {Pick(s)}]
    BY <2>9, <2>11
  <2>13. \E g1 \in [Small(m + 1) -> Int] : \A s \in Small(m + 1) :
            g1[s] = IF s = {} THEN 0 ELSE f[Pick(s)] + g1[s \ {Pick(s)}]
    BY <2>12 DEF Q
  <2> HIDE DEF Small
  <2> QED BY <2>2, <2>13
<1>6. n \in Good
  <2>1. 0 .. n \subseteq Good
    <3> HIDE DEF Good
    <3> QED BY <1>1, <1>4, <1>5, UpTo
  <2> HIDE DEF Good
  <2> QED BY <1>1, <2>1
<1>7. Small(n) = SUBSET S BY <1>1
<1>8. PICK g \in [Small(n) -> Int] : \A s \in Small(n) :
         g[s] = IF s = {} THEN 0 ELSE f[Pick(s)] + g[s \ {Pick(s)}]
  BY <1>6
<1> HIDE DEF Small
<1> QED BY <1>7, <1>8 DEF SumsUp

\* The sum over the whole set is that of its element taken last and all others, and
\* so on down to nothing.
LEMMA SumIs ==
    ASSUME NEW S, IsFiniteSet(S), NEW f, \A x \in S : f[x] \in Int
    PROVE  \E g \in [SUBSET S -> Int] :
              SumsUp(f, S, g) /\ SumFunctionOnSet(f, S) = g[S]
<1> DEFINE body(g) == [s \in SUBSET S |-> IF s = {} THEN 0
                                          ELSE f[Pick(s)] + g[s \ {Pick(s)}]]
           I == CHOOSE g : g = body(g)
<1>1. SumFunctionOnSet(f, S) = I[S]
  BY DEF SumFunctionOnSet, FoldFunctionOnSet, MapThenFoldSet, Pick
<1>2. PICK g \in [SUBSET S -> Int] : SumsUp(f, S, g) BY SumsExist
<1>3. g = body(g)
  <2>1. \A s \in SUBSET S : g[s] = body(g)[s] BY <1>2 DEF SumsUp
  <2> QED BY <2>1
<1>4. I = body(I) BY <1>3
<1> HIDE DEF I
<1>5. SumsUp(f, S, I) BY <1>4 DEF SumsUp
<1>6. DOMAIN I = SUBSET S BY <1>4
<1>7. \A s \in SUBSET S : I[s] \in Int
  <2> DEFINE Bad == {s \in SUBSET S : I[s] \notin Int}
  <2> SUFFICES ASSUME Bad # {} PROVE FALSE OBVIOUS
  <2>1. PICK s \in Bad : \A x \in s : s \ {x} \notin Bad
    <3>1. Bad \subseteq SUBSET S OBVIOUS
    <3> HIDE DEF Bad
    <3> QED BY <3>1, LeastSubset
  <2>2. s # {}
    <3>1. I[{}] = 0 BY <1>5, NothingUp
    <3>2. s = {} => I[s] = 0 BY <3>1
    <3>3. I[s] \notin Int BY <2>1
    <3> QED BY <3>2, <3>3
  <2>3. Pick(s) \in s BY <2>2 DEF Pick
  <2>4. f[Pick(s)] \in Int /\ I[s \ {Pick(s)}] \in Int BY <2>1, <2>3
  <2> QED BY <1>5, <2>2, <2>4 DEF SumsUp
<1>8. I \in [SUBSET S -> Int]
  <2>1. I = [s \in SUBSET S |-> I[s]] BY <1>4
  <2> QED BY <1>7, <2>1
<1>9. SumsUp(f, S, I) /\ SumFunctionOnSet(f, S) = I[S] BY <1>1, <1>5
<1> QED BY <1>8, <1>9

\* Sums are numbers.
LEMMA SumType ==
    ASSUME NEW S, IsFiniteSet(S), NEW f, \A x \in S : f[x] \in Int
    PROVE  SumFunctionOnSet(f, S) \in Int
<1>1. PICK g \in [SUBSET S -> Int] : SumsUp(f, S, g) /\ SumFunctionOnSet(f, S) = g[S]
  BY SumIs
<1>2. S \in SUBSET S OBVIOUS
<1>3. g[S] \in Int BY <1>1, <1>2
<1> QED BY <1>1, <1>3

\* Sums of what differs in one place differ by as much.
LEMMA SumChange ==
    ASSUME NEW S, IsFiniteSet(S), NEW f, \A y \in S : f[y] \in Int,
           NEW x \in S, NEW d \in Int, NEW h, h[x] = f[x] + d,
           \A y \in S \ {x} : h[y] = f[y]
    PROVE  SumFunctionOnSet(h, S) = SumFunctionOnSet(f, S) + d
<1>1. \A y \in S : h[y] \in Int OBVIOUS
<1>2. PICK g \in [SUBSET S -> Int] : SumsUp(f, S, g) /\ SumFunctionOnSet(f, S) = g[S]
  BY SumIs
<1>3. PICK k \in [SUBSET S -> Int] : SumsUp(h, S, k) /\ SumFunctionOnSet(h, S) = k[S]
  BY <1>1, SumIs
<1>4. \A s \in SUBSET S : k[s] = g[s] + IF x \in s THEN d ELSE 0
  <2> DEFINE Bad == {s \in SUBSET S : k[s] # g[s] + IF x \in s THEN d ELSE 0}
  <2> SUFFICES ASSUME Bad # {} PROVE FALSE OBVIOUS
  <2>1. PICK s \in Bad : \A y \in s : s \ {y} \notin Bad
    <3>1. Bad \subseteq SUBSET S OBVIOUS
    <3> HIDE DEF Bad
    <3> QED BY <3>1, LeastSubset
  <2>2. s # {}
    <3>1. g[{}] = 0 /\ k[{}] = 0 BY <1>2, <1>3, NothingUp
    <3>2. s = {} => g[s] = 0 /\ k[s] = 0 BY <3>1
    <3> QED BY <2>1, <3>2
  <2> DEFINE p == Pick(s)
  <2>3. p \in s BY <2>2 DEF Pick
  <2>4. k[s] = h[p] + k[s \ {p}] /\ g[s] = f[p] + g[s \ {p}]
    BY <1>2, <1>3, <2>2 DEF SumsUp
  <2>5. k[s \ {p}] = g[s \ {p}] + IF x \in s \ {p} THEN d ELSE 0 BY <2>1, <2>3
  <2>6. f[p] \in Int /\ h[p] \in Int /\ g[s \ {p}] \in Int BY <1>1, <2>3
  <2> HIDE DEF p
  <2>7. k[s] = g[s] + IF x \in s THEN d ELSE 0
    <3>1. CASE p = x BY <2>3, <2>4, <2>5, <2>6, <3>1
    <3>2. CASE p # x
      <4>1. h[p] = f[p] BY <2>3, <3>2
      <4> QED BY <2>4, <2>5, <2>6, <3>2, <4>1
    <3> QED BY <3>1, <3>2
  <2> QED BY <2>7
<1> QED BY <1>2, <1>3, <1>4

\* The sum of no more is no more.
LEMMA SumMonotone ==
    ASSUME NEW S, IsFiniteSet(S), NEW f, NEW h,
           \A x \in S : f[x] \in Int /\ h[x] \in Int /\ f[x] <= h[x]
    PROVE  SumFunctionOnSet(f, S) <= SumFunctionOnSet(h, S)
<1>2. PICK g \in [SUBSET S -> Int] : SumsUp(f, S, g) /\ SumFunctionOnSet(f, S) = g[S]
  BY SumIs
<1>3. PICK k \in [SUBSET S -> Int] : SumsUp(h, S, k) /\ SumFunctionOnSet(h, S) = k[S]
  BY SumIs
<1>4. \A s \in SUBSET S : g[s] <= k[s]
  <2> DEFINE Bad == {s \in SUBSET S : ~(g[s] <= k[s])}
  <2> SUFFICES ASSUME Bad # {} PROVE FALSE OBVIOUS
  <2>1. PICK s \in Bad : \A y \in s : s \ {y} \notin Bad
    <3>1. Bad \subseteq SUBSET S OBVIOUS
    <3> HIDE DEF Bad
    <3> QED BY <3>1, LeastSubset
  <2>2. s # {}
    <3>1. g[{}] = 0 /\ k[{}] = 0 BY <1>2, <1>3, NothingUp
    <3>2. s = {} => g[s] = 0 /\ k[s] = 0 BY <3>1
    <3> QED BY <2>1, <3>2
  <2> DEFINE p == Pick(s)
  <2>3. p \in s BY <2>2 DEF Pick
  <2>4. k[s] = h[p] + k[s \ {p}] /\ g[s] = f[p] + g[s \ {p}]
    BY <1>2, <1>3, <2>2 DEF SumsUp
  <2>5. g[s \ {p}] <= k[s \ {p}] BY <2>1, <2>3
  <2>6. f[p] \in Int /\ h[p] \in Int /\ f[p] <= h[p]
        /\ g[s \ {p}] \in Int /\ k[s \ {p}] \in Int
    BY <2>3
  <2> HIDE DEF p
  <2> QED BY <2>4, <2>5, <2>6
<1> QED BY <1>2, <1>3, <1>4

\* The sum of zeros is zero.
LEMMA SumZero ==
    ASSUME NEW S, IsFiniteSet(S), NEW f, \A x \in S : f[x] = 0
    PROVE  SumFunctionOnSet(f, S) = 0
<1>0. \A x \in S : f[x] \in Int OBVIOUS
<1>1. PICK g \in [SUBSET S -> Int] : SumsUp(f, S, g) /\ SumFunctionOnSet(f, S) = g[S]
  BY <1>0, SumIs
<1> DEFINE Bad == {s \in SUBSET S : g[s] # 0}
<1> SUFFICES ASSUME Bad # {} PROVE FALSE BY <1>1
<1>2. PICK s \in Bad : \A y \in s : s \ {y} \notin Bad
  <2>1. Bad \subseteq SUBSET S OBVIOUS
  <2> HIDE DEF Bad
  <2> QED BY <2>1, LeastSubset
<1>3. s # {} BY <1>1, NothingUp
<1>4. Pick(s) \in s BY <1>3 DEF Pick
<1>5. f[Pick(s)] = 0 /\ g[s \ {Pick(s)}] = 0 BY <1>2, <1>4
<1> QED BY <1>1, <1>3, <1>5 DEF SumsUp

\* Of what is never below zero the sum is not below any part.
LEMMA SumMember ==
    ASSUME NEW S, IsFiniteSet(S), NEW f, \A x \in S : f[x] \in Nat, NEW x \in S
    PROVE  /\ SumFunctionOnSet(f, S) \in Nat /\ f[x] <= SumFunctionOnSet(f, S)
<1> DEFINE one == [y \in S |-> IF y = x THEN f[x] ELSE 0]
           none == [y \in S |-> 0]
<1>1. SumFunctionOnSet(none, S) = 0 BY SumZero
<1>2. SumFunctionOnSet(one, S) = 0 + f[x]
  <2>1. /\ \A y \in S : none[y] \in Int /\ none[y] = 0
        /\ one[x] = none[x] + f[x] /\ \A y \in S \ {x} : one[y] = none[y]
        /\ f[x] \in Int
    OBVIOUS
  <2> HIDE DEF one, none
  <2>2. SumFunctionOnSet(one, S) = SumFunctionOnSet(none, S) + f[x] BY <2>1, SumChange
  <2> QED BY <1>1, <2>2
<1>3. \A y \in S : one[y] \in Int /\ f[y] \in Int /\ one[y] <= f[y] OBVIOUS
<1> HIDE DEF one
<1>4. SumFunctionOnSet(one, S) <= SumFunctionOnSet(f, S) BY <1>3, SumMonotone
<1>5. SumFunctionOnSet(f, S) \in Int /\ f[x] \in Nat BY <1>3, SumType
<1> QED BY <1>2, <1>4, <1>5

\* h is f with the sum changed by d.
Grown(f, h, S, d) ==
    /\ f \in [S -> Int] /\ h \in [S -> Int] /\ d \in Int
    /\ SumFunctionOnSet(f, S) \in Int
    /\ SumFunctionOnSet(h, S) = SumFunctionOnSet(f, S) + d

LEMMA SumGrown ==
    ASSUME NEW S, IsFiniteSet(S), NEW f \in [S -> Int], NEW h \in [S -> Int],
           NEW x \in S, NEW d \in Int, h[x] = f[x] + d, \A y \in S \ {x} : h[y] = f[y]
    PROVE  Grown(f, h, S, d)
<1>1. \A y \in S : f[y] \in Int OBVIOUS
<1>2. SumFunctionOnSet(f, S) \in Int BY <1>1, SumType
<1>3. SumFunctionOnSet(h, S) = SumFunctionOnSet(f, S) + d BY <1>1, SumChange
<1> QED BY <1>2, <1>3 DEF Grown

\* A sum changes as the one value does that is written.
LEMMA SumUpdate ==
    ASSUME NEW S, IsFiniteSet(S), NEW f \in [S -> Int], NEW x \in S, NEW v \in Int, NEW h,
           h = [f EXCEPT ![x] = v]
    PROVE  Grown(f, h, S, v - f[x])
<1> DEFINE d == v - f[x]
<1>1. /\ d \in Int /\ h \in [S -> Int] /\ h[x] = f[x] + d
      /\ \A y \in S \ {x} : h[y] = f[y]
  OBVIOUS
<1> HIDE DEF d
<1>2. Grown(f, h, S, d) BY <1>1, SumGrown
<1> QED BY <1>2 DEF d

\* What moves from one to another, or to itself, is not in the sum.
LEMMA SumMove ==
    ASSUME NEW S, IsFiniteSet(S), NEW f \in [S -> Int], NEW x \in S, NEW y \in S, NEW n \in Int,
           NEW h, h = [[f EXCEPT ![x] = @ - n] EXCEPT ![y] = @ + n]
    PROVE  Grown(f, h, S, 0)
<1> DEFINE g == [f EXCEPT ![x] = f[x] - n]
<1>1. f[x] - n \in Int /\ g \in [S -> Int] /\ g[x] = f[x] - n OBVIOUS
<1>2. h = [g EXCEPT ![y] = g[y] + n] OBVIOUS
<1>3. g = [f EXCEPT ![x] = f[x] - n] OBVIOUS
<1> HIDE DEF g
<1>4. g[y] \in Int /\ g[y] + n \in Int
  <2>1. g[y] \in Int BY <1>1
  <2> QED BY <2>1
<1>5. Grown(f, g, S, f[x] - n - f[x]) BY <1>1, <1>3, SumUpdate
<1>6. Grown(g, h, S, n)
  <2> DEFINE v == g[y] + n
  <2>1. v \in Int /\ h = [g EXCEPT ![y] = v] BY <1>2, <1>4
  <2> HIDE DEF v
  <2>2. Grown(g, h, S, v - g[y]) BY <1>1, <2>1, SumUpdate
  <2>3. v - g[y] = n BY <1>4 DEF v
  <2> QED BY <2>2, <2>3
<1>7. f[x] \in Int OBVIOUS
<1>8. f[x] - n - f[x] = -n BY <1>7
<1>9. SumFunctionOnSet(h, S) = SumFunctionOnSet(f, S)
  BY <1>5, <1>6, <1>8 DEF Grown
<1> QED BY <1>5, <1>6, <1>9 DEF Grown

LEMMA SumAdd ==
    ASSUME NEW S, IsFiniteSet(S), NEW f \in [S -> Int], NEW x \in S, NEW n \in Int, NEW h
    PROVE  /\ h = [f EXCEPT ![x] = @ + n] => Grown(f, h, S, n)
           /\ h = [f EXCEPT ![x] = @ - n] => Grown(f, h, S, -n)
<1>1. f[x] \in Int OBVIOUS
<1>2. ASSUME h = [f EXCEPT ![x] = @ + n] PROVE Grown(f, h, S, n)
  <2>1. h \in [S -> Int] /\ h[x] = f[x] + n /\ \A y \in S \ {x} : h[y] = f[y] BY <1>1, <1>2
  <2> QED BY <2>1, SumGrown
<1>3. ASSUME h = [f EXCEPT ![x] = @ - n] PROVE Grown(f, h, S, -n)
  <2>1. h \in [S -> Int] /\ -n \in Int /\ h[x] = f[x] + (-n) /\ \A y \in S \ {x} : h[y] = f[y]
    BY <1>1, <1>3
  <2> QED BY <2>1, SumGrown
<1> QED BY <1>2, <1>3

\* Sums are the same in any order.
AnyOrder(f, S, g) == \A s \in SUBSET S : \A x \in s : g[s] = f[x] + g[s \ {x}]

LEMMA SumAnyOrder ==
    ASSUME NEW S, IsFiniteSet(S), NEW f, \A x \in S : f[x] \in Int,
           NEW g \in [SUBSET S -> Int], SumsUp(f, S, g)
    PROVE  AnyOrder(f, S, g)
<1> DEFINE Bad == {s \in SUBSET S : \E x \in s : g[s] # f[x] + g[s \ {x}]}
<1> SUFFICES ASSUME Bad # {} PROVE FALSE BY DEF AnyOrder
<1>1. PICK s \in Bad : \A y \in s : s \ {y} \notin Bad
  <2>1. Bad \subseteq SUBSET S OBVIOUS
  <2> HIDE DEF Bad
  <2> QED BY <2>1, LeastSubset
<1>2. PICK x \in s : g[s] # f[x] + g[s \ {x}] BY <1>1
<1> DEFINE p == Pick(s)
<1>3. p \in s BY <1>2 DEF Pick
<1>4. g[s] = f[p] + g[s \ {p}] BY <1>1, <1>2 DEF SumsUp
<1> HIDE DEF p
<1>5. x # p BY <1>2, <1>4
<1>6. g[s \ {p}] = f[x] + g[(s \ {p}) \ {x}] BY <1>1, <1>2, <1>3, <1>5
<1>7. g[s \ {x}] = f[p] + g[(s \ {x}) \ {p}] BY <1>1, <1>2, <1>3, <1>5
<1> DEFINE q == (s \ {x}) \ {p}
<1>8. (s \ {p}) \ {x} = q OBVIOUS
<1>9. f[x] \in Int /\ f[p] \in Int /\ g[q] \in Int BY <1>1, <1>2, <1>3
<1>10. g[s \ {p}] = f[x] + g[q] /\ g[s \ {x}] = f[p] + g[q] BY <1>6, <1>7, <1>8
<1> HIDE DEF q
<1> QED BY <1>2, <1>4, <1>9, <1>10

\* Sums of what is the same are the same.
LEMMA SumSame ==
    ASSUME NEW S, IsFiniteSet(S), NEW f, NEW h, \A x \in S : f[x] \in Int /\ h[x] = f[x]
    PROVE  SumFunctionOnSet(h, S) = SumFunctionOnSet(f, S)
<1>1. /\ SumFunctionOnSet(f, S) <= SumFunctionOnSet(h, S)
      /\ SumFunctionOnSet(h, S) <= SumFunctionOnSet(f, S)
  <2>1. \A x \in S : /\ f[x] \in Int /\ h[x] \in Int /\ f[x] <= h[x]
    OBVIOUS
  <2>2. \A x \in S : /\ h[x] \in Int /\ f[x] \in Int /\ h[x] <= f[x]
    OBVIOUS
  <2> QED BY <2>1, <2>2, SumMonotone
<1>2. \A x \in S : f[x] \in Int OBVIOUS
<1>3. \A x \in S : h[x] \in Int OBVIOUS
<1>4. SumFunctionOnSet(f, S) \in Int /\ SumFunctionOnSet(h, S) \in Int BY <1>2, <1>3, SumType
<1> QED BY <1>1, <1>4

\* A sum is that of the others and one more.
LEMMA SumWithout ==
    ASSUME NEW S, IsFiniteSet(S), NEW f, \A y \in S : f[y] \in Int, NEW x \in S
    PROVE  /\ SumFunctionOnSet(f, S) = SumFunctionOnSet(f, S \ {x}) + f[x]
           /\ SumFunctionOnSet(f, S \ {x}) \in Int
<1> DEFINE T == S \ {x}
<1>0. IsFiniteSet(T) /\ \A y \in T : f[y] \in Int BY FS_RemoveElement
<1>1. PICK g \in [SUBSET S -> Int] : SumsUp(f, S, g) /\ SumFunctionOnSet(f, S) = g[S]
  BY SumIs
<1>2. PICK k \in [SUBSET T -> Int] : SumsUp(f, T, k) /\ SumFunctionOnSet(f, T) = k[T]
  <2> HIDE DEF T
  <2> QED BY <1>0, SumIs
<1>3. \A s \in SUBSET T : k[s] = g[s]
  <2> DEFINE Bad == {s \in SUBSET T : k[s] # g[s]}
  <2> SUFFICES ASSUME Bad # {} PROVE FALSE OBVIOUS
  <2>1. PICK s \in Bad : \A y \in s : s \ {y} \notin Bad
    <3>1. Bad \subseteq SUBSET T OBVIOUS
    <3> HIDE DEF Bad, T
    <3> QED BY <1>0, <3>1, LeastSubset
  <2>2. s # {}
    <3>1. g[{}] = 0 /\ k[{}] = 0 BY <1>1, <1>2, NothingUp
    <3>2. s = {} => g[s] = 0 /\ k[s] = 0 BY <3>1
    <3> QED BY <2>1, <3>2
  <2> DEFINE p == Pick(s)
  <2>3. p \in s BY <2>2 DEF Pick
  <2>4. k[s] = f[p] + k[s \ {p}] /\ g[s] = f[p] + g[s \ {p}]
    BY <1>1, <1>2, <2>2 DEF SumsUp
  <2>5. k[s \ {p}] = g[s \ {p}] BY <2>1, <2>3
  <2> QED BY <2>1, <2>4, <2>5
<1>4. g[S] = f[x] + g[T]
  <2>1. AnyOrder(f, S, g) BY <1>1, SumAnyOrder
  <2>2. S \in SUBSET S OBVIOUS
  <2> QED BY <2>1, <2>2 DEF AnyOrder
<1>5. f[x] \in Int /\ g[T] \in Int /\ k[T] = g[T] BY <1>3
<1>6. SumFunctionOnSet(f, S) = SumFunctionOnSet(f, T) + f[x] /\ SumFunctionOnSet(f, T) \in Int
  BY <1>1, <1>2, <1>4, <1>5
<1> QED BY <1>6

\* What a fold computes that adds the value of one element after the other, m the one it
\* takes next.
FoldsUp(f, S, m, g) ==
    /\ g = [s \in SUBSET S |-> g[s]]
    /\ \A s \in SUBSET S : g[s] = IF s = {} THEN 0 ELSE g[s \ {m[s]}] + f[m[s]]

LEMMA SumFoldsUp ==
    ASSUME NEW S, IsFiniteSet(S), NEW f, \A x \in S : f[x] \in Int,
           NEW m, \A s \in SUBSET S : s # {} => m[s] \in s
    PROVE  FoldsUp(f, S, m, [s \in SUBSET S |-> SumFunctionOnSet(f, s)])
<1> DEFINE g == [s \in SUBSET S |-> SumFunctionOnSet(f, s)]
<1>1. g = [s \in SUBSET S |-> g[s]] OBVIOUS
<1>2. ASSUME NEW s \in SUBSET S
      PROVE  g[s] = IF s = {} THEN 0 ELSE g[s \ {m[s]}] + f[m[s]]
  <2>1. IsFiniteSet(s) /\ \A x \in s : f[x] \in Int BY FS_Subset
  <2>2. CASE s = {}
    <3>1. \A x \in s : f[x] = 0 BY <2>2
    <3>2. SumFunctionOnSet(f, s) = 0 BY <2>1, <3>1, SumZero
    <3> QED BY <2>2, <3>2
  <2>3. CASE s # {}
    <3>1. m[s] \in s /\ s \ {m[s]} \in SUBSET S BY <2>3
    <3>2. SumFunctionOnSet(f, s) = SumFunctionOnSet(f, s \ {m[s]}) + f[m[s]]
      BY <2>1, <3>1, SumWithout
    <3> QED BY <2>3, <3>1, <3>2
  <2> QED BY <2>2, <2>3
<1> HIDE DEF g
<1>3. FoldsUp(f, S, m, g) BY <1>1, <1>2 DEF FoldsUp
<1> QED BY <1>3 DEF g

LEMMA FoldIsSum ==
    ASSUME NEW S, IsFiniteSet(S), NEW f, \A x \in S : f[x] \in Int,
           NEW m, \A s \in SUBSET S : s # {} => m[s] \in s,
           NEW g, FoldsUp(f, S, m, g)
    PROVE  g[S] = SumFunctionOnSet(f, S)
<1> DEFINE k == [s \in SUBSET S |-> SumFunctionOnSet(f, s)]
           Bad == {s \in SUBSET S : g[s] # k[s]}
<1>1. FoldsUp(f, S, m, k) BY SumFoldsUp
<1>2. k[S] = SumFunctionOnSet(f, S)
  <2>1. S \in SUBSET S OBVIOUS
  <2> QED BY <2>1
<1> HIDE DEF k
<1>3. Bad = {}
  <2> SUFFICES ASSUME Bad # {} PROVE FALSE OBVIOUS
  <2>1. PICK s \in Bad : \A y \in s : s \ {y} \notin Bad
    <3>1. Bad \subseteq SUBSET S OBVIOUS
    <3> HIDE DEF Bad
    <3> QED BY <3>1, LeastSubset
  <2>2. s # {} BY <1>1, <2>1 DEF FoldsUp
  <2>3. m[s] \in s /\ s \ {m[s]} \in SUBSET S BY <2>1, <2>2
  <2>4. g[s \ {m[s]}] = k[s \ {m[s]}] BY <2>1, <2>3
  <2>5. g[s] = g[s \ {m[s]}] + f[m[s]] /\ k[s] = k[s \ {m[s]}] + f[m[s]]
    BY <1>1, <2>1, <2>2 DEF FoldsUp
  <2> QED BY <2>1, <2>4, <2>5
<1>4. S \in SUBSET S OBVIOUS
<1> QED BY <1>2, <1>3, <1>4

-----------------------------------------------------------------------------
(* Sequences *)

\* A sequence without one of its entries.
LEMMA RemovedAt ==
    ASSUME NEW S, NEW s \in Seq(S), NEW p \in 1 .. Len(s)
    PROVE  /\ RemoveAt(s, p) \in Seq(S)
           /\ Len(RemoveAt(s, p)) = Len(s) - 1
           /\ \A i \in 1 .. Len(s) - 1 :
                 RemoveAt(s, p)[i] = IF i < p THEN s[i] ELSE s[i + 1]
<1> DEFINE A == SubSeq(s, 1, p - 1)
           B == SubSeq(s, p + 1, Len(s))
           n == Len(s)
<1>0. n \in Nat OBVIOUS
<1>1. /\ A \in Seq(S) /\ Len(A) = p - 1
      /\ \A i \in 1 .. p - 1 : A[i] = s[i]
  OBVIOUS
<1>2. /\ B \in Seq(S) /\ Len(B) = n - p
      /\ \A i \in 1 .. n - p : B[i] = s[p + i]
  OBVIOUS
<1>3. RemoveAt(s, p) = A \o B BY DEF RemoveAt
<1> HIDE DEF A, B
<1>4. /\ A \o B \in Seq(S) /\ Len(A \o B) = Len(A) + Len(B)
      /\ \A i \in 1 .. Len(A) + Len(B) :
            (A \o B)[i] = IF i <= Len(A) THEN A[i] ELSE B[i - Len(A)]
  BY <1>1, <1>2, ConcatProperties
<1> DEFINE r == A \o B
<1> HIDE DEF r, n
<1>5. p \in Nat /\ p >= 1 /\ p <= n BY DEF n
<1>6. Len(A) + Len(B) = n - 1 /\ Len(A) = p - 1 BY <1>0, <1>1, <1>2, <1>5
<1>7. ASSUME NEW i \in 1 .. n - 1 PROVE r[i] = IF i < p THEN s[i] ELSE s[i + 1]
  <2>1. r[i] = IF i <= p - 1 THEN A[i] ELSE B[i - (p - 1)] BY <1>4, <1>6 DEF r
  <2>2. CASE i < p
    <3>1. i <= p - 1 /\ i \in 1 .. p - 1 BY <1>0, <1>5, <2>2
    <3> QED BY <1>1, <2>1, <2>2, <3>1
  <2>3. CASE ~(i < p)
    <3>1. i - (p - 1) \in 1 .. n - p /\ p + (i - (p - 1)) = i + 1 /\ ~(i <= p - 1)
      BY <1>0, <1>5, <2>3
    <3> QED BY <1>2, <2>1, <2>3, <3>1
  <2> QED BY <2>2, <2>3
<1> QED BY <1>3, <1>4, <1>6, <1>7 DEF r, n

\* Inserting one element leaves the others in their order.
LEMMA InsertedAt ==
    ASSUME NEW S, NEW s \in Seq(S), NEW p \in 1 .. Len(s) + 1, NEW e \in S
    PROVE  /\ InsertAt(s, p, e) \in Seq(S)
           /\ Len(InsertAt(s, p, e)) = Len(s) + 1
           /\ \A i \in 1 .. Len(s) + 1 :
                 InsertAt(s, p, e)[i] = IF i < p THEN s[i] ELSE IF i = p THEN e ELSE s[i - 1]
<1> DEFINE A == SubSeq(s, 1, p - 1)
           B == SubSeq(s, p, Len(s))
           C == A \o <<e>>
           n == Len(s)
<1>0. n \in Nat OBVIOUS
<1>1. A \in Seq(S) /\ Len(A) = p - 1 /\ \A i \in 1 .. p - 1 : A[i] = s[i]
  OBVIOUS
<1>2. B \in Seq(S) /\ Len(B) = n - p + 1 /\ \A i \in 1 .. n - p + 1 : B[i] = s[p + i - 1]
  OBVIOUS
<1>3. InsertAt(s, p, e) = C \o B BY DEF InsertAt
<1> HIDE DEF A, B, n
<1>4. C \in Seq(S) /\ Len(C) = p /\ \A i \in 1 .. p : C[i] = IF i = p THEN e ELSE A[i]
  BY <1>0, <1>1 DEF n
<1> HIDE DEF C
<1>5. /\ C \o B \in Seq(S) /\ Len(C \o B) = Len(C) + Len(B)
      /\ \A i \in 1 .. Len(C) + Len(B) :
            (C \o B)[i] = IF i <= Len(C) THEN C[i] ELSE B[i - Len(C)]
  BY <1>2, <1>4, ConcatProperties
<1> DEFINE r == C \o B
<1> HIDE DEF r
<1>6. p \in Nat /\ p >= 1 /\ p <= n + 1 BY <1>0 DEF n
<1>7. Len(C) + Len(B) = n + 1 /\ Len(C) = p BY <1>0, <1>2, <1>4, <1>6
<1>8. ASSUME NEW i \in 1 .. n + 1
      PROVE  r[i] = IF i < p THEN s[i] ELSE IF i = p THEN e ELSE s[i - 1]
  <2>1. r[i] = IF i <= p THEN C[i] ELSE B[i - p] BY <1>5, <1>7 DEF r
  <2>2. CASE i <= p
    <3>1. i \in 1 .. p /\ (i # p => i < p /\ i \in 1 .. p - 1) BY <1>0, <1>6, <2>2
    <3> QED BY <1>1, <1>4, <1>6, <2>1, <2>2, <3>1
  <2>3. CASE ~(i <= p)
    <3>1. /\ i - p \in 1 .. n - p + 1 /\ p + (i - p) - 1 = i - 1
          /\ ~(i < p) /\ i # p
      BY <1>0, <1>6, <2>3
    <3> QED BY <1>2, <2>1, <2>3, <3>1
  <2> QED BY <2>2, <2>3
<1> QED BY <1>3, <1>5, <1>7, <1>8 DEF r, n

\* The place of an element, 0 for none.
LEMMA SelectedIs ==
    ASSUME NEW S, NEW s \in Seq(S), NEW x
    PROVE  LET place == SelectInSeq(s, LAMBDA y : y = x) IN
           /\ x \notin ToSet(s) => place = 0
           /\ x \in ToSet(s) => place \in DOMAIN s /\ s[place] = x
<1> DEFINE I == {i \in 1 .. Len(s) : s[i] = x}
           place == SelectInSeq(s, LAMBDA y : y = x)
<1>1. DOMAIN s = 1 .. Len(s) OBVIOUS
<1>2. place = IF I # {} THEN Min(I) ELSE 0 BY DEF SelectInSeq
<1>3. I # {} => Min(I) \in I
  <2>1. I \subseteq Nat OBVIOUS
  <2> HIDE DEF I
  <2> QED BY <2>1, Least DEF Min
<1> HIDE DEF place
<1>4. x \in ToSet(s) <=> I # {} BY <1>1 DEF ToSet
<1>5. \A i \in I : i \in DOMAIN s /\ s[i] = x BY <1>1
<1> HIDE DEF I
<1> QED BY <1>2, <1>3, <1>4, <1>5 DEF place
=============================================================================
