------------------------- MODULE SolanaBlockProofs -------------------------
(***************************************************************************)
(* What sorting a list of rewards by lamports does, for lists of any       *)
(* length: the lemmas the proofs about both users of slices.SortFunc, the  *)
(* RPC conversion and the upgrader, rest on.                               *)
(***************************************************************************)
EXTENDS SolanaBlock, FiniteSetTheorems, WellFoundedInduction, TLAPS

(* The lists hold the same elements, each as often.                        *)
SameElements(s, t) == \A r : Occurrences(r, s) = Occurrences(r, t)

Within(s, t) == \A i \in DOMAIN s : \E k \in DOMAIN t : t[k] = s[i]

(* A nonempty set of numbers has a least one.                              *)
LEMMA Least ==
  ASSUME NEW S, S \subseteq Nat, S # {}
  PROVE  \E x \in S : \A y \in S : x <= y
<1>1. PICK x \in S : \A y \in S : ~(<<y, x>> \in OpToRel(<, Nat))
  BY NatLessThanWellFounded, WFMin, Zenon
<1>2. \A y \in S : ~(y < x)
  BY <1>1 DEF OpToRel
<1> QED
  BY <1>2

(* A list whose neighbours are in order is in order.                       *)
LEMMA NeighboursAscend ==
  ASSUME NEW R, \A r \in R : r.lamports \in Int,
         NEW n \in Nat, NEW s \in [1 .. n -> R],
         \A i \in 1 .. n - 1 : s[i].lamports <= s[i + 1].lamports
  PROVE  Ascending(s)
<1> SUFFICES ASSUME NEW i \in 1 .. n, NEW j \in 1 .. n, i < j,
                    ~(s[i].lamports <= s[j].lamports)
             PROVE  FALSE
  BY DEF Ascending
<1> DEFINE Bad == {k \in 1 .. n : i < k /\ ~(s[i].lamports <= s[k].lamports)}
<1>1. Bad \subseteq Nat /\ Bad # {}
  <2>1. j \in Bad /\ \A k \in Bad : k \in Nat
    OBVIOUS
  <2> HIDE DEF Bad
  <2> QED
    BY <2>1
<1>2. PICK k \in Bad : \A m \in Bad : k <= m
  BY <1>1, Least
<1>3. k \in 1 .. n /\ k - 1 \in 1 .. n /\ k - 1 \in 1 .. n - 1 /\ i <= k - 1
  BY <1>2
<1>4. \A m \in 1 .. n : s[m].lamports \in Int
  OBVIOUS
<1>5. s[i].lamports <= s[k - 1].lamports
  <2>1. CASE i = k - 1
    BY <1>4, <2>1
  <2>2. CASE i < k - 1
    <3>1. k - 1 \notin Bad
      BY <1>2, <1>3
    <3> QED
      BY <1>3, <2>2, <3>1
  <2> QED
    BY <1>3, <2>1, <2>2
<1>6. s[k - 1].lamports <= s[k].lamports
  BY <1>3
<1> QED
  BY <1>2, <1>3, <1>4, <1>5, <1>6

(* Rearranging a list changes no element's number of occurrences.          *)
LEMMA RearrangedSame ==
  ASSUME NEW n \in Nat, NEW t, DOMAIN t = 1 .. n,
         NEW p \in Bijection(1 .. n, 1 .. n), NEW s, s = [i \in 1 .. n |-> t[p[i]]], NEW r
  PROVE  Occurrences(r, s) = Occurrences(r, t)
<1> DEFINE S == {i \in 1 .. n : s[i] = r}
           T == {i \in 1 .. n : t[i] = r}
           f == [i \in S |-> p[i]]
<1>1. /\ p \in [1 .. n -> 1 .. n]
      /\ \A i, k \in 1 .. n : p[i] = p[k] => i = k
      /\ \A k \in 1 .. n : \E i \in 1 .. n : p[i] = k
  BY DEF Bijection, Injection, Surjection, IsInjective
<1>2. f \in [S -> T]
  BY <1>1
<1>3. \A i, k \in S : f[i] = f[k] => i = k
  BY <1>1
<1>4. \A k \in T : \E i \in S : f[i] = k
  BY <1>1
<1>5. f \in Bijection(S, T)
  BY <1>2, <1>3, <1>4 DEF Bijection, Injection, Surjection, IsInjective
<1>6. IsFiniteSet(S)
  <2>1. IsFiniteSet(1 .. n) /\ S \in SUBSET (1 .. n)
    BY FS_Interval
  <2> QED
    BY <2>1, FS_Subset
<1>7. Cardinality(S) = Cardinality(T)
  BY <1>5, <1>6, FS_Bijection DEF ExistsBijection
<1> QED
  BY <1>7 DEF Occurrences

(* Sorting puts the list in ascending order and keeps its elements.        *)
LEMMA Sorted ==
  ASSUME NEW R, \A r \in R : r.lamports \in Int, NEW t \in Seq(R), NEW s \in SortFunc(t)
  PROVE  /\ s \in [1 .. Len(t) -> R] /\ Ascending(s)
         /\ SameElements(s, t)
<1> DEFINE n == Len(t)
<1>1. n \in Nat /\ t \in [1 .. n -> R] /\ DOMAIN t = 1 .. n
  OBVIOUS
<1>2. PICK p \in Bijection(1 .. n, 1 .. n) : s = [i \in 1 .. n |-> t[p[i]]]
  BY <1>1 DEF SortFunc
<1>3. p \in [1 .. n -> 1 .. n]
  BY <1>2 DEF Bijection, Injection
<1>4. s \in [1 .. n -> R]
  BY <1>1, <1>2, <1>3
<1>5. Len(s) = n
  BY <1>1, <1>4
<1>6. \A i \in 1 .. n - 1 : s[i].lamports <= s[i + 1].lamports
  BY <1>5 DEF SortFunc
<1> HIDE DEF n
<1>7. Ascending(s)
  BY <1>1, <1>4, <1>6, NeighboursAscend
<1>8. SameElements(s, t)
  BY <1>1, <1>2, RearrangedSame DEF SameElements
<1> QED
  BY <1>4, <1>7, <1>8 DEF n

-----------------------------------------------------------------------------
(* Where an element occurs.                                                *)
LEMMA Occurs ==
  ASSUME NEW s, IsFiniteSet(DOMAIN s), NEW r
  PROVE  /\ Occurrences(r, s) = 0 <=> \A i \in DOMAIN s : s[i] # r
         /\ Occurrences(r, s) = 1 <=> \E i : {k \in DOMAIN s : s[k] = r} = {i}
<1> DEFINE S == {k \in DOMAIN s : s[k] = r}
<1>1. IsFiniteSet(S)
  <2>1. S \in SUBSET (DOMAIN s)
    OBVIOUS
  <2> QED
    BY <2>1, FS_Subset
<1>2. Cardinality(S) = 0 <=> S = {}
  BY <1>1, FS_EmptySet
<1>3. Cardinality(S) = 1 <=> \E i : S = {i}
  BY <1>1, FS_Singleton
<1> QED
  BY <1>2, <1>3 DEF Occurrences

LEMMA Found ==
  ASSUME NEW s, NEW t, IsFiniteSet(DOMAIN s), IsFiniteSet(DOMAIN t), SameElements(s, t)
  PROVE  Within(t, s)
<1> SUFFICES ASSUME NEW i \in DOMAIN t PROVE \E k \in DOMAIN s : s[k] = t[i]
  BY DEF Within
<1> DEFINE r == t[i]
<1>1. Occurrences(r, t) # 0
  <2>1. Occurrences(r, t) = 0 <=> \A k \in DOMAIN t : t[k] # r
    BY Occurs
  <2> QED
    BY <2>1
<1>2. Occurrences(r, s) = 0 <=> \A k \in DOMAIN s : s[k] # r
  BY Occurs
<1> QED
  BY <1>1, <1>2 DEF SameElements

(* A list with the elements of a list without ties has no ties.            *)
LEMMA NoTiesSame ==
  ASSUME NEW s, NEW t, IsFiniteSet(DOMAIN s), IsFiniteSet(DOMAIN t),
         NoTies(s), SameElements(s, t)
  PROVE  NoTies(t)
<1> SUFFICES ASSUME NEW i \in DOMAIN t, NEW j \in DOMAIN t, t[i].lamports = t[j].lamports
             PROVE  i = j
  BY DEF NoTies
<1>1. PICK k \in DOMAIN s : s[k] = t[i]
  BY Found DEF Within
<1>2. PICK l \in DOMAIN s : s[l] = t[j]
  BY Found DEF Within
<1>3. k = l
  BY <1>1, <1>2 DEF NoTies
<1>4. {x \in DOMAIN s : s[x] = t[i]} = {k}
  BY <1>1 DEF NoTies
<1>5. Occurrences(t[i], s) = 1
  BY <1>4, Occurs
<1>6. PICK x : {y \in DOMAIN t : t[y] = t[i]} = {x}
  <2>1. Occurrences(t[i], t) = 1
    BY <1>5 DEF SameElements
  <2> QED
    BY <2>1, Occurs
<1>7. i \in {x} /\ j \in {x}
  BY <1>1, <1>2, <1>3, <1>6
<1> QED
  BY <1>7

(* Without ties, the order decides the list.                               *)
LEMMA AscendingUnique ==
  ASSUME NEW R, \A r \in R : r.lamports \in Int, NEW m \in Nat, NEW n \in Nat,
         NEW s \in [1 .. m -> R], NEW t \in [1 .. n -> R],
         Ascending(s), Ascending(t), NoTies(s), NoTies(t),
         SameElements(s, t)
  PROVE  s = t
<1>a. DOMAIN s = 1 .. m /\ DOMAIN t = 1 .. n
  OBVIOUS
<1>b. IsFiniteSet(DOMAIN s) /\ IsFiniteSet(DOMAIN t)
  BY <1>a, FS_Interval
<1>1. \A i \in 1 .. m : \E k \in 1 .. n : t[k] = s[i]
  <2>1. SameElements(t, s)
    BY DEF SameElements
  <2>2. Within(s, t)
    BY <1>b, <2>1, Found
  <2> QED
    BY <1>a, <2>2 DEF Within
<1>2. \A k \in 1 .. n : \E i \in 1 .. m : s[i] = t[k]
  <2>1. Within(t, s)
    BY <1>b, Found
  <2> QED
    BY <1>a, <2>1 DEF Within
<1>3. \A i, k \in 1 .. m : i < k => s[i].lamports < s[k].lamports
  BY DEF Ascending, NoTies
<1>4. \A i, k \in 1 .. n : i < k => t[i].lamports < t[k].lamports
  BY DEF Ascending, NoTies
<1>5. \A i \in 1 .. m : i \in 1 .. n /\ t[i] = s[i]
  <2> SUFFICES ASSUME NEW j \in 1 .. m, ~(j \in 1 .. n /\ t[j] = s[j]) PROVE FALSE
    OBVIOUS
  <2> DEFINE Bad == {i \in 1 .. m : ~(i \in 1 .. n /\ t[i] = s[i])}
  <2>1. PICK i \in Bad : \A y \in Bad : i <= y
    <3>1. Bad \subseteq Nat /\ Bad # {}
      OBVIOUS
    <3> QED
      BY <3>1, Least
  <2>2. \A y \in 1 .. i - 1 : y \in 1 .. n /\ t[y] = s[y]
    BY <2>1
  <2>3. PICK k \in 1 .. n : t[k] = s[i]
    BY <1>1, <2>1
  <2>4. k > i
    <3>1. CASE k < i
      BY <1>3, <2>1, <2>2, <2>3, <3>1
    <3>2. k # i
      BY <2>1, <2>3
    <3> QED
      BY <2>1, <3>1, <3>2
  <2>5. i \in 1 .. n /\ t[i].lamports < s[i].lamports
    BY <1>4, <2>1, <2>3, <2>4
  <2>6. PICK l \in 1 .. m : s[l] = t[i]
    BY <1>2, <2>5
  <2>7. l < i
    BY <1>3, <2>1, <2>5, <2>6
  <2>8. t[l] = s[l] /\ l \in 1 .. n
    BY <2>1, <2>2, <2>7
  <2> QED
    BY <1>4, <2>5, <2>6, <2>7, <2>8
<1>6. m = n
  <2>1. m <= n
    BY <1>5
  <2>2. CASE m < n
    <3>1. PICK i \in 1 .. m : s[i] = t[m + 1]
      BY <1>2, <2>2
    <3>2. t[i] = t[m + 1] /\ i \in 1 .. n /\ m + 1 \in 1 .. n /\ i < m + 1
      BY <1>5, <2>2, <3>1
    <3> QED
      BY <1>4, <3>2
  <2> QED
    BY <2>1, <2>2
<1> QED
  BY <1>5, <1>6

(* Lists of the same elements, without ties, are sorted to the same list.  *)
LEMMA SortedUnique ==
  ASSUME NEW R, \A r \in R : r.lamports \in Int, NEW t \in Seq(R), NEW u \in Seq(R), NoTies(t),
         SameElements(t, u), NEW s \in SortFunc(t), NEW v \in SortFunc(u)
  PROVE  s = v
<1>1. /\ s \in [1 .. Len(t) -> R] /\ Ascending(s)
      /\ SameElements(s, t)
  BY Sorted
<1>2. /\ v \in [1 .. Len(u) -> R] /\ Ascending(v)
      /\ SameElements(v, u)
  BY Sorted
<1>3. /\ Len(t) \in Nat /\ Len(u) \in Nat /\ DOMAIN t = 1 .. Len(t)
      /\ DOMAIN s = 1 .. Len(t) /\ DOMAIN v = 1 .. Len(u)
  BY <1>1, <1>2
<1>4. SameElements(t, s) /\ SameElements(t, v) /\ SameElements(s, v)
  BY <1>1, <1>2 DEF SameElements
<1>5. NoTies(s) /\ NoTies(v)
  BY <1>3, <1>4, FS_Interval, NoTiesSame
<1> QED
  BY <1>1, <1>2, <1>3, <1>4, <1>5, AscendingUnique
=============================================================================
