------------------------- MODULE AssetList_proofs -------------------------
(***************************************************************************)
(* Proofs about the list of assets that a user searches and pages: what a  *)
(* search and a sort compute, that paging shows all that was found, and    *)
(* that numbers mean what was drawn, for any assets, keys and sizes of a   *)
(* page.                                                                   *)
(***************************************************************************)
EXTENDS AssetList, FiniteSetTheorems, SequenceTheorems, WellFoundedInduction, TLAPS

-----------------------------------------------------------------------------
(* What finding and sorting compute, for any list.                         *)

(* A non-empty set of natural numbers has a least element.                 *)
LEMMA NatMin ==
  ASSUME NEW T, T \subseteq Nat, T # {}
  PROVE  \E x \in T : \A y \in T : x <= y
<1>1. PICK x \in T : \A y \in T : ~(<<y, x>> \in OpToRel(<, Nat))
  BY NatLessThanWellFounded, WFMin, Zenon
<1>2. ASSUME NEW y \in T, ~(x <= y) PROVE FALSE
  <2>1. y \in Nat /\ x \in Nat /\ y < x
    BY <1>2
  <2>2. <<y, x>> \in OpToRel(<, Nat)
    BY <2>1 DEF OpToRel
  <2> QED BY <1>1, <2>2, Zenon
<1> QED BY <1>2

LEMMA UpToFinite ==
  ASSUME NEW L \in Nat, NEW S \in SUBSET (1..L)
  PROVE  /\ IsFiniteSet(S) /\ Cardinality(S) \in Nat
         /\ \A k : /\ IsFiniteSet(UpTo(S, k))
                   /\ Cardinality(UpTo(S, k)) \in 0..Cardinality(S)
<1>1. IsFiniteSet(1..L)
  BY FS_Interval
<1>2. IsFiniteSet(S) /\ Cardinality(S) \in Nat
  BY <1>1, FS_Subset, FS_CardinalityType, Zenon
<1>3. ASSUME NEW k
      PROVE  /\ IsFiniteSet(UpTo(S, k))
             /\ Cardinality(UpTo(S, k)) \in 0..Cardinality(S)
  <2>1. UpTo(S, k) \in SUBSET S
    BY DEF UpTo
  <2>2. IsFiniteSet(UpTo(S, k)) /\ Cardinality(UpTo(S, k)) <= Cardinality(S)
    BY <1>2, <2>1, FS_Subset
  <2>3. Cardinality(UpTo(S, k)) \in Nat
    BY <2>2, FS_CardinalityType
  <2> QED BY <1>2, <2>2, <2>3
<1> QED BY <1>2, <1>3

(* Every number up to the size of a finite set of indices is the rank of   *)
(* one of them ...                                                         *)
LEMMA NthInSet ==
  ASSUME NEW L \in Nat, NEW S \in SUBSET (1..L), NEW n \in 1..Cardinality(S)
  PROVE  Nth(S, n) \in S /\ Cardinality(UpTo(S, Nth(S, n))) = n
<1> DEFINE T == {k \in Nat : Cardinality(UpTo(S, k)) >= n}
<1>1. Cardinality(S) \in Nat /\ n \in Nat /\ n > 0
  BY UpToFinite
<1>2. UpTo(S, L) = S /\ UpTo(S, 0) = {}
  <2>1. \A j \in S : j \in 1..L
    OBVIOUS
  <2>2. \A j \in S : j <= L /\ ~(j <= 0)
    BY <2>1
  <2> QED BY <2>2, Zenon DEF UpTo
<1>3. L \in T
  BY <1>1, <1>2
<1>4. PICK m \in T : \A k \in T : m <= k
  <2>1. T \subseteq Nat /\ T # {}
    BY <1>3
  <2> HIDE DEF T
  <2> QED BY <2>1, NatMin, Zenon
<1>5. m # 0
  <2>1. Cardinality(UpTo(S, 0)) = 0
    BY <1>2, FS_EmptySet
  <2> QED BY <1>1, <1>4, <2>1
<1>6. m \in Nat /\ m - 1 \in Nat /\ m - 1 \notin T
  BY <1>4, <1>5
<1>7. /\ IsFiniteSet(UpTo(S, m - 1))
      /\ Cardinality(UpTo(S, m)) \in Nat /\ Cardinality(UpTo(S, m - 1)) \in Nat
  BY UpToFinite
<1>8. Cardinality(UpTo(S, m)) >= n /\ Cardinality(UpTo(S, m - 1)) < n
  BY <1>1, <1>4, <1>6, <1>7
<1>9. \A j \in S : j \in Nat
  OBVIOUS
<1>10. \A j \in Nat : j <= m <=> j <= m - 1 \/ j = m
  BY <1>6
<1>11. m \in S
  <2> SUFFICES ASSUME m \notin S PROVE FALSE
    OBVIOUS
  <2>1. UpTo(S, m) = UpTo(S, m - 1)
    BY <1>9, <1>10, Zenon DEF UpTo
  <2> QED BY <1>1, <1>7, <1>8, <2>1
<1>12. UpTo(S, m) = UpTo(S, m - 1) \cup {m} /\ m \notin UpTo(S, m - 1)
  <2>1. ~(m <= m - 1)
    BY <1>6
  <2> QED BY <1>9, <1>10, <1>11, <2>1, Zenon DEF UpTo
<1>13. Cardinality(UpTo(S, m)) = Cardinality(UpTo(S, m - 1)) + 1
  BY <1>7, <1>12, FS_AddElement
<1>14. Cardinality(UpTo(S, m)) = n
  BY <1>1, <1>7, <1>8, <1>13
<1> QED BY <1>11, <1>14 DEF Nth

(* ... and every index has a rank of its own.                              *)
LEMMA NthOntoSet ==
  ASSUME NEW L \in Nat, NEW S \in SUBSET (1..L), NEW i \in S
  PROVE  \E n \in 1..Cardinality(S) : Nth(S, n) = i
<1> DEFINE n == Cardinality(UpTo(S, i))
<1>1. n \in 1..Cardinality(S)
  <2>1. i \in UpTo(S, i)
    <3>1. i \in Nat /\ i <= i
      OBVIOUS
    <3> QED BY <3>1 DEF UpTo
  <2>2. IsFiniteSet(UpTo(S, i)) /\ n \in 0..Cardinality(S) /\ Cardinality(S) \in Nat
    BY UpToFinite
  <2>3. n # 0
    BY <2>1, <2>2, FS_EmptySet
  <2> QED BY <2>2, <2>3
<1>2. ASSUME NEW k \in S, Cardinality(UpTo(S, k)) = n PROVE k = i
  <2>1. i \in Nat /\ k \in Nat /\ \A j \in S : j \in Nat
    OBVIOUS
  <2>2. UpTo(S, k) \in SUBSET UpTo(S, i) \/ UpTo(S, i) \in SUBSET UpTo(S, k)
    <3>1. CASE k <= i
      <4>1. \A j \in Nat : j <= k => j <= i
        BY <2>1, <3>1
      <4> QED BY <2>1, <4>1, Zenon DEF UpTo
    <3>2. CASE i <= k
      <4>1. \A j \in Nat : j <= i => j <= k
        BY <2>1, <3>2
      <4> QED BY <2>1, <4>1, Zenon DEF UpTo
    <3> QED BY <2>1, <3>1, <3>2
  <2>3. IsFiniteSet(UpTo(S, k)) /\ IsFiniteSet(UpTo(S, i))
    BY UpToFinite, Zenon
  <2>4. UpTo(S, k) = UpTo(S, i)
    BY <1>2, <2>2, <2>3, FS_Subset
  <2>5. k <= i /\ i <= k
    BY <2>1, <2>4 DEF UpTo
  <2> QED BY <2>1, <2>5
<1>3. Nth(S, n) = i
  <2> HIDE DEF n
  <2>1. Cardinality(UpTo(S, i)) = n
    BY DEF n
  <2> QED BY <1>2, <2>1 DEF Nth
<1> QED BY <1>1, <1>3

(* The ranks keep the order of the indices.                                *)
LEMMA NthIncreasing ==
  ASSUME NEW L \in Nat, NEW S \in SUBSET (1..L),
         NEW m \in 1..Cardinality(S), NEW n \in 1..Cardinality(S), m < n
  PROVE  Nth(S, m) < Nth(S, n)
<1> DEFINE i == Nth(S, m)
           k == Nth(S, n)
<1>1. i \in S /\ k \in S /\ Cardinality(UpTo(S, i)) = m /\ Cardinality(UpTo(S, k)) = n
  BY NthInSet, Zenon
<1> HIDE DEF i, k
<1>2. i \in Nat /\ k \in Nat /\ m \in Nat /\ n \in Nat /\ \A j \in S : j \in Nat
  BY <1>1, UpToFinite
<1>3. ASSUME k <= i PROVE FALSE
  <2>1. \A j \in Nat : j <= k => j <= i
    BY <1>2, <1>3
  <2>2. UpTo(S, k) \in SUBSET UpTo(S, i) /\ IsFiniteSet(UpTo(S, i))
    BY <1>2, <2>1, UpToFinite, Zenon DEF UpTo
  <2>3. n <= m
    BY <1>1, <2>2, FS_Subset
  <2> QED BY <1>2, <2>3
<1> QED BY <1>2, <1>3 DEF i, k

(* A search returns all that it hits and nothing else, each as often as it *)
(* is in the list and in the list's order: at[n] is where the list holds   *)
(* the n-th asset found.                                                   *)
(* (retrieveLocal, which walks the list once.)                             *)
THEOREM RetrieveLocalExact ==
  ASSUME allLocalData \in Seq(Int), NEW type, NEW node, NEW keys
  PROVE  LET found == retrieveLocal(type, node, keys)
         IN  /\ found \in Seq(Int)
             /\ \E at \in [1..Len(found) -> DOMAIN allLocalData] :
                  /\ \A n \in 1..Len(found) : found[n] = allLocalData[at[n]]
                  /\ \A m, n \in 1..Len(found) : m < n => at[m] < at[n]
                  /\ Range(at) = {i \in DOMAIN allLocalData :
                                    IsHit(allLocalData[i], type, node, keys)}
<1> DEFINE hits == {i \in DOMAIN allLocalData :
                      IsHit(allLocalData[i], type, node, keys)}
           L == Len(allLocalData)
           found == [n \in 1..Cardinality(hits) |-> allLocalData[Nth(hits, n)]]
<1>1. L \in Nat /\ DOMAIN allLocalData = 1..L /\ hits \in SUBSET (1..L)
  BY LenProperties
<1>2. retrieveLocal(type, node, keys) = found
  BY DEF retrieveLocal
<1>3. \A i \in hits : /\ i \in DOMAIN allLocalData /\ allLocalData[i] \in Int
                      /\ IsHit(allLocalData[i], type, node, keys)
  BY <1>1
<1>4. \A i \in DOMAIN allLocalData :
        IsHit(allLocalData[i], type, node, keys) => i \in hits
  OBVIOUS
<1>5. Cardinality(hits) \in Nat
  BY <1>1, UpToFinite, Zenon
<1> HIDE DEF hits, L
<1>6. \A n \in 1..Cardinality(hits) : Nth(hits, n) \in hits
  BY <1>1, NthInSet, Zenon
<1>7. \A i \in hits : \E n \in 1..Cardinality(hits) : Nth(hits, n) = i
  BY <1>1, NthOntoSet, Zenon
<1>8. found \in Seq(Int) /\ Len(found) = Cardinality(hits)
  BY <1>3, <1>5, <1>6
<1>9. \A n \in 1..Cardinality(hits) : found[n] = allLocalData[Nth(hits, n)]
  OBVIOUS
<1>10. \A m, n \in 1..Cardinality(hits) : m < n => Nth(hits, m) < Nth(hits, n)
  BY <1>1, NthIncreasing, Zenon
<1> HIDE DEF found
<1> DEFINE at == [n \in 1..Cardinality(hits) |-> Nth(hits, n)]
<1>11. at \in [1..Len(found) -> DOMAIN allLocalData]
  BY <1>3, <1>6, <1>8
<1>12. \A n \in 1..Len(found) : found[n] = allLocalData[at[n]]
  BY <1>8, <1>9
<1>13. \A m, n \in 1..Len(found) : m < n => at[m] < at[n]
  BY <1>8, <1>10
<1>14. Range(at) = hits
  BY <1>6, <1>7 DEF Range
<1> HIDE DEF at
<1>15. \E g \in [1..Len(found) -> DOMAIN allLocalData] :
          /\ \A n \in 1..Len(found) : found[n] = allLocalData[g[n]]
          /\ \A m, n \in 1..Len(found) : m < n => g[m] < g[n]
          /\ Range(g) = hits
  BY <1>11, <1>12, <1>13, <1>14
<1> QED BY <1>2, <1>8, <1>15, Zenon DEF hits

(* The order that displaySortedAssets sorts by.                            *)
Less(a, b) == IF conf.byIp THEN a > b ELSE a < b
Before(rows, i) == NotAfter(rows, i, Less)

(* Sorting a page in place keeps its rows, each as often as it was there,  *)
(* and leaves none before a smaller one: from[n] is where row n was.       *)
(* (displaySortedAssets: sort.Sort by address or by hostname.)             *)
THEOREM SortedExact ==
  ASSUME NEW rows \in Seq(Int)
  PROVE  /\ Sorted(rows) \in Seq(Int)
         /\ Len(Sorted(rows)) = Len(rows)
         /\ \E from \in Bijection(1..Len(rows), 1..Len(rows)) :
              \A n \in 1..Len(rows) : Sorted(rows)[n] = rows[from[n]]
         /\ \A m, n \in 1..Len(rows) : m < n => ~Less(Sorted(rows)[n], Sorted(rows)[m])
<1> DEFINE D == 1..Len(rows)
           at(n) == CHOOSE i \in D : Cardinality(Before(rows, i)) = n
           f == [i \in D |-> Cardinality(Before(rows, i))]
<1>1. /\ Len(rows) \in Nat /\ DOMAIN rows = D
      /\ \A i \in D : rows[i] \in Int /\ i \in Nat
      /\ IsFiniteSet(D) /\ Cardinality(D) = Len(rows)
  <2>1. Len(rows) \in Nat /\ DOMAIN rows = D /\ \A i \in D : rows[i] \in Int
    BY LenProperties
  <2>2. IsFiniteSet(D) /\ Cardinality(D) = IF 1 > Len(rows) THEN 0 ELSE Len(rows) - 1 + 1
    BY <2>1, FS_Interval, SMTT(30)
  <2> QED BY <2>1, <2>2
<1>2. Sorted(rows) = [n \in D |-> rows[at(n)]]
  BY <1>1 DEF Sorted, Sort, Before, NotAfter, Less
<1>3. \A i, j \in D : j \in Before(rows, i) <=>
         Less(rows[j], rows[i]) \/ (~Less(rows[i], rows[j]) /\ j <= i)
  BY <1>1 DEF Before, NotAfter
<1>4. \A i \in D : Before(rows, i) \in SUBSET D
  BY <1>1 DEF Before, NotAfter
<1> HIDE DEF D
<1>5. ASSUME NEW i \in D, NEW j \in D
      PROVE  /\ j \in Before(rows, i) \/ i \in Before(rows, j)
             /\ j \in Before(rows, i) /\ i \in Before(rows, j) => i = j
             /\ i \in Before(rows, i)
  BY <1>1, <1>3 DEF Less
<1>6. ASSUME NEW i \in D, NEW j \in D, j \in Before(rows, i)
      PROVE  Before(rows, j) \in SUBSET Before(rows, i)
  <2>1. ASSUME NEW k \in D, k \in Before(rows, j) PROVE k \in Before(rows, i)
    BY <1>1, <1>3, <1>6, <2>1 DEF Less
  <2> QED BY <1>4, <2>1
<1>7. ASSUME NEW i \in D
      PROVE  IsFiniteSet(Before(rows, i)) /\ Cardinality(Before(rows, i)) \in D
  <2>1. IsFiniteSet(Before(rows, i)) /\ Cardinality(Before(rows, i)) <= Cardinality(D)
    BY <1>1, <1>4, FS_Subset, Zenon
  <2>2. Cardinality(Before(rows, i)) \in Nat
    BY <2>1, FS_CardinalityType
  <2>3. Cardinality(Before(rows, i)) # 0
    BY <1>5, <2>1, FS_EmptySet
  <2> QED BY <1>1, <2>1, <2>2, <2>3 DEF D
<1>8. ASSUME NEW i \in D, NEW j \in D,
             Cardinality(Before(rows, i)) = Cardinality(Before(rows, j))
      PROVE  i = j
  <2>1. CASE j \in Before(rows, i)
    <3>1. Before(rows, j) = Before(rows, i)
      BY <1>6, <1>7, <1>8, <2>1, FS_Subset
    <3> QED BY <1>5, <2>1, <3>1
  <2>2. CASE i \in Before(rows, j)
    <3>1. Before(rows, j) = Before(rows, i)
      BY <1>6, <1>7, <1>8, <2>2, FS_Subset
    <3> QED BY <1>5, <2>2, <3>1
  <2> QED BY <1>5, <2>1, <2>2
<1>9. f \in Surjection(D, D)
  <2>1. f \in [D -> D]
    BY <1>7
  <2>2. f \in Injection(D, D)
    BY <1>8, <2>1 DEF Injection, IsInjective
  <2> HIDE DEF f
  <2> QED BY <1>1, <2>2, FS_Injection
<1>10. \A n \in D : \E i \in D : Cardinality(Before(rows, i)) = n
  BY <1>9, Zenon DEF Surjection
<1>11. \A n \in D : at(n) \in D /\ Cardinality(Before(rows, at(n))) = n
  BY <1>10
<1>12. \A i \in D : at(Cardinality(Before(rows, i))) = i
  BY <1>7, <1>8, <1>11
<1> HIDE DEF at, f
<1>13. /\ Sorted(rows) \in Seq(Int) /\ Len(Sorted(rows)) = Len(rows)
       /\ DOMAIN Sorted(rows) = D /\ \A n \in D : Sorted(rows)[n] = rows[at(n)]
  BY <1>1, <1>2, <1>11 DEF D
<1>14. \E from \in Bijection(D, D) : \A n \in D : Sorted(rows)[n] = rows[from[n]]
  <2> DEFINE from == [n \in D |-> at(n)]
  <2>1. from \in [D -> D] /\ \A n \in D : from[n] = at(n)
    BY <1>11
  <2> HIDE DEF from
  <2>2. from \in Injection(D, D)
    BY <1>11, <2>1 DEF Injection, IsInjective
  <2>3. from \in Surjection(D, D)
    BY <1>7, <1>12, <2>1 DEF Surjection
  <2>4. from \in Bijection(D, D)
    BY <2>2, <2>3 DEF Bijection
  <2> QED BY <1>13, <2>1, <2>4, SMTT(30)
<1>15. ASSUME NEW m \in D, NEW n \in D, m < n
       PROVE  ~Less(Sorted(rows)[n], Sorted(rows)[m])
  <2>1. at(m) \in D /\ at(n) \in D
    BY <1>11
  <2>2. at(n) \notin Before(rows, at(m))
    <3> SUFFICES ASSUME at(n) \in Before(rows, at(m)) PROVE FALSE
      OBVIOUS
    <3>1. Cardinality(Before(rows, at(n))) <= Cardinality(Before(rows, at(m)))
      BY <1>6, <1>7, <2>1, FS_Subset
    <3>2. n <= m
      BY <1>11, <3>1
    <3> QED BY <1>1, <1>15, <3>2 DEF D
  <2> QED BY <1>3, <1>13, <2>1, <2>2, Zenon
<1> QED BY <1>13, <1>14, <1>15 DEF D

-----------------------------------------------------------------------------
(* How many pages rows fill (Pages of AssetList), for any size of a page.  *)
LEMMA DivMod ==
  ASSUME NEW P \in Nat \ {0}, NEW n \in Nat
  PROVE  /\ n \div P \in Nat /\ n % P \in 0..(P - 1)
         /\ n = P * (n \div P) + (n % P)
<1>1. n \div P \in Nat
  BY SMT
<1>2. n % P \in 0..(P - 1)
  BY SMT
<1>3. n = P * (n \div P) + (n % P)
  BY SMT
<1> QED BY <1>1, <1>2, <1>3

LEMMA Aligned ==
  ASSUME NEW P \in Nat \ {0}, NEW q \in Nat
  PROVE  (P * q) % P = 0
BY Z3

LEMMA TimesGrows ==
  ASSUME NEW P \in Nat, NEW x \in Nat, NEW y \in Nat, x <= y
  PROVE  /\ P * x \in Nat /\ P * y \in Nat /\ P * x <= P * y
         /\ P * (x + 1) = P * x + P
BY SMT

LEMMA OnePage ==
  ASSUME NEW P \in Nat \ {0}, NEW n \in Nat
  PROVE  Pages(n, P) <= 1 <=> n <= P
BY DivMod, SMT DEF Pages

LEMMA PagesNat ==
  ASSUME NEW P \in Nat \ {0}, NEW n \in Nat
  PROVE  Pages(n, P) \in Nat /\ (Pages(n, P) = 0 <=> n = 0)
BY DivMod, SMT DEF Pages

(* As many full pages as b fills hold all of b.                            *)
LEMMA LastPage ==
  ASSUME NEW P \in Nat \ {0}, NEW a \in Nat, NEW b \in Nat,
         a % P = 0, Pages(a, P) >= Pages(b, P)
  PROVE  b <= a
<1> DEFINE p == a \div P
           q == b \div P
<1>1. p \in Nat /\ a = P * p
  BY DivMod
<1>2. q \in Nat /\ b % P \in 0..(P - 1) /\ b = P * q + (b % P)
  BY DivMod
<1> HIDE DEF p, q
<1>3. CASE b % P = 0
  <2>1. q <= p
    BY <1>1, <1>2, <1>3 DEF Pages, p, q
  <2> QED BY <1>1, <1>2, <1>3, <2>1, TimesGrows
<1>4. CASE b % P # 0
  <2>1. q + 1 <= p
    BY <1>1, <1>2, <1>4 DEF Pages, p, q
  <2>2. P * (q + 1) <= P * p /\ P * (q + 1) = P * q + P /\ P * q \in Nat
    BY <1>1, <1>2, <2>1, TimesGrows
  <2> QED BY <1>1, <1>2, <2>2
<1> QED BY <1>3, <1>4

LEMMA NextAligned ==
  ASSUME NEW P \in Nat \ {0}, NEW a \in Nat, a % P = 0
  PROVE  (a + P) % P = 0
<1>1. a \div P \in Nat /\ a = P * (a \div P)
  BY DivMod
<1>2. PICK q \in Nat : a = P * q
  BY <1>1
<1>3. a + P = P * (q + 1) /\ q + 1 \in Nat
  BY <1>2, TimesGrows
<1> QED BY <1>3, Aligned, Zenon

LEMMA PreAligned ==
  ASSUME NEW P \in Nat \ {0}, NEW a \in Nat, a % P = 0, a > P
  PROVE  (a - P) % P = 0 /\ a >= 2 * P
<1>1. a \div P \in Nat /\ a = P * (a \div P)
  BY DivMod
<1>2. a \div P >= 2
  BY <1>1, SMT
<1>3. a - P = P * ((a \div P) - 1) /\ (a \div P) - 1 \in Nat
  BY <1>1, <1>2, SMT
<1>4. a >= 2 * P
  BY <1>1, <1>2, SMT
<1> QED BY <1>3, <1>4, Aligned, Zenon

-----------------------------------------------------------------------------
(* The pages of a search.                                                  *)

(* The types of what the pages depend on.                                  *)
ListType ==
  /\ allLocalData \in Seq(Int) /\ currentResult \in Seq(Int)
  /\ height \in Heights /\ conf \in Confs
  /\ page.currentOffset \in Nat

(* What a page tells of the rows found while nothing changes under it: pg  *)
(* is the page's information, rows its rows and shown what was drawn.      *)
SearchInv(found, limit, pg, rows, shown) ==
  /\ pg.currentOffset <= Len(found)
  /\ IF limit = PAGESIZEALL
       THEN /\ ~pg.hasNext /\ ~pg.hasPre
            /\ pg.currentOffset = Len(rows)
            /\ Range(found) \subseteq shown
       ELSE /\ pg.hasNext <=> Pages(pg.currentOffset, limit) < Pages(Len(found), limit)
            /\ pg.hasPre <=> Pages(pg.currentOffset, limit) > 1
            /\ pg.currentOffset <= limit => pg.currentOffset = Len(rows)
            /\ \/ Range(found) \subseteq shown
               \/ /\ pg.currentOffset % limit = 0
                  /\ \A i \in 1..pg.currentOffset : found[i] \in shown

(* It tells so of the search while nothing changed since.                  *)
ListInv ==
  /\ ListType
  /\ steady => SearchInv(retrieveLocal(currentType, selectedNode, searchKeys),
                         getPageSize, page, currentResult, seen)

LEMMA PageSizeType ==
  ASSUME ListType
  PROVE  getPageSize \in Nat
<1>1. height \in Nat /\ conf.size \in Int /\ conf.mode \in {"auto", "all", "fixed"}
  BY KeysAssumption DEF ListType
<1>2. \A a \in Int : Max({1, a}) \in Nat
  <2> SUFFICES ASSUME NEW a \in Int PROVE Max({1, a}) \in Nat
    OBVIOUS
  <2>1. \E x \in {1, a} : \A y \in {1, a} : x >= y
    OBVIOUS
  <2>2. Max({1, a}) \in {1, a} /\ Max({1, a}) >= 1
    BY <2>1 DEF Max
  <2> QED BY <2>2
<1>3. Max({1, height - MinHeight}) \in Nat /\ Max({1, conf.size}) \in Nat
  BY <1>1, <1>2 DEF MinHeight
<1> QED BY <1>1, <1>3 DEF getPageSize, PAGESIZEALL

(* What Retrieve cuts out of the rows found.                               *)
LEMMA RetrievePage ==
  ASSUME NEW found \in Seq(Int), NEW limit \in Nat, NEW offset \in Nat
  PROVE  LET r == Retrieve(limit, offset, found)
         IN  /\ r.data \in Seq(Int) /\ r.page.currentOffset = offset + Len(r.data)
             /\ offset <= Len(found) /\ limit # PAGESIZEALL =>
                  /\ Len(r.data) = Min({limit, Len(found) - offset})
                  /\ r.page = PageInfo(limit, offset + Len(r.data), Len(found))
                  /\ \A i \in 1..Len(r.data) : r.data[i] = found[offset + i]
             /\ offset = 0 /\ limit = PAGESIZEALL =>
                  /\ Len(r.data) = Len(found)
                  /\ r.page = PageInfo(Len(found), Len(found), Len(found))
                  /\ \A i \in 1..Len(r.data) : r.data[i] = found[i]
<1> DEFINE n == Len(found)
           totalData == SubSeq(found, offset + 1, n)
           k == Len(totalData)
           all == IF limit = PAGESIZEALL THEN k ELSE limit
           least == Min({all, k})
           data == SubSeq(totalData, 1, least)
<1>1. n \in Nat /\ \A i \in (offset + 1)..n : found[i] \in Int
  BY LenProperties, ElementOfSeq
<1>2. /\ totalData \in Seq(Int) /\ k = IF offset + 1 <= n THEN n - offset ELSE 0
      /\ \A i \in 1..(n - offset) : totalData[i] = found[offset + i]
  <2>1. /\ totalData \in Seq(Int)
        /\ k = IF offset + 1 <= n THEN n - (offset + 1) + 1 ELSE 0
        /\ \A i \in 1..(n - (offset + 1) + 1) : totalData[i] = found[(offset + 1) + i - 1]
    BY <1>1, SubSeqProperties, SMTT(30)
  <2>2. /\ n - (offset + 1) + 1 = n - offset
        /\ \A i \in Nat : (offset + 1) + i - 1 = offset + i
    BY <1>1
  <2> QED BY <2>1, <2>2
<1>3. all \in Nat /\ k \in Nat
  BY <1>1, <1>2 DEF PAGESIZEALL
<1>4. least \in {all, k} /\ least <= all /\ least <= k
  <2> HIDE DEF all, k
  <2>1. \E x \in {all, k} : \A y \in {all, k} : x <= y
    BY <1>3
  <2> QED BY <2>1, <1>3, Zenon DEF Min
<1>5. least \in Nat
  BY <1>3, <1>4
<1>6. /\ data \in Seq(Int) /\ Len(data) = least
      /\ \A i \in 1..least : data[i] = totalData[i]
  <2> HIDE DEF totalData, least
  <2>1. \A i \in 1..least : totalData[i] \in Int
    BY <1>2, <1>4, <1>5, ElementOfSeq DEF k
  <2>2. /\ data \in Seq(Int) /\ Len(data) = IF 1 <= least THEN least - 1 + 1 ELSE 0
        /\ \A i \in 1..(least - 1 + 1) : data[i] = totalData[1 + i - 1]
    BY <1>5, <2>1, SubSeqProperties
  <2> QED BY <1>5, <2>2
<1>7. Retrieve(limit, offset, found)
        = [data |-> data, page |-> PageInfo(all, offset + Len(data), n)]
  BY DEF Retrieve
<1>8. PageInfo(all, offset + Len(data), n).currentOffset = offset + Len(data)
  BY Zenon DEF PageInfo
<1>9. ASSUME offset <= n, limit # PAGESIZEALL
      PROVE  /\ all = limit /\ least = Min({limit, n - offset})
             /\ \A i \in 1..least : data[i] = found[offset + i]
  <2>1. k = n - offset
    BY <1>1, <1>2, <1>9
  <2>2. all = limit
    BY <1>9
  <2>3. \A i \in 1..least : i \in 1..(n - offset)
    BY <1>4, <1>5, <2>1
  <2> HIDE DEF totalData, data
  <2> QED BY <1>2, <1>6, <2>1, <2>2, <2>3, Zenon
<1>10. ASSUME offset = 0, limit = PAGESIZEALL
       PROVE  /\ all = n /\ least = n
              /\ \A i \in 1..least : data[i] = found[i]
  <2>1. k = n
    BY <1>1, <1>2, <1>10
  <2>2. all = n /\ least = n
    BY <1>4, <1>10, <2>1
  <2>3. \A i \in 1..n : i \in 1..(n - offset) /\ offset + i = i
    BY <1>1, <1>10
  <2> HIDE DEF totalData, data, least, all
  <2> QED BY <1>2, <1>6, <2>2, <2>3, Zenon
<1> HIDE DEF n, data, all, least
<1>11. /\ Retrieve(limit, offset, found).data = data
       /\ Retrieve(limit, offset, found).page = PageInfo(all, offset + Len(data), n)
  BY <1>7
<1> DEFINE r == Retrieve(limit, offset, found)
<1>12. r.data \in Seq(Int) /\ r.page.currentOffset = offset + Len(r.data)
  BY <1>6, <1>8, <1>11, Zenon
<1>13. ASSUME offset <= n, limit # PAGESIZEALL
       PROVE  /\ Len(r.data) = Min({limit, n - offset})
              /\ r.page = PageInfo(limit, offset + Len(r.data), n)
              /\ \A i \in 1..Len(r.data) : r.data[i] = found[offset + i]
  BY <1>6, <1>9, <1>11, <1>13, Zenon
<1>14. ASSUME offset = 0, limit = PAGESIZEALL
       PROVE  /\ Len(r.data) = n
              /\ r.page = PageInfo(n, n, n)
              /\ \A i \in 1..Len(r.data) : r.data[i] = found[i]
  <2>1. offset + Len(data) = n
    BY <1>1, <1>6, <1>10, <1>14 DEF n
  <2> QED BY <1>6, <1>10, <1>11, <1>14, <2>1
<1> HIDE DEF r
<1>15. r = Retrieve(limit, offset, found) /\ n = Len(found)
  BY DEF r, n
<1> QED BY <1>12, <1>13, <1>14, <1>15

(* A page drawn from an offset where a page begins, or once all was drawn. *)
LEMMA PageDrawn ==
  ASSUME NEW found \in Seq(Int), NEW limit \in Nat, NEW offset \in 0..Len(found),
         NEW before, NEW rows,
         Len(rows) = Len(Retrieve(limit, offset, found).data),
         limit = PAGESIZEALL => offset = 0,
         limit # PAGESIZEALL =>
           /\ offset = 0 \/ Len(found) > limit
           /\ \/ Range(found) \subseteq before
              \/ offset % limit = 0 /\ \A i \in 1..offset : found[i] \in before
  PROVE  SearchInv(found, limit, Retrieve(limit, offset, found).page, rows,
                   before \cup Range(Retrieve(limit, offset, found).data))
<1> DEFINE r == Retrieve(limit, offset, found)
           n == Len(found)
           shown == before \cup Range(r.data)
<1>1. n \in Nat /\ offset \in Nat /\ offset <= n /\ DOMAIN found = 1..n
  BY LenProperties
<1>0. /\ r.data \in Seq(Int)
      /\ offset <= n /\ limit # PAGESIZEALL =>
           /\ Len(r.data) = Min({limit, n - offset})
           /\ r.page = PageInfo(limit, offset + Len(r.data), n)
           /\ \A i \in 1..Len(r.data) : r.data[i] = found[offset + i]
      /\ offset = 0 /\ limit = PAGESIZEALL =>
           /\ Len(r.data) = n
           /\ r.page = PageInfo(n, n, n)
           /\ \A i \in 1..Len(r.data) : r.data[i] = found[i]
  BY <1>1, RetrievePage, Zenon
<1> HIDE DEF r, n
<1>2. r.data \in Seq(Int) /\ Len(r.data) \in Nat /\ DOMAIN r.data = 1..Len(r.data)
  BY <1>0, LenProperties
<1>3. CASE limit = PAGESIZEALL
  <2>1. /\ Len(r.data) = n /\ r.page = PageInfo(n, n, n)
        /\ \A i \in 1..Len(r.data) : r.data[i] = found[i]
    BY <1>0, <1>3
  <2>2. Range(found) \subseteq shown
    BY <1>1, <1>2, <2>1, SMTT(30) DEF Range
  <2>3. r.page.currentOffset = n
    BY <2>1 DEF PageInfo
  <2>4. ~r.page.hasNext /\ ~r.page.hasPre
    <3>1. CASE n = 0
      <4>1. r.page.hasNext = (1 < 1) /\ r.page.hasPre = (1 > 1)
        BY <2>1, <3>1 DEF PageInfo
      <4>2. ~(1 < 1) /\ ~(1 > 1)
        OBVIOUS
      <4> QED BY <4>1, <4>2, Zenon
    <3>2. CASE n > 0
      <4>1. Pages(n, n) \in Nat /\ Pages(n, n) <= 1
        BY <1>1, <3>2, OnePage, PagesNat, SMTT(30)
      <4>2. /\ r.page.hasNext = (Pages(n, n) < Pages(n, n))
            /\ r.page.hasPre = (Pages(n, n) > 1)
        BY <1>1, <2>1, <3>2 DEF PageInfo
      <4>3. ~(Pages(n, n) < Pages(n, n)) /\ ~(Pages(n, n) > 1)
        BY <4>1
      <4> QED BY <4>2, <4>3, Zenon
    <3> QED BY <1>1, <3>1, <3>2
  <2> HIDE DEF shown
  <2>5. SearchInv(found, limit, r.page, rows, shown)
    BY <1>1, <1>3, <2>1, <2>2, <2>3, <2>4, SMTT(30) DEF SearchInv, n, r
  <2> QED BY <2>5 DEF r, shown
<1>4. CASE limit # PAGESIZEALL
  <2> DEFINE o == offset + Len(r.data)
  <2>1. /\ Len(r.data) = Min({limit, n - offset}) /\ r.page = PageInfo(limit, o, n)
        /\ \A i \in 1..Len(r.data) : r.data[i] = found[offset + i]
    BY <1>0, <1>1, <1>4, Zenon
  <2>2. limit \in Nat \ {0} /\ limit > 0
    BY <1>4 DEF PAGESIZEALL
  <2>3. Len(r.data) = IF limit <= n - offset THEN limit ELSE n - offset
    <3> DEFINE d == n - offset
    <3>1. d \in Nat
      BY <1>1
    <3> HIDE DEF d
    <3>2. \E x \in {limit, d} : \A y \in {limit, d} : x <= y
      BY <2>2, <3>1
    <3>3. Min({limit, d}) = IF limit <= d THEN limit ELSE d
      BY <2>2, <3>1, <3>2 DEF Min
    <3> QED BY <2>1, <3>3 DEF d
  <2>4. o \in Nat /\ o <= n /\ o = IF offset + limit <= n THEN offset + limit ELSE n
    <3>1. CASE limit <= n - offset
      BY <1>1, <2>2, <2>3, <3>1
    <3>2. CASE ~(limit <= n - offset)
      BY <1>1, <2>2, <2>3, <3>2, SMTT(30)
    <3> QED BY <3>1, <3>2
  <2>5. /\ r.page.currentOffset = o
        /\ r.page.hasNext = (Pages(o, limit) < Pages(n, limit))
        /\ r.page.hasPre = (Pages(o, limit) > 1)
    BY <2>1, <2>2 DEF PageInfo
  <2>6. o <= limit => o = Len(rows)
    <3> SUFFICES ASSUME o <= limit PROVE o = Len(rows)
      OBVIOUS
    <3>1. offset = 0
      BY <1>1, <1>4, <2>2, <2>4 DEF n
    <3> QED BY <1>2, <3>1 DEF r
  <2>7. \A i \in (offset + 1)..o : found[i] \in shown
    <3> SUFFICES ASSUME NEW i \in (offset + 1)..o PROVE found[i] \in shown
      OBVIOUS
    <3>1. i - offset \in 1..Len(r.data) /\ offset + (i - offset) = i
      BY <1>1, <1>2
    <3>2. found[i] = r.data[i - offset]
      BY <2>1, <3>1, Zenon
    <3> QED BY <1>2, <3>1, <3>2, Zenon DEF Range
  <2>8. \/ Range(found) \subseteq shown
        \/ o % limit = 0 /\ \A i \in 1..o : found[i] \in shown
    <3>1. CASE Range(found) \subseteq before
      BY <3>1, Zenon
    <3>2. CASE offset % limit = 0 /\ \A i \in 1..offset : found[i] \in before
      <4>1. \A i \in 1..o : found[i] \in shown
        <5> SUFFICES ASSUME NEW i \in 1..o PROVE found[i] \in shown
          OBVIOUS
        <5>1. CASE i <= offset
          BY <1>1, <3>2, <5>1
        <5>2. CASE ~(i <= offset)
          BY <1>1, <2>4, <2>7, <5>2
        <5> QED BY <5>1, <5>2
      <4>2. CASE o = n
        BY <1>1, <4>1, <4>2, Zenon DEF Range
      <4>3. CASE o = offset + limit
        BY <1>1, <2>2, <3>2, <4>1, <4>3, NextAligned, Zenon
      <4> QED BY <2>4, <4>2, <4>3, Zenon
    <3> QED BY <1>4, <3>1, <3>2, Zenon
  <2> HIDE DEF shown, o
  <2>9. SearchInv(found, limit, r.page, rows, shown)
    BY <1>4, <2>4, <2>5, <2>6, <2>8, Zenon DEF SearchInv, n
  <2> QED BY <2>9 DEF r, shown
<1> QED BY <1>3, <1>4

(* Where the next and the previous page begin.                             *)
LEMMA NextPageBegins ==
  ASSUME NEW found \in Seq(Int), NEW limit \in Nat, NEW pg, NEW rows, NEW shown,
         pg.currentOffset \in Nat, SearchInv(found, limit, pg, rows, shown), pg.hasNext
  PROVE  /\ pg.currentOffset \in 0..Len(found)
         /\ limit # PAGESIZEALL
         /\ pg.currentOffset = 0 \/ Len(found) > limit
         /\ \/ Range(found) \subseteq shown
            \/ /\ pg.currentOffset % limit = 0
               /\ \A i \in 1..pg.currentOffset : found[i] \in shown
<1> DEFINE o == pg.currentOffset
           n == Len(found)
<1>1. n \in Nat /\ o \in Nat /\ o <= n /\ limit # PAGESIZEALL
  BY LenProperties DEF SearchInv
<1>2. limit \in Nat \ {0}
  BY <1>1 DEF PAGESIZEALL
<1>3. Pages(o, limit) < Pages(n, limit)
  BY <1>1 DEF SearchInv
<1>4. /\ Pages(o, limit) \in Nat /\ Pages(n, limit) \in Nat
      /\ Pages(o, limit) = 0 => o = 0
  BY <1>1, <1>2, PagesNat, Zenon
<1>5. ~(n > limit) => Pages(n, limit) <= 1
  BY <1>1, <1>2, OnePage
<1>6. o = 0 \/ n > limit
  BY <1>3, <1>4, <1>5
<1> QED BY <1>1, <1>6 DEF SearchInv

LEMMA PrePageBegins ==
  ASSUME NEW found \in Seq(Int), NEW limit \in Nat, NEW pg, NEW rows, NEW shown,
         pg.currentOffset \in Nat, SearchInv(found, limit, pg, rows, shown), pg.hasPre,
         NEW offset, offset = Max({0, pg.currentOffset - limit * 2})
  PROVE  /\ offset \in 0..Len(found)
         /\ limit # PAGESIZEALL
         /\ Len(found) > limit
         /\ \/ Range(found) \subseteq shown
            \/ offset % limit = 0 /\ \A i \in 1..offset : found[i] \in shown
<1> DEFINE o == pg.currentOffset
           n == Len(found)
<1>1. n \in Nat /\ o \in Nat /\ o <= n /\ limit # PAGESIZEALL
  BY LenProperties DEF SearchInv
<1>2. limit \in Nat \ {0}
  BY <1>1 DEF PAGESIZEALL
<1>3. Pages(o, limit) > 1
  BY <1>1 DEF SearchInv
<1>4. o > limit
  <2>1. Pages(o, limit) \in Nat /\ (Pages(o, limit) <= 1 <=> o <= limit)
    BY <1>1, <1>2, OnePage, PagesNat, Zenon
  <2> QED BY <1>1, <1>2, <1>3, <2>1
<1> HIDE DEF o, n
<1>5. offset = IF o - limit * 2 >= 0 THEN o - limit * 2 ELSE 0
  <2> DEFINE b == o - limit * 2
  <2>1. b \in Int
    BY <1>1
  <2> HIDE DEF b
  <2>2. \E x \in {0, b} : \A y \in {0, b} : x >= y
    BY <2>1
  <2>3. Max({0, b}) = IF b >= 0 THEN b ELSE 0
    BY <2>1, <2>2 DEF Max
  <2> QED BY <2>3 DEF b, o
<1>6. offset \in Nat /\ offset <= o
  BY <1>1, <1>5
<1>7. ASSUME o % limit = 0, \A i \in 1..o : found[i] \in shown
      PROVE  offset % limit = 0 /\ \A i \in 1..offset : found[i] \in shown
  <2>1. (o - limit) % limit = 0 /\ o >= 2 * limit
    BY <1>1, <1>2, <1>4, <1>7, PreAligned, Zenon
  <2>2. offset = (o - limit) - limit
    BY <1>1, <1>2, <1>5, <2>1, SMTT(30)
  <2>3. ASSUME o - limit > limit PROVE offset % limit = 0
    <3>1. o - limit \in Nat
      BY <1>1, <1>2, <1>4
    <3>2. ((o - limit) - limit) % limit = 0
      BY <1>2, <2>1, <2>3, <3>1, PreAligned
    <3> QED BY <2>2, <3>2
  <2>4. ASSUME ~(o - limit > limit) PROVE offset % limit = 0
    <3>1. offset = 0
      BY <1>1, <1>2, <2>1, <2>2, <2>4
    <3>2. 0 % limit = 0
      <4>1. (limit * 0) % limit = 0 /\ limit * 0 = 0
        BY <1>2, Aligned
      <4> QED BY <4>1
    <3> QED BY <3>1, <3>2
  <2>5. \A i \in 1..offset : found[i] \in shown
    BY <1>1, <1>6, <1>7
  <2> QED BY <2>3, <2>4, <2>5, Zenon
<1>8. \/ Range(found) \subseteq shown
      \/ o % limit = 0 /\ \A i \in 1..o : found[i] \in shown
  BY <1>1 DEF SearchInv, o
<1>9. offset \in 0..n /\ n > limit
  BY <1>1, <1>2, <1>4, <1>6, SMTT(30)
<1> QED BY <1>1, <1>7, <1>8, <1>9, Zenon DEF n

(* A redrawn page tells the same.                                          *)
LEMMA RedrawKeeps ==
  ASSUME NEW found, NEW limit, NEW pg, NEW rows, NEW shown,
         SearchInv(found, limit, pg, rows, shown),
         NEW rows2, Len(rows2) = Len(rows), NEW more
  PROVE  SearchInv(found, limit, pg, rows2, shown \cup more)
BY DEF SearchInv

(* The search and the page size, as long as what they depend on is kept.   *)
LEMMA FoundKept ==
  ASSUME allLocalData' = allLocalData,
         NEW type, NEW node, NEW keys,
         currentType' = type, selectedNode' = node, searchKeys' = keys
  PROVE  retrieveLocal(currentType, selectedNode, searchKeys)'
           = retrieveLocal(type, node, keys)
BY DEF retrieveLocal

LEMMA PageSizeKept ==
  ASSUME UNCHANGED <<height, conf>>
  PROVE  getPageSize' = getPageSize
BY DEF getPageSize

(* A page drawn from offset on, for either kind of search.                 *)
LEMMA PageRead ==
  ASSUME ListType, NEW type, NEW node, NEW keys, NEW offset \in Nat
  PROVE  LET found == retrieveLocal(type, node, keys)
             r == Retrieve(getPageSize, offset, found)
         IN  /\ found \in Seq(Int) /\ getPageSize \in Nat
             /\ r.data \in Seq(Int) /\ r.page.currentOffset \in Nat
             /\ Sorted(r.data) \in Seq(Int) /\ Len(Sorted(r.data)) = Len(r.data)
<1> DEFINE found == retrieveLocal(type, node, keys)
           r == Retrieve(getPageSize, offset, found)
<1>1. found \in Seq(Int) /\ getPageSize \in Nat
  BY RetrieveLocalExact, PageSizeType DEF ListType
<1>2. r.data \in Seq(Int) /\ r.page.currentOffset = offset + Len(r.data)
  <2> HIDE DEF found
  <2> QED BY <1>1, RetrievePage, Zenon
<1>3. Len(r.data) \in Nat
  BY <1>2, LenProperties
<1>4. Sorted(r.data) \in Seq(Int) /\ Len(Sorted(r.data)) = Len(r.data)
  <2> HIDE DEF r
  <2> QED BY <1>2, SortedExact
<1> QED BY <1>1, <1>2, <1>3, <1>4, SMTT(30)

(* The first page of a search.                                             *)
LEMMA FirstPage ==
  ASSUME ListType, NEW type, NEW node, NEW keys
  PROVE  LET found == retrieveLocal(type, node, keys)
             r == Retrieve(getPageSize, 0, found)
         IN  SearchInv(found, getPageSize, r.page, Sorted(r.data), {} \cup Range(r.data))
<1> DEFINE found == retrieveLocal(type, node, keys)
           limit == getPageSize
           r == Retrieve(limit, 0, found)
           rows == Sorted(r.data)
<1>1. found \in Seq(Int) /\ limit \in Nat /\ Len(rows) = Len(r.data)
  BY PageRead
<1>2. 0 \in 0..Len(found)
  BY <1>1, LenProperties
<1>3. limit # PAGESIZEALL => 0 % limit = 0
  <2> SUFFICES ASSUME limit # PAGESIZEALL PROVE 0 % limit = 0
    OBVIOUS
  <2>1. limit \in Nat \ {0}
    BY <1>1 DEF PAGESIZEALL
  <2> HIDE DEF limit
  <2>2. (limit * 0) % limit = 0 /\ limit * 0 = 0
    BY <2>1, Aligned
  <2> QED BY <2>2
<1> HIDE DEF found, limit, rows
<1>4. SearchInv(found, limit, r.page, rows, {} \cup Range(r.data))
  <2> DEFINE offset == 0
             before == {}
  <2>1. \A i \in 1..offset : found[i] \in before
    OBVIOUS
  <2>2. /\ offset \in 0..Len(found) /\ offset = 0
        /\ limit # PAGESIZEALL => offset % limit = 0
        /\ Len(rows) = Len(Retrieve(limit, offset, found).data)
    BY <1>1, <1>2, <1>3
  <2> HIDE DEF offset, before
  <2>3. SearchInv(found, limit, Retrieve(limit, offset, found).page, rows,
                  before \cup Range(Retrieve(limit, offset, found).data))
    BY <1>1, <2>1, <2>2, PageDrawn, Zenon
  <2> QED BY <2>3 DEF offset, before
<1> QED BY <1>4 DEF found, limit, rows

LEMMA ListKeeps ==
  ASSUME ListInv, NEW type, NEW node, NEW keys, List(type, node, keys)
  PROVE  ListInv'
<1> DEFINE found == retrieveLocal(type, node, keys)
           r == Retrieve(getPageSize, 0, found)
<1>1. /\ currentType' = type /\ selectedNode' = node /\ searchKeys' = keys
      /\ page' = r.page /\ currentResult' = Sorted(r.data)
      /\ steady' = TRUE /\ seen' = IF steady' THEN {} \cup Range(r.data) ELSE {}
      /\ UNCHANGED <<allLocalData, height, conf>>
  BY DEF List, DisplayCurrentResult, source
<1>2. seen' = {} \cup Range(r.data)
  BY <1>1
<1>3. /\ retrieveLocal(currentType, selectedNode, searchKeys)' = found
      /\ getPageSize' = getPageSize
  BY <1>1, FoundKept, PageSizeKept, SMTT(30)
<1>4. r.page.currentOffset \in Nat /\ Sorted(r.data) \in Seq(Int)
  BY PageRead DEF ListInv
<1>5. SearchInv(found, getPageSize, r.page, Sorted(r.data), {} \cup Range(r.data))
  BY FirstPage, SMTT(30) DEF ListInv
<1> HIDE DEF found, r
<1>6. ListType'
  BY <1>1, <1>4, SMTT(30) DEF ListInv, ListType
<1>7. SearchInv(retrieveLocal(currentType, selectedNode, searchKeys),
                getPageSize, page, currentResult, seen)'
  BY <1>1, <1>2, <1>3, <1>5 DEF SearchInv
<1> QED BY <1>6, <1>7 DEF ListInv

(* Turning to the page at offset, where steady reading may turn to it.     *)
LEMMA TurnKeeps ==
  ASSUME ListInv, NEW offset \in Nat, Turn(offset),
         UNCHANGED <<currentType, searchKeys, selectedNode, allLocalData, height,
                     conf, steady>>,
         steady =>
           LET found == retrieveLocal(currentType, selectedNode, searchKeys)
           IN  /\ offset \in 0..Len(found)
               /\ getPageSize # PAGESIZEALL
               /\ offset = 0 \/ Len(found) > getPageSize
               /\ \/ Range(found) \subseteq seen
                  \/ /\ offset % getPageSize = 0
                     /\ \A i \in 1..offset : found[i] \in seen
  PROVE  ListInv'
<1> DEFINE found == retrieveLocal(currentType, selectedNode, searchKeys)
           limit == getPageSize
           r == Retrieve(limit, offset, found)
           rows == Sorted(r.data)
<1>1. /\ page' = r.page /\ currentResult' = rows
      /\ seen' = IF steady' THEN seen \cup Range(r.data) ELSE {}
  BY DEF Turn, DisplayCurrentResult
<1>2. found' = found /\ limit' = limit
  BY FoundKept, PageSizeKept, SMTT(30)
<1>3. /\ found \in Seq(Int) /\ limit \in Nat
      /\ r.page.currentOffset \in Nat /\ rows \in Seq(Int) /\ Len(rows) = Len(r.data)
  BY PageRead DEF ListInv
<1>4. ListType'
  <2> HIDE DEF r, rows
  <2> QED BY <1>1, <1>3, SMTT(30) DEF ListInv, ListType
<1>5. ASSUME steady'
      PROVE  SearchInv(found', limit', page', currentResult', seen')
  <2>1. steady /\ seen' = seen \cup Range(r.data)
    BY <1>1, <1>5
  <2>2. SearchInv(found, limit, r.page, rows, seen \cup Range(r.data))
    <3> HIDE DEF found, limit, rows
    <3>1. /\ offset \in 0..Len(found) /\ limit # PAGESIZEALL
          /\ offset = 0 \/ Len(found) > limit
          /\ \/ Range(found) \subseteq seen
             \/ offset % limit = 0 /\ \A i \in 1..offset : found[i] \in seen
      BY <2>1 DEF found, limit
    <3> QED BY <1>3, <3>1, PageDrawn, Zenon
  <2> QED BY <1>1, <1>2, <2>1, <2>2, SMTT(30)
<1>6. ASSUME steady'
      PROVE  SearchInv(retrieveLocal(currentType, selectedNode, searchKeys),
                       getPageSize, page, currentResult, seen)'
  BY <1>5, <1>6 DEF SearchInv
<1> QED BY <1>4, <1>6, SMTT(30) DEF ListInv

LEMMA RedrawnKeeps ==
  ASSUME ListInv, Redraw,
         UNCHANGED <<currentType, searchKeys, selectedNode, allLocalData, height,
                     conf, steady>>
  PROVE  ListInv'
<1> DEFINE found == retrieveLocal(currentType, selectedNode, searchKeys)
           rows == Sorted(currentResult)
<1>1. /\ page' = page /\ currentResult' = rows
      /\ seen' = IF steady' THEN seen \cup Range(currentResult) ELSE {}
  BY DEF Redraw, DisplayCurrentResult
<1>2. found' = found /\ getPageSize' = getPageSize
  BY FoundKept, PageSizeKept
<1>3. rows \in Seq(Int) /\ Len(rows) = Len(currentResult)
  BY SortedExact DEF ListInv, ListType
<1> HIDE DEF rows
<1>4. ListType'
  BY <1>1, <1>3 DEF ListInv, ListType
<1>5. ASSUME steady'
      PROVE  SearchInv(found', getPageSize', page', currentResult', seen')
  <2>1. SearchInv(found, getPageSize, page, currentResult, seen)
    BY <1>5 DEF ListInv
  <2>2. seen' = seen \cup Range(currentResult)
    BY <1>1, <1>5
  <2> HIDE DEF found
  <2>3. SearchInv(found, getPageSize, page, rows, seen \cup Range(currentResult))
    BY <1>3, <2>1, RedrawKeeps, Zenon
  <2> QED BY <1>1, <1>2, <2>2, <2>3
<1>6. ASSUME steady'
      PROVE  SearchInv(retrieveLocal(currentType, selectedNode, searchKeys),
                       getPageSize, page, currentResult, seen)'
  BY <1>5, <1>6 DEF SearchInv
<1> QED BY <1>4, <1>6 DEF ListInv

LEMMA NextKeeps ==
  ASSUME ListInv, MoveNextPage
  PROVE  ListInv'
<1> DEFINE found == retrieveLocal(currentType, selectedNode, searchKeys)
<1>1. /\ UNCHANGED <<currentType, searchKeys, selectedNode, allLocalData, height,
                     conf, steady>>
      /\ IF page.hasNext THEN Turn(page.currentOffset) ELSE Redraw
  BY DEF MoveNextPage, source
<1>2. CASE ~page.hasNext
  BY <1>1, <1>2, RedrawnKeeps
<1>3. CASE page.hasNext
  <2>1. page.currentOffset \in Nat /\ found \in Seq(Int) /\ getPageSize \in Nat
    BY RetrieveLocalExact, PageSizeType DEF ListInv, ListType
  <2>2. steady => SearchInv(found, getPageSize, page, currentResult, seen)
    BY DEF ListInv
  <2> HIDE DEF found
  <2>3. steady =>
          /\ page.currentOffset \in 0..Len(found)
          /\ getPageSize # PAGESIZEALL
          /\ page.currentOffset = 0 \/ Len(found) > getPageSize
          /\ \/ Range(found) \subseteq seen
             \/ /\ page.currentOffset % getPageSize = 0
                /\ \A i \in 1..page.currentOffset : found[i] \in seen
    BY <1>3, <2>1, <2>2, NextPageBegins
  <2> QED BY <1>1, <1>3, <2>1, <2>3, TurnKeeps, SMTT(30) DEF found
<1> QED BY <1>2, <1>3

LEMMA PreKeeps ==
  ASSUME ListInv, MovePrePage
  PROVE  ListInv'
<1> DEFINE found == retrieveLocal(currentType, selectedNode, searchKeys)
           offset == Max({0, page.currentOffset - getPageSize * 2})
<1>1. /\ UNCHANGED <<currentType, searchKeys, selectedNode, allLocalData, height,
                     conf, steady>>
      /\ IF page.hasPre THEN Turn(offset) ELSE Redraw
  BY DEF MovePrePage, source
<1>2. CASE ~page.hasPre
  BY <1>1, <1>2, RedrawnKeeps
<1>3. CASE page.hasPre
  <2>1. page.currentOffset \in Nat /\ found \in Seq(Int) /\ getPageSize \in Nat
    BY RetrieveLocalExact, PageSizeType DEF ListInv, ListType
  <2>2. steady => SearchInv(found, getPageSize, page, currentResult, seen)
    BY DEF ListInv
  <2>3. offset \in Nat
    <3> DEFINE b == page.currentOffset - getPageSize * 2
    <3>1. b \in Int
      BY <2>1
    <3> HIDE DEF b
    <3>2. \E x \in {0, b} : \A y \in {0, b} : x >= y
      BY <3>1
    <3>3. Max({0, b}) \in {0, b} /\ Max({0, b}) >= 0
      BY <3>2 DEF Max
    <3> QED BY <3>1, <3>3 DEF b
  <2> HIDE DEF found
  <2>4. steady =>
          /\ offset \in 0..Len(found)
          /\ getPageSize # PAGESIZEALL
          /\ Len(found) > getPageSize
          /\ \/ Range(found) \subseteq seen
             \/ /\ offset % getPageSize = 0
                /\ \A i \in 1..offset : found[i] \in seen
    BY <1>3, <2>1, <2>2, PrePageBegins, SMTT(30)
  <2> HIDE DEF offset
  <2> QED BY <1>1, <1>3, <2>3, <2>4, TurnKeeps, SMTT(30) DEF found
<1> QED BY <1>2, <1>3

LEMMA WordKeeps ==
  ASSUME ListInv, NEW key, SearchOrProxyWord(key)
  PROVE  ListInv'
<1> DEFINE type == TypeOr(currentType)
           found == retrieveLocal(type, selectedNode, <<key>>)
           r == Retrieve(getPageSize, 0, found)
           direct == \/ Len(r.data) = 1
                     \/ /\ type = "asset"
                        /\ Cardinality(getUniqueAssetFromKey(key, r.data)) = 1
<1>1. /\ currentType' = type /\ searchKeys' = <<key>> /\ selectedNode' = selectedNode
      /\ page' = r.page /\ steady' = ~direct
      /\ IF direct THEN currentResult' = r.data
           ELSE /\ currentResult' = Sorted(r.data)
                /\ seen' = IF steady' THEN {} \cup Range(r.data) ELSE {}
      /\ UNCHANGED <<allLocalData, height, conf>>
  BY Zenon DEF SearchOrProxyWord, DisplayCurrentResult, source
<1>2. /\ retrieveLocal(currentType, selectedNode, searchKeys)' = found
      /\ getPageSize' = getPageSize
  BY <1>1, FoundKept, PageSizeKept
<1>3. /\ r.data \in Seq(Int) /\ r.page.currentOffset \in Nat
      /\ Sorted(r.data) \in Seq(Int)
  BY PageRead, Zenon DEF ListInv
<1>4. SearchInv(found, getPageSize, r.page, Sorted(r.data), {} \cup Range(r.data))
  BY FirstPage DEF ListInv
<1> HIDE DEF type, found, r, direct
<1>5. ListType'
  BY <1>1, <1>3, ZenonT(60) DEF ListInv, ListType
<1>6. ASSUME steady'
      PROVE  SearchInv(retrieveLocal(currentType, selectedNode, searchKeys),
                       getPageSize, page, currentResult, seen)'
  <2>1. ~direct
    BY <1>1, <1>6, Zenon
  <2>2. currentResult' = Sorted(r.data) /\ seen' = {} \cup Range(r.data)
    BY <1>1, <1>6, <2>1, SMTT(30)
  <2> QED BY <1>1, <1>2, <1>4, <2>2, Zenon DEF SearchInv
<1> QED BY <1>5, <1>6 DEF ListInv

(* Whatever leaves the page, the search and their meaning alone.           *)
LEMMA StayKeeps ==
  ASSUME ListInv, UNCHANGED view, ListType',
         steady' => /\ steady /\ seen' = seen /\ allLocalData' = allLocalData
                    /\ getPageSize' = getPageSize
  PROVE  ListInv'
<1> SUFFICES ASSUME steady'
             PROVE  SearchInv(retrieveLocal(currentType, selectedNode, searchKeys),
                              getPageSize, page, currentResult, seen)'
  BY DEF ListInv
<1>1. SearchInv(retrieveLocal(currentType, selectedNode, searchKeys),
                getPageSize, page, currentResult, seen)
  BY DEF ListInv
<1>2. /\ currentType' = currentType /\ selectedNode' = selectedNode
      /\ searchKeys' = searchKeys /\ page' = page /\ currentResult' = currentResult
      /\ seen' = seen /\ allLocalData' = allLocalData /\ getPageSize' = getPageSize
  BY DEF view
<1>3. retrieveLocal(currentType, selectedNode, searchKeys)'
        = retrieveLocal(currentType, selectedNode, searchKeys)
  BY <1>2, FoundKept
<1> QED BY <1>1, <1>2, <1>3 DEF SearchInv

LEMMA UnseenKeeps ==
  ASSUME ListInv, UNCHANGED <<view, allLocalData, height, conf, steady, seen>>
  PROVE  ListInv'
<1>1. ListType'
  BY DEF ListInv, ListType, view
<1>2. getPageSize' = getPageSize
  BY PageSizeKept
<1> QED BY <1>1, <1>2, StayKeeps

LEMMA ListInvInit ==
  ASSUME ListInit
  PROVE  ListInv
<1>1. PICK d \in Databases \cup {NoData} : allLocalData = d.assets
  BY DEF ListInit
<1>2. d.assets \in Seq(Int)
  <2>1. CASE d = NoData
    <3>1. <<>> \in Seq(Int)
      OBVIOUS
    <3> QED BY <2>1, <3>1 DEF NoData
  <2>2. CASE d \in Databases
    BY <2>2, KeysAssumption
  <2> QED BY <2>1, <2>2
<1>3. currentResult = <<>> /\ <<>> \in Seq(Int) /\ page.currentOffset = 0 /\ ~steady
  BY DEF ListInit
<1> QED BY <1>1, <1>2, <1>3, SMTT(30) DEF ListInit, ListInv, ListType

LEMMA SearchOrProxyKeeps ==
  ASSUME ListInv, NEW key, SearchOrProxy(key)
  PROVE  ListInv'
<1>1. CASE ProxyRow
  BY <1>1, UnseenKeeps DEF ProxyRow, source, drawn
<1>2. CASE SearchOrProxyWord(key)
  BY <1>2, WordKeeps
<1> QED BY <1>1, <1>2 DEF SearchOrProxy

LEMMA ListInvNext ==
  ASSUME ListInv, [ListNext]_listVars
  PROVE  ListInv'
<1>1. CASE HasJustOneAsset
  <2>1. CASE SearchOrProxy(NoKey)
    BY <2>1, SearchOrProxyKeeps
  <2>2. CASE UNCHANGED <<view, source, drawn, tree>>
    BY <2>2, UnseenKeeps DEF source, drawn
  <2> QED BY <1>1, <2>1, <2>2 DEF HasJustOneAsset
<1>2. CASE EmptyLine
  <2>1. MoveNextPage \/ List("asset", selectedNode, <<NoKey>>)
    BY <1>2 DEF EmptyLine, DefaultList
  <2> QED BY <2>1, NextKeeps, ListKeeps
<1>3. CASE LineP
  BY <1>3, ListKeeps DEF LineP, DefaultList
<1>4. CASE LineB
  BY <1>4, PreKeeps DEF LineB
<1>5. CASE LineN
  BY <1>5, NextKeeps DEF LineN
<1>6. ASSUME NEW key \in Keys, LineSlash(key) PROVE ListInv'
  BY <1>6, ListKeeps DEF LineSlash
<1>7. ASSUME NEW key \in Keys, LineWord(key) PROVE ListInv'
  BY <1>7, SearchOrProxyKeeps DEF LineWord
<1>8. ASSUME NEW key \in Keys \cup {NoKey}, LineSlashSlash(key) PROVE ListInv'
  BY <1>8, ListKeeps DEF LineSlashSlash
<1>9. CASE LineG
  BY <1>9, UnseenKeeps DEF LineG, drawn
<1>10. ASSUME NEW n \in DOMAIN nodes, LineGNumber(n) PROVE ListInv'
  BY <1>10, ListKeeps DEF LineGNumber
<1>11. CASE LineH
  BY <1>11, UnseenKeeps DEF LineH, source, drawn
<1>12. CASE LineR
  <2>1. allLocalData' \in Seq(Int)
    BY <1>12, KeysAssumption DEF LineR, ListInv, ListType
  <2>2. ListType'
    BY <1>12, <2>1 DEF LineR, ListInv, ListType, view
  <2>3. /\ steady' = (steady /\ allLocalData' = allLocalData
                           /\ getPageSize' = getPageSize)
        /\ seen' = IF steady' THEN seen ELSE {}
        /\ UNCHANGED view
    BY <1>12 DEF LineR, Steady
  <2> QED BY <2>2, <2>3, StayKeeps, ZenonT(60)
<1>13. CASE LineQ
  BY <1>13, UnseenKeeps, SMTT(30) DEF LineQ, source, drawn
<1>14. CASE WatchWinSizeChange
  <2>1. ListType'
    BY <1>14 DEF WatchWinSizeChange, ListInv, ListType, view
  <2>2. /\ steady' = (steady /\ allLocalData' = allLocalData
                           /\ getPageSize' = getPageSize)
        /\ seen' = IF steady' THEN seen ELSE {}
        /\ UNCHANGED view
    BY <1>14 DEF WatchWinSizeChange, Steady
  <2> QED BY <2>1, <2>2, StayKeeps, Zenon
<1>15. CASE UNCHANGED listVars
  BY <1>15, UnseenKeeps DEF listVars, view
<1> QED
  BY <1>1, <1>2, <1>3, <1>4, <1>5, <1>6, <1>7, <1>8, <1>9, <1>10, <1>11, <1>12,
     <1>13, <1>14, <1>15 DEF ListNext

LEMMA ListInvPages ==
  ASSUME ListInv
  PROVE  PagesCoverResults
<1> DEFINE found == retrieveLocal(currentType, selectedNode, searchKeys)
           o == page.currentOffset
           limit == getPageSize
<1> SUFFICES ASSUME steady
             PROVE  /\ ~page.hasNext => Range(found) \subseteq seen
                    /\ ~page.hasPre => o = Len(currentResult)
  BY DEF PagesCoverResults, Found
<1>1. SearchInv(found, limit, page, currentResult, seen)
  BY SMTT(30) DEF ListInv
<1>2. o \in Nat /\ found \in Seq(Int) /\ limit \in Nat
  BY RetrieveLocalExact, PageSizeType DEF ListInv, ListType
<1>3. Len(found) \in Nat /\ DOMAIN found = 1..Len(found)
  BY <1>2, LenProperties
<1> HIDE DEF found, limit
<1>4. CASE limit = PAGESIZEALL
  BY <1>1, <1>4 DEF SearchInv
<1>5. CASE limit # PAGESIZEALL
  <2>1. limit \in Nat \ {0}
    BY <1>2, <1>5 DEF PAGESIZEALL
  <2>2. Pages(o, limit) \in Nat /\ Pages(Len(found), limit) \in Nat
    BY <1>2, <1>3, <2>1, PagesNat, Zenon
  <2>3. ASSUME ~page.hasNext PROVE Range(found) \subseteq seen
    <3>1. ~(Pages(o, limit) < Pages(Len(found), limit))
      BY <1>1, <1>5, <2>3 DEF SearchInv
    <3>2. SUFFICES ASSUME o % limit = 0, \A i \in 1..o : found[i] \in seen
                   PROVE  Range(found) \subseteq seen
      BY <1>1, <1>5 DEF SearchInv
    <3>3. Pages(o, limit) >= Pages(Len(found), limit)
      BY <2>2, <3>1
    <3>4. Len(found) <= o
      BY <1>2, <1>3, <2>1, <3>2, <3>3, LastPage
    <3>5. \A i \in DOMAIN found : found[i] \in seen
      BY <1>2, <1>3, <3>2, <3>4
    <3> QED BY <3>5 DEF Range
  <2>4. ASSUME ~page.hasPre PROVE o = Len(currentResult)
    <3>1. ~(Pages(o, limit) > 1)
      BY <1>1, <1>5, <2>4 DEF SearchInv
    <3>2. o <= limit
      BY <1>2, <2>1, <2>2, <3>1, OnePage
    <3> QED BY <1>1, <1>5, <3>2 DEF SearchInv
  <2> QED BY <2>3, <2>4
<1> QED BY <1>4, <1>5

(* Whatever the database, the keys, the height of the terminal and its     *)
(* configuration, the list has no further page only once all that was      *)
(* found was drawn, and no earlier one only on the first page.             *)
(* (MoveNextPage, MovePrePage, Retrieve and pageInfo.update.)              *)
THEOREM PagesCorrect == ListSpec => []PagesCoverResults
<1>1. ListInit => ListInv
  BY ListInvInit
<1>2. ListInv /\ [ListNext]_listVars => ListInv'
  BY ListInvNext
<1>3. ListInv => PagesCoverResults
  BY ListInvPages, SMTT(30)
<1> QED BY <1>1, <1>2, <1>3, PTL DEF ListSpec

-----------------------------------------------------------------------------
(* What the numbers of rows and of nodes mean.                             *)
LEMMA NumbersInit ==
  ASSUME ListInit
  PROVE  NumbersAsDrawn
BY DEF ListInit, NumbersAsDrawn

LEMMA DrawnNumbers ==
  ASSUME NumbersAsDrawn, UNCHANGED <<nodes, tree>>,
         \/ screen' = currentResult' \/ screen' = <<>>
         \/ UNCHANGED <<screen, currentResult>>
  PROVE  NumbersAsDrawn'
BY DEF NumbersAsDrawn

LEMMA SearchOrProxyNumbers ==
  ASSUME NumbersAsDrawn, NEW key, SearchOrProxy(key)
  PROVE  NumbersAsDrawn'
<1>1. CASE ProxyRow
  BY <1>1, DrawnNumbers DEF ProxyRow, view, source, drawn
<1>2. CASE SearchOrProxyWord(key)
  <2>1. UNCHANGED <<nodes, tree>> /\ (screen' = currentResult' \/ screen' = <<>>)
    BY <1>2, SMTT(30) DEF SearchOrProxyWord, DisplayCurrentResult, source
  <2> QED BY <2>1, DrawnNumbers, SMTT(30)
<1> QED BY <1>1, <1>2 DEF SearchOrProxy

LEMMA TurnDraws ==
  ASSUME NEW offset, Turn(offset) \/ Redraw
  PROVE  screen' = currentResult'
BY DEF Turn, Redraw, DisplayCurrentResult

LEMMA PageNumbers ==
  ASSUME NumbersAsDrawn,
         MoveNextPage \/ MovePrePage \/ \E type, node, keys : List(type, node, keys)
  PROVE  NumbersAsDrawn'
<1>1. CASE MoveNextPage
  <2>1. UNCHANGED <<nodes, tree>> /\ screen' = currentResult'
    BY <1>1, TurnDraws, Zenon DEF MoveNextPage, source
  <2> QED BY <2>1, DrawnNumbers, SMTT(30)
<1>2. CASE MovePrePage
  <2>1. UNCHANGED <<nodes, tree>> /\ screen' = currentResult'
    BY <1>2, TurnDraws, Zenon DEF MovePrePage, source
  <2> QED BY <2>1, DrawnNumbers
<1>3. ASSUME NEW type, NEW node, NEW keys, List(type, node, keys)
      PROVE  NumbersAsDrawn'
  <2>1. UNCHANGED <<nodes, tree>> /\ screen' = currentResult'
    BY <1>3 DEF List, DisplayCurrentResult, source
  <2> QED BY <2>1, DrawnNumbers
<1> QED BY <1>1, <1>2, <1>3

LEMMA NumbersNext ==
  ASSUME NumbersAsDrawn, [ListNext]_listVars
  PROVE  NumbersAsDrawn'
<1>1. CASE HasJustOneAsset
  <2>1. CASE SearchOrProxy(NoKey)
    BY <2>1, SearchOrProxyNumbers
  <2>2. CASE UNCHANGED <<view, source, drawn, tree>>
    BY <2>2, DrawnNumbers DEF view, source, drawn
  <2> QED BY <1>1, <2>1, <2>2 DEF HasJustOneAsset
<1>2. CASE EmptyLine \/ LineP \/ LineB \/ LineN
  BY <1>2, PageNumbers DEF EmptyLine, LineP, LineB, LineN, DefaultList
<1>3. CASE \E key \in Keys : LineSlash(key) \/ LineWord(key)
  BY <1>3, PageNumbers, SearchOrProxyNumbers DEF LineSlash, LineWord
<1>4. CASE \E key \in Keys \cup {NoKey} : LineSlashSlash(key)
  BY <1>4, PageNumbers DEF LineSlashSlash
<1>5. CASE LineG
  BY <1>5 DEF LineG, ConstructNodeTree, view, drawn, NumbersAsDrawn
<1>6. CASE \E n \in DOMAIN nodes : LineGNumber(n)
  BY <1>6, PageNumbers DEF LineGNumber
<1>7. CASE LineH \/ LineQ
  BY <1>7, DrawnNumbers DEF LineH, LineQ, view, source, drawn
<1>8. CASE LineR
  BY <1>8 DEF LineR, view, NumbersAsDrawn
<1>9. CASE WatchWinSizeChange
  BY <1>9, DrawnNumbers DEF WatchWinSizeChange, view
<1>10. CASE UNCHANGED listVars
  BY <1>10, DrawnNumbers DEF listVars, view, drawn, source
<1> QED
  BY <1>1, <1>2, <1>3, <1>4, <1>5, <1>6, <1>7, <1>8, <1>9, <1>10, SMTT(30) DEF ListNext

(* The number of a row or of a node names what was drawn beside it.        *)
(* (displaySortedAssets and ConstructNodeTree sort in place.)              *)
THEOREM NumbersCorrect == ListSpec => []NumbersAsDrawn
BY NumbersInit, NumbersNext, PTL DEF ListSpec
=============================================================================
