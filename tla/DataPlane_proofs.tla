--------------------------- MODULE DataPlane_proofs ---------------------------
(***************************************************************************)
(* Reads and bulk jobs over a backend that others change, for any records, *)
(* backends, requests and bounds.                                          *)
(***************************************************************************)
EXTENDS DataPlane, FiniteSetTheorems, SequenceTheorems, TLAPS

-----------------------------------------------------------------------------
(* Numbers in ascending order.                                              *)

\* How many numbers of S are below i.
Rank(S, i) == Cardinality({j \in S : j < i})

\* A rank is a number below the set's size, and grows with its number.
LEMMA RanksGrow ==
  ASSUME NEW S, S \subseteq Nat, IsFiniteSet(S), NEW i \in S
  PROVE  /\ Rank(S, i) \in 0..Cardinality(S) - 1
         /\ \A h \in S : h < i => Rank(S, h) < Rank(S, i)
<1>1. \A h \in S : /\ IsFiniteSet({j \in S : j < h}) /\ Rank(S, h) \in Nat
                   /\ Rank(S, h) <= Cardinality(S)
                   /\ Rank(S, h) = Cardinality(S) => S = {j \in S : j < h}
  <2> TAKE h \in S
  <2>1. {j \in S : j < h} \in SUBSET S
    OBVIOUS
  <2> QED
    BY <2>1, FS_Subset, FS_CardinalityType DEF Rank
<1>2. Cardinality(S) \in Nat
  BY FS_CardinalityType
<1>3. Rank(S, i) # Cardinality(S)
  <2>1. i \in Nat /\ i \notin {j \in S : j < i}
    OBVIOUS
  <2> QED
    BY <1>1, <2>1
<1>4. ASSUME NEW h \in S, h < i
      PROVE  Rank(S, h) < Rank(S, i)
  <2> DEFINE low == {j \in S : j < h}
             high == {j \in S : j < i}
  <2>0. \A j \in S : j \in Nat
    OBVIOUS
  <2>1. low \cup {h} \in SUBSET high /\ h \notin low
    <3>1. h \in high /\ h \notin low
      BY <1>4, <2>0
    <3>2. ASSUME NEW j \in low
          PROVE  j \in high
      <4>1. j \in S /\ j < h /\ j \in Nat /\ h \in Nat /\ i \in Nat
        BY <2>0
      <4>2. j < i
        BY <1>4, <4>1
      <4> QED
        BY <4>1, <4>2
    <3> QED
      BY <3>1, <3>2
  <2>2. IsFiniteSet(low) /\ IsFiniteSet(high) /\ Cardinality(low) \in Nat
        /\ Cardinality(high) \in Nat
    BY <1>1 DEF Rank
  <2> HIDE DEF low, high
  <2>3. Cardinality(low \cup {h}) = Cardinality(low) + 1
    BY <2>1, <2>2, FS_AddElement
  <2>4. Cardinality(low \cup {h}) <= Cardinality(high)
    BY <2>1, <2>2, FS_Subset
  <2>5. Cardinality(low) < Cardinality(high)
    BY <2>2, <2>3, <2>4
  <2> QED
    BY <2>5 DEF Rank, low, high
<1>5. Rank(S, i) \in 0..Cardinality(S) - 1
  <2>1. Rank(S, i) \in Nat /\ Rank(S, i) <= Cardinality(S)
    BY <1>1
  <2> QED
    BY <1>2, <1>3, <2>1
<1> QED
  BY <1>4, <1>5

\* Every rank below the set's size is some number's.
LEMMA RanksAreTaken ==
  ASSUME NEW S, S \subseteq Nat, IsFiniteSet(S), NEW r \in 0..Cardinality(S) - 1
  PROVE  \E i \in S : Rank(S, i) = r
<1> DEFINE f == [i \in S |-> Rank(S, i)]
           R == 0..Cardinality(S) - 1
<1>1. Cardinality(S) \in Nat
  BY FS_CardinalityType
<1>2. f \in [S -> R]
  BY RanksGrow
<1>3. ASSUME NEW i \in S, NEW j \in S, f[i] = f[j]
      PROVE  i = j
  <2>1. i \in Nat /\ j \in Nat
    OBVIOUS
  <2>0. Rank(S, i) = Rank(S, j)
    BY <1>3
  <2>2. Rank(S, i) = Rank(S, j) /\ Rank(S, i) \in Int
    <3>1. Rank(S, i) \in 0..Cardinality(S) - 1
      BY RanksGrow
    <3> QED
      BY <2>0, <3>1
  <2>3. /\ i < j => Rank(S, i) < Rank(S, j)
        /\ j < i => Rank(S, j) < Rank(S, i)
    BY RanksGrow
  <2>4. ~(i < j) /\ ~(j < i)
    BY <2>2, <2>3
  <2> QED
    BY <2>1, <2>4
<1>4. f \in Injection(S, R)
  BY <1>2, <1>3 DEF Injection, IsInjective
<1>5. IsFiniteSet(R) /\ Cardinality(R) = Cardinality(S)
  BY <1>1, FS_Interval
<1> HIDE DEF f, R
<1>6. f \in Surjection(S, R)
  BY <1>4, <1>5, FS_Injection
<1>7. r \in R
  BY DEF R
<1>8. \E i \in S : f[i] = r
  BY <1>6, <1>7 DEF Surjection
<1> QED
  BY <1>8 DEF f

\* The k-th number of a set is one of its numbers, and only it has its rank.
LEMMA NthHasRank ==
  ASSUME NEW S, S \subseteq Nat, IsFiniteSet(S), NEW k \in 1..Cardinality(S)
  PROVE  Nth(S, k) \in S /\ Rank(S, Nth(S, k)) = k - 1
<1>1. Cardinality(S) \in Nat
  BY FS_CardinalityType
<1>2. k - 1 \in 0..Cardinality(S) - 1
  BY <1>1
<1>3. \E i \in S : Rank(S, i) = k - 1
  BY <1>2, RanksAreTaken
<1> QED
  BY <1>3 DEF Nth, Rank

\* The k-th numbers ascend, and each number is the one of its rank.
LEMMA NthsAscend ==
  ASSUME NEW S, S \subseteq Nat, IsFiniteSet(S)
  PROVE  /\ \A k, m \in 1..Cardinality(S) : k < m => Nth(S, k) < Nth(S, m)
         /\ \A i \in S : /\ Rank(S, i) + 1 \in 1..Cardinality(S)
                         /\ Nth(S, Rank(S, i) + 1) = i
<1>1. Cardinality(S) \in Nat
  BY FS_CardinalityType
<1>2. ASSUME NEW k \in 1..Cardinality(S), NEW m \in 1..Cardinality(S), k < m
      PROVE  Nth(S, k) < Nth(S, m)
  <2>1. /\ Nth(S, k) \in S /\ Rank(S, Nth(S, k)) = k - 1
        /\ Nth(S, m) \in S /\ Rank(S, Nth(S, m)) = m - 1
    BY NthHasRank
  <2>2. Nth(S, k) \in Nat /\ Nth(S, m) \in Nat
    BY <2>1
  <2>3. Nth(S, k) # Nth(S, m)
    BY <1>1, <1>2, <2>1
  <2>4. ~(Nth(S, m) < Nth(S, k))
    <3>1. SUFFICES ASSUME Nth(S, m) < Nth(S, k)
                   PROVE  FALSE
      OBVIOUS
    <3>2. Rank(S, Nth(S, m)) < Rank(S, Nth(S, k))
      BY <2>1, <3>1, RanksGrow
    <3> QED
      BY <1>1, <1>2, <2>1, <3>2
  <2> QED
    BY <2>2, <2>3, <2>4
<1>3. ASSUME NEW i \in S
      PROVE  /\ Rank(S, i) + 1 \in 1..Cardinality(S)
             /\ Nth(S, Rank(S, i) + 1) = i
  <2>1. Rank(S, i) \in 0..Cardinality(S) - 1
    BY RanksGrow
  <2>2. Rank(S, i) + 1 \in 1..Cardinality(S)
    BY <1>1, <2>1
  <2> DEFINE n == Nth(S, Rank(S, i) + 1)
  <2>3. n \in S /\ Rank(S, n) = (Rank(S, i) + 1) - 1
    BY <2>2, NthHasRank
  <2> HIDE DEF n
  <2>4. Rank(S, n) = Rank(S, i)
    BY <2>1, <2>3
  <2>5. /\ n < i => Rank(S, n) < Rank(S, i)
        /\ i < n => Rank(S, i) < Rank(S, n)
    BY <2>3, RanksGrow
  <2>6. i \in Nat /\ n \in Nat
    BY <2>3
  <2>7. n = i
    BY <2>1, <2>4, <2>5, <2>6
  <2> QED
    BY <2>2, <2>7 DEF n
<1> QED
  BY <1>2, <1>3

Ascends(s) == \A j, k \in 1..Len(s) : j < k => s[j] < s[k]

\* s is a page of at most n numbers of S: the first ones in order, and all of them if
\* there is room.
IsPage(s, n, S) ==
  /\ s \in Seq(S) /\ Len(s) <= n
  /\ Ascends(s)
  /\ \A i \in S, k \in 1..Len(s) : i <= s[k] => i \in ToSet(s)
  /\ Len(s) < n => S \subseteq ToSet(s)

LEMMA InToSet ==
  ASSUME NEW S, NEW s \in Seq(S), NEW x
  PROVE  /\ x \in ToSet(s) <=> \E k \in 1..Len(s) : s[k] = x
         /\ ToSet(s) \subseteq S
BY LenProperties, ElementOfSeq DEF ToSet

\* First gives a page.
LEMMA FirstIsPage ==
  ASSUME NEW S, S \subseteq Nat, IsFiniteSet(S), NEW n \in Nat
  PROVE  IsPage(First(n, S), n, S)
<1> DEFINE c == Cardinality(S)
           m == Smaller(n, c)
           s == First(n, S)
<1>1. c \in Nat /\ m \in Nat /\ m <= n /\ m <= c /\ (m < n => m = c)
  BY FS_CardinalityType DEF Smaller
<1>2. s = [k \in 1..m |-> Nth(S, k)]
  BY DEF First
<1>3. \A k \in 1..m : Nth(S, k) \in S /\ Rank(S, Nth(S, k)) = k - 1
  <2> HIDE DEF m
  <2>1. \A k \in 1..m : k \in 1..Cardinality(S)
    BY <1>1
  <2> QED
    BY <2>1, NthHasRank
<1>0. \A i \in S : /\ i \in Nat
                   /\ Rank(S, i) \in 0..c - 1
                   /\ \A h \in S : h < i => Rank(S, h) < Rank(S, i)
  BY RanksGrow
<1> HIDE DEF c, m, s
<1>4. s \in [1..m -> S]
  BY <1>2, <1>3
<1>5. s \in Seq(S)
  BY <1>1, <1>4
<1>6. Len(s) = m
  BY <1>1, <1>4, <1>5, LenProperties
<1>7. Ascends(s)
  <2>1. \A j, k \in 1..Cardinality(S) : j < k => Nth(S, j) < Nth(S, k)
    BY NthsAscend
  <2>2. \A j \in 1..m : j \in 1..Cardinality(S)
    BY <1>1 DEF c
  <2>3. \A j, k \in 1..m : j < k => Nth(S, j) < Nth(S, k)
    BY <2>1, <2>2
  <2> QED
    BY <1>2, <1>6, <2>3 DEF Ascends
<1>8. ASSUME NEW i \in S, Rank(S, i) < m
      PROVE  i \in ToSet(s)
  <2>1. Rank(S, i) \in Nat
    BY <1>0
  <2>2. Rank(S, i) + 1 \in 1..m
    BY <1>1, <1>8, <2>1
  <2>3. s[Rank(S, i) + 1] = i
    BY <1>2, <2>2, NthsAscend
  <2> QED
    BY <1>5, <1>6, <2>2, <2>3, InToSet
<1>9. ASSUME NEW i \in S, NEW k \in 1..Len(s), i <= s[k]
      PROVE  i \in ToSet(s)
  <2>1. s[k] \in S /\ Rank(S, s[k]) = k - 1
    BY <1>2, <1>3, <1>6
  <2>2. Rank(S, i) <= k - 1
    <3>1. CASE i = s[k]
      BY <1>6, <2>1, <3>1
    <3>2. CASE i # s[k]
      <4>0. i \in Nat /\ s[k] \in Nat
        BY <1>0, <2>1
      <4>1. i < s[k]
        BY <1>9, <3>2, <4>0
      <4>2. Rank(S, i) < Rank(S, s[k]) /\ Rank(S, i) \in Int
        <5>1. Rank(S, i) < Rank(S, s[k])
          BY <1>0, <2>1, <4>1
        <5>2. Rank(S, i) \in 0..c - 1
          BY <1>0
        <5> QED
          BY <5>1, <5>2
      <4> QED
        BY <1>1, <1>6, <2>1, <4>2
    <3> QED
      BY <3>1, <3>2
  <2>3. Rank(S, i) < m
    <3>1. Rank(S, i) \in Int
      BY <1>0
    <3> QED
      BY <1>1, <1>6, <2>2, <3>1
  <2> QED
    BY <1>8, <2>3
<1>10. ASSUME Len(s) < n
       PROVE  S \subseteq ToSet(s)
  <2> SUFFICES ASSUME NEW i \in S
               PROVE  i \in ToSet(s)
    OBVIOUS
  <2>1. Rank(S, i) \in 0..c - 1
    BY RanksGrow DEF c
  <2> QED
    BY <1>1, <1>6, <1>8, <1>10, <2>1
<1>11. IsPage(s, n, S)
  BY <1>1, <1>5, <1>6, <1>7, <1>9, <1>10 DEF IsPage
<1> QED
  BY <1>11 DEF s

\* A page cut to its first n rows is a page still, and cut short only if it is full.
LEMMA PageIsCut ==
  ASSUME NEW S, S \subseteq Nat, NEW n \in Nat, NEW rows, IsPage(rows, n + 1, S)
  PROVE  LET page == SubSeq(rows, 1, Smaller(n, Len(rows)))
         IN /\ IsPage(page, n, S)
            /\ Len(rows) <= n => S \subseteq ToSet(page)
            /\ Len(rows) > n => Len(page) = n
<1> DEFINE m == Smaller(n, Len(rows))
           page == SubSeq(rows, 1, m)
<1>1. rows \in Seq(S) /\ Len(rows) \in Nat /\ Len(rows) <= n + 1 /\ Ascends(rows)
  BY LenProperties DEF IsPage
<1>2. m \in Nat /\ m <= n /\ m <= Len(rows) /\ (Len(rows) <= n => m = Len(rows))
        /\ (Len(rows) > n => m = n)
  BY <1>1 DEF Smaller
<1> HIDE DEF m
<1>3. \A k \in 1..m : rows[k] \in S
  BY <1>1, <1>2, ElementOfSeq
<1>4. /\ page \in Seq(S) /\ Len(page) = m
      /\ \A k \in 1..m : page[k] = rows[k]
  <2>1. /\ page \in Seq(S) /\ Len(page) = (IF 1 <= m THEN m - 1 + 1 ELSE 0)
        /\ \A k \in 1..m - 1 + 1 : page[k] = rows[1 + k - 1]
    BY <1>2, <1>3, SubSeqProperties
  <2> QED
    BY <1>2, <2>1
<1> HIDE DEF page
<1>5. Ascends(page)
  BY <1>1, <1>2, <1>4 DEF Ascends
<1>6. ASSUME NEW k \in 1..m
      PROVE  rows[k] \in ToSet(page)
  BY <1>4, InToSet
<1>7. ASSUME NEW i \in S, NEW k \in 1..Len(page), i <= page[k]
      PROVE  i \in ToSet(page)
  <2>1. k \in 1..Len(rows) /\ page[k] = rows[k]
    BY <1>1, <1>2, <1>4
  <2>2. i \in ToSet(rows)
    BY <1>7, <2>1 DEF IsPage
  <2>3. PICK h \in 1..Len(rows) : rows[h] = i
    BY <1>1, <2>2, InToSet
  <2>4. ~(k < h)
    <3>1. SUFFICES ASSUME k < h
                   PROVE  FALSE
      OBVIOUS
    <3>2. rows[k] < rows[h]
      BY <1>1, <2>1, <3>1 DEF Ascends
    <3>3. rows[k] \in Nat /\ i \in Nat
      BY <1>3, <1>4
    <3> QED
      BY <1>7, <2>1, <2>3, <3>2, <3>3
  <2>5. h \in 1..m
    BY <1>1, <1>4, <2>4
  <2> QED
    BY <1>6, <2>3, <2>5
<1>8. ASSUME Len(rows) <= n
      PROVE  S \subseteq ToSet(page)
  <2>1. S \subseteq ToSet(rows)
    BY <1>1, <1>8 DEF IsPage
  <2>2. SUFFICES ASSUME NEW i \in S
                 PROVE  i \in ToSet(page)
    OBVIOUS
  <2>3. PICK h \in 1..Len(rows) : rows[h] = i
    BY <1>1, <2>1, InToSet
  <2> QED
    BY <1>2, <1>6, <1>8, <2>3
<1>9. Len(page) < n => Len(rows) <= n
  BY <1>1, <1>2, <1>4
<1>10. IsPage(page, n, S)
  BY <1>2, <1>4, <1>5, <1>7, <1>8, <1>9 DEF IsPage
<1>11. /\ Len(rows) <= n => S \subseteq ToSet(page)
       /\ Len(rows) > n => Len(page) = n
  BY <1>2, <1>4, <1>8
<1> QED
  BY <1>10, <1>11 DEF page, m

\* Where the next page starts.
Behind(after, page) == IF page = << >> THEN after ELSE Last(page)

\* A page of what lies behind the last of the rows so far.
Follows(Ks, got, after, S, n, page) ==
  /\ Ks \subseteq Nat /\ got \in Seq(Ks) /\ Ascends(got) /\ after \in Nat
  /\ \A i \in ToSet(got) : i <= after
  /\ S \in SUBSET Ks /\ \A i \in S : i > after
  /\ n \in Nat /\ IsPage(page, n, S)

Continued(Ks, got, after, S, page) ==
  /\ got \o page \in Seq(Ks)
  /\ Ascends(got \o page)
  /\ ToSet(got \o page) = ToSet(got) \cup ToSet(page)
  /\ ToSet(page) \subseteq S
  /\ Behind(after, page) \in Nat
  /\ \A i \in ToSet(got \o page) : i <= Behind(after, page)
  /\ \A i \in S : i <= Behind(after, page) => i \in ToSet(page)

\* A page of what lies behind the last row continues the rows so far, in order, and
\* passes over none.
LEMMA PageContinues ==
  ASSUME NEW Ks, NEW got, NEW after, NEW S, NEW n, NEW page,
         Follows(Ks, got, after, S, n, page)
  PROVE  Continued(Ks, got, after, S, page)
<1> USE DEF Follows
<1> DEFINE all == got \o page
           last == Behind(after, page)
<1>1. page \in Seq(S) /\ Len(page) \in Nat /\ Len(got) \in Nat /\ page \in Seq(Ks)
        /\ Ascends(page)
  BY LenProperties, SeqMonotonic DEF IsPage
<1>2. /\ all \in Seq(Ks) /\ Len(all) = Len(got) + Len(page)
      /\ \A k \in 1..Len(got) + Len(page) :
           all[k] = IF k <= Len(got) THEN got[k] ELSE page[k - Len(got)]
  BY <1>1, ConcatProperties
<1> HIDE DEF all
<1>3. \A k \in 1..Len(got) : got[k] \in Nat /\ got[k] <= after /\ got[k] \in ToSet(got)
  BY InToSet, ElementOfSeq
<1>4. \A k \in 1..Len(page) : page[k] \in S /\ page[k] \in Nat /\ page[k] > after
                                /\ page[k] \in ToSet(page)
  BY <1>1, InToSet, ElementOfSeq
<1>5. Ascends(all)
  <2>1. SUFFICES ASSUME NEW j \in 1..Len(all), NEW k \in 1..Len(all), j < k
                 PROVE  all[j] < all[k]
    BY DEF Ascends
  <2>2. CASE k <= Len(got)
    <3>1. all[j] = got[j] /\ all[k] = got[k] /\ j \in 1..Len(got) /\ k \in 1..Len(got)
      BY <1>1, <1>2, <2>1, <2>2
    <3> QED
      BY <2>1, <3>1 DEF Ascends
  <2>3. CASE j <= Len(got) /\ k > Len(got)
    <3>1. /\ all[j] = got[j] /\ all[k] = page[k - Len(got)] /\ j \in 1..Len(got)
          /\ k - Len(got) \in 1..Len(page)
      BY <1>1, <1>2, <2>1, <2>3
    <3> QED
      BY <1>3, <1>4, <3>1
  <2>4. CASE j > Len(got)
    <3>1. /\ all[j] = page[j - Len(got)] /\ all[k] = page[k - Len(got)]
          /\ j - Len(got) \in 1..Len(page) /\ k - Len(got) \in 1..Len(page)
          /\ j - Len(got) < k - Len(got)
      BY <1>1, <1>2, <2>1, <2>4
    <3> QED
      BY <1>1, <3>1 DEF Ascends
  <2> QED
    BY <1>1, <1>2, <2>1, <2>2, <2>3, <2>4
<1>6. ToSet(all) = ToSet(got) \cup ToSet(page)
  <2>1. ASSUME NEW i \in ToSet(all)
        PROVE  i \in ToSet(got) \cup ToSet(page)
    <3>1. PICK k \in 1..Len(all) : all[k] = i
      BY <1>2, InToSet
    <3>2. CASE k <= Len(got)
      BY <1>1, <1>2, <1>3, <3>1, <3>2
    <3>3. CASE k > Len(got)
      <4>1. k - Len(got) \in 1..Len(page) /\ all[k] = page[k - Len(got)]
        BY <1>1, <1>2, <3>1, <3>3
      <4> QED
        BY <1>4, <3>1, <4>1
    <3> QED
      BY <1>1, <1>2, <3>1, <3>2, <3>3
  <2>2. ASSUME NEW i \in ToSet(got)
        PROVE  i \in ToSet(all)
    <3>1. PICK k \in 1..Len(got) : got[k] = i
      BY InToSet
    <3>2. k \in 1..Len(all) /\ all[k] = i
      BY <1>1, <1>2, <3>1
    <3> QED
      BY <1>2, <3>2, InToSet
  <2>3. ASSUME NEW i \in ToSet(page)
        PROVE  i \in ToSet(all)
    <3>1. PICK k \in 1..Len(page) : page[k] = i
      BY <1>1, InToSet
    <3>2. Len(got) + k \in 1..Len(all) /\ all[Len(got) + k] = i
      BY <1>1, <1>2, <3>1
    <3> QED
      BY <1>2, <3>2, InToSet
  <2> QED
    BY <2>1, <2>2, <2>3
<1>7. ToSet(page) \subseteq S
  BY <1>1, InToSet
<1>8. /\ last \in Nat /\ after <= last
      /\ \A k \in 1..Len(page) : page[k] <= last
      /\ \A i \in S : i <= last => i \in ToSet(page)
  <2>1. CASE page = << >>
    BY <1>1, <2>1
      DEF Behind
  <2>2. CASE page # << >>
    <3>1. Len(page) \in 1..Len(page)
      BY <1>1, <2>2, EmptySeq
    <3>2. last = page[Len(page)]
      BY <2>2 DEF Behind, Last
    <3>3. \A k \in 1..Len(page) : page[k] <= last
      BY <1>1, <1>4, <3>1, <3>2 DEF Ascends
    <3>4. \A i \in S : i <= last => i \in ToSet(page)
      BY <3>1, <3>2 DEF IsPage
    <3>5. last \in Nat /\ after <= last
      BY <1>4, <3>1, <3>2
    <3> QED
      BY <3>3, <3>4, <3>5
  <2> QED
    BY <2>1, <2>2
<1> HIDE DEF last
<1>9. ASSUME NEW i \in ToSet(all)
      PROVE  i <= last
  <2>1. CASE i \in ToSet(got)
    <3>1. PICK k \in 1..Len(got) : got[k] = i
      BY <2>1, InToSet
    <3> QED
      BY <1>3, <1>8, <3>1
  <2>2. CASE i \in ToSet(page)
    <3>1. PICK k \in 1..Len(page) : page[k] = i
      BY <1>1, <2>2, InToSet
    <3> QED
      BY <1>8, <3>1
  <2> QED
    BY <1>6, <1>9, <2>1, <2>2
<1> QED
  BY <1>2, <1>5, <1>6, <1>7, <1>8, <1>9 DEF all, last, Continued

\* Rows in order are no more than the numbers they are from.
LEMMA RowsAreCounted ==
  ASSUME NEW M, M \subseteq Nat, IsFiniteSet(M), NEW s \in Seq(Nat), Ascends(s),
         ToSet(s) \subseteq M
  PROVE  Len(s) <= Cardinality(M)
<1> DEFINE D == 1..Len(s)
<1>1. Len(s) \in Nat /\ s \in [D -> Nat] /\ DOMAIN s = D
  BY LenProperties
<1>2. \A k \in D : s[k] \in M
  BY InToSet
<1>3. s \in [D -> M]
  BY <1>1, <1>2
<1>4. ASSUME NEW j \in D, NEW k \in D, s[j] = s[k]
      PROVE  j = k
  <2>1. ~(s[j] < s[k]) /\ ~(s[k] < s[j])
    BY <1>1, <1>4
  <2>2. ~(j < k) /\ ~(k < j)
    BY <2>1 DEF Ascends
  <2> QED
    BY <1>1, <2>2
<1>5. s \in Injection(D, M)
  BY <1>3, <1>4 DEF Injection, IsInjective
<1>6. Cardinality(D) = Len(s)
  BY <1>1, FS_Interval
<1>7. Cardinality(D) <= Cardinality(M)
  BY <1>5, FS_Injection
<1> QED
  BY <1>6, <1>7
-----------------------------------------------------------------------------
(* Reads.                                                                   *)

\* What a read has so far: it is in order and behind the cursor, has all that stood
\* and matched up to there, and nothing that never matched.
Underway ==
  /\ reader.request \in Requests
  /\ Matching \subseteq matched
  /\ Ascends(reader.got)
  /\ \A i \in ToSet(reader.got) : i <= reader.after
  /\ reader.request.kind \in {"the", "change"} => reader.got = << >>
  /\ Discerning => ToSet(reader.got) \subseteq matched
  /\ Discerning \/ reader.request.kind = "export" =>
       \A i \in standing : i <= reader.after => i \in ToSet(reader.got)

\* An export nobody approved started when no more than the threshold matched; each
\* change since has added at most one.
Estimated ==
  reader.request.kind = "export" /\ ~reader.request.approved
    /\ backend.counts /\ backend.filters
    => Cardinality(matched) <= Threshold + changes - reader.begun

ReadInv ==
  /\ ReadTypeOK
  /\ standing \subseteq Matching
  /\ reader.pc = "reading" => Underway /\ Estimated
  /\ ReadsAreComplete
  /\ UnapprovedIsBounded

LEMMA IdsAreNumbers ==
  /\ Ids \subseteq Nat /\ IsFiniteSet(Ids)
  /\ Present \subseteq Ids /\ Matching \subseteq Present
BY ReadPlaneAssumption DEF Present, Matching

\* The backend and the request decide what can be told apart.
LEMMA RequestIsKept ==
  ASSUME UNCHANGED backend, reader'.request = reader.request
  PROVE  (Discerning' <=> Discerning) /\ allowed' = allowed /\ limit' = limit
BY DEF Discerning, allowed, limit

LEMMA LimitIsPositive == limit \in Nat \ {0}
BY ReadPlaneAssumption DEF limit

\* A page of a search is one of what lies behind the cursor: if the reader can tell
\* what matches, of all that does.
LEMMA SearchIsPaged ==
  ASSUME ReadTypeOK, ~TooLarge
  PROVE  \E S \in SUBSET Ids :
           /\ \A i \in S : i > reader.after
           /\ IsPage(Gathered, limit + 1, S)
           /\ Discerning /\ reader.request.kind # "export" =>
                S = {i \in Matching : i > reader.after}
<1>1. reader.after \in Nat /\ limit + 1 \in Nat /\ EdgeBound \in Nat /\ EdgeBound + 1 \in Nat
  BY LimitIsPositive, ReadPlaneAssumption DEF ReadTypeOK, Reader
<1>2. CASE backend.filters
  <2> DEFINE S == {i \in Matching : i > reader.after}
  <2>1. S \in SUBSET Ids /\ S \subseteq Nat /\ IsFiniteSet(S)
    <3>1. S \in SUBSET Ids
      BY IdsAreNumbers
    <3> QED
      BY <3>1, IdsAreNumbers, FS_Subset
  <2>2. Gathered = First(limit + 1, S)
    BY <1>2 DEF Gathered, Fetch
  <2> HIDE DEF S
  <2>3. IsPage(Gathered, limit + 1, S)
    BY <1>1, <2>1, <2>2, FirstIsPage
  <2> QED
    BY <2>1, <2>3 DEF S
<1>3. CASE ~backend.filters
  <2> DEFINE P == {i \in Present : i > reader.after}
             pulled == First(EdgeBound + 1, P)
             S == Seen(pulled, allowed)
  <2>1. P \in SUBSET Ids /\ P \subseteq Nat /\ IsFiniteSet(P)
    <3>1. P \in SUBSET Ids
      BY IdsAreNumbers
    <3> QED
      BY <3>1, IdsAreNumbers, FS_Subset
  <2>2. pulled = Fetch(FALSE, EdgeBound + 1, reader.after)
    BY DEF Fetch
  <2>3. Gathered = First(limit + 1, S)
    BY <1>3, <2>2 DEF Gathered
  <2>4. ~(Len(pulled) > EdgeBound)
    BY <1>3, <2>2 DEF TooLarge
  <2> HIDE DEF pulled
  <2>5. S \subseteq ToSet(pulled)
    BY DEF Seen
  <2>6. backend.whole \/ FilterField \in allowed =>
          S = {i \in ToSet(pulled) : table[i] = "match"}
    BY DEF Seen
  <2> HIDE DEF S
  <2>7. IsPage(pulled, EdgeBound + 1, P)
    <3> HIDE DEF P
    <3> QED
      BY <1>1, <2>1, FirstIsPage DEF pulled
  <2>8. pulled \in Seq(P) /\ Len(pulled) \in Nat
    BY <2>7, LenProperties DEF IsPage
  <2>9. ToSet(pulled) = P
    <3>1. ToSet(pulled) \subseteq P
      BY <2>8, InToSet
    <3>2. Len(pulled) < EdgeBound + 1
      BY <1>1, <2>4, <2>8
    <3>3. P \subseteq ToSet(pulled)
      BY <2>7, <3>2 DEF IsPage
    <3> QED
      BY <3>1, <3>3
  <2>10. S \in SUBSET Ids /\ S \subseteq Nat /\ IsFiniteSet(S)
    <3> HIDE DEF P
    <3>1. S \in SUBSET P
      BY <2>5, <2>9
    <3> QED
      BY <2>1, <3>1, FS_Subset
  <2>11. IsPage(Gathered, limit + 1, S)
    BY <1>1, <2>3, <2>10, FirstIsPage
  <2>12. ASSUME Discerning, reader.request.kind # "export"
         PROVE  S = {i \in Matching : i > reader.after}
    <3>1. backend.whole \/ FilterField \in allowed
      BY <1>3, <2>12 DEF Discerning
    <3>2. S = {i \in P : table[i] = "match"}
      BY <2>6, <2>9, <3>1
    <3> QED
      BY <3>2 DEF Matching, Present
  <2>13. \A i \in S : i > reader.after
    BY <2>5, <2>9
  <2> QED
    BY <2>10, <2>11, <2>12, <2>13
<1> QED
  BY <1>2, <1>3

\* A page of an export is one of what lies behind the cursor, of all that matches at
\* least, and of nothing else if the backend filters.
LEMMA ExportIsPaged ==
  ASSUME ReadTypeOK
  PROVE  \E S \in SUBSET Ids :
           /\ \A i \in S : i > reader.after
           /\ IsPage(Fetch(TRUE, PageSize, reader.after), PageSize, S)
           /\ \A i \in Matching : i > reader.after => i \in S
           /\ backend.filters => S \subseteq Matching
<1> DEFINE S == {i \in IF backend.filters THEN Matching ELSE Present : i > reader.after}
<1>1. S \in SUBSET Ids
  BY IdsAreNumbers
<1>2. S \subseteq Nat /\ IsFiniteSet(S)
  BY <1>1, IdsAreNumbers, FS_Subset
<1>3. Fetch(TRUE, PageSize, reader.after) = First(PageSize, S) /\ PageSize \in Nat
  BY ReadPlaneAssumption DEF Fetch
<1>4. /\ \A i \in S : i > reader.after
      /\ \A i \in Matching : i > reader.after => i \in S
      /\ backend.filters => S \subseteq Matching
  BY IdsAreNumbers
<1> HIDE DEF S
<1>5. IsPage(Fetch(TRUE, PageSize, reader.after), PageSize, S)
  BY <1>2, <1>3, FirstIsPage
<1> QED
  BY <1>1, <1>4, <1>5

\* A read begins with nothing, or is refused.
LEMMA BeginKeepsReadInv ==
  ASSUME ReadInv, NEW request \in Requests, StartSearch(request) \/ StartExport(request)
  PROVE  ReadInv'
<1> DEFINE status == IF reader'.pc = "reading" THEN "reading" ELSE "refused"
<1>1. /\ reader' = Answer(request, status) /\ UNCHANGED <<backend, table, changes>>
      /\ IF status = "reading" THEN standing' = Matching /\ matched' = Matching
         ELSE UNCHANGED <<standing, matched>>
  <2>1. CASE StartSearch(request)
    BY <2>1 DEF StartSearch, BeginRead, Answer
  <2>2. CASE StartExport(request)
    BY <2>2 DEF StartExport, BeginRead, Answer
  <2> QED
    BY <2>1, <2>2
<1>2. /\ reader'.request = request /\ reader'.after = 0 /\ reader'.got = << >>
      /\ reader'.begun = changes /\ reader'.pc = status /\ reader' \in Reader
  <2>1. /\ reader'.request = request /\ reader'.after = 0 /\ reader'.got = << >>
        /\ reader'.begun = changes /\ reader'.pc = status
    BY <1>1 DEF Answer
  <2>2. changes \in Nat /\ << >> \in Seq(Ids)
    BY EmptySeq, ReadPlaneAssumption DEF ReadInv, ReadTypeOK
  <2>3. status \in {"reading", "refused"}
    OBVIOUS
  <2> HIDE DEF status
  <2>4. Answer(request, status) \in Reader
    BY <2>2, <2>3 DEF Answer, Reader
  <2> QED
    BY <1>1, <2>1, <2>4
<1>3. Matching' = Matching /\ Matching \subseteq Ids
  BY <1>1 DEF Matching
<1>4. ReadTypeOK'
  BY <1>1, <1>2, <1>3 DEF ReadInv, ReadTypeOK
<1>5. standing' \subseteq Matching'
  BY <1>1, <1>3 DEF ReadInv
<1>6. Len(reader'.got) = 0 /\ ToSet(reader'.got) = {}
  BY <1>2, EmptySeq DEF ToSet
<1>7. ASSUME status = "reading"
      PROVE  Underway' /\ Estimated'
  <2>1. standing' = Matching /\ matched' = Matching
    BY <1>1, <1>7
  <2>2. Ascends(reader'.got)
    BY <1>6 DEF Ascends
  <2>3. ASSUME NEW i \in standing', i <= reader'.after
        PROVE  FALSE
    <3>1. i \in Nat \ {0}
      BY <1>3, <2>1, ReadPlaneAssumption
    <3> QED
      BY <1>2, <2>3, <3>1
  <2>4. Underway'
    BY <1>2, <1>3, <1>6, <2>1, <2>2, <2>3 DEF Underway
  <2>5. ASSUME request.kind = "export", ~request.approved, backend.counts
        PROVE  Cardinality(Matching) <= Threshold
    <3>1. StartExport(request)
      BY <2>5 DEF StartSearch
    <3>2. ~(Count > Threshold)
      BY <1>7, <2>5, <3>1 DEF StartExport, Answer
    <3>3. Cardinality(Matching) \in Nat /\ Threshold \in Nat
      BY IdsAreNumbers, FS_Subset, FS_CardinalityType, ReadPlaneAssumption
    <3> QED
      BY <2>5, <3>2, <3>3 DEF Count
  <2>6. changes \in Nat /\ Threshold \in Nat
    BY ReadPlaneAssumption DEF ReadInv, ReadTypeOK
  <2>7. Threshold + changes - changes = Threshold
    BY <2>6
  <2>8. Estimated'
    BY <1>1, <1>2, <2>1, <2>5, <2>7 DEF Estimated
  <2> QED
    BY <2>4, <2>8
<1>8. ReadsAreComplete'
  BY <1>2 DEF ReadsAreComplete
<1>9. UnapprovedIsBounded'
  <2>1. changes \in Nat /\ Threshold \in Nat
    BY ReadPlaneAssumption DEF ReadInv, ReadTypeOK
  <2>2. 0 <= Threshold + changes - changes
    BY <2>1
  <2> QED
    BY <1>1, <1>2, <1>6, <2>2 DEF UnapprovedIsBounded
<1> QED
  BY <1>2, <1>4, <1>5, <1>7, <1>8, <1>9 DEF ReadInv

\* A reader that has more rows, and where it goes on.
Advanced(r, got, pc, after) == [r EXCEPT !.got = got, !.pc = pc, !.after = after]

LEMMA AdvancedIsReader ==
  ASSUME NEW r, NEW got, NEW pc, NEW after,
         r \in Reader, got \in Seq(Ids), pc \in {"reading", "done"}, after \in Nat
  PROVE  /\ Advanced(r, got, pc, after) \in Reader
         /\ Advanced(r, got, pc, after).got = got
         /\ Advanced(r, got, pc, after).pc = pc
         /\ Advanced(r, got, pc, after).after = after
         /\ Advanced(r, got, pc, after).request = r.request
         /\ Advanced(r, got, pc, after).begun = r.begun
BY DEF Advanced, Reader

\* The rows of an unapproved export are among those that matched since it began.
LEMMA BoundFollows ==
  ASSUME ReadTypeOK, Estimated, Ascends(reader.got),
         reader.request.kind = "export" => (Discerning => ToSet(reader.got) \subseteq matched)
  PROVE  UnapprovedIsBounded
<1>1. SUFFICES ASSUME reader.request.kind = "export", ~reader.request.approved,
                      backend.counts, backend.filters
               PROVE  Len(reader.got) <= Threshold + changes - reader.begun
  BY DEF UnapprovedIsBounded
<1>2. reader.got \in Seq(Nat) /\ reader.begun \in Nat /\ changes \in Nat
        /\ Threshold \in Nat
  <2>1. reader.got \in Seq(Ids) /\ reader.begun \in Nat /\ changes \in Nat
    BY ReadPlaneAssumption DEF ReadTypeOK, Reader
  <2> QED
    BY <2>1, IdsAreNumbers, SeqMonotonic, ReadPlaneAssumption
<1>3. matched \subseteq Nat /\ IsFiniteSet(matched)
  <2>1. matched \in SUBSET Ids
    BY DEF ReadTypeOK
  <2> QED
    BY <2>1, IdsAreNumbers, FS_Subset
<1>4. ToSet(reader.got) \subseteq matched
  BY <1>1 DEF Discerning
<1>5. Len(reader.got) <= Cardinality(matched)
  BY <1>2, <1>3, <1>4, RowsAreCounted
<1>6. Cardinality(matched) \in Nat /\ Len(reader.got) \in Nat
  BY <1>2, <1>3, FS_CardinalityType, LenProperties
<1>7. Cardinality(matched) <= Threshold + changes - reader.begun
  BY <1>1 DEF Estimated
<1> QED
  BY <1>2, <1>5, <1>6, <1>7

\* A page, of a search or of an export, keeps what the reader knows so far.
LEMMA PageKeepsUnderway ==
  ASSUME ReadInv, reader.pc = "reading",
         NEW n \in Nat, NEW S \in SUBSET Ids, NEW page, IsPage(page, n, S),
         \A i \in S : i > reader.after,
         Discerning => S \subseteq Matching,
         Discerning \/ reader.request.kind = "export" =>
           \A i \in Matching : i > reader.after => i \in S,
         NEW pc \in {"reading", "done"}, NEW after \in Nat,
         pc = "reading" => after = Behind(reader.after, page)
                             /\ reader.request.kind \notin {"the", "change"},
         reader' = Advanced(reader, reader.got \o page, pc, after),
         UNCHANGED <<backend, table, standing, matched, changes>>
  PROVE  /\ ReadTypeOK' /\ (standing \subseteq Matching)'
         /\ (reader.pc = "reading" => Underway /\ Estimated)'
         /\ UnapprovedIsBounded'
         /\ Ascends(reader'.got)
         /\ reader'.pc = pc /\ reader'.request = reader.request
         /\ reader'.got = reader.got \o page
         /\ ToSet(reader'.got) = ToSet(reader.got) \cup ToSet(page)
         /\ Discerning => ToSet(reader'.got) \subseteq matched
<1>1. Underway /\ Estimated /\ ReadTypeOK /\ standing \subseteq Matching
  BY DEF ReadInv
<1>2. /\ reader \in Reader /\ reader.got \in Seq(Ids) /\ reader.after \in Nat
      /\ matched \subseteq Ids
  BY <1>1 DEF ReadTypeOK, Reader
<1>3. /\ reader.got \o page \in Seq(Ids) /\ Ascends(reader.got \o page)
      /\ ToSet(reader.got \o page) = ToSet(reader.got) \cup ToSet(page)
      /\ ToSet(page) \subseteq S
      /\ \A i \in ToSet(reader.got \o page) : i <= Behind(reader.after, page)
      /\ \A i \in S : i <= Behind(reader.after, page) => i \in ToSet(page)
  <2>1. Ascends(reader.got) /\ \A i \in ToSet(reader.got) : i <= reader.after
    BY <1>1 DEF Underway
  <2>2. Follows(Ids, reader.got, reader.after, S, n, page)
    BY <1>2, <2>1, IdsAreNumbers DEF Follows
  <2>3. Continued(Ids, reader.got, reader.after, S, page)
    BY <2>2, PageContinues
  <2> QED
    BY <2>3 DEF Continued
<1>4. /\ reader' \in Reader /\ reader'.got = reader.got \o page /\ reader'.pc = pc
      /\ reader'.after = after /\ reader'.request = reader.request
      /\ reader'.begun = reader.begun
  <2> DEFINE g == reader.got \o page
  <2>1. g \in Seq(Ids) /\ reader' = Advanced(reader, g, pc, after)
    BY <1>3
  <2> HIDE DEF g
  <2>2. /\ Advanced(reader, g, pc, after) \in Reader
        /\ Advanced(reader, g, pc, after).got = g
        /\ Advanced(reader, g, pc, after).pc = pc
        /\ Advanced(reader, g, pc, after).after = after
        /\ Advanced(reader, g, pc, after).request = reader.request
        /\ Advanced(reader, g, pc, after).begun = reader.begun
    BY <1>2, <2>1, AdvancedIsReader
  <2> QED
    BY <2>1, <2>2 DEF g
<1>5. Matching' = Matching /\ (Discerning' <=> Discerning)
  BY <1>4, RequestIsKept DEF Matching
<1>6. ReadTypeOK' /\ (standing \subseteq Matching)'
  BY <1>1, <1>4, <1>5 DEF ReadTypeOK
<1>7. Estimated'
  BY <1>1, <1>4 DEF Estimated
<1>8. Discerning => ToSet(reader'.got) \subseteq matched
  BY <1>1, <1>3, <1>4 DEF Underway
<1>9. ASSUME pc = "reading"
      PROVE  Underway'
  <2>1. /\ after = Behind(reader.after, page)
        /\ reader.request.kind \notin {"the", "change"}
    BY <1>9
  <2>2. ASSUME Discerning \/ reader.request.kind = "export",
               NEW i \in standing, i <= after
        PROVE  i \in ToSet(reader'.got)
    <3>1. i \in Nat /\ i \in Matching
      BY <1>1, IdsAreNumbers
    <3>2. CASE i <= reader.after
      BY <1>1, <1>3, <1>4, <2>2, <3>2 DEF Underway
    <3>3. CASE i > reader.after
      <4>1. i \in S
        BY <2>2, <3>1, <3>3
      <4> QED
        BY <1>3, <1>4, <2>1, <2>2, <4>1
    <3> QED
      BY <1>2, <3>1, <3>2, <3>3
  <2> QED
    BY <1>1, <1>3, <1>4, <1>5, <1>8, <2>1, <2>2 DEF Underway
<1>10. UnapprovedIsBounded'
  <2>1. ReadTypeOK' /\ Estimated' /\ Ascends(reader.got)'
          /\ (Discerning' => (ToSet(reader.got) \subseteq matched)')
    BY <1>3, <1>4, <1>5, <1>6, <1>7, <1>8
  <2> QED
    BY <2>1, BoundFollows, PTL
<1> QED
  BY <1>3, <1>4, <1>6, <1>7, <1>8, <1>9, <1>10

\* A page of a search, or its refusal.
LEMMA SearchKeepsReadInv ==
  ASSUME ReadInv, SearchPage
  PROVE  ReadInv' /\ reader'.request = reader.request
<1>1. /\ reader.pc = "reading" /\ reader.request.kind # "export"
      /\ UNCHANGED <<backend, table, standing, matched, changes>>
      /\ Underway /\ Estimated /\ ReadTypeOK /\ standing \subseteq Matching
  BY DEF SearchPage, ReadInv
<1>2. CASE TooLarge
  <2>1. reader' = [reader EXCEPT !.pc = "refused"]
    BY <1>2 DEF SearchPage, Refuse
  <2>2. reader \in Reader
    BY <1>1 DEF ReadTypeOK
  <2>3. /\ reader' \in Reader /\ reader'.pc = "refused"
        /\ reader'.request = reader.request /\ reader'.got = reader.got
        /\ reader'.begun = reader.begun
    BY <2>1, <2>2 DEF Reader
  <2>4. ReadTypeOK' /\ (standing \subseteq Matching)'
    BY <1>1, <2>3 DEF ReadTypeOK, Matching
  <2>5. ReadsAreComplete'
    BY <2>3 DEF ReadsAreComplete
  <2>6. UnapprovedIsBounded'
    BY <1>1, <2>3 DEF UnapprovedIsBounded
  <2> QED
    BY <2>3, <2>4, <2>5, <2>6 DEF ReadInv
<1>3. CASE ~TooLarge
  <2> DEFINE rows == Gathered
             page == SubSeq(rows, 1, Smaller(limit, Len(rows)))
             more == Len(rows) > limit /\ reader.request.kind = "all"
             pc == IF more THEN "reading" ELSE "done"
             after == IF more THEN Last(page) ELSE reader.after
  <2>1. reader' = Advanced(reader, reader.got \o page, pc, after)
    BY <1>3 DEF SearchPage, Advanced
  <2>2. PICK S \in SUBSET Ids :
          /\ \A i \in S : i > reader.after
          /\ IsPage(rows, limit + 1, S)
          /\ Discerning => S = {i \in Matching : i > reader.after}
    BY <1>1, <1>3, SearchIsPaged
  <2> HIDE DEF rows
  <2>3. limit \in Nat \ {0}
    BY LimitIsPositive
  <2>4. /\ IsPage(page, limit, S)
        /\ Len(rows) <= limit => S \subseteq ToSet(page)
        /\ Len(rows) > limit => Len(page) = limit
    BY <2>2, <2>3, IdsAreNumbers, PageIsCut
  <2>5. rows \in Seq(S) /\ Len(rows) \in Nat /\ page \in Seq(S)
    BY <2>2, <2>4, LenProperties DEF IsPage
  <2> HIDE DEF page
  <2>6. reader.after \in Nat /\ reader.got \in Seq(Ids)
    BY <1>1 DEF ReadTypeOK, Reader
  <2>7. ASSUME more
        PROVE  after = Behind(reader.after, page) /\ after \in Nat
    <3>1. Len(page) = limit /\ page # << >>
      BY <2>3, <2>4, <2>7, EmptySeq
    <3>2. after = Last(page) /\ after = Behind(reader.after, page)
      BY <2>7, <3>1 DEF Behind
    <3>3. page[Len(page)] \in S
      BY <2>3, <2>5, <3>1, ElementOfSeq
    <3> QED
      BY <3>2, <3>3, IdsAreNumbers DEF Last
  <2>8. after \in Nat /\ pc \in {"reading", "done"}
    BY <2>6, <2>7
  <2>9. pc = "reading" => after = Behind(reader.after, page)
                            /\ reader.request.kind \notin {"the", "change"}
    BY <2>7
  <2>10. (pc = "reading") <=> more
    OBVIOUS
  <2> HIDE DEF after, pc
  <2>11. /\ Discerning => S \subseteq Matching
         /\ Discerning \/ reader.request.kind = "export" =>
              \A i \in Matching : i > reader.after => i \in S
    BY <1>1, <2>2
  <2>14. \A i \in S : i > reader.after
    BY <2>2
  <2>12. /\ ReadTypeOK' /\ (standing \subseteq Matching)'
         /\ (reader.pc = "reading" => Underway /\ Estimated)'
         /\ UnapprovedIsBounded'
         /\ Ascends(reader'.got)
         /\ reader'.pc = pc /\ reader'.request = reader.request
         /\ reader'.got = reader.got \o page
         /\ ToSet(reader'.got) = ToSet(reader.got) \cup ToSet(page)
         /\ Discerning => ToSet(reader'.got) \subseteq matched
    BY <1>1, <2>1, <2>3, <2>4, <2>8, <2>9, <2>11, <2>14, PageKeepsUnderway
  <2>13. ReadsAreComplete'
    <3>1. SUFFICES ASSUME pc = "done", Discerning
                   PROVE  \/ standing \subseteq ToSet(reader'.got)
                          \/ /\ reader.request.kind \in {"the", "change"}
                             /\ Len(reader'.got) = limit
      <4>1. (Discerning' <=> Discerning) /\ limit' = limit
        BY <1>1, <2>12, RequestIsKept
      <4> QED
        BY <1>1, <2>12, <4>1 DEF ReadsAreComplete, Ascends
    <3>2. CASE Len(rows) <= limit
      <4>1. ASSUME NEW i \in standing
            PROVE  i \in ToSet(reader'.got)
        <5>1. i \in Matching /\ i \in Nat
          BY <1>1, IdsAreNumbers
        <5>2. CASE i <= reader.after
          BY <1>1, <2>12, <3>1, <5>2 DEF Underway
        <5>3. CASE i > reader.after
          BY <2>4, <2>11, <2>12, <3>1, <3>2, <5>1, <5>3
        <5> QED
          BY <2>6, <5>1, <5>2, <5>3
      <4> QED
        BY <4>1
    <3>3. CASE Len(rows) > limit
      <4>1. reader.request.kind \in {"the", "change"}
        <5>1. reader.request \in Request
          BY <1>1, ReadPlaneAssumption DEF Underway
        <5>2. reader.request.kind \in {"the", "all", "change", "export"}
          BY <5>1 DEF Request
        <5> QED
          BY <1>1, <2>10, <3>1, <3>3, <5>2
      <4>2. reader.got = << >>
        BY <1>1, <4>1 DEF Underway
      <4>3. reader'.got = page
        BY <2>5, <2>12, <4>2, ConcatEmptySeq
      <4> QED
        BY <2>4, <3>3, <4>1, <4>3
    <3> QED
      BY <2>3, <2>5, <3>2, <3>3
  <2> QED
    BY <2>12, <2>13 DEF ReadInv
<1> QED
  BY <1>2, <1>3

\* A page of an export; with the last one it has all that stood and matched.
LEMMA ExportKeepsReadInv ==
  ASSUME ReadInv, ExportPage
  PROVE  /\ ReadInv'
         /\ Ascends(reader'.got)
         /\ reader'.pc \in {"reading", "done"} /\ reader'.request = reader.request
         /\ reader'.pc = "done" => standing \subseteq ToSet(reader'.got)
<1>1. /\ reader.pc = "reading" /\ reader.request.kind = "export"
      /\ UNCHANGED <<backend, table, standing, matched, changes>>
      /\ Underway /\ Estimated /\ ReadTypeOK /\ standing \subseteq Matching
  BY DEF ExportPage, ReadInv
<1> DEFINE page == Fetch(TRUE, PageSize, reader.after)
           pc == IF Len(page) < PageSize THEN "done" ELSE "reading"
           after == Behind(reader.after, page)
<1>2. reader' = Advanced(reader, reader.got \o page, pc, after)
  BY DEF ExportPage, Advanced, Behind
<1>3. PICK S \in SUBSET Ids :
        /\ \A i \in S : i > reader.after
        /\ IsPage(page, PageSize, S)
        /\ \A i \in Matching : i > reader.after => i \in S
        /\ backend.filters => S \subseteq Matching
  BY <1>1, ExportIsPaged
<1>4. PageSize \in Nat \ {0}
  BY ReadPlaneAssumption
<1> HIDE DEF page
<1>5. page \in Seq(S) /\ Len(page) \in Nat
  BY <1>3, LenProperties DEF IsPage
<1>6. reader.after \in Nat /\ reader.got \in Seq(Ids)
  BY <1>1 DEF ReadTypeOK, Reader
<1>7. after \in Nat
  <2>1. CASE page = << >>
    BY <1>6, <2>1 DEF Behind
  <2>2. CASE page # << >>
    <3>1. Len(page) \in 1..Len(page)
      BY <1>5, <2>2, EmptySeq
    <3>2. page[Len(page)] \in S
      BY <1>5, <3>1, ElementOfSeq
    <3> QED
      BY <2>2, <3>2, IdsAreNumbers DEF Behind, Last
  <2> QED
    BY <2>1, <2>2
<1>8. pc \in {"reading", "done"} /\ (pc = "done" <=> Len(page) < PageSize)
  OBVIOUS
<1>9. pc = "reading" => after = Behind(reader.after, page)
                          /\ reader.request.kind \notin {"the", "change"}
  BY <1>1
<1> HIDE DEF pc, after
<1>10. Discerning => S \subseteq Matching
  BY <1>1, <1>3 DEF Discerning
<1>11. /\ ReadTypeOK' /\ (standing \subseteq Matching)'
       /\ (reader.pc = "reading" => Underway /\ Estimated)'
       /\ UnapprovedIsBounded'
       /\ Ascends(reader'.got)
       /\ reader'.pc = pc /\ reader'.request = reader.request
       /\ reader'.got = reader.got \o page
       /\ ToSet(reader'.got) = ToSet(reader.got) \cup ToSet(page)
       /\ Discerning => ToSet(reader'.got) \subseteq matched
  BY <1>1, <1>2, <1>3, <1>4, <1>7, <1>8, <1>9, <1>10, PageKeepsUnderway
<1>12. ASSUME pc = "done", NEW i \in standing
       PROVE  i \in ToSet(reader'.got)
  <2>1. i \in Matching /\ i \in Nat
    BY <1>1, IdsAreNumbers
  <2>2. CASE i <= reader.after
    BY <1>1, <1>11, <2>2 DEF Underway
  <2>3. CASE i > reader.after
    <3>1. S \subseteq ToSet(page)
      BY <1>3, <1>8, <1>12 DEF IsPage
    <3> QED
      BY <1>3, <1>11, <2>1, <2>3, <3>1
  <2> QED
    BY <1>6, <2>1, <2>2, <2>3
<1>13. ReadsAreComplete'
  <2>1. Discerning' <=> Discerning
    BY <1>1, <1>11, RequestIsKept
  <2> QED
    BY <1>1, <1>11, <1>12, <2>1 DEF ReadsAreComplete, Ascends
<1> QED
  BY <1>8, <1>11, <1>12, <1>13 DEF ReadInv

\* Others change a record: what stands can only be less, what has matched only more.
LEMMA ChangeKeepsReadInv ==
  ASSUME ReadInv, NEW i \in Ids, NEW row \in {"absent", "match", "other"}, Change(i, row)
  PROVE  ReadInv'
<1>1. /\ changes < MaxChanges /\ table[i] # row /\ changes' = changes + 1
      /\ table' = [table EXCEPT ![i] = row]
      /\ standing' = IF row = "match" THEN standing ELSE standing \ {i}
      /\ matched' = IF row = "match" THEN matched \cup {i} ELSE matched
      /\ UNCHANGED <<backend, reader>>
  BY DEF Change
<1>2. ReadTypeOK /\ standing \subseteq Matching
  BY DEF ReadInv
<1>3. /\ table \in [Ids -> {"absent", "match", "other"}] /\ changes \in Nat
      /\ changes + 1 \in 0..MaxChanges /\ Threshold \in Nat
      /\ matched \in SUBSET Ids
  BY <1>1, <1>2, ReadPlaneAssumption DEF ReadTypeOK
<1>4. Matching' = IF row = "match" THEN Matching \cup {i} ELSE Matching \ {i}
  BY <1>1, <1>3 DEF Matching
<1>5. /\ standing' \subseteq standing /\ matched \subseteq matched'
      /\ (standing \subseteq Matching)'
  BY <1>1, <1>2, <1>4
<1>6. ReadTypeOK'
  BY <1>1, <1>2, <1>3 DEF ReadTypeOK
<1>7. (Discerning' <=> Discerning) /\ limit' = limit
  BY <1>1, RequestIsKept
<1>8. ASSUME reader.pc = "reading"
      PROVE  Underway' /\ Estimated'
  <2>1. Underway /\ Estimated
    BY <1>8 DEF ReadInv
  <2>2. (Matching \subseteq matched)'
    BY <1>1, <1>4, <2>1 DEF Underway
  <2>3. Underway'
    BY <1>1, <1>5, <1>7, <2>1, <2>2 DEF Underway
  <2>4. /\ IsFiniteSet(matched) /\ Cardinality(matched) \in Nat
        /\ Cardinality(matched') \in Nat
        /\ Cardinality(matched') <= Cardinality(matched) + 1
    <3>1. IsFiniteSet(matched) /\ IsFiniteSet(matched') /\ Cardinality(matched) \in Nat
      <4>1. matched' \in SUBSET Ids
        BY <1>1, <1>3
      <4> QED
        BY <1>3, <4>1, IdsAreNumbers, FS_Subset, FS_CardinalityType
    <3>2. Cardinality(matched \cup {i}) <= Cardinality(matched) + 1
      <4>1. Cardinality(matched \cup {i})
              = IF i \in matched THEN Cardinality(matched) ELSE Cardinality(matched) + 1
        BY <3>1, FS_AddElement
      <4> QED
        BY <3>1, <4>1
    <3> QED
      BY <1>1, <3>1, <3>2, FS_CardinalityType
  <2>5. reader.begun \in Nat
    BY <1>2 DEF ReadTypeOK, Reader
  <2>6. Estimated'
    <3>1. SUFFICES ASSUME reader.request.kind = "export", ~reader.request.approved,
                          backend.counts, backend.filters
                   PROVE  Cardinality(matched') <= Threshold + (changes + 1) - reader.begun
      BY <1>1 DEF Estimated
    <3>2. Cardinality(matched) <= Threshold + changes - reader.begun
      BY <2>1, <3>1 DEF Estimated
    <3> QED
      BY <1>3, <2>4, <2>5, <3>2
  <2> QED
    BY <2>3, <2>6
<1>9. ReadsAreComplete'
  BY <1>1, <1>5, <1>7 DEF ReadsAreComplete, ReadInv
<1>10. UnapprovedIsBounded'
  <2>1. SUFFICES ASSUME reader.request # All, reader.request.kind = "export",
                        ~reader.request.approved, backend.counts, backend.filters
                 PROVE  Len(reader.got) <= Threshold + (changes + 1) - reader.begun
    BY <1>1 DEF UnapprovedIsBounded
  <2>2. Len(reader.got) <= Threshold + changes - reader.begun
    BY <2>1 DEF UnapprovedIsBounded, ReadInv
  <2>3. reader.begun \in Nat /\ Len(reader.got) \in Nat
    BY <1>2, LenProperties DEF ReadTypeOK, Reader
  <2> QED
    BY <1>3, <2>2, <2>3
<1> QED
  BY <1>1, <1>5, <1>6, <1>8, <1>9, <1>10 DEF ReadInv

\* A restart ends the read that is under way.
LEMMA RestartKeepsReadInv ==
  ASSUME ReadInv, Restart
  PROVE  ReadInv' /\ reader'.pc # "reading"
<1>1. /\ reader' = [reader EXCEPT !.pc = IF @ = "reading" THEN "refused" ELSE @]
      /\ UNCHANGED <<backend, table, standing, matched, changes>>
      /\ ReadTypeOK /\ reader \in Reader
  BY DEF Restart, ReadInv, ReadTypeOK
<1>2. /\ reader' \in Reader /\ reader'.pc # "reading"
      /\ reader'.request = reader.request /\ reader'.got = reader.got
      /\ reader'.begun = reader.begun /\ (reader'.pc = "done" => reader.pc = "done")
  BY <1>1 DEF Reader
<1>3. ReadTypeOK' /\ (standing \subseteq Matching)'
  BY <1>1, <1>2 DEF ReadInv, ReadTypeOK, Matching
<1>4. (Discerning' <=> Discerning) /\ limit' = limit
  BY <1>1, <1>2, RequestIsKept
<1>5. ReadsAreComplete'
  BY <1>1, <1>2, <1>4 DEF ReadsAreComplete, ReadInv
<1>6. UnapprovedIsBounded'
  BY <1>1, <1>2 DEF UnapprovedIsBounded, ReadInv
<1> QED
  BY <1>2, <1>3, <1>5, <1>6 DEF ReadInv
-----------------------------------------------------------------------------
(* Bulk jobs.                                                               *)

\* How often an id was written: once for each torn batch, and once more if it is
\* checkpointed or written in the batch at work.
Tallied ==
  \A i \in Items : applied[i] = torn[i] + (IF i \in done \cup written THEN 1 ELSE 0)

\* What the job is about is done, reported as failed or still ahead, unless it was
\* stopped or died.
Accounted ==
  job.pc \in {"between", "batch"} \/ (job.pc = "ended" /\ ~job.stopped) =>
    ToSet(job.ids) \subseteq done \cup job.failed \cup ToSet(job.pending)

JobInv ==
  /\ BulkTypeOK
  /\ Ascends(job.ids) /\ Ascends(job.pending)
  /\ ToSet(job.pending) \cap done = {}
  /\ job.pc # "batch" => job.at = 0
  /\ job.at <= Len(batch)
  /\ Tallied
  /\ Accounted
  /\ job.pc = "ended" /\ ~job.stopped => job.pending = << >>

LEMMA ItemsAreIds == Items = Ids /\ BatchSize \in Nat \ {0} /\ MaxRuns \in Nat
BY DataPlaneAssumption, BulkAssumption

\* A list in order, cut in two after its m-th number.
LEMMA ListIsCut ==
  ASSUME NEW p, p \in Seq(Ids), Ascends(p), NEW m, m \in 0..Len(p)
  PROVE  /\ SubSeq(p, 1, m) \in Seq(Ids) /\ Len(SubSeq(p, 1, m)) = m
         /\ \A k \in 1..m : SubSeq(p, 1, m)[k] = p[k]
         /\ ToSet(SubSeq(p, 1, m)) = {p[k] : k \in 1..m}
         /\ SubSeq(p, m + 1, Len(p)) \in Seq(Ids) /\ Ascends(SubSeq(p, m + 1, Len(p)))
         /\ ToSet(p) = ToSet(SubSeq(p, 1, m)) \cup ToSet(SubSeq(p, m + 1, Len(p)))
         /\ ToSet(SubSeq(p, 1, m)) \cap ToSet(SubSeq(p, m + 1, Len(p))) = {}
<1> DEFINE n == Len(p)
           a == SubSeq(p, 1, m)
           b == SubSeq(p, m + 1, n)
<1>1. n \in Nat /\ m \in Nat /\ m <= n
  BY LenProperties
<1>2. \A k \in 1..n : p[k] \in Ids /\ p[k] \in Nat
  BY ElementOfSeq, IdsAreNumbers
<1> HIDE DEF n
<1>3. a \in Seq(Ids) /\ Len(a) = m /\ \A k \in 1..m : a[k] = p[k]
  <2>1. /\ a \in Seq(Ids) /\ Len(a) = IF 1 <= m THEN m - 1 + 1 ELSE 0
        /\ \A k \in 1..m - 1 + 1 : a[k] = p[1 + k - 1]
    BY <1>1, <1>2, SubSeqProperties
  <2> QED
    BY <1>1, <2>1
<1>4. b \in Seq(Ids) /\ Len(b) = n - m /\ \A k \in 1..n - m : b[k] = p[m + k]
  <2>1. /\ b \in Seq(Ids) /\ Len(b) = IF m + 1 <= n THEN n - (m + 1) + 1 ELSE 0
        /\ \A k \in 1..n - (m + 1) + 1 : b[k] = p[m + 1 + k - 1]
    BY <1>1, <1>2, SubSeqProperties
  <2> QED
    BY <1>1, <2>1
<1> HIDE DEF a, b
<1>5. ToSet(a) = {p[k] : k \in 1..m}
  <2>1. \A x : x \in ToSet(a) <=> \E k \in 1..m : a[k] = x
    BY <1>3, InToSet
  <2> QED
    BY <1>3, <2>1
<1>6. \A x : x \in ToSet(b) <=> \E k \in 1..n - m : p[m + k] = x
  <2>1. \A x : x \in ToSet(b) <=> \E k \in 1..n - m : b[k] = x
    BY <1>4, InToSet
  <2> QED
    BY <1>4, <2>1
<1>7. \A x : x \in ToSet(p) <=> \E k \in 1..n : p[k] = x
  BY InToSet DEF n
<1>8. \A j, k \in 1..n : j < k => p[j] < p[k]
  BY DEF Ascends, n
<1>9. Ascends(b)
  <2>1. SUFFICES ASSUME NEW j \in 1..n - m, NEW k \in 1..n - m, j < k
                 PROVE  b[j] < b[k]
    BY <1>4 DEF Ascends
  <2>2. m + j \in 1..n /\ m + k \in 1..n /\ m + j < m + k
    BY <1>1, <2>1
  <2> QED
    BY <1>4, <1>8, <2>2
<1>10. ToSet(p) = ToSet(a) \cup ToSet(b)
  <2>1. ASSUME NEW x \in ToSet(p)
        PROVE  x \in ToSet(a) \cup ToSet(b)
    <3>1. PICK k \in 1..n : p[k] = x
      BY <1>7
    <3>2. CASE k <= m
      BY <1>1, <1>5, <3>1, <3>2
    <3>3. CASE k > m
      <4>1. k - m \in 1..n - m /\ p[m + (k - m)] = x
        BY <1>1, <3>1, <3>3
      <4> QED
        BY <1>6, <4>1
    <3> QED
      BY <1>1, <3>2, <3>3
  <2>2. ToSet(a) \subseteq ToSet(p)
    BY <1>1, <1>5, <1>7
  <2>3. ASSUME NEW x \in ToSet(b)
        PROVE  x \in ToSet(p)
    <3>1. PICK k \in 1..n - m : p[m + k] = x
      BY <1>6
    <3>2. m + k \in 1..n
      BY <1>1
    <3> QED
      BY <1>7, <3>1, <3>2
  <2> QED
    BY <2>1, <2>2, <2>3
<1>11. ToSet(a) \cap ToSet(b) = {}
  <2>1. SUFFICES ASSUME NEW x, x \in ToSet(a), x \in ToSet(b)
                 PROVE  FALSE
    OBVIOUS
  <2>2. PICK j \in 1..m : p[j] = x
    BY <1>5, <2>1
  <2>3. PICK k \in 1..n - m : p[m + k] = x
    BY <1>6, <2>1
  <2>4. j \in 1..n /\ m + k \in 1..n /\ j < m + k
    BY <1>1
  <2>5. p[j] < p[m + k] /\ p[j] \in Nat
    BY <1>2, <1>8, <2>4
  <2> QED
    BY <2>2, <2>3, <2>5
<1> QED
  BY <1>3, <1>4, <1>5, <1>9, <1>10, <1>11 DEF a, b, n

\* What is left of a list in order is in order, and is what was not checkpointed.
LEMMA UndoneIsLeft ==
  ASSUME NEW ids, ids \in Seq(Ids), Ascends(ids)
  PROVE  /\ Undone(ids) \in Seq(Ids) /\ Ascends(Undone(ids))
         /\ ToSet(Undone(ids)) = ToSet(ids) \ done
<1> DEFINE kept == {k \in DOMAIN ids : ids[k] \notin done}
           c == Cardinality(kept)
           s == Undone(ids)
<1>1. Len(ids) \in Nat /\ DOMAIN ids = 1..Len(ids)
  BY LenProperties
<1>2. kept \subseteq Nat /\ IsFiniteSet(kept) /\ kept \subseteq 1..Len(ids)
  <2>1. kept \in SUBSET (1..Len(ids))
    BY <1>1
  <2>2. IsFiniteSet(1..Len(ids))
    BY <1>1, FS_Interval
  <2>3. IsFiniteSet(kept)
    BY <2>1, <2>2, FS_Subset
  <2> QED
    BY <2>1, <2>3
<1>3. c \in Nat
  BY <1>2, FS_CardinalityType
<1>4. s = [n \in 1..c |-> ids[Nth(kept, n)]]
  BY DEF Undone
<1>5. \A k \in kept : ids[k] \in Ids /\ ids[k] \notin done /\ k \in 1..Len(ids)
  BY <1>2, ElementOfSeq
<1> HIDE DEF kept, s
<1>6. \A n \in 1..c : Nth(kept, n) \in kept
  BY <1>2, NthHasRank
<1>7. \A j, k \in 1..c : j < k => Nth(kept, j) < Nth(kept, k)
  BY <1>2, NthsAscend
<1>8. \A k \in kept : \E n \in 1..c : Nth(kept, n) = k
  BY <1>2, NthsAscend
<1> HIDE DEF c
<1>9. s \in [1..c -> Ids]
  BY <1>4, <1>5, <1>6
<1>10. s \in Seq(Ids) /\ Len(s) = c
  <2>1. s \in Seq(Ids)
    BY <1>3, <1>9
  <2> QED
    BY <1>3, <1>9, <2>1, LenProperties
<1>11. Ascends(s)
  <2>1. SUFFICES ASSUME NEW j \in 1..c, NEW k \in 1..c, j < k
                 PROVE  s[j] < s[k]
    BY <1>10 DEF Ascends
  <2>2. /\ Nth(kept, j) \in 1..Len(ids) /\ Nth(kept, k) \in 1..Len(ids)
        /\ Nth(kept, j) < Nth(kept, k)
    BY <1>5, <1>6, <1>7, <2>1
  <2> QED
    BY <1>4, <2>2 DEF Ascends
<1>12. ASSUME NEW x \in ToSet(s)
       PROVE  x \in ToSet(ids) \ done
  <2>1. PICK n \in 1..c : s[n] = x
    BY <1>10, InToSet
  <2>2. x = ids[Nth(kept, n)] /\ Nth(kept, n) \in kept
    BY <1>4, <1>6, <2>1
  <2> QED
    BY <1>5, <2>2, InToSet
<1>13. ASSUME NEW x \in ToSet(ids), x \notin done
       PROVE  x \in ToSet(s)
  <2>1. PICK k \in 1..Len(ids) : ids[k] = x
    BY InToSet
  <2>2. k \in kept
    BY <1>1, <1>13, <2>1 DEF kept
  <2>3. PICK n \in 1..c : Nth(kept, n) = k
    BY <1>8, <2>2
  <2>4. s[n] = x
    BY <1>4, <2>1, <2>3
  <2> QED
    BY <1>10, <2>3, <2>4, InToSet
<1> QED
  BY <1>10, <1>11, <1>12, <1>13 DEF s

\* The batch at work and what comes after it.
LEMMA BatchIsCut ==
  ASSUME JobInv
  PROVE  /\ batch \in Seq(Ids) /\ Len(batch) \in Nat /\ Len(batch) <= BatchSize
         /\ rest \in Seq(Ids) /\ Ascends(rest)
         /\ ToSet(job.pending) = ToSet(batch) \cup ToSet(rest)
         /\ ToSet(batch) \cap ToSet(rest) = {}
         /\ written \subseteq ToSet(batch)
         /\ job.at = 0 => written = {}
         /\ job.at = Len(batch) => written = ToSet(batch)
         /\ job.at < Len(batch) => batch[job.at + 1] \in ToSet(batch) \ written
<1> DEFINE m == Upto(BatchSize)
           p == job.pending
<1>1. p \in Seq(Ids) /\ Ascends(p) /\ job.at \in Nat
  BY ItemsAreIds DEF JobInv, BulkTypeOK, Job
<1>2. Len(p) \in Nat /\ m \in 0..Len(p) /\ m <= BatchSize
  BY <1>1, ItemsAreIds, LenProperties DEF Upto, Smaller
<1>3. batch = SubSeq(p, 1, m) /\ rest = SubSeq(p, m + 1, Len(p))
        /\ written = ToSet(SubSeq(p, 1, job.at))
  BY DEF batch, rest, written
<1> HIDE DEF m, p
<1>4. /\ batch \in Seq(Ids) /\ Len(batch) = m
      /\ \A k \in 1..m : batch[k] = p[k]
      /\ ToSet(batch) = {p[k] : k \in 1..m}
      /\ rest \in Seq(Ids) /\ Ascends(rest)
      /\ ToSet(p) = ToSet(batch) \cup ToSet(rest)
      /\ ToSet(batch) \cap ToSet(rest) = {}
  BY <1>1, <1>2, <1>3, ListIsCut
<1>5. job.at <= m /\ job.at \in 0..Len(p)
  BY <1>1, <1>2, <1>4 DEF JobInv
<1>6. written = {p[k] : k \in 1..job.at}
  BY <1>1, <1>3, <1>5, ListIsCut
<1>7. written \subseteq ToSet(batch)
  BY <1>1, <1>2, <1>4, <1>5, <1>6
<1>8. job.at = 0 => written = {}
  BY <1>6
<1>9. job.at = m => written = ToSet(batch)
  BY <1>4, <1>6
<1>10. ASSUME job.at < m
       PROVE  batch[job.at + 1] \in ToSet(batch) \ written
  <2>1. job.at + 1 \in 1..m /\ job.at + 1 \in 1..Len(p)
    BY <1>1, <1>2, <1>10
  <2>2. batch[job.at + 1] = p[job.at + 1]
    BY <1>4, <2>1
  <2>3. ASSUME NEW k \in 1..job.at
        PROVE  p[k] # p[job.at + 1]
    <3>1. k \in 1..Len(p) /\ k < job.at + 1
      BY <1>1, <1>2, <1>5
    <3>2. p[k] < p[job.at + 1] /\ p[k] \in Nat
      BY <1>1, <2>1, <3>1, ElementOfSeq, IdsAreNumbers DEF Ascends
    <3> QED
      BY <3>2
  <2> QED
    BY <1>4, <1>6, <2>1, <2>2, <2>3
<1> QED
  BY <1>2, <1>4, <1>7, <1>8, <1>9, <1>10 DEF p

\* Without a batch at work nothing of it is written.
LEMMA NothingIsWritten ==
  /\ job.at = 0 => written = {}
  /\ job'.at = 0 => written' = {}
<1>1. \A p : SubSeq(p, 1, 0) = << >>
  BY SubSeqEmpty
<1>2. ToSet(<< >>) = {}
  BY DEF ToSet
<1> QED
  BY <1>1, <1>2 DEF written

\* A batch is as many numbers of what is pending as a batch may have.
LEMMA BatchHasLength ==
  ASSUME NEW p, p \in Seq(Ids), Ascends(p)
  PROVE  Len(SubSeq(p, 1, Smaller(BatchSize, Len(p)))) \in Nat
<1>1. Len(p) \in Nat /\ Smaller(BatchSize, Len(p)) \in 0..Len(p)
  BY ItemsAreIds, LenProperties DEF Smaller
<1> QED
  BY <1>1, ListIsCut

\* A job that reports what failed.
Reported(n, failed, stop) == [n EXCEPT !.failed = failed, !.stopped = stop]

\* What a job record has after the batch at work, however it went.
LEMMA NextBatchIsJob ==
  ASSUME JobInv, NEW status, status \in {"between", "ended"},
         NEW failed, failed \subseteq Ids, NEW stop, stop \in BOOLEAN
  PROVE  /\ NextBatch(status) \in Job /\ NextBatch(status).pc = status
         /\ NextBatch(status).pending = rest /\ NextBatch(status).at = 0
         /\ NextBatch(status).ids = job.ids
         /\ NextBatch(status).failed = job.failed
         /\ NextBatch(status).stopped = job.stopped
         /\ Reported(NextBatch(status), failed, stop) \in Job
         /\ Reported(NextBatch(status), failed, stop).pc = status
         /\ Reported(NextBatch(status), failed, stop).pending = rest
         /\ Reported(NextBatch(status), failed, stop).at = 0
         /\ Reported(NextBatch(status), failed, stop).ids = job.ids
         /\ Reported(NextBatch(status), failed, stop).failed = failed
         /\ Reported(NextBatch(status), failed, stop).stopped = stop
<1>1. job \in Job /\ rest \in Seq(Items)
  BY BatchIsCut, ItemsAreIds DEF JobInv, BulkTypeOK
<1>2. failed \subseteq Items /\ 0 \in 0..BatchSize
  BY ItemsAreIds
<1> DEFINE b == NextBatch(status)
<1>3. /\ b \in Job /\ b.pc = status /\ b.pending = rest /\ b.at = 0 /\ b.ids = job.ids
      /\ b.failed = job.failed /\ b.stopped = job.stopped
  BY <1>1, <1>2 DEF NextBatch, Job
<1> HIDE DEF b
<1> DEFINE c == Reported(b, failed, stop)
<1>4. /\ c \in Job /\ c.pc = status /\ c.pending = rest /\ c.at = 0
      /\ c.ids = job.ids /\ c.failed = failed /\ c.stopped = stop
  BY <1>2, <1>3 DEF Job, Reported
<1> QED
  BY <1>3, <1>4 DEF b

\* A run of the job begins with what was not checkpointed.
LEMMA BeginKeepsJobInv ==
  ASSUME JobInv, job.pc # "batch", NEW ids, ids \in Seq(Ids), Ascends(ids),
         NEW on_error \in {"skip", "stop"}, BeginRun(ids, on_error)
  PROVE  JobInv' /\ job'.ids = ids
<1>1. /\ Undone(ids) \in Seq(Ids) /\ Ascends(Undone(ids))
      /\ ToSet(Undone(ids)) = ToSet(ids) \ done
  BY UndoneIsLeft
<1>2. /\ job' = [pc |-> "between", ids |-> ids, pending |-> Undone(ids), at |-> 0,
                 on_error |-> on_error, failed |-> {}, stopped |-> FALSE,
                 runs |-> job.runs + 1]
      /\ job.runs < MaxRuns /\ UNCHANGED <<done, applied, torn>>
  BY DEF BeginRun
<1>3. job \in Job
  BY DEF JobInv, BulkTypeOK
<1>4. job.runs + 1 \in 0..MaxRuns /\ 0 \in 0..BatchSize
  <2>1. job.runs \in 0..MaxRuns
    BY <1>3 DEF Job
  <2> QED
    BY <1>2, <2>1, ItemsAreIds
<1>5. job' \in Job
  BY <1>1, <1>2, <1>4, ItemsAreIds DEF Job
<1>6. /\ job'.pc = "between" /\ job'.ids = ids /\ job'.pending = Undone(ids)
      /\ job'.at = 0 /\ job'.failed = {}
  BY <1>2
<1>7. BulkTypeOK'
  BY <1>2, <1>5 DEF BulkTypeOK, JobInv
<1>8. written = {} /\ written' = {}
  <2>1. job.at = 0
    BY DEF JobInv
  <2> QED
    BY <1>6, <2>1, NothingIsWritten
<1>9. Tallied'
  BY <1>2, <1>8 DEF Tallied, JobInv
<1>10. Accounted'
  BY <1>1, <1>2, <1>6 DEF Accounted
<1>11. (job.at <= Len(batch))'
  <2>1. Len(SubSeq(job'.pending, 1, Smaller(BatchSize, Len(job'.pending)))) \in Nat
    BY <1>1, <1>6, BatchHasLength
  <2>2. batch' = SubSeq(job'.pending, 1, Smaller(BatchSize, Len(job'.pending)))
    BY DEF batch, Upto
  <2>3. Len(batch') \in Nat
    BY <2>1, <2>2
  <2>4. job'.at = 0
    BY <1>6
  <2> QED
    BY <2>3, <2>4
<1>12. ToSet(job'.pending) \cap done' = {}
  BY <1>1, <1>2, <1>6
<1> QED
  BY <1>1, <1>6, <1>7, <1>9, <1>10, <1>11, <1>12 DEF JobInv

\* A step that neither writes nor moves on in the list.
LEMMA PausesKeepJobInv ==
  ASSUME JobInv, job.pc = "between", Stop \/ StartBatch \/ End
  PROVE  JobInv' /\ job'.ids = job.ids
<1>1. job \in Job /\ job.at = 0 /\ 0 \in 0..BatchSize
  BY ItemsAreIds DEF JobInv, BulkTypeOK
<1>2. /\ job' \in Job /\ job'.ids = job.ids /\ job'.pending = job.pending /\ job'.at = 0
      /\ job'.failed = job.failed /\ job'.pc \in {"batch", "ended"}
      /\ job'.pc = "ended" /\ ~job'.stopped => job'.pending = << >>
  <2>1. CASE Stop
    BY <1>1, <2>1 DEF Stop, Job
  <2>2. CASE StartBatch
    BY <1>1, <2>2 DEF StartBatch, Job
  <2>3. CASE End
    BY <1>1, <2>3 DEF End, Job
  <2> QED
    BY <2>1, <2>2, <2>3
<1>3. UNCHANGED <<done, applied, torn>>
  BY DEF Stop, StartBatch, End
<1>4. BulkTypeOK'
  BY <1>2, <1>3 DEF BulkTypeOK, JobInv
<1>5. written = {} /\ written' = {} /\ batch' = batch
  <2>1. batch' = batch
    BY <1>2 DEF batch, Upto
  <2> QED
    BY <1>1, <1>2, <2>1, NothingIsWritten
<1> QED
  BY <1>1, <1>2, <1>3, <1>4, <1>5 DEF JobInv, Tallied, Accounted

\* The callback writes the next id of the batch, which is written for the first time
\* in this run.
LEMMA ApplyKeepsJobInv ==
  ASSUME JobInv, Apply
  PROVE  JobInv' /\ job'.ids = job.ids
<1> DEFINE next == batch[job.at + 1]
<1>1. /\ job.pc = "batch" /\ job.at < Len(batch)
      /\ applied' = [applied EXCEPT ![next] = @ + 1]
      /\ job' = [job EXCEPT !.at = @ + 1] /\ UNCHANGED <<done, torn>>
  BY DEF Apply
<1>2. /\ job \in Job /\ job.at \in Nat /\ job.pending \in Seq(Ids) /\ Ascends(job.pending)
      /\ job.at + 1 <= BatchSize /\ BatchSize \in Nat
  <2>1. job \in Job /\ job.at \in 0..BatchSize /\ job.pending \in Seq(Ids)
    BY ItemsAreIds DEF JobInv, BulkTypeOK, Job
  <2> QED
    BY <1>1, <2>1, BatchIsCut, ItemsAreIds DEF JobInv
<1>3. /\ job' \in Job /\ job'.at = job.at + 1 /\ job'.pending = job.pending
      /\ job'.ids = job.ids /\ job'.failed = job.failed /\ job'.pc = job.pc
      /\ job'.stopped = job.stopped
  <2>1. job.at + 1 \in 0..BatchSize
    BY <1>2
  <2> QED
    BY <1>1, <1>2, <2>1 DEF Job
<1>4. batch' = batch
  BY <1>3 DEF batch, Upto
<1>5. next \in ToSet(batch) \ written /\ next \in Items /\ next \notin done
  <2>1. next \in ToSet(batch) \ written /\ next \in ToSet(job.pending)
    BY <1>1, BatchIsCut
  <2>2. ToSet(job.pending) \subseteq Ids
    BY <1>2, InToSet
  <2> QED
    BY <2>1, <2>2, ItemsAreIds DEF JobInv
<1>6. written' = written \cup {next}
  <2> DEFINE p == job.pending
  <2>1. Len(p) \in Nat /\ Upto(BatchSize) \in 0..Len(p)
    BY <1>2, ItemsAreIds, LenProperties DEF Upto, Smaller
  <2>2. /\ Len(batch) = Upto(BatchSize)
        /\ \A k \in 1..Upto(BatchSize) : batch[k] = p[k]
    BY <1>2, <2>1, ListIsCut DEF batch
  <2>3. job.at + 1 \in 0..Len(p) /\ job.at \in 0..Len(p) /\ next = p[job.at + 1]
    BY <1>1, <1>2, <2>1, <2>2
  <2>4. written = {p[k] : k \in 1..job.at}
    BY <1>2, <2>3, ListIsCut DEF written
  <2>5. ToSet(SubSeq(p, 1, job.at + 1)) = {p[k] : k \in 1..job.at + 1}
    BY <1>2, <2>3, ListIsCut
  <2>6. written' = ToSet(SubSeq(p, 1, job.at + 1))
    BY <1>3 DEF written
  <2> HIDE DEF p, next
  <2>7. {p[k] : k \in 1..job.at + 1} = {p[k] : k \in 1..job.at} \cup {p[job.at + 1]}
    BY <1>2
  <2> QED
    BY <2>3, <2>4, <2>5, <2>6, <2>7
<1> HIDE DEF next
<1>7. BulkTypeOK'
  BY <1>1, <1>3, <1>5 DEF BulkTypeOK, JobInv
<1>8. Tallied'
  <2>1. applied \in [Items -> Nat] /\ torn \in [Items -> Nat]
    BY DEF JobInv, BulkTypeOK
  <2>2. applied[next] = torn[next]
    BY <1>5, <2>1 DEF JobInv, Tallied
  <2> QED
    BY <1>1, <1>5, <1>6, <2>1, <2>2 DEF JobInv, Tallied
<1>9. (job.at <= Len(batch))'
  BY <1>1, <1>2, <1>3, <1>4, BatchIsCut
<1>10. Accounted'
  BY <1>1, <1>3 DEF Accounted, JobInv
<1> QED
  BY <1>1, <1>3, <1>7, <1>8, <1>9, <1>10 DEF JobInv

\* The batch at work ends: its ids are checkpointed, or reported as failed and torn.
LEMMA BatchEndKeepsJobInv ==
  ASSUME JobInv, Fail \/ Checkpoint
  PROVE  JobInv' /\ job'.ids = job.ids
<1> DEFINE stop == job.on_error = "stop"
           status == IF stop THEN "ended" ELSE "between"
           failed == job.failed \cup ToSet(batch)
<1>1. /\ job \in Job /\ job.pc = "batch" /\ job.failed \subseteq Ids
      /\ batch \in Seq(Ids) /\ rest \in Seq(Ids) /\ Ascends(rest)
      /\ ToSet(job.pending) = ToSet(batch) \cup ToSet(rest)
      /\ ToSet(batch) \cap ToSet(rest) = {} /\ written \subseteq ToSet(batch)
      /\ ToSet(job.pending) \cap done = {}
      /\ applied \in [Items -> Nat] /\ torn \in [Items -> Nat]
  BY BatchIsCut, ItemsAreIds DEF JobInv, BulkTypeOK, Job, Fail, Checkpoint
<1>2. ToSet(batch) \subseteq Ids
  BY <1>1, InToSet
<1>3. /\ job' \in Job /\ job'.pending = rest /\ job'.at = 0 /\ job'.ids = job.ids
      /\ job'.pc \in {"between", "ended"} /\ (job'.pc = "ended" => job'.stopped)
      /\ job'.failed = IF Fail THEN failed ELSE job.failed
  <2>1. CASE Fail
    <3>1. job' = [NextBatch(status) EXCEPT !.failed = @ \cup ToSet(batch), !.stopped = stop]
      BY <2>1 DEF Fail
    <3>2. status \in {"between", "ended"} /\ failed \subseteq Ids /\ stop \in BOOLEAN
      BY <1>1, <1>2
    <3>3. NextBatch(status).failed = job.failed
      BY <3>2, NextBatchIsJob
    <3>4. job' = Reported(NextBatch(status), failed, stop)
      BY <3>1, <3>3 DEF Reported
    <3>5. status = "ended" => stop
      OBVIOUS
    <3> HIDE DEF status, failed, stop
    <3>6. /\ job' \in Job /\ job'.pc = status /\ job'.pending = rest /\ job'.at = 0
          /\ job'.ids = job.ids /\ job'.failed = failed /\ job'.stopped = stop
      BY <3>2, <3>4, NextBatchIsJob
    <3> QED
      BY <2>1, <3>2, <3>5, <3>6
  <2>2. CASE Checkpoint /\ ~Fail
    <3>1. job' = NextBatch("between")
      BY <2>2 DEF Checkpoint
    <3> QED
      BY <1>1, <2>2, <3>1, NextBatchIsJob
  <2> QED
    BY <2>1, <2>2
<1> HIDE DEF stop, status, failed
<1>4. written' = {}
  BY <1>3, NothingIsWritten
<1>5. (job.at <= Len(batch))'
  <2>1. batch' = SubSeq(rest, 1, Smaller(BatchSize, Len(rest)))
    BY <1>3 DEF batch, Upto
  <2>2. Len(batch') \in Nat
    BY <1>1, <2>1, BatchHasLength
  <2> QED
    BY <1>3, <2>2
<1>6. CASE Fail
  <2>1. /\ torn' = [i \in Items |-> torn[i] + (IF i \in written THEN 1 ELSE 0)]
        /\ UNCHANGED <<done, applied>>
    BY <1>6 DEF Fail, Tear
  <2>2. BulkTypeOK'
    BY <1>1, <1>3, <2>1 DEF BulkTypeOK, JobInv
  <2>3. Tallied'
    <3>1. SUFFICES ASSUME NEW i \in Items
                   PROVE  applied[i] = torn'[i] + (IF i \in done THEN 1 ELSE 0)
      BY <1>4, <2>1 DEF Tallied
    <3>2. applied[i] = torn[i] + (IF i \in done \cup written THEN 1 ELSE 0)
      BY DEF JobInv, Tallied
    <3>3. torn[i] \in Nat /\ ~(i \in done /\ i \in written)
      BY <1>1
    <3> QED
      BY <2>1, <3>2, <3>3
  <2>4. Accounted'
    BY <1>1, <1>3, <1>6, <2>1 DEF Accounted, JobInv, failed
  <2>5. ToSet(job'.pending) \cap done' = {}
    BY <1>1, <1>3, <2>1
  <2> QED
    BY <1>1, <1>3, <1>5, <2>2, <2>3, <2>4, <2>5 DEF JobInv
<1>7. CASE Checkpoint /\ ~Fail
  <2>1. job.at = Len(batch) /\ done' = done \cup ToSet(batch) /\ UNCHANGED <<applied, torn>>
    BY <1>7 DEF Checkpoint
  <2>2. BulkTypeOK'
    BY <1>1, <1>2, <1>3, <2>1, ItemsAreIds DEF BulkTypeOK, JobInv
  <2>3. written = ToSet(batch)
    BY <2>1, BatchIsCut
  <2>4. Tallied'
    BY <1>4, <2>1, <2>3 DEF Tallied, JobInv
  <2>5. Accounted'
    BY <1>1, <1>3, <1>7, <2>1 DEF Accounted, JobInv
  <2>6. ToSet(job'.pending) \cap done' = {}
    BY <1>1, <1>3, <2>1
  <2> QED
    BY <1>1, <1>3, <1>5, <2>2, <2>4, <2>5, <2>6 DEF JobInv
<1> QED
  BY <1>6, <1>7

\* The process dies: what the batch at work had written is torn.
LEMMA CrashKeepsJobInv ==
  ASSUME JobInv, Crash
  PROVE  JobInv' /\ job'.ids = job.ids
<1>1. /\ job' = [job EXCEPT !.pc = "dead", !.at = 0] /\ UNCHANGED <<done, applied>>
      /\ torn' = [i \in Items |-> torn[i] + (IF i \in written THEN 1 ELSE 0)]
      /\ job \in Job /\ job.pending \in Seq(Ids) /\ Ascends(job.pending)
      /\ applied \in [Items -> Nat] /\ torn \in [Items -> Nat]
      /\ ToSet(job.pending) \cap done = {} /\ written \subseteq ToSet(job.pending)
  BY BatchIsCut, ItemsAreIds DEF Crash, Tear, JobInv, BulkTypeOK, Job
<1>2. 0 \in 0..BatchSize
  BY ItemsAreIds
<1>3. /\ job' \in Job /\ job'.pc = "dead" /\ job'.at = 0 /\ job'.pending = job.pending
      /\ job'.ids = job.ids
  BY <1>1, <1>2 DEF Job
<1>4. written' = {} /\ batch' = batch /\ Len(batch) \in Nat
  BY <1>3, NothingIsWritten, BatchIsCut DEF batch, Upto
<1>5. BulkTypeOK'
  BY <1>1, <1>3 DEF BulkTypeOK, JobInv
<1>6. Tallied'
  <2>1. SUFFICES ASSUME NEW i \in Items
                 PROVE  applied[i] = torn'[i] + (IF i \in done THEN 1 ELSE 0)
    BY <1>1, <1>4 DEF Tallied
  <2>2. applied[i] = torn[i] + (IF i \in done \cup written THEN 1 ELSE 0)
    BY DEF JobInv, Tallied
  <2>3. torn[i] \in Nat /\ ~(i \in done /\ i \in written)
    BY <1>1
  <2> QED
    BY <1>1, <2>2, <2>3
<1>7. Accounted'
  BY <1>3 DEF Accounted
<1> QED
  BY <1>1, <1>3, <1>4, <1>5, <1>6, <1>7 DEF JobInv
-----------------------------------------------------------------------------
(* Exports and the jobs over them.                                          *)

\* An artifact has, in order, all that stood and matched while it was streamed, and a
\* job is about all that its export promised.
StoreInv ==
  /\ clock \in 0..MaxTime
  /\ {export, artifact} \subseteq Meta \cup {NoExport}
  /\ promised \subseteq ToSet(job.ids)
  /\ reader.pc = "reading" /\ reader.request.kind = "export" => export \in Meta
  /\ artifact # NoExport =>
       Ascends(artifact.rows) /\ artifact.standing \subseteq ToSet(artifact.rows)

Inv == ReadInv /\ JobInv /\ StoreInv

\* What a step of the reads leaves alone.
LEMMA JobIsLeft ==
  ASSUME JobInv, UNCHANGED bulk
  PROVE  JobInv' /\ job' = job
BY DEF JobInv, BulkTypeOK, Tallied, Accounted, batch, Upto, written, bulk

LEMMA ReadIsLeft ==
  ASSUME ReadInv, UNCHANGED read
  PROVE  ReadInv' /\ reader' = reader
BY DEF ReadInv, ReadTypeOK, Underway, Estimated, ReadsAreComplete, UnapprovedIsBounded,
       Discerning, allowed, limit, Matching, read

LEMMA InitHolds ==
  ASSUME Init
  PROVE  Inv
<1> USE DEF Init, ReadInit, BulkInit
<1>1. reader.pc = "idle" /\ reader.got = << >> /\ job.pc = "idle" /\ job.at = 0
        /\ job.ids = << >> /\ job.pending = << >> /\ standing = {} /\ matched = {}
  OBVIOUS
<1>2. << >> \in Seq(Ids) /\ Len(<< >>) = 0 /\ ToSet(<< >>) = {} /\ Ascends(<< >>)
  BY EmptySeq DEF ToSet, Ascends
<1>3. reader \in Reader /\ job \in Job
  BY <1>2, ItemsAreIds DEF Reader, Job
<1>4. ReadTypeOK /\ BulkTypeOK
  BY <1>3, ReadPlaneAssumption DEF ReadTypeOK, BulkTypeOK
<1>5. ReadInv
  <2>1. ReadsAreComplete /\ UnapprovedIsBounded
    <3>1. changes = 0 /\ reader.begun = 0 /\ Threshold \in Nat
      BY ReadPlaneAssumption
    <3>2. 0 <= Threshold + changes - reader.begun
      BY <3>1
    <3> QED
      BY <1>1, <1>2, <3>2 DEF ReadsAreComplete, UnapprovedIsBounded
  <2> QED
    BY <1>1, <1>4, <2>1 DEF ReadInv
<1>6. JobInv
  <2>1. written = {}
    BY <1>1, NothingIsWritten
  <2>2. Tallied
    BY <2>1 DEF Tallied
  <2>3. Len(batch) \in Nat
    <3>1. Len(SubSeq(<< >>, 1, Smaller(BatchSize, Len(<< >>)))) \in Nat
      BY <1>2, BatchHasLength
    <3> QED
      BY <1>1, <3>1 DEF batch, Upto
  <2>4. Accounted
    BY <1>1 DEF Accounted
  <2> QED
    BY <1>1, <1>2, <1>4, <2>2, <2>3, <2>4 DEF JobInv
<1>7. StoreInv
  BY <1>1, DataPlaneAssumption DEF StoreInv
<1> QED
  BY <1>5, <1>6, <1>7 DEF Inv

\* With the last page an export's artifact is what was asked for.
LEMMA StreamKeepsInv ==
  ASSUME Inv, Stream
  PROVE  Inv'
<1>1. /\ ExportPage /\ UNCHANGED <<bulk, clock, export, promised>>
      /\ artifact' = IF reader'.pc = "done"
                     THEN [export EXCEPT !.rows = reader'.got, !.standing = standing]
                     ELSE artifact
      /\ ReadInv /\ JobInv /\ StoreInv
  BY DEF Stream, Inv
<1>2. /\ ReadInv' /\ Ascends(reader'.got)
      /\ reader'.pc \in {"reading", "done"} /\ reader'.request = reader.request
      /\ reader'.pc = "done" => standing \subseteq ToSet(reader'.got)
  BY <1>1, ExportKeepsReadInv
<1>3. JobInv' /\ job' = job
  BY <1>1, JobIsLeft
<1>4. export \in Meta
  BY <1>1 DEF ExportPage, StoreInv
<1>5. reader'.got \in Seq(Ids) /\ standing \subseteq Ids
  BY <1>1, <1>2 DEF ReadInv, ReadTypeOK, Reader
<1>6. CASE reader'.pc = "done"
  <2>1. artifact' \in Meta /\ artifact'.rows = reader'.got /\ artifact'.standing = standing
    BY <1>1, <1>4, <1>5, <1>6 DEF Meta
  <2> QED
    BY <1>1, <1>2, <1>3, <1>4, <1>6, <2>1 DEF Inv, StoreInv
<1>7. CASE reader'.pc # "done"
  BY <1>1, <1>2, <1>3, <1>4, <1>7 DEF Inv, StoreInv
<1> QED
  BY <1>6, <1>7

\* The other steps of the reads.
LEMMA ReadingKeepsInv ==
  ASSUME Inv, Reading
  PROVE  Inv'
<1>1. ReadInv /\ JobInv /\ StoreInv
  BY DEF Inv
<1>2. CASE Search
  <2>1. UNCHANGED <<bulk, store, promised>>
    BY <1>2 DEF Search
  <2>2. ReadInv'
    BY <1>1, <1>2, BeginKeepsReadInv, SearchKeepsReadInv DEF Search
  <2>3. reader'.pc = "reading" => reader'.request.kind # "export"
    <3>1. ASSUME NEW request \in Requests, StartSearch(request)
          PROVE  reader'.request.kind # "export"
      BY <3>1 DEF StartSearch, BeginRead, Answer
    <3>2. ASSUME SearchPage, reader'.pc = "reading"
          PROVE  reader'.request.kind # "export"
      <4>1. reader.request.kind # "export"
        BY <3>2 DEF SearchPage
      <4> QED
        BY <1>1, <3>2, <4>1, SearchKeepsReadInv
    <3> QED
      BY <1>2, <3>1, <3>2 DEF Search
  <2>4. JobInv' /\ job' = job
    BY <1>1, <2>1, JobIsLeft
  <2> QED
    BY <1>1, <2>1, <2>2, <2>3, <2>4 DEF Inv, StoreInv, store
<1>3. CASE \E tenant \in Tenants, request \in Requests : Export(tenant, request)
  <2>1. PICK tenant \in Tenants, request \in Requests : Export(tenant, request)
    BY <1>3
  <2>2. /\ StartExport(request) /\ UNCHANGED <<bulk, clock, artifact, promised>>
        /\ export' = [owner |-> tenant, expires |-> clock + TTL, rows |-> << >>,
                      standing |-> {}]
    BY <2>1 DEF Export
  <2>3. ReadInv'
    BY <1>1, <2>2, BeginKeepsReadInv
  <2>4. export' \in Meta
    <3>1. clock + TTL \in Nat /\ << >> \in Seq(Ids)
      BY <1>1, DataPlaneAssumption, EmptySeq DEF StoreInv
    <3> QED
      BY <2>2, <3>1 DEF Meta
  <2>5. JobInv' /\ job' = job
    BY <1>1, <2>2, JobIsLeft
  <2> QED
    BY <1>1, <2>2, <2>3, <2>4, <2>5 DEF Inv, StoreInv
<1>4. CASE Stream
  BY <1>4, StreamKeepsInv
<1>5. CASE Others
  <2>1. UNCHANGED <<bulk, store, promised>>
    BY <1>5 DEF Others
  <2>2. ReadInv' /\ reader' = reader
    <3>1. PICK i \in Ids, row \in {"absent", "match", "other"} : Change(i, row)
      BY <1>5 DEF Others
    <3> QED
      BY <1>1, <3>1, ChangeKeepsReadInv DEF Change
  <2>3. JobInv' /\ job' = job
    BY <1>1, <2>1, JobIsLeft
  <2> QED
    BY <1>1, <2>1, <2>2, <2>3 DEF Inv, StoreInv, store
<1>6. CASE Tick
  <2>1. /\ clock < MaxTime /\ clock' = clock + 1
        /\ UNCHANGED <<read, bulk, export, artifact, promised>>
    BY <1>6 DEF Tick
  <2>2. ReadInv' /\ reader' = reader /\ JobInv' /\ job' = job
    BY <1>1, <2>1, ReadIsLeft, JobIsLeft
  <2>3. clock' \in 0..MaxTime
    BY <1>1, <2>1, DataPlaneAssumption DEF StoreInv
  <2> QED
    BY <1>1, <2>1, <2>2, <2>3 DEF Inv, StoreInv
<1>7. CASE Restart
  <2>1. artifact' = NoExport /\ UNCHANGED <<bulk, clock, export, promised>>
    BY <1>7 DEF Restart
  <2>2. ReadInv' /\ reader'.pc # "reading"
    BY <1>1, <1>7, RestartKeepsReadInv
  <2>3. JobInv' /\ job' = job
    <3>1. UNCHANGED bulk
      BY <2>1
    <3> QED
      BY <1>1, <3>1, JobIsLeft
  <2> QED
    BY <1>1, <2>1, <2>2, <2>3 DEF Inv, StoreInv
<1> QED
  BY <1>2, <1>3, <1>4, <1>5, <1>6, <1>7 DEF Reading

\* A job begins over the rows of an artifact.
LEMMA JobBeginKeepsInv ==
  ASSUME Inv, NEW tenant \in Tenants, NEW on_error \in {"skip", "stop"},
         BeginJob(tenant, on_error)
  PROVE  Inv'
<1>1. /\ job.pc = "idle" /\ artifact # NoExport /\ BeginRun(artifact.rows, on_error)
      /\ promised' = artifact.standing /\ UNCHANGED <<read, store>>
      /\ ReadInv /\ JobInv /\ StoreInv
  BY DEF BeginJob, Open, Inv
<1>2. /\ artifact.rows \in Seq(Ids) /\ Ascends(artifact.rows)
      /\ artifact.standing \subseteq ToSet(artifact.rows)
  BY <1>1 DEF StoreInv, Meta
<1>3. JobInv' /\ job'.ids = artifact.rows
  BY <1>1, <1>2, BeginKeepsJobInv
<1>4. ReadInv' /\ reader' = reader
  BY <1>1, ReadIsLeft
<1> QED
  BY <1>1, <1>2, <1>3, <1>4 DEF Inv, StoreInv, store

\* The job's own steps.
LEMMA BulkKeepsInv ==
  ASSUME Inv, Bulk
  PROVE  Inv'
<1>1. /\ BulkNext /\ UNCHANGED <<read, store, promised>>
      /\ ReadInv /\ JobInv /\ StoreInv
  BY DEF Bulk, Inv
<1>2. JobInv' /\ job'.ids = job.ids
  <2>1. CASE \E on_error \in {"skip", "stop"} : Resume(on_error)
    <3>1. PICK on_error \in {"skip", "stop"} : Resume(on_error)
      BY <2>1
    <3>2. /\ job.pc # "batch" /\ BeginRun(job.ids, on_error)
          /\ job.ids \in Seq(Ids) /\ Ascends(job.ids)
      BY <1>1, <3>1, ItemsAreIds DEF Resume, JobInv, BulkTypeOK, Job
    <3> QED
      BY <1>1, <3>2, BeginKeepsJobInv
  <2>2. CASE Stop \/ StartBatch \/ End
    <3>1. job.pc = "between"
      BY <2>2 DEF Stop, StartBatch, End
    <3> QED
      BY <1>1, <2>2, <3>1, PausesKeepJobInv
  <2>3. CASE Apply
    BY <1>1, <2>3, ApplyKeepsJobInv
  <2>4. CASE Fail \/ Checkpoint
    BY <1>1, <2>4, BatchEndKeepsJobInv
  <2>5. CASE Crash
    BY <1>1, <2>5, CrashKeepsJobInv
  <2> QED
    BY <1>1, <2>1, <2>2, <2>3, <2>4, <2>5 DEF BulkNext, JobStep
<1>3. ReadInv' /\ reader' = reader
  BY <1>1, ReadIsLeft
<1> QED
  BY <1>1, <1>2, <1>3 DEF Inv, StoreInv, store

LEMMA InvIsInductive == Spec => []Inv
<1>1. Init => Inv
  BY InitHolds
<1>2. Inv /\ [Next]_vars => Inv'
  <2>1. ASSUME Inv, Next
        PROVE  Inv'
    BY <2>1, ReadingKeepsInv, JobBeginKeepsInv, BulkKeepsInv DEF Next
  <2>2. ASSUME Inv, UNCHANGED vars
        PROVE  Inv'
    <3>1. UNCHANGED <<read, bulk, store, promised>>
      BY <2>2 DEF vars
    <3>2. ReadInv' /\ reader' = reader /\ JobInv' /\ job' = job
      BY <2>2, <3>1, ReadIsLeft, JobIsLeft DEF Inv
    <3> QED
      BY <2>2, <3>1, <3>2 DEF Inv, StoreInv, store
  <2> QED
    BY <2>1, <2>2
<1> QED
  BY <1>1, <1>2, PTL DEF Spec

\* Every state of the data plane is one of the type's.
THEOREM DataPlaneTypeCorrect == Spec => []TypeOK
<1>1. Inv => TypeOK
  <2>1. ASSUME Inv
        PROVE  promised \subseteq Ids
    <3>1. job.ids \in Seq(Ids) /\ promised \subseteq ToSet(job.ids)
      BY <2>1, ItemsAreIds DEF Inv, JobInv, BulkTypeOK, Job, StoreInv
    <3> QED
      BY <3>1, InToSet
  <2> QED
    BY <2>1 DEF Inv, TypeOK, ReadInv, JobInv, StoreInv
<1> QED
  BY <1>1, InvIsInductive, PTL

\* However the records change between its pages, a read that ends without a refusal
\* has every record that matched throughout, once and in order, and none that never
\* did, where the engine can tell (ReadPlane.search, ReadPlane._stream).
THEOREM ReadsEndComplete == Spec => []ReadsAreComplete
<1>1. Inv => ReadsAreComplete
  BY DEF Inv, ReadInv
<1> QED
  BY <1>1, InvIsInductive, PTL

\* An export that nobody approved stays within the threshold and what was added while
\* it ran (ReadPlane.export).
THEOREM UnapprovedStaysBounded == Spec => []UnapprovedIsBounded
<1>1. Inv => UnapprovedIsBounded
  BY DEF Inv, ReadInv
<1> QED
  BY <1>1, InvIsInductive, PTL

\* A job that ends without being stopped accounts for every record its export
\* promised, and what it checkpointed is never written again, whatever failed, was
\* stopped or died on the way (run_bulk).
THEOREM JobStaysWhole == Spec => []JobIsWhole
<1>1. Inv => JobIsWhole
  <2>1. SUFFICES ASSUME Inv
                 PROVE  JobIsWhole
    OBVIOUS
  <2>2. JobInv /\ promised \subseteq ToSet(job.ids)
    BY <2>1 DEF Inv, StoreInv
  <2>3. JobCoversExport
    <3>1. SUFFICES ASSUME job.pc = "ended", ~job.stopped
                   PROVE  promised \subseteq done \cup job.failed
      BY DEF JobCoversExport
    <3>2. job.pending = << >> /\ ToSet(job.pending) = {}
      BY <2>2, <3>1 DEF JobInv, ToSet
    <3>3. ToSet(job.ids) \subseteq done \cup job.failed
      BY <2>2, <3>1, <3>2 DEF JobInv, Accounted
    <3> QED
      BY <2>2, <3>3
  <2>4. RepeatsAreTorn
    <3>1. SUFFICES ASSUME NEW i \in Items
                   PROVE  /\ applied[i] <= torn[i] + 1
                          /\ i \in done => applied[i] = torn[i] + 1
      BY DEF RepeatsAreTorn
    <3>2. torn[i] \in Nat
      BY <2>2 DEF JobInv, BulkTypeOK
    <3>3. applied[i] = torn[i] + (IF i \in done \cup written THEN 1 ELSE 0)
      BY <2>2 DEF JobInv, Tallied
    <3> QED
      BY <3>2, <3>3
  <2> QED
    BY <2>3, <2>4 DEF JobIsWhole
<1> QED
  BY <1>1, InvIsInductive, PTL
=============================================================================
