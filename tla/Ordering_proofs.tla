---------------------------- MODULE Ordering_proofs ----------------------------
(***************************************************************************)
(* What counting says about a finite set of integers: Ascending lists it   *)
(* in order, without a gap, and is the only list that does.                *)
(***************************************************************************)
EXTENDS Ordering, FiniteSetTheorems, TLAPS

(* The members of I up to each of them. *)
Below(I) == [i \in I |-> {j \in I : j <= i}]

(* A list of exactly the members of I in order. *)
Lists(s, I) ==
    /\ s \in Seq(I)
    /\ \A j, k \in 1 .. Len(s) : j < k => s[j] < s[k]
    /\ \A i \in I : \E k \in 1 .. Len(s) : s[k] = i

(* What Below is, member by member. *)
LEMMA BelowIs ==
    ASSUME NEW I
    PROVE  /\ Below(I) \in [I -> SUBSET I]
           /\ \A i, j \in I : j \in Below(I)[i] <=> j <= i
           /\ \A i \in I : Below(I)[i] = {j \in I : j <= i}
  BY DEF Below

(* The members of a finite set are the first, the second and so on of them,  *)
(* each at a place of its own.                                               *)
LEMMA MembersAreRanked ==
    ASSUME NEW I \in SUBSET Int, IsFiniteSet(I)
    PROVE  /\ Cardinality(I) \in Nat
           /\ \A i \in I : Cardinality(Below(I)[i]) \in 1 .. Cardinality(I)
           /\ \A k \in 1 .. Cardinality(I) : \E i \in I : Cardinality(Below(I)[i]) = k
           /\ \A i, j \in I : i < j => Cardinality(Below(I)[i]) < Cardinality(Below(I)[j])
<1> DEFINE upTo == Below(I)
           rank == [i \in I |-> Cardinality(upTo[i])]
           size == Cardinality(I)
<1>1. upTo \in [I -> SUBSET I] /\ \A i, j \in I : j \in upTo[i] <=> j <= i
  BY BelowIs
<1> HIDE DEF upTo
<1>2. \A i \in I : i \in Int
  OBVIOUS
<1>3. size \in Nat
  BY FS_CardinalityType
<1>4. ASSUME NEW i \in I
      PROVE  IsFiniteSet(upTo[i]) /\ Cardinality(upTo[i]) \in Nat /\ Cardinality(upTo[i]) <= size
  <2>1. upTo[i] \in SUBSET I
    BY <1>1
  <2>2. IsFiniteSet(upTo[i]) /\ Cardinality(upTo[i]) <= size
    BY <2>1, FS_Subset
  <2>3. QED
    BY <2>2, FS_CardinalityType
<1>5. ASSUME NEW i \in I PROVE Cardinality(upTo[i]) # 0
  <2>1. i \in upTo[i]
    BY <1>1, <1>2
  <2>2. QED
    BY <1>4, <2>1, FS_EmptySet
<1>6. ASSUME NEW i \in I, NEW j \in I, i < j
      PROVE  Cardinality(upTo[i]) < Cardinality(upTo[j])
  <2>1. upTo[i] \in SUBSET upTo[j]
    <3>1. ASSUME NEW k \in I, k <= i PROVE k <= j
      BY <1>2, <1>6, <3>1
    <3>2. QED
      BY <1>1, <3>1
  <2>2. Cardinality(upTo[i]) <= Cardinality(upTo[j])
    BY <1>4, <2>1, FS_Subset
  <2>3. upTo[i] # upTo[j]
    <3>1. j \in upTo[j] /\ ~(j <= i)
      BY <1>1, <1>2, <1>6
    <3>2. QED
      BY <1>1, <3>1
  <2>4. Cardinality(upTo[i]) # Cardinality(upTo[j])
    BY <1>4, <2>1, <2>3, FS_Subset
  <2>5. QED
    BY <1>4, <2>2, <2>4
<1> HIDE DEF size
<1>7. rank \in [I -> 1 .. size]
  BY <1>3, <1>4, <1>5
<1>8. rank \in Injection(I, 1 .. size)
  <2>1. ASSUME NEW i \in I, NEW j \in I, rank[i] = rank[j] PROVE i = j
    <3>1. ~(i < j) /\ ~(j < i)
      BY <1>4, <1>6, <2>1
    <3>2. QED
      BY <1>2, <3>1
  <2>2. QED
    BY <1>7, <2>1 DEF Injection, IsInjective
<1>9. IsFiniteSet(1 .. size) /\ Cardinality(1 .. size) = size
  BY <1>3, FS_Interval
<1>10. rank \in Surjection(I, 1 .. size)
  <2> HIDE DEF rank
  <2>1. QED
    BY <1>8, <1>9, FS_Injection DEF size
<1>11. \A k \in 1 .. size : \E i \in I : rank[i] = k
  BY <1>10 DEF Surjection
<1>12. QED
  BY <1>3, <1>6, <1>7, <1>11 DEF size, upTo

(* The k-th of a list is the member with k members up to it. *)
LEMMA ListsByRank ==
    ASSUME NEW I \in SUBSET Int, NEW s, Lists(s, I), NEW k \in 1 .. Len(s)
    PROVE  Cardinality(Below(I)[s[k]]) = k
<1> DEFINE B == Below(I)[s[k]]
           f == [j \in 1 .. k |-> s[j]]
<1>1. /\ s \in Seq(I) /\ Len(s) \in Nat /\ k \in Nat /\ k <= Len(s)
      /\ \A j \in 1 .. Len(s) : s[j] \in I /\ s[j] \in Int
  <2>1. s \in Seq(I)
    BY DEF Lists
  <2>2. Len(s) \in Nat /\ \A j \in 1 .. Len(s) : s[j] \in I
    BY <2>1
  <2>3. k \in Nat /\ k <= Len(s)
    BY <2>2
  <2>4. \A i \in I : i \in Int
    OBVIOUS
  <2>5. QED
    BY <2>1, <2>2, <2>3, <2>4
<1>2. \A i \in I : i \in B <=> i <= s[k]
  BY <1>1, BelowIs
<1>3. B \subseteq I
  BY <1>1, BelowIs
<1> HIDE DEF B
<1>4. ASSUME NEW j \in 1 .. Len(s) PROVE s[j] <= s[k] <=> j <= k
  <2>1. j < k => s[j] < s[k]
    BY DEF Lists
  <2>2. k < j => s[k] < s[j]
    BY DEF Lists
  <2>3. QED
    BY <1>1, <2>1, <2>2
<1>5. \A j \in 1 .. k : j \in 1 .. Len(s) /\ j <= k
  BY <1>1
<1>6. f \in [1 .. k -> B]
  BY <1>1, <1>2, <1>4, <1>5
<1>7. f \in Surjection(1 .. k, B)
  <2>1. ASSUME NEW i \in B PROVE \E j \in 1 .. k : f[j] = i
    <3>1. PICK j \in 1 .. Len(s) : s[j] = i
      BY <1>3 DEF Lists
    <3>2. j \in 1 .. k
      BY <1>1, <1>2, <1>3, <1>4, <3>1
    <3>3. QED
      BY <3>1, <3>2
  <2>2. QED
    BY <1>6, <2>1 DEF Surjection
<1>8. f \in Injection(1 .. k, B)
  <2>1. ASSUME NEW i \in 1 .. k, NEW j \in 1 .. k, f[i] = f[j] PROVE i = j
    <3>1. s[i] = s[j] /\ i \in 1 .. Len(s) /\ j \in 1 .. Len(s)
      BY <1>5, <2>1
    <3>2. ~(i < j) /\ ~(j < i)
      BY <1>1, <3>1 DEF Lists
    <3>3. QED
      BY <3>2
  <2>2. QED
    BY <1>6, <2>1 DEF Injection, IsInjective
<1>9. ExistsBijection(1 .. k, B)
  BY <1>7, <1>8 DEF ExistsBijection, Bijection
<1>10. Cardinality(B) = k
  BY <1>1, <1>9, FS_CountingElements
<1>11. QED
  BY <1>10 DEF B

(* A list has as many places as there are members. *)
LEMMA ListsHaveAllPlaces ==
    ASSUME NEW I \in SUBSET Int, NEW s, Lists(s, I)
    PROVE  IsFiniteSet(I) /\ Len(s) = Cardinality(I) /\ s \in [1 .. Len(s) -> I]
<1>1. s \in Seq(I)
  BY DEF Lists
<1>2. Len(s) \in Nat /\ s \in [1 .. Len(s) -> I]
  BY <1>1
<1>3. s \in Surjection(1 .. Len(s), I)
  BY <1>2 DEF Surjection, Lists
<1>4. s \in Injection(1 .. Len(s), I)
  <2>1. ASSUME NEW i \in 1 .. Len(s), NEW j \in 1 .. Len(s), s[i] = s[j] PROVE i = j
    <3>1. s[i] \in Int
      BY <1>2
    <3>2. ~(i < j) /\ ~(j < i)
      BY <2>1, <3>1 DEF Lists
    <3>3. QED
      BY <1>2, <3>2
  <2>2. QED
    BY <1>2, <2>1 DEF Injection, IsInjective
<1>5. ExistsBijection(1 .. Len(s), I)
  BY <1>3, <1>4 DEF ExistsBijection, Bijection
<1>6. IsFiniteSet(1 .. Len(s))
  BY <1>2, FS_Interval
<1>7. QED
  BY <1>2, <1>5, <1>6, FS_CountingElements, FS_Bijection

(* Ascending lists a finite set. *)
LEMMA AscendingLists ==
    ASSUME NEW I \in SUBSET Int, IsFiniteSet(I), NEW s, s = Ascending(I)
    PROVE  Lists(s, I) /\ Len(s) \in Nat /\ Len(s) = Cardinality(I)
           /\ DOMAIN s = 1 .. Len(s) /\ \A k \in 1 .. Len(s) : s[k] \in I
<1> DEFINE size == Cardinality(I)
           place(i) == Cardinality({j \in I : j <= i})
           nth(k) == CHOOSE i \in I : place(i) = k
<1>1. s = [k \in 1 .. size |-> nth(k)]
  BY DEF Ascending
<1>2. \A i \in I : place(i) = Cardinality(Below(I)[i])
  BY BelowIs
<1> HIDE DEF place, size
<1>3. /\ size \in Nat
      /\ \A i \in I : place(i) \in 1 .. size
      /\ \A k \in 1 .. size : \E i \in I : place(i) = k
      /\ \A i, j \in I : i < j => place(i) < place(j)
  BY <1>2, MembersAreRanked DEF size
<1>4. \A k \in 1 .. size : nth(k) \in I /\ place(nth(k)) = k
  BY <1>3
<1> HIDE DEF nth
<1>5. /\ Len(s) = size /\ s \in Seq(I) /\ DOMAIN s = 1 .. size
      /\ \A k \in 1 .. size : s[k] \in I /\ place(s[k]) = k
  BY <1>1, <1>3, <1>4
<1>6. \A j, k \in 1 .. size : j < k => s[j] < s[k]
  <2> SUFFICES ASSUME NEW j \in 1 .. size, NEW k \in 1 .. size, j < k, ~(s[j] < s[k]) PROVE FALSE
    OBVIOUS
  <2>1. s[j] \in I /\ s[k] \in I /\ s[j] \in Int /\ s[k] \in Int /\ place(s[j]) = j /\ place(s[k]) = k
    BY <1>5
  <2>2. s[k] = s[j] \/ s[k] < s[j]
    BY <2>1
  <2>3. k = j \/ k < j
    BY <1>3, <2>1, <2>2
  <2>4. QED
    BY <1>3, <2>3
<1>7. \A i \in I : \E k \in 1 .. size : s[k] = i
  <2> SUFFICES ASSUME NEW i \in I PROVE \E k \in 1 .. size : s[k] = i
    OBVIOUS
  <2>1. PICK k \in 1 .. size : k = place(i)
    BY <1>3
  <2>2. s[k] \in I /\ place(s[k]) = k
    BY <1>5
  <2>3. ~(k < k)
    BY <1>3
  <2>4. ~(i < s[k]) /\ ~(s[k] < i)
    BY <1>3, <2>1, <2>2, <2>3
  <2>5. i \in Int /\ s[k] \in Int
    BY <2>2
  <2>6. QED
    BY <2>4, <2>5
<1>8. QED
  BY <1>3, <1>5, <1>6, <1>7 DEF Lists, size

(* It is the only list. *)
LEMMA OnlyAscending ==
    ASSUME NEW I \in SUBSET Int, NEW s, Lists(s, I)
    PROVE  Ascending(I) = s
<1>1. IsFiniteSet(I) /\ Len(s) = Cardinality(I) /\ s \in [1 .. Len(s) -> I]
  BY ListsHaveAllPlaces
<1>2. PICK t : t = Ascending(I)
  OBVIOUS
<1>3. Lists(t, I) /\ Len(t) = Len(s) /\ t \in [1 .. Len(t) -> I]
  BY <1>1, <1>2, AscendingLists, ListsHaveAllPlaces
<1>4. ASSUME NEW k \in 1 .. Len(s) PROVE t[k] = s[k]
  <2>1. Cardinality(Below(I)[s[k]]) = k /\ Cardinality(Below(I)[t[k]]) = k
    BY <1>3, ListsByRank
  <2>2. s[k] \in I /\ t[k] \in I /\ s[k] \in Int /\ t[k] \in Int
    BY <1>1, <1>3
  <2>3. k \in Int
    OBVIOUS
  <2>4. ~(s[k] < t[k]) /\ ~(t[k] < s[k])
    BY <1>1, <2>1, <2>2, <2>3, MembersAreRanked
  <2>5. QED
    BY <2>2, <2>4
<1>5. QED
  BY <1>1, <1>2, <1>3, <1>4
=============================================================================
