------------------------ MODULE LinearScanSliceProofs -----------------------
(***************************************************************************)
(* The slice carries out the set-based allocator, for every set of         *)
(* variables, all live ranges and every register interval: LinearScanSlice *)
(* implements LinearScan, so that what LinearScanProofs proves holds of    *)
(* the array and the aliased append as well.                               *)
(***************************************************************************)
EXTENDS LinearScanSlice, FiniteSetTheorems, SequenceTheorems, WellFoundedInduction,
        TLAPS

P == INSTANCE LinearScanProofs WITH active <- activeSet

-----------------------------------------------------------------------------
(* Every non-empty set of naturals has a least element.                    *)
LEMMA LeastNat ==
    ASSUME NEW T, T \subseteq Nat, T # {}
    PROVE  \E m \in T : \A n \in T : m <= n
  <1>1. PICK m \in T : \A n \in T : ~ (<<n, m>> \in OpToRel(<, Nat))
    BY NatLessThanWellFounded, WFMin
  <1>2. \A n \in T : <<n, m>> \in OpToRel(<, Nat) <=> n < m
    BY DEF OpToRel
  <1>3. \A n \in T : ~ (n < m)
    BY <1>1, <1>2
  <1>4. \A n \in T : m <= n
    BY <1>3
  <1> QED
    BY <1>4

-----------------------------------------------------------------------------
(* Sorting.                                                                *)

LEMMA Interval ==
    ASSUME NEW n \in Nat
    PROVE  IsFiniteSet(1..n) /\ Cardinality(1..n) = n
  BY FS_Interval

Ends == endpoint \in [Var -> 0..MaxPoint]

LEMMA BeforeIsOrder ==
    ASSUME Ends, NEW s \in Seq(Var), NEW i \in 1..Len(s), NEW j \in 1..Len(s)
    PROVE  /\ ~ Before(s, i, i)
           /\ i # j => Before(s, i, j) \/ Before(s, j, i)
           /\ Before(s, i, j) => endpoint[s[i]] <= endpoint[s[j]]
           /\ \A k \in 1..Len(s) : Before(s, i, j) /\ Before(s, j, k) => Before(s, i, k)
  <1>1. \A k \in 1..Len(s) : s[k] \in Var /\ endpoint[s[k]] \in Int
    BY LenProperties, AllocatorAssumption DEF Ends
  <1>2. Len(s) \in Nat
    BY LenProperties
  <1> QED
    BY <1>1, <1>2 DEF Before

LEMMA RankGrows ==
    ASSUME Ends, NEW s \in Seq(Var), NEW i \in 1..Len(s)
    PROVE  /\ Rank(s, i) \in 1..Len(s)
           /\ \A j \in 1..Len(s) : Before(s, j, i) => Rank(s, j) < Rank(s, i)
  <1> DEFINE n == Len(s)
             below(k) == {m \in DOMAIN s : Before(s, m, k)}
  <1>1. n \in Nat /\ DOMAIN s = 1..n /\ IsFiniteSet(1..n) /\ Cardinality(1..n) = n
    BY LenProperties, Interval
  <1>2. \A k \in 1..n : /\ IsFiniteSet(below(k)) /\ Cardinality(below(k)) \in Nat
                        /\ Rank(s, k) = Cardinality(below(k)) + 1
    <2> TAKE k \in 1..n
    <2>1. below(k) \subseteq 1..n
      BY <1>1
    <2> QED
      BY <1>1, <2>1, FS_Subset, FS_CardinalityType DEF Rank
  <1>3. Cardinality(below(i)) < n
    <2>1. below(i) \in SUBSET (1..n) /\ i \in 1..n /\ i \notin below(i)
      BY <1>1, BeforeIsOrder
    <2> HIDE DEF below
    <2>2. below(i) # 1..n
      BY <2>1
    <2>3. Cardinality(below(i)) < Cardinality(1..n)
      BY <1>1, <1>2, <2>1, <2>2, FS_Subset
    <2> QED
      BY <1>1, <2>3
  <1>4. ASSUME NEW j \in 1..n, Before(s, j, i)
        PROVE  Rank(s, j) < Rank(s, i)
    <2>1. below(j) \subseteq below(i)
      BY <1>1, <1>4, BeforeIsOrder
    <2>2. j \in below(i) /\ j \notin below(j)
      BY <1>1, <1>4, BeforeIsOrder
    <2> HIDE DEF below
    <2>3. below(j) # below(i) /\ below(j) \in SUBSET below(i)
      BY <2>1, <2>2
    <2>4. Cardinality(below(j)) < Cardinality(below(i))
      BY <1>2, <1>4, <2>3, FS_Subset
    <2>5. Cardinality(below(j)) \in Nat /\ Cardinality(below(i)) \in Nat
      BY <1>2, <1>4
    <2> QED
      BY <1>2, <2>4, <2>5
  <1> HIDE DEF below
  <1> QED
    BY <1>1, <1>2, <1>3, <1>4

(* StableSort permutes its argument into the order of the endpoints.       *)
Place(s) == [r \in 1..Len(s) |-> CHOOSE i \in DOMAIN s : Rank(s, i) = r]

LEMMA PlacePermutes ==
    ASSUME Ends, NEW s \in Seq(Var)
    PROVE  /\ \A r \in 1..Len(s) : Place(s)[r] \in 1..Len(s) /\ Rank(s, Place(s)[r]) = r
           /\ \A i \in 1..Len(s) : \E r \in 1..Len(s) : Place(s)[r] = i
  <1> DEFINE n == Len(s)
             rank == [i \in 1..n |-> Rank(s, i)]
  <1>1. n \in Nat /\ DOMAIN s = 1..n /\ IsFiniteSet(1..n) /\ Cardinality(1..n) = n
    BY LenProperties, Interval
  <1>2. \A i, j \in 1..n : i # j => Rank(s, i) # Rank(s, j)
    <2> TAKE i, j \in 1..n
    <2>1. Rank(s, i) \in Int /\ Rank(s, j) \in Int
      BY <1>1, RankGrows
    <2>2. Before(s, i, j) => Rank(s, i) < Rank(s, j)
      BY RankGrows
    <2>3. Before(s, j, i) => Rank(s, j) < Rank(s, i)
      BY RankGrows
    <2> QED
      BY <2>1, <2>2, <2>3, BeforeIsOrder
  <1>3. rank \in [1..n -> 1..n]
    BY RankGrows
  <1>4. rank \in Injection(1..n, 1..n)
    BY <1>2, <1>3 DEF Injection, IsInjective
  <1>5. rank \in Surjection(1..n, 1..n)
    BY <1>1, <1>4, FS_Injection
  <1>6. \A r \in 1..n : \E i \in 1..n : Rank(s, i) = r
    BY <1>5 DEF Surjection
  <1>7. \A r \in 1..n : Place(s)[r] \in 1..n /\ Rank(s, Place(s)[r]) = r
    BY <1>1, <1>6 DEF Place
  <1>8. ASSUME NEW i \in 1..n PROVE Place(s)[Rank(s, i)] = i
    <2>1. Rank(s, i) \in 1..n
      BY RankGrows
    <2> QED
      BY <1>2, <1>7, <2>1
  <1> QED
    BY <1>7, <1>8, RankGrows

LEMMA SortFacts ==
    ASSUME Ends, NEW s \in Seq(Var)
    PROVE  /\ StableSort(s) \in Seq(Var) /\ Len(StableSort(s)) = Len(s)
           /\ \A r \in 1..Len(s) : \E i \in 1..Len(s) : StableSort(s)[r] = s[i]
           /\ \A i \in 1..Len(s) : \E r \in 1..Len(s) : StableSort(s)[r] = s[i]
           /\ (\A i, j \in 1..Len(s) : i # j => s[i] # s[j])
                 => \A i, j \in 1..Len(s) : i # j => StableSort(s)[i] # StableSort(s)[j]
           /\ \A i, j \in 1..Len(s) :
                 i < j => endpoint[StableSort(s)[i]] <= endpoint[StableSort(s)[j]]
  <1> DEFINE n == Len(s) p == Place(s) t == StableSort(s)
  <1>1. n \in Nat /\ DOMAIN s = 1..n /\ \A i \in 1..n : s[i] \in Var
    BY LenProperties
  <1>2. t = [r \in 1..n |-> s[p[r]]]
    BY DEF StableSort, Place
  <1>3. /\ \A r \in 1..n : p[r] \in 1..n /\ Rank(s, p[r]) = r
        /\ \A i \in 1..n : \E r \in 1..n : p[r] = i
    BY PlacePermutes
  <1>4. t \in Seq(Var) /\ Len(t) = n
    <2>1. t \in [1..n -> Var]
      BY <1>1, <1>2, <1>3
    <2> QED
      BY <1>1, <2>1
  <1>5. \A i, j \in 1..n : i < j => endpoint[s[p[i]]] <= endpoint[s[p[j]]]
    <2> TAKE i, j \in 1..n
    <2> HAVE i < j
    <2>1. p[i] \in 1..n /\ p[j] \in 1..n /\ Rank(s, p[i]) = i /\ Rank(s, p[j]) = j /\ p[i] # p[j]
      BY <1>3
    <2>2. ~ Before(s, p[j], p[i])
      <3>1. Before(s, p[j], p[i]) => Rank(s, p[j]) < Rank(s, p[i])
        BY <2>1, RankGrows
      <3> QED
        BY <1>1, <2>1, <3>1
    <2> QED
      BY <2>1, <2>2, BeforeIsOrder
  <1> HIDE DEF p, t
  <1>6. \A i, j \in 1..n : i # j => p[i] # p[j]
    BY <1>3
  <1>7. \A r \in 1..n : t[r] = s[p[r]]
    BY <1>2
  <1>8. \A r \in 1..n : \E i \in 1..n : t[r] = s[i]
    BY <1>3, <1>7
  <1>9. ASSUME NEW i \in 1..n PROVE \E r \in 1..n : t[r] = s[i]
    <2>1. PICK r \in 1..n : p[r] = i
      BY <1>3
    <2>2. t[r] = s[i]
      BY <1>7, <2>1
    <2> QED
      BY <2>2
  <1>10. ASSUME \A i, j \in 1..n : i # j => s[i] # s[j], NEW i \in 1..n, NEW j \in 1..n, i # j
         PROVE  t[i] # t[j]
    <2>1. p[i] \in 1..n /\ p[j] \in 1..n /\ p[i] # p[j]
      BY <1>3, <1>6, <1>10
    <2>2. s[p[i]] # s[p[j]]
      BY <1>10, <2>1
    <2> QED
      BY <1>7, <2>2
  <1>11. \A i, j \in 1..n : i < j => endpoint[t[i]] <= endpoint[t[j]]
    BY <1>5, <1>7
  <1> QED
    BY <1>4, <1>8, <1>9, <1>10, <1>11 DEF t

-----------------------------------------------------------------------------
(* The window and what the slice operations make of it.                    *)

SliceInv ==
    /\ backing \in Seq(Var)
    /\ len \in 0..Len(backing)
    /\ \A i, j \in 1..len : i # j => backing[i] # backing[j]

LEMMA WindowFacts ==
    ASSUME NEW a \in Seq(Var), NEW n \in 0..Len(a)
    PROVE  /\ n \in Nat /\ Window(a, n) \in Seq(Var) /\ Len(Window(a, n)) = n
           /\ \A i \in 1..n : Window(a, n)[i] = a[i]
           /\ ToSet(Window(a, n)) = {a[i] : i \in 1..n}
  <1>1. Len(a) \in Nat /\ n \in Nat /\ \A i \in 1..Len(a) : a[i] \in Var
    BY LenProperties
  <1>2. \A i \in 1..n : a[i] \in Var
    BY <1>1
  <1>3. /\ SubSeq(a, 1, n) \in Seq(Var)
        /\ Len(SubSeq(a, 1, n)) = IF 1 <= n THEN n - 1 + 1 ELSE 0
        /\ \A i \in 1..(n - 1 + 1) : SubSeq(a, 1, n)[i] = a[1 + i - 1]
    BY <1>1, <1>2, SubSeqProperties
  <1>4. Len(Window(a, n)) = n /\ \A i \in 1..n : Window(a, n)[i] = a[i]
    BY <1>1, <1>3 DEF Window
  <1>5. Window(a, n) \in Seq(Var)
    BY <1>3 DEF Window
  <1>6. DOMAIN Window(a, n) = 1..n
    BY <1>4, <1>5, LenProperties
  <1>7. ToSet(Window(a, n)) = {a[i] : i \in 1..n}
    BY <1>4, <1>6 DEF ToSet
  <1> QED
    BY <1>1, <1>4, <1>5, <1>7

LEMMA CountDistinct ==
    ASSUME NEW n \in Nat, NEW f, NEW S,
           \A i \in 1..n : f[i] \in S, \A x \in S : \E i \in 1..n : x = f[i],
           \A i, j \in 1..n : i # j => f[i] # f[j]
    PROVE  Cardinality(S) = n
  <1> DEFINE g == [i \in 1..n |-> f[i]]
  <1>1. g \in Surjection(1..n, S)
    BY DEF Surjection
  <1>2. g \in Injection(1..n, S)
    BY DEF Injection, IsInjective
  <1>3. g \in Bijection(1..n, S)
    BY <1>1, <1>2 DEF Bijection
  <1>4. ExistsBijection(1..n, S)
    BY <1>3 DEF ExistsBijection
  <1> QED
    BY <1>4, Interval, FS_Bijection

LEMMA AppendToFacts ==
    ASSUME NEW a \in Seq(Var), NEW n \in 0..Len(a), NEW v \in Var
    PROVE  /\ AppendTo(a, n, v) \in Seq(Var)
           /\ n + 1 \in 0..Len(AppendTo(a, n, v))
           /\ AppendTo(a, n, v)[n + 1] = v
           /\ \A i \in 1..n : AppendTo(a, n, v)[i] = a[i]
  <1>1. Len(a) \in Nat /\ n \in Nat
    BY LenProperties
  <1>2. CASE n < Len(a)
    <2>1. n + 1 \in 1..Len(a)
      BY <1>1, <1>2
    <2>2. /\ [a EXCEPT ![n + 1] = v] \in Seq(Var)
          /\ Len([a EXCEPT ![n + 1] = v]) = Len(a)
          /\ \A j \in 1..Len(a) : [a EXCEPT ![n + 1] = v][j] = IF j = n + 1 THEN v ELSE a[j]
      BY <2>1, ExceptSeq
    <2>3. AppendTo(a, n, v) = [a EXCEPT ![n + 1] = v]
      BY <1>2 DEF AppendTo
    <2>4. \A i \in 1..n : i \in 1..Len(a) /\ i # n + 1
      BY <1>1, <1>2
    <2> QED
      BY <1>1, <2>1, <2>2, <2>3, <2>4
  <1>3. CASE n = Len(a)
    <2>1. AppendTo(a, n, v) = Append(a, v)
      BY <1>1, <1>3 DEF AppendTo
    <2>2. /\ Append(a, v) \in Seq(Var) /\ Len(Append(a, v)) = Len(a) + 1
          /\ \A i \in 1..Len(a) : Append(a, v)[i] = a[i]
          /\ Append(a, v)[Len(a) + 1] = v
      BY AppendProperties
    <2> QED
      BY <1>1, <1>3, <2>1, <2>2
  <1> QED
    BY <1>1, <1>2, <1>3

LEMMA SortedFacts ==
    ASSUME Ends, SliceInv
    PROVE  /\ len \in Nat /\ Sorted \in Seq(Var) /\ Len(Sorted) = len
           /\ \A i \in 1..len : Sorted[i] \in Var
           /\ activeSet = {Sorted[i] : i \in 1..len}
           /\ \A i, j \in 1..len : i # j => Sorted[i] # Sorted[j]
           /\ \A i, j \in 1..len : i < j => endpoint[Sorted[i]] <= endpoint[Sorted[j]]
  <1> DEFINE w == Window(backing, len)
  <1>1. /\ len \in Nat /\ w \in Seq(Var) /\ Len(w) = len
        /\ \A i \in 1..len : w[i] = backing[i]
        /\ activeSet = {backing[i] : i \in 1..len}
    BY WindowFacts DEF SliceInv, activeSet
  <1>2. \A i, j \in 1..len : i # j => w[i] # w[j]
    BY <1>1 DEF SliceInv
  <1> HIDE DEF w
  <1>3. /\ StableSort(w) \in Seq(Var) /\ Len(StableSort(w)) = len
        /\ \A r \in 1..len : \E i \in 1..len : StableSort(w)[r] = w[i]
        /\ \A i \in 1..len : \E r \in 1..len : StableSort(w)[r] = w[i]
        /\ \A i, j \in 1..len : i # j => StableSort(w)[i] # StableSort(w)[j]
        /\ \A i, j \in 1..len : i < j => endpoint[StableSort(w)[i]] <= endpoint[StableSort(w)[j]]
    BY <1>1, <1>2, SortFacts
  <1>4. Sorted = StableSort(w)
    BY DEF Sorted, w
  <1>5. \A i \in 1..len : Sorted[i] \in Var
    BY <1>3, <1>4, LenProperties
  <1>6. activeSet = {w[i] : i \in 1..len}
    BY <1>1
  <1>7. activeSet = {Sorted[i] : i \in 1..len}
    <2>1. \A i \in 1..len : Sorted[i] \in activeSet
      <3> TAKE i \in 1..len
      <3>1. PICK j \in 1..len : Sorted[i] = w[j]
        BY <1>3, <1>4
      <3> QED
        BY <1>6, <3>1
    <2>2. \A x \in activeSet : \E i \in 1..len : x = Sorted[i]
      <3> TAKE x \in activeSet
      <3>1. PICK j \in 1..len : x = w[j]
        BY <1>6
      <3>2. PICK i \in 1..len : Sorted[i] = w[j]
        BY <1>3, <1>4
      <3> QED
        BY <3>1, <3>2
    <2> QED
      BY <2>1, <2>2
  <1> QED
    BY <1>1, <1>3, <1>4, <1>5, <1>7

LEMMA ExpirationsFacts ==
    ASSUME Ends, SliceInv, NEW v \in Var, startpoint[v] \in Int
    PROVE  /\ Expirations(v) \in 0..len
           /\ \A i \in 1..Expirations(v) : endpoint[Sorted[i]] < startpoint[v]
           /\ \A i \in (Expirations(v) + 1)..len : endpoint[Sorted[i]] >= startpoint[v]
  <1>1. /\ len \in Nat /\ \A i \in 1..len : Sorted[i] \in Var /\ endpoint[Sorted[i]] \in Int
        /\ \A i, j \in 1..len : i < j => endpoint[Sorted[i]] <= endpoint[Sorted[j]]
    BY SortedFacts, AllocatorAssumption DEF Ends
  <1> DEFINE T == {k \in 0..len : k < len => endpoint[Sorted[k + 1]] >= startpoint[v]}
             IsBreak(k) == /\ \A i \in 1..k : endpoint[Sorted[i]] < startpoint[v]
                           /\ k < len => endpoint[Sorted[k + 1]] >= startpoint[v]
  <1>2. \E k \in 0..len : IsBreak(k)
    <2>1. T \subseteq Nat /\ len \in T
      BY <1>1
    <2>2. PICK k \in T : \A m \in T : k <= m
      BY <2>1, LeastNat
    <2>3. ASSUME NEW i \in 1..k PROVE endpoint[Sorted[i]] < startpoint[v]
      <3>1. i - 1 \in 0..len /\ i - 1 < k /\ i - 1 < len /\ (i - 1) + 1 = i /\ i \in 1..len
        BY <1>1, <2>2, <2>3
      <3>2. i - 1 \notin T
        BY <1>1, <2>1, <2>2, <3>1
      <3> QED
        BY <1>1, <3>1, <3>2
    <2>4. k \in 0..len /\ IsBreak(k)
      BY <2>2, <2>3
    <2> QED
      BY <2>4
  <1>3. Expirations(v) \in 0..len /\ IsBreak(Expirations(v))
    BY <1>2 DEF Expirations
  <1>4. ASSUME NEW i \in (Expirations(v) + 1)..len PROVE endpoint[Sorted[i]] >= startpoint[v]
    <2> DEFINE k == Expirations(v)
    <2>1. k \in 0..len /\ (k < len => endpoint[Sorted[k + 1]] >= startpoint[v])
      BY <1>3
    <2> HIDE DEF k
    <2>2. i \in 1..len /\ k + 1 \in 1..len /\ (i = k + 1 \/ k + 1 < i) /\ k < len
      BY <1>1, <1>4, <2>1 DEF k
    <2> QED
      BY <1>1, <2>1, <2>2
  <1> QED
    BY <1>3, <1>4

(* What is left of the window is what the abstract allocator keeps.        *)
LEMMA ExpireFacts ==
    ASSUME Ends, SliceInv, NEW v \in Var, startpoint[v] \in Int
    PROVE  /\ LenAfterExpire(v) \in 0..Len(AfterExpire(v))
           /\ AfterExpire(v) \in Seq(Var)
           /\ P!Kept(v) = {AfterExpire(v)[i] : i \in 1..LenAfterExpire(v)}
           /\ Cardinality(P!Kept(v)) = LenAfterExpire(v)
           /\ P!Freed(v) = FreedRegs(v)
           /\ \A i, j \in 1..LenAfterExpire(v) :
                 /\ i # j => AfterExpire(v)[i] # AfterExpire(v)[j]
                 /\ i < j => endpoint[AfterExpire(v)[i]] <= endpoint[AfterExpire(v)[j]]
  <1> DEFINE k == Expirations(v)
             m == LenAfterExpire(v)
             a == AfterExpire(v)
             shifted == [i \in 1..len |-> IF i + k <= len THEN Sorted[i + k] ELSE Sorted[len]]
             rest == SubSeq(backing, Len(shifted) + 1, Len(backing))
  <1>1. /\ len \in Nat /\ Sorted \in Seq(Var)
        /\ \A i \in 1..len : Sorted[i] \in Var
        /\ activeSet = {Sorted[i] : i \in 1..len}
        /\ \A i, j \in 1..len : i # j => Sorted[i] # Sorted[j]
        /\ \A i, j \in 1..len : i < j => endpoint[Sorted[i]] <= endpoint[Sorted[j]]
    BY SortedFacts
  <1>2. /\ k \in 0..len
        /\ \A i \in 1..k : endpoint[Sorted[i]] < startpoint[v]
        /\ \A i \in (k + 1)..len : endpoint[Sorted[i]] >= startpoint[v]
    BY ExpirationsFacts
  <1>3. m = len - k
    BY DEF LenAfterExpire
  <1>4. a = shifted \o rest
    BY DEF AfterExpire, WriteWindow
  <1>5. FreedRegs(v) = freeRegs \cup {registers[Sorted[i]] : i \in 1..k}
    BY DEF FreedRegs
  <1> HIDE DEF k, m, a
  <1>6. shifted \in Seq(Var) /\ Len(shifted) = len
    <2>1. shifted \in [1..len -> Var]
      BY <1>1, <1>2
    <2> QED
      BY <1>1, <2>1
  <1>7. \A i \in 1..m : shifted[i] = Sorted[i + k]
    BY <1>1, <1>2, <1>3
  <1>8. rest \in Seq(Var)
    <2>1. Len(backing) \in Nat /\ \A i \in 1..Len(backing) : backing[i] \in Var
      BY LenProperties DEF SliceInv
    <2>2. \A i \in (len + 1)..Len(backing) : backing[i] \in Var
      BY <1>1, <2>1
    <2>3. len + 1 \in Int /\ Len(backing) \in Int
      BY <1>1, <2>1
    <2> QED
      BY <1>6, <2>2, <2>3, SubSeqProperties
  <1> HIDE DEF shifted, rest
  <1>9. /\ a \in Seq(Var) /\ Len(a) = len + Len(rest) /\ Len(rest) \in Nat
        /\ \A i \in 1..len : a[i] = shifted[i]
    <2>1. /\ shifted \o rest \in Seq(Var)
          /\ Len(shifted \o rest) = Len(shifted) + Len(rest)
          /\ \A i \in 1..(Len(shifted) + Len(rest)) :
                (shifted \o rest)[i] = IF i <= Len(shifted) THEN shifted[i] ELSE rest[i - Len(shifted)]
      BY <1>6, <1>8, ConcatProperties
    <2>2. Len(rest) \in Nat
      BY <1>8, LenProperties
    <2> QED
      BY <1>1, <1>4, <1>6, <2>1, <2>2
  <1>10. m \in 0..Len(a) /\ m \in Nat /\ \A i \in 1..m : a[i] = Sorted[i + k] /\ i + k \in (k + 1)..len
    BY <1>1, <1>2, <1>3, <1>7, <1>9
  <1>11. P!Expired(v) = {Sorted[i] : i \in 1..k}
    <2>1. \A i \in 1..len : endpoint[Sorted[i]] < startpoint[v] <=> i \in 1..k
      <3> TAKE i \in 1..len
      <3>1. i \in 1..k \/ i \in (k + 1)..len
        BY <1>1, <1>2
      <3>2. endpoint[Sorted[i]] \in Int
        BY <1>1, AllocatorAssumption DEF Ends
      <3>3. i \in (k + 1)..len => i \notin 1..k /\ ~ (endpoint[Sorted[i]] < startpoint[v])
        BY <1>1, <1>2, <3>2
      <3> QED
        BY <1>2, <3>1, <3>3
    <2>2. P!Expired(v) = {w \in activeSet : endpoint[w] < startpoint[v]}
      BY DEF P!Expired
    <2>3. \A i \in 1..k : i \in 1..len
      BY <1>1, <1>2
    <2> QED
      BY <1>1, <2>1, <2>2, <2>3
  <1>12. P!Kept(v) = {a[i] : i \in 1..m}
    <2>1. P!Kept(v) = activeSet \ P!Expired(v)
      BY DEF P!Kept
    <2>2. ASSUME NEW w \in P!Kept(v) PROVE w \in {a[i] : i \in 1..m}
      <3>1. PICK j \in 1..len : w = Sorted[j]
        BY <1>1, <2>1, <2>2
      <3>2. j \notin 1..k
        BY <1>11, <2>1, <2>2, <3>1
      <3>3. j - k \in 1..m /\ (j - k) + k = j
        BY <1>1, <1>2, <1>3, <3>2
      <3>4. a[j - k] = w
        BY <1>10, <3>1, <3>3
      <3> QED
        BY <3>3, <3>4
    <2>3. ASSUME NEW i \in 1..m PROVE a[i] \in P!Kept(v)
      <3>1. a[i] = Sorted[i + k] /\ i + k \in 1..len /\ i + k \notin 1..k
        BY <1>1, <1>2, <1>3, <1>10
      <3>2. a[i] \notin P!Expired(v)
        <4> SUFFICES ASSUME NEW j \in 1..k, a[i] = Sorted[j] PROVE FALSE
          BY <1>11
        <4>1. j \in 1..len /\ j # i + k
          BY <1>1, <1>2, <3>1
        <4> QED
          BY <1>1, <3>1, <4>1
      <3> QED
        BY <1>1, <2>1, <3>1, <3>2
    <2> QED
      BY <2>2, <2>3
  <1>13. \A i, j \in 1..m :
             /\ i # j => a[i] # a[j]
             /\ i < j => endpoint[a[i]] <= endpoint[a[j]]
    <2> TAKE i, j \in 1..m
    <2>1. /\ a[i] = Sorted[i + k] /\ a[j] = Sorted[j + k] /\ i + k \in 1..len /\ j + k \in 1..len
          /\ i # j => i + k # j + k
          /\ i < j => i + k < j + k
      BY <1>1, <1>2, <1>10
    <2> QED
      BY <1>1, <2>1
  <1>14. Cardinality(P!Kept(v)) = m
    <2>1. \A i, j \in 1..m : i # j => a[i] # a[j]
      BY <1>13
    <2>2. m \in Nat
      BY <1>10
    <2>3. /\ \A i \in 1..m : a[i] \in P!Kept(v)
          /\ \A x \in P!Kept(v) : \E i \in 1..m : x = a[i]
      BY <1>12
    <2> QED
      BY <2>1, <2>2, <2>3, CountDistinct
  <1>15. P!Freed(v) = FreedRegs(v)
    BY <1>5, <1>11 DEF P!Freed
  <1> QED
    BY <1>9, <1>10, <1>12, <1>13, <1>14, <1>15 DEF m, a

-----------------------------------------------------------------------------
(* A step of the slice is a step of the set.                               *)

LEMMA SameCardinality ==
    ASSUME NEW S
    PROVE  /\ P!Cardinality(S) = Cardinality(S) /\ Scan!Cardinality(S) = Cardinality(S)
           /\ P!IsFiniteSet(S) = IsFiniteSet(S)
  <1>1. P!Cardinality(S) = Cardinality(S)
    BY DEF Cardinality, P!Cardinality
  <1>2. Scan!Cardinality(S) = Cardinality(S)
    BY DEF Cardinality, Scan!Cardinality
  <1>3. P!IsFiniteSet(S) = IsFiniteSet(S)
    BY DEF IsFiniteSet, P!IsFiniteSet
  <1> QED
    BY <1>1, <1>2, <1>3

(* The assumptions LinearScanProofs makes.                                 *)
LEMMA Assumptions == P!VarAssumption /\ P!PointAssumption /\ P!RegAssumption
  BY AllocatorAssumption, SameCardinality
  DEF P!VarAssumption, P!PointAssumption, P!RegAssumption

LEMMA StateFacts ==
    ASSUME P!IInv, NEW v \in Var, Scan!IsNext(v)
    PROVE  /\ Ends /\ startpoint[v] \in Int /\ endpoint[v] \in Int
           /\ P!IsNext(v) /\ v \notin activeSet /\ P!R = Scan!R /\ Scan!R > 0 /\ Scan!R \in Int
           /\ P!StackSizeAfterSpill = Scan!StackSizeAfterSpill
  <1>1. startpoint \in [Var -> 0..MaxPoint] /\ endpoint \in [Var -> 0..MaxPoint]
    BY DEF P!IInv, P!TypeOK, P!Point
  <1>2. startpoint[v] \in Int /\ endpoint[v] \in Int
    BY <1>1, AllocatorAssumption
  <1>3. P!IsNext(v)
    BY DEF P!IsNext, Scan!IsNext
  <1>4. v \notin activeSet
    BY <1>3 DEF P!IInv, P!ActiveDone, P!Done, P!IsNext
  <1>5. P!R = Scan!R /\ Scan!R > 0 /\ Scan!R \in Int
    BY AllocatorAssumption DEF P!R, Scan!R
  <1>6. P!StackSizeAfterSpill = Scan!StackSizeAfterSpill
    BY DEF P!StackSizeAfterSpill, Scan!StackSizeAfterSpill, P!SlotSize, Scan!SlotSize
  <1> QED
    BY <1>1, <1>2, <1>3, <1>4, <1>5, <1>6 DEF Ends

LEMMA NewWindow ==
    ASSUME NEW S, backing' \in Seq(Var), len' \in 0..Len(backing'),
           \A i \in 1..len' : backing'[i] \in S, \A x \in S : \E i \in 1..len' : x = backing'[i],
           \A i, j \in 1..len' : i # j => backing'[i] # backing'[j]
    PROVE  SliceInv' /\ activeSet' = S
  <1>1. ToSet(Window(backing', len')) = {backing'[i] : i \in 1..len'}
    BY WindowFacts
  <1>2. activeSet' = {backing'[i] : i \in 1..len'}
    BY <1>1 DEF activeSet
  <1>3. activeSet' = S
    BY <1>2
  <1> QED
    BY <1>3 DEF SliceInv

LEMMA AssignIsAssign ==
    ASSUME SliceInv, P!IInv, NEW v \in Var, AssignRegister(v)
    PROVE  SliceInv' /\ P!AssignRegister(v)
  <1> DEFINE m == LenAfterExpire(v) a == AfterExpire(v)
  <1>1. /\ Ends /\ startpoint[v] \in Int
        /\ P!IsNext(v) /\ v \notin activeSet /\ P!R = Scan!R
    BY StateFacts DEF AssignRegister
  <1>2. /\ m \in 0..Len(a) /\ a \in Seq(Var) /\ P!Kept(v) = {a[i] : i \in 1..m}
        /\ Cardinality(P!Kept(v)) = m /\ P!Freed(v) = FreedRegs(v)
        /\ \A i, j \in 1..m : i # j => a[i] # a[j]
    BY <1>1, ExpireFacts
  <1>3. v \notin P!Kept(v)
    BY <1>1 DEF P!Kept
  <1>4. backing' = AppendTo(a, m, v) /\ len' = m + 1
    BY DEF AssignRegister
  <1> HIDE DEF m, a
  <1>5. /\ backing' \in Seq(Var) /\ len' \in 0..Len(backing')
        /\ backing'[m + 1] = v /\ \A i \in 1..m : backing'[i] = a[i]
    <2>1. /\ AppendTo(a, m, v) \in Seq(Var) /\ m + 1 \in 0..Len(AppendTo(a, m, v))
          /\ AppendTo(a, m, v)[m + 1] = v /\ \A i \in 1..m : AppendTo(a, m, v)[i] = a[i]
      BY <1>2, AppendToFacts
    <2> QED
      BY <1>4, <2>1
  <1>6. m \in Nat /\ len' = m + 1 /\ \A i \in 1..len' : i \in 1..m \/ i = m + 1
    BY <1>2, <1>4, LenProperties
  <1>7. \A i \in 1..len' : backing'[i] \in P!Kept(v) \cup {v}
    BY <1>2, <1>5, <1>6
  <1>8. \A x \in P!Kept(v) \cup {v} : \E i \in 1..len' : x = backing'[i]
    <2> TAKE x \in P!Kept(v) \cup {v}
    <2>1. CASE x = v
      BY <2>1, <1>5, <1>6
    <2>2. CASE x \in P!Kept(v)
      <3>1. PICK i \in 1..m : x = a[i]
        BY <1>2, <2>2
      <3>2. i \in 1..len' /\ x = backing'[i]
        BY <1>5, <1>6, <3>1
      <3> QED
        BY <3>2
    <2> QED
      BY <2>1, <2>2
  <1>9. \A i, j \in 1..len' : i # j => backing'[i] # backing'[j]
    <2> TAKE i, j \in 1..len'
    <2>1. \A h \in 1..m : backing'[h] # v
      BY <1>2, <1>3, <1>5
    <2> QED
      BY <1>2, <1>5, <1>6, <2>1
  <1>10. SliceInv' /\ activeSet' = P!Kept(v) \cup {v}
    BY <1>5, <1>7, <1>8, <1>9, NewWindow
  <1>11. P!ExtractMin(P!Freed(v)) = Scan!ExtractMin(FreedRegs(v))
    BY <1>2 DEF P!ExtractMin, Scan!ExtractMin, P!Spilled, Scan!Spilled
  <1>12. /\ Cardinality(P!Kept(v)) # P!R
         /\ registers' = [registers EXCEPT ![v] = Scan!ExtractMin(FreedRegs(v))]
         /\ freeRegs' = FreedRegs(v) \ {Scan!ExtractMin(FreedRegs(v))}
         /\ pending' = pending \ {v}
         /\ UNCHANGED <<ranges, locations, stackSize>>
    BY <1>1, <1>2 DEF AssignRegister, m
  <1> QED
    BY <1>1, <1>2, <1>10, <1>11, <1>12, SameCardinality DEF P!AssignRegister, P!ranges, ranges

LEMMA SpillActiveIsSpillActive ==
    ASSUME SliceInv, P!IInv, NEW v \in Var, SpillActive(v)
    PROVE  SliceInv' /\ \E s \in Var : P!SpillActive(v, s)
  <1> DEFINE m == LenAfterExpire(v) a == AfterExpire(v) s == Candidate(v)
  <1>1. /\ Ends /\ startpoint[v] \in Int
        /\ P!IsNext(v) /\ v \notin activeSet /\ P!R = Scan!R /\ Scan!R > 0 /\ Scan!R \in Int
        /\ P!StackSizeAfterSpill = Scan!StackSizeAfterSpill
    BY StateFacts DEF SpillActive
  <1>2. /\ m \in 0..Len(a) /\ a \in Seq(Var) /\ P!Kept(v) = {a[i] : i \in 1..m}
        /\ Cardinality(P!Kept(v)) = m /\ P!Freed(v) = FreedRegs(v)
        /\ \A i, j \in 1..m : /\ i # j => a[i] # a[j]
                              /\ i < j => endpoint[a[i]] <= endpoint[a[j]]
    BY <1>1, ExpireFacts
  <1>3. v \notin P!Kept(v)
    BY <1>1 DEF P!Kept
  <1>4. backing' = AppendTo(a, m - 1, v) /\ len' = m /\ s = a[m] /\ m = Scan!R
    BY DEF SpillActive, ArrayAfterSpill, Candidate
  <1>5. /\ registers' = [registers EXCEPT ![v] = registers[s], ![s] = Scan!Spilled]
        /\ locations' = [locations EXCEPT ![s] = stackSize]
        /\ stackSize' = Scan!StackSizeAfterSpill
        /\ freeRegs' = FreedRegs(v) /\ pending' = pending \ {v} /\ UNCHANGED ranges
        /\ endpoint[s] > endpoint[v]
    BY DEF SpillActive
  <1> HIDE DEF m, a, s
  <1>6. m \in Nat /\ m - 1 \in Nat /\ m - 1 \in 0..Len(a) /\ m \in 1..m /\ (m - 1) + 1 = m
        /\ \A i \in 1..m : a[i] \in Var
    BY <1>1, <1>2, <1>4, LenProperties
  <1>7. /\ backing' \in Seq(Var) /\ len' \in 0..Len(backing')
        /\ backing'[m] = v /\ \A i \in 1..(m - 1) : backing'[i] = a[i]
    <2> DEFINE h == m - 1
    <2>1. h \in 0..Len(a) /\ h + 1 = m /\ a \in Seq(Var)
      BY <1>2, <1>6
    <2> HIDE DEF h
    <2>2. /\ AppendTo(a, h, v) \in Seq(Var) /\ h + 1 \in 0..Len(AppendTo(a, h, v))
          /\ AppendTo(a, h, v)[h + 1] = v /\ \A i \in 1..h : AppendTo(a, h, v)[i] = a[i]
      BY <2>1, AppendToFacts
    <2>3. backing' = AppendTo(a, h, v)
      BY <1>4 DEF h
    <2> QED
      BY <1>4, <2>1, <2>2, <2>3 DEF h
  <1>8. s \in P!Kept(v) /\ s \in Var
    BY <1>2, <1>4, <1>6
  <1>9. P!IsLast(s, v)
    <2>1. ASSUME NEW w \in P!Kept(v) PROVE endpoint[w] <= endpoint[s]
      <3>1. PICK i \in 1..m : w = a[i]
        BY <1>2, <2>1
      <3>2. i = m \/ i < m
        BY <1>6
      <3>3. i < m => endpoint[w] <= endpoint[s]
        BY <1>2, <1>4, <1>6, <3>1
      <3>4. endpoint[s] \in Int
        BY <1>1, <1>8, AllocatorAssumption DEF Ends
      <3> QED
        BY <1>4, <3>1, <3>2, <3>3, <3>4
    <2> QED
      BY <1>8, <2>1 DEF P!IsLast
  <1>10. \A i \in 1..m : i # m => i \in 1..(m - 1) /\ backing'[i] = a[i] /\ a[i] # s
    BY <1>2, <1>4, <1>6, <1>7
  <1>11. \A i \in 1..m : backing'[i] \in (P!Kept(v) \ {s}) \cup {v}
    BY <1>2, <1>7, <1>10
  <1>12. \A x \in (P!Kept(v) \ {s}) \cup {v} : \E i \in 1..m : x = backing'[i]
    <2> TAKE x \in (P!Kept(v) \ {s}) \cup {v}
    <2>1. CASE x = v
      BY <2>1, <1>6, <1>7
    <2>2. CASE x \in P!Kept(v) \ {s}
      <3>1. PICK i \in 1..m : x = a[i]
        BY <1>2, <2>2
      <3>2. i # m
        BY <1>4, <2>2, <3>1
      <3>3. x = backing'[i]
        BY <1>10, <3>1, <3>2
      <3> QED
        BY <3>3
    <2> QED
      BY <2>1, <2>2
  <1>13. \A i, j \in 1..m : i # j => backing'[i] # backing'[j]
    <2> TAKE i, j \in 1..m
    <2>1. \A h \in 1..m : h # m => backing'[h] # v
      BY <1>2, <1>3, <1>10
    <2> QED
      BY <1>2, <1>7, <1>10, <2>1
  <1>14. SliceInv' /\ activeSet' = (P!Kept(v) \ {s}) \cup {v}
    <2> DEFINE S == (P!Kept(v) \ {s}) \cup {v}
    <2>1. /\ \A i \in 1..len' : backing'[i] \in S
          /\ \A x \in S : \E i \in 1..len' : x = backing'[i]
          /\ \A i, j \in 1..len' : i # j => backing'[i] # backing'[j]
      BY <1>4, <1>11, <1>12, <1>13
    <2> HIDE DEF S
    <2>2. SliceInv' /\ activeSet' = S
      BY <1>7, <2>1, NewWindow
    <2> QED
      BY <2>2 DEF S
  <1>15. P!Spilled = Scan!Spilled
    BY DEF P!Spilled, Scan!Spilled
  <1>16. P!SpillActive(v, s)
    BY <1>1, <1>2, <1>4, <1>5, <1>9, <1>14, <1>15, SameCardinality DEF P!SpillActive, P!Replace, P!ranges, ranges
  <1> QED
    BY <1>8, <1>14, <1>16

LEMMA SpillNewIsSpillNew ==
    ASSUME SliceInv, P!IInv, NEW v \in Var, SpillNew(v)
    PROVE  SliceInv' /\ P!SpillNew(v)
  <1> DEFINE m == LenAfterExpire(v) a == AfterExpire(v) s == Candidate(v)
  <1>1. /\ Ends /\ startpoint[v] \in Int
        /\ P!IsNext(v) /\ P!R = Scan!R /\ Scan!R > 0 /\ Scan!R \in Int
        /\ P!StackSizeAfterSpill = Scan!StackSizeAfterSpill
    BY StateFacts DEF SpillNew
  <1>2. /\ m \in 0..Len(a) /\ a \in Seq(Var) /\ P!Kept(v) = {a[i] : i \in 1..m}
        /\ Cardinality(P!Kept(v)) = m /\ P!Freed(v) = FreedRegs(v)
        /\ \A i, j \in 1..m : /\ i # j => a[i] # a[j]
                              /\ i < j => endpoint[a[i]] <= endpoint[a[j]]
    BY <1>1, ExpireFacts
  <1>3. backing' = a /\ len' = m /\ s = a[m] /\ m = Scan!R
    BY DEF SpillNew, Candidate
  <1>4. /\ locations' = [locations EXCEPT ![v] = stackSize]
        /\ stackSize' = Scan!StackSizeAfterSpill
        /\ freeRegs' = FreedRegs(v) /\ pending' = pending \ {v}
        /\ UNCHANGED <<ranges, registers>>
        /\ endpoint[s] <= endpoint[v]
    BY DEF SpillNew
  <1> HIDE DEF m, a, s
  <1>5. m \in Nat /\ m \in 1..m
    BY <1>1, <1>2, <1>3, LenProperties
  <1>6. P!IsLast(s, v)
    <2>1. ASSUME NEW w \in P!Kept(v) PROVE endpoint[w] <= endpoint[s]
      <3>1. PICK i \in 1..m : w = a[i]
        BY <1>2, <2>1
      <3>2. i = m \/ i < m
        BY <1>5
      <3>3. i < m => endpoint[w] <= endpoint[s]
        BY <1>2, <1>3, <1>5, <3>1
      <3>4. a[m] \in Var
        BY <1>2, <1>5, LenProperties
      <3>5. endpoint[s] \in Int
        BY <1>1, <1>3, <3>4, AllocatorAssumption DEF Ends
      <3> QED
        BY <1>3, <3>1, <3>2, <3>3, <3>5
    <2>2. s \in P!Kept(v)
      BY <1>2, <1>3, <1>5
    <2> QED
      BY <2>1, <2>2 DEF P!IsLast
  <1>7. \E x \in P!Kept(v) : P!IsLast(x, v) /\ endpoint[x] <= endpoint[v]
    BY <1>4, <1>6 DEF P!IsLast
  <1>8. SliceInv' /\ activeSet' = P!Kept(v)
    <2>1. /\ \A i \in 1..m : a[i] \in P!Kept(v)
          /\ \A x \in P!Kept(v) : \E i \in 1..m : x = a[i]
          /\ \A i, j \in 1..m : i # j => a[i] # a[j]
      BY <1>2
    <2> QED
      BY <1>2, <1>3, <2>1, NewWindow
  <1> QED
    BY <1>1, <1>2, <1>3, <1>4, <1>7, <1>8, SameCardinality DEF P!SpillNew, P!ranges, ranges

LEMMA StepImplements ==
    ASSUME SliceInv, P!IInv, [Next]_vars
    PROVE  SliceInv' /\ [P!Next]_(P!vars) /\ P!IInv'
  <1>1. ASSUME NEW v \in Var, AssignRegister(v) \/ SpillActive(v) \/ SpillNew(v)
        PROVE  SliceInv' /\ P!Next
    BY <1>1, AssignIsAssign, SpillActiveIsSpillActive, SpillNewIsSpillNew DEF P!Next, P!Allocate
  <1>2. ASSUME UNCHANGED vars PROVE SliceInv' /\ UNCHANGED P!vars
    <2>1. /\ backing' = backing /\ len' = len /\ startpoint' = startpoint /\ endpoint' = endpoint
          /\ pending' = pending /\ freeRegs' = freeRegs /\ registers' = registers
          /\ locations' = locations /\ stackSize' = stackSize
      BY <1>2 DEF vars, ranges
    <2>2. SliceInv' /\ activeSet' = activeSet
      BY <2>1 DEF SliceInv, activeSet
    <2>3. UNCHANGED P!vars
      BY <2>1, <2>2 DEF P!vars
    <2> QED
      BY <2>2, <2>3
  <1>3. SliceInv' /\ [P!Next]_(P!vars)
    BY <1>1, <1>2 DEF Next
  <1>4. P!IInv'
    BY <1>3, Assumptions, P!NextPreserves DEF P!VarAssumption, P!PointAssumption, P!RegAssumption
  <1> QED
    BY <1>3, <1>4

LEMMA InitImplements ==
    ASSUME Init
    PROVE  SliceInv /\ P!Init /\ P!IInv
  <1>1. backing \in Seq(Var) /\ len \in 0..Len(backing) /\ len = 0
    BY DEF Init
  <1>2. activeSet = {}
    <2>1. ToSet(Window(backing, len)) = {backing[i] : i \in 1..0}
      BY <1>1, WindowFacts
    <2> QED
      BY <2>1 DEF activeSet
  <1>3. P!Init
    BY <1>2 DEF Init, Scan!Init, P!Init, Scan!Point, P!Point, Scan!Reg, P!Reg, Scan!Unset,
      P!Unset, Scan!NoSlot, P!NoSlot, Scan!StackHeader, P!StackHeader
  <1>4. P!IInv
    BY <1>3, Assumptions, P!InitIInv DEF P!VarAssumption, P!PointAssumption, P!RegAssumption
  <1>5. SliceInv
    BY <1>1 DEF SliceInv
  <1> QED
    BY <1>3, <1>4, <1>5

LEMMA SliceIInv == Spec => [](SliceInv /\ P!IInv)
  BY InitImplements, StepImplements, PTL DEF Spec

(* The window holds no variable twice, and everyone in it a register,      *)
(* whatever was sorted, removed and appended.                              *)
THEOREM WindowAlwaysDistinct == Spec => []WindowDistinct
  <1>1. ASSUME SliceInv, P!IInv PROVE WindowDistinct
    <2>1. activeSet = {backing[i] : i \in 1..len}
      BY <1>1, WindowFacts DEF SliceInv, activeSet
    <2>2. \A w \in activeSet : registers[w] \in P!Reg
      BY <1>1 DEF P!IInv, P!RegistersPartitioned
    <2>3. P!Reg = Scan!Reg
      BY DEF P!Reg, Scan!Reg
    <2> QED
      BY <1>1, <2>1, <2>2, <2>3 DEF WindowDistinct, SliceInv
  <1> QED
    BY <1>1, SliceIInv, PTL

(* LinearScan under its two names.                                         *)
LEMMA SameModule ==
    /\ P!Init <=> Scan!Init
    /\ P!Next <=> Scan!Next
    /\ P!vars = Scan!vars
  <1>1. P!Init <=> Scan!Init
    BY DEF Scan!Init, P!Init, Scan!Point, P!Point, Scan!Reg, P!Reg, Scan!Unset, P!Unset,
      Scan!NoSlot, P!NoSlot, Scan!StackHeader, P!StackHeader
  <1>2. ASSUME NEW v \in Var
        PROVE  /\ P!IsNext(v) <=> Scan!IsNext(v)
               /\ P!Kept(v) = Scan!Kept(v) /\ P!Freed(v) = Scan!Freed(v)
    <2>1. P!Expired(v) = Scan!Expired(v)
      BY DEF P!Expired, Scan!Expired
    <2> QED
      BY <2>1 DEF P!IsNext, Scan!IsNext, P!Kept, Scan!Kept, P!Freed, Scan!Freed
  <1>3. P!R = Scan!R /\ P!Spilled = Scan!Spilled /\ P!StackSizeAfterSpill = Scan!StackSizeAfterSpill
    BY DEF P!R, Scan!R, P!Spilled, Scan!Spilled, P!StackSizeAfterSpill, Scan!StackSizeAfterSpill,
      P!SlotSize, Scan!SlotSize
  <1>4. ASSUME NEW v \in Var PROVE P!AssignRegister(v) <=> Scan!AssignRegister(v)
    <2>1. P!ExtractMin(P!Freed(v)) = Scan!ExtractMin(Scan!Freed(v))
      BY <1>2, <1>3 DEF P!ExtractMin, Scan!ExtractMin
    <2> QED
      BY <1>2, <1>3, <2>1, SameCardinality
      DEF P!AssignRegister, Scan!AssignRegister, P!ranges, Scan!ranges
  <1>5. ASSUME NEW v \in Var, NEW s \in Var PROVE P!SpillActive(v, s) <=> Scan!SpillActive(v, s)
    BY <1>2, <1>3, SameCardinality
    DEF P!SpillActive, Scan!SpillActive, P!IsLast, Scan!IsLast, P!Replace, Scan!Replace,
      P!ranges, Scan!ranges
  <1>6. ASSUME NEW v \in Var PROVE P!SpillNew(v) <=> Scan!SpillNew(v)
    BY <1>2, <1>3, SameCardinality
    DEF P!SpillNew, Scan!SpillNew, P!IsLast, Scan!IsLast, P!ranges, Scan!ranges
  <1>7. P!vars = Scan!vars
    BY DEF P!vars, Scan!vars
  <1> QED
    BY <1>1, <1>4, <1>5, <1>6, <1>7 DEF P!Next, Scan!Next, P!Allocate, Scan!Allocate

(* Sorting, removing and the aliased append of SpillAtInterval are the     *)
(* set-based allocator, step by step.                                      *)
THEOREM SliceImplements == Spec => ImplementsLinearScan
  <1>1. Init => Scan!Init
    BY InitImplements, SameModule
  <1>2. SliceInv /\ P!IInv /\ [Next]_vars => [Scan!Next]_(Scan!vars)
    <2> SUFFICES ASSUME SliceInv, P!IInv, [Next]_vars PROVE [Scan!Next]_(Scan!vars)
      OBVIOUS
    <2>1. P!Next \/ UNCHANGED P!vars
      BY StepImplements
    <2>2. CASE P!Next
      BY <2>2, SameModule
    <2>3. CASE UNCHANGED P!vars
      BY <2>3 DEF P!vars, Scan!vars
    <2> QED
      BY <2>1, <2>2, <2>3
  <1> QED
    BY <1>1, <1>2, SliceIInv, PTL DEF Spec, ImplementsLinearScan, Scan!Spec

(* So two variables whose ranges overlap never share a register in the     *)
(* code's own data structure either.                                       *)
THEOREM SliceRegistersNotShared == Spec => []Scan!NoSharedRegister
  <1>1. ASSUME P!IInv PROVE Scan!NoSharedRegister
    BY <1>1 DEF P!IInv, P!NoSharedRegister, Scan!NoSharedRegister, P!Done, Scan!Done,
      P!Resident, Scan!Resident, P!Reg, Scan!Reg, P!Overlap, Scan!Overlap
  <1> QED
    BY <1>1, SliceIInv, PTL
=====
