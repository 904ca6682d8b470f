--------------------------- MODULE NtpEstimateProofs ---------------------------
(***************************************************************************)
(* The estimators of NtpClientPoolT for any number of samples and any      *)
(* offsets: what median() returns splits them in half and favours no sign, *)
(* a minority of wrong offsets cannot move it out of the range of the      *)
(* others, what the trim returns is no further from the others than they   *)
(* are apart, the fastest sample wins, late ones change nothing, and       *)
(* smoothing stays between the old value and the estimate.                 *)
(*                                                                         *)
(* No proof is by induction over the samples. An element of some rank      *)
(* exists because the sets of smaller ones are finite and so well-founded  *)
(* under inclusion; what best_delay_offset() holds after k samples is      *)
(* shown by the least k at which it would fail.                            *)
(***************************************************************************)
EXTENDS NtpEstimate, TLAPS, FiniteSetTheorems, FunctionTheorems, WellFoundedInduction

\* A std::vector<int64_t>, but for the order of its elements and their width.
IsVector(f) == IsFiniteSet(DOMAIN f) /\ \A i \in DOMAIN f : f[i] \in Int

Below(f, v) == {i \in DOMAIN f : f[i] < v}
UpTo(f, v)  == {i \in DOMAIN f : f[i] <= v}

----------------------------------------------------------------------------
(* Elements by rank                                                        *)

\* Cardinalities of subsets.
LEMMA Counting ==
    ASSUME NEW D, IsFiniteSet(D), NEW B \in SUBSET D, NEW A \in SUBSET B
    PROVE  /\ IsFiniteSet(A) /\ Cardinality(A) \in Nat /\ Cardinality(B) \in Nat
           /\ Cardinality(A) <= Cardinality(B)
           /\ A # B => Cardinality(A) < Cardinality(B)
  <1>1. IsFiniteSet(B)
    BY FS_Subset
  <1>2. IsFiniteSet(A) /\ Cardinality(A) <= Cardinality(B) /\ (Cardinality(A) = Cardinality(B) => A = B)
    BY <1>1, FS_Subset
  <1>3. Cardinality(A) \in Nat /\ Cardinality(B) \in Nat
    BY <1>1, <1>2, FS_CardinalityType
  <1> QED
    BY <1>2, <1>3

\* Among subsets of a finite set there is one that contains no other.
LEMMA MinimalSet ==
    ASSUME NEW D, IsFiniteSet(D), NEW T \in SUBSET (SUBSET D), T # {}
    PROVE  \E x \in T : \A y \in T : y \subseteq x => y = x
  <1>1. FiniteSubsetsOf(D) = SUBSET D
    BY FS_FiniteSubsetsOfFinite
  <1>2. IsWellFoundedOn(StrictSubsetOrdering(D), SUBSET D)
    BY <1>1, FS_StrictSubsetOrderingWellFounded
  <1>3. PICK x \in T : \A y \in T : <<y, x>> \notin StrictSubsetOrdering(D)
    BY <1>2, WFMin
  <1>4. ASSUME NEW y \in T, y \subseteq x, y # x PROVE FALSE
    <2>1. <<y, x>> \in (SUBSET D) \X (SUBSET D)
      OBVIOUS
    <2> QED
      BY <1>3, <1>4, <2>1 DEF StrictSubsetOrdering
  <1> QED
    BY <1>4

\* A part of a vector has a greatest element: the one that leaves the least
\* above it.
LEMMA Greatest ==
    ASSUME NEW f, IsVector(f), NEW J \in SUBSET DOMAIN f, J # {}
    PROVE  \E j \in J : \A i \in J : f[i] <= f[j]
  <1> DEFINE Above(j) == {i \in J : f[i] > f[j]}
             T == {Above(j) : j \in J}
  <1>1. IsFiniteSet(J) /\ \A i \in J : f[i] \in Int
    BY FS_Subset DEF IsVector
  <1>2. T \in SUBSET (SUBSET J) /\ T # {}
    OBVIOUS
  <1> HIDE DEF T
  <1>3. PICK x \in T : \A y \in T : y \subseteq x => y = x
    BY <1>1, <1>2, MinimalSet
  <1>4. PICK j \in J : x = Above(j)
    BY <1>3 DEF T
  <1>5. ASSUME NEW i \in J, ~(f[i] <= f[j]) PROVE FALSE
    <2>1. i \in Above(j) /\ i \notin Above(i)
      BY <1>1, <1>5
    <2>2. Above(i) \subseteq Above(j)
      BY <1>1, <1>5
    <2>3. Above(i) \in T
      BY DEF T
    <2> QED
      BY <1>3, <1>4, <2>1, <2>2, <2>3
  <1> QED
    BY <1>5

\* Every rank below the size is some element's.
LEMMA NthExists ==
    ASSUME NEW f, IsVector(f), NEW k \in Nat, k < Size(f)
    PROVE  \E v \in {f[i] : i \in DOMAIN f} : IsNth(v, f, k)
  <1> DEFINE D == DOMAIN f
             T == {UpTo(f, f[j]) : j \in {x \in D : k < Cardinality(UpTo(f, f[x]))}}
  <1>1. IsFiniteSet(D) /\ \A i \in D : f[i] \in Int
    BY DEF IsVector
  <1>2. D # {}
    BY FS_EmptySet DEF Size
  <1>3. T # {}
    <2>1. PICK j \in D : \A i \in D : f[i] <= f[j]
      BY <1>2, Greatest
    <2>2. UpTo(f, f[j]) = D
      BY <2>1 DEF UpTo
    <2> QED
      BY <2>2 DEF Size
  <1>4. T \in SUBSET (SUBSET D)
    BY DEF UpTo
  <1> HIDE DEF T
  <1>5. PICK x \in T : \A y \in T : y \subseteq x => y = x
    BY <1>1, <1>3, <1>4, MinimalSet
  <1>6. PICK j \in D : x = UpTo(f, f[j]) /\ k < Cardinality(UpTo(f, f[j]))
    BY <1>5 DEF T
  <1>7. Below(f, f[j]) \in SUBSET D /\ Cardinality(Below(f, f[j])) \in Nat
    BY <1>1, Counting DEF Below
  <1>8. ASSUME k < Cardinality(Below(f, f[j])) PROVE FALSE
    <2>1. Below(f, f[j]) # {}
      BY <1>8, FS_EmptySet
    <2>2. PICK i \in Below(f, f[j]) : \A y \in Below(f, f[j]) : f[y] <= f[i]
      BY <1>7, <2>1, Greatest
    <2>3. i \in D /\ f[i] < f[j]
      BY <2>2 DEF Below
    <2>4. UpTo(f, f[i]) = Below(f, f[j])
      BY <1>1, <2>2, <2>3 DEF Below, UpTo
    <2>5. UpTo(f, f[i]) \in T
      BY <1>8, <2>3, <2>4 DEF T
    <2>6. UpTo(f, f[i]) \subseteq x /\ j \in x /\ j \notin UpTo(f, f[i])
      BY <1>1, <1>6, <2>3 DEF UpTo
    <2> QED
      BY <1>5, <2>5, <2>6
  <1>9. IsNth(f[j], f, k)
    BY <1>6, <1>7, <1>8 DEF IsNth, Below, UpTo
  <1> QED
    BY <1>9

\* What std::nth_element leaves at index k.
LEMMA NthElementIsNth ==
    ASSUME NEW f, IsVector(f), NEW k \in Nat, k < Size(f)
    PROVE  NthElement(f, k) \in Int /\ IsNth(NthElement(f, k), f, k)
  <1>1. NthElement(f, k) \in {f[i] : i \in DOMAIN f} /\ IsNth(NthElement(f, k), f, k)
    BY NthExists DEF NthElement
  <1> QED
    BY <1>1 DEF IsVector

\* Two values of one rank are equal.
LEMMA NthIsUnique ==
    ASSUME NEW f, IsVector(f), NEW k \in Nat, NEW v \in Int, NEW w \in Int, IsNth(v, f, k), IsNth(w, f, k)
    PROVE  v = w
  <1>1. ASSUME NEW a \in Int, NEW b \in Int, a < b, IsNth(a, f, k), IsNth(b, f, k) PROVE FALSE
    <2>1. UpTo(f, a) \in SUBSET Below(f, b) /\ Below(f, b) \in SUBSET DOMAIN f
      BY <1>1 DEF UpTo, Below, IsVector
    <2>2. /\ Cardinality(UpTo(f, a)) <= Cardinality(Below(f, b))
          /\ Cardinality(UpTo(f, a)) \in Nat /\ Cardinality(Below(f, b)) \in Nat
      BY <2>1, Counting DEF IsVector
    <2>3. k < Cardinality(UpTo(f, a)) /\ Cardinality(Below(f, b)) <= k
      BY <1>1 DEF IsNth, UpTo, Below
    <2> QED
      BY <2>2, <2>3
  <1> QED
    BY <1>1

\* The elements that are not in a part.
LEMMA Complement ==
    ASSUME NEW D, IsFiniteSet(D), NEW A \in SUBSET D
    PROVE  Cardinality(D \ A) = Cardinality(D) - Cardinality(A)
  <1>1. IsFiniteSet(A) /\ IsFiniteSet(D \ A) /\ IsFiniteSet(D)
    BY FS_Subset
  <1>2. A \cup (D \ A) = D /\ A \cap (D \ A) = {}
    OBVIOUS
  <1>3. Cardinality(D) = Cardinality(A) + Cardinality(D \ A) - Cardinality(A \cap (D \ A))
    BY <1>1, <1>2, FS_Union
  <1>4. Cardinality(A) \in Nat /\ Cardinality(D \ A) \in Nat /\ Cardinality(D) \in Nat
    BY <1>1, FS_CardinalityType
  <1>5. Cardinality(A \cap (D \ A)) = 0
    BY <1>2, FS_EmptySet
  <1> QED
    BY <1>3, <1>4, <1>5

\* What is above a value, and what is not below it.
LEMMA Others ==
    ASSUME NEW f, IsVector(f), NEW v \in Int
    PROVE  /\ Size(f) \in Nat /\ Cardinality(Below(f, v)) \in Nat /\ Cardinality(UpTo(f, v)) \in Nat
           /\ Cardinality({i \in DOMAIN f : f[i] > v}) = Size(f) - Cardinality(UpTo(f, v))
           /\ Cardinality({i \in DOMAIN f : f[i] >= v}) = Size(f) - Cardinality(Below(f, v))
  <1>1. /\ {i \in DOMAIN f : f[i] > v} = DOMAIN f \ UpTo(f, v)
        /\ {i \in DOMAIN f : f[i] >= v} = DOMAIN f \ Below(f, v)
        /\ UpTo(f, v) \in SUBSET DOMAIN f /\ Below(f, v) \in SUBSET DOMAIN f
    BY DEF IsVector, UpTo, Below
  <1>2. Size(f) \in Nat
    BY FS_CardinalityType DEF IsVector, Size
  <1>3. Cardinality(Below(f, v)) \in Nat /\ Cardinality(UpTo(f, v)) \in Nat
    BY <1>1, Counting DEF IsVector
  <1>4. /\ Cardinality(DOMAIN f \ UpTo(f, v)) = Size(f) - Cardinality(UpTo(f, v))
        /\ Cardinality(DOMAIN f \ Below(f, v)) = Size(f) - Cardinality(Below(f, v))
    BY <1>1, Complement DEF IsVector, Size
  <1> QED
    BY <1>1, <1>2, <1>3, <1>4

----------------------------------------------------------------------------
(* median()                                                                *)

\* (a + b) / 2 lies between a and b, and truncation treats both signs alike.
LEMMA Halving ==
    ASSUME NEW a \in Int, NEW b \in Int
    PROVE  /\ TruncDiv(a + b, 2) \in Int
           /\ a <= b => a <= TruncDiv(a + b, 2) /\ TruncDiv(a + b, 2) <= b
           /\ TruncDiv((-a) + (-b), 2) = -TruncDiv(a + b, 2)
  BY DEF TruncDiv

\* The ranks that median() looks up.
LEMMA MiddleRanks ==
    ASSUME NEW f, IsVector(f), DOMAIN f # {}, NEW mid, mid = Size(f) \div 2
    PROVE  /\ Size(f) \in Nat /\ mid \in Nat /\ mid < Size(f)
           /\ \/ Size(f) % 2 = 1 /\ Size(f) = 2 * mid + 1
              \/ Size(f) % 2 = 0 /\ Size(f) = 2 * mid /\ mid - 1 \in Nat /\ mid - 1 < Size(f)
  <1>1. Size(f) \in Nat /\ Size(f) # 0
    BY FS_CardinalityType, FS_EmptySet DEF IsVector, Size
  <1> QED
    BY <1>1

\* In a vector of even size the lower middle element is not above the upper one.
LEMMA MiddlesAreOrdered ==
    ASSUME NEW f, IsVector(f), NEW k \in Nat, NEW l \in Nat, k <= l,
           NEW a \in Int, NEW b \in Int, IsNth(a, f, k), IsNth(b, f, l)
    PROVE  a <= b
  <1> SUFFICES ASSUME b < a PROVE FALSE
    OBVIOUS
  <1>1. UpTo(f, b) \in SUBSET Below(f, a) /\ Below(f, a) \in SUBSET DOMAIN f
    BY DEF UpTo, Below, IsVector
  <1>2. /\ Cardinality(UpTo(f, b)) <= Cardinality(Below(f, a))
        /\ Cardinality(UpTo(f, b)) \in Nat /\ Cardinality(Below(f, a)) \in Nat
    BY <1>1, Counting DEF IsVector
  <1>3. l < Cardinality(UpTo(f, b)) /\ Cardinality(Below(f, a)) <= k
    BY DEF IsNth, UpTo, Below
  <1> QED
    BY <1>2, <1>3

\* median() splits its input in half, whatever its size, order and signs: the
\* division of the even case never leaves the interval of the two middles.
THEOREM MedianSplits ==
    ASSUME NEW f, IsVector(f), DOMAIN f # {}
    PROVE  Median(f) \in Int /\ SplitsInHalf(Median(f), f)
  <1> DEFINE n == Size(f)
             mid == n \div 2
  <1>1. /\ n \in Nat /\ mid \in Nat /\ mid < n
        /\ \/ n % 2 = 1 /\ n = 2 * mid + 1
           \/ n % 2 = 0 /\ n = 2 * mid /\ mid - 1 \in Nat /\ mid - 1 < n
    BY MiddleRanks
  <1> HIDE DEF mid
  <1>2. CASE n % 2 = 1
    <2> DEFINE v == NthElement(f, mid)
    <2>1. v \in Int /\ IsNth(v, f, mid) /\ Median(f) = v
      BY <1>1, <1>2, NthElementIsNth DEF Median, mid
    <2>2. Cardinality(Below(f, v)) <= mid /\ mid < Cardinality(UpTo(f, v))
      BY <2>1 DEF IsNth, Below, UpTo
    <2> HIDE DEF v
    <2>3. /\ Cardinality(UpTo(f, v)) \in Nat /\ Cardinality(Below(f, v)) \in Nat
          /\ Cardinality({i \in DOMAIN f : f[i] >= v}) = n - Cardinality(Below(f, v))
      BY <2>1, Others
    <2>4. 2 * Cardinality(UpTo(f, v)) >= n /\ 2 * Cardinality({i \in DOMAIN f : f[i] >= v}) >= n
      BY <1>1, <1>2, <2>2, <2>3
    <2> QED
      BY <2>1, <2>4 DEF SplitsInHalf, UpTo
  <1>3. CASE n % 2 = 0
    <2> DEFINE a == NthElement(f, mid - 1)
               b == NthElement(f, mid)
               q == TruncDiv(a + b, 2)
    <2>1. a \in Int /\ IsNth(a, f, mid - 1) /\ b \in Int /\ IsNth(b, f, mid) /\ Median(f) = q
      BY <1>1, <1>3, NthElementIsNth DEF Median, mid
    <2> HIDE DEF a, b
    <2>2. q \in Int /\ a <= q /\ q <= b
      <3>1. mid - 1 \in Nat /\ mid - 1 <= mid
        BY <1>1, <1>3
      <3>2. a <= b
        BY <1>1, <2>1, <3>1, MiddlesAreOrdered
      <3> QED
        BY <2>1, <3>2, Halving
    <2> HIDE DEF q
    <2>3. mid - 1 < Cardinality(UpTo(f, a)) /\ Cardinality(Below(f, b)) <= mid
      BY <2>1 DEF IsNth, Below, UpTo
    <2>4. Cardinality(UpTo(f, a)) <= Cardinality(UpTo(f, q)) /\ Cardinality(Below(f, q)) <= Cardinality(Below(f, b))
      <3>1. /\ UpTo(f, a) \in SUBSET UpTo(f, q) /\ UpTo(f, q) \in SUBSET DOMAIN f
            /\ Below(f, q) \in SUBSET Below(f, b) /\ Below(f, b) \in SUBSET DOMAIN f
        BY <2>1, <2>2 DEF UpTo, Below, IsVector
      <3> QED
        BY <3>1, Counting DEF IsVector
    <2>5. /\ Cardinality(UpTo(f, a)) \in Nat /\ Cardinality(UpTo(f, q)) \in Nat
          /\ Cardinality(Below(f, b)) \in Nat /\ Cardinality(Below(f, q)) \in Nat
          /\ Cardinality({i \in DOMAIN f : f[i] >= q}) = n - Cardinality(Below(f, q))
      BY <2>1, <2>2, Others
    <2>6. 2 * Cardinality(UpTo(f, q)) >= n /\ 2 * Cardinality({i \in DOMAIN f : f[i] >= q}) >= n
      BY <1>1, <1>3, <2>3, <2>4, <2>5
    <2> QED
      BY <2>1, <2>2, <2>6 DEF SplitsInHalf, UpTo
  <1> QED
    BY <1>1, <1>2, <1>3

\* The element of some rank, seen from the other end of a mirrored vector.
LEMMA MirroredNth ==
    ASSUME NEW f, IsVector(f), NEW k \in Nat, k < Size(f)
    PROVE  NthElement(Mirror(f), k) = -NthElement(f, Size(f) - 1 - k)
  <1> DEFINE g == Mirror(f)
             l == Size(f) - 1 - k
             v == NthElement(f, l)
  <1>1. DOMAIN g = DOMAIN f /\ (\A i \in DOMAIN f : f[i] \in Int /\ g[i] = -f[i]) /\ IsVector(g)
    BY DEF Mirror, IsVector
  <1>2. Size(g) = Size(f) /\ Size(f) \in Nat /\ l \in Nat /\ l < Size(f)
    <2>1. Size(g) = Size(f) /\ Size(f) \in Nat
      BY <1>1, FS_CardinalityType DEF IsVector, Size
    <2> QED
      BY <2>1
  <1>3. v \in Int /\ IsNth(v, f, l)
    BY <1>2, NthElementIsNth
  <1> HIDE DEF g, v
  <1>4. /\ Below(g, -v) = {i \in DOMAIN f : f[i] > v}
        /\ UpTo(g, -v) = {i \in DOMAIN f : f[i] >= v}
    BY <1>1, <1>3 DEF Below, UpTo
  <1>5. /\ Cardinality(Below(g, -v)) = Size(f) - Cardinality(UpTo(f, v))
        /\ Cardinality(UpTo(g, -v)) = Size(f) - Cardinality(Below(f, v))
        /\ Cardinality(UpTo(f, v)) \in Nat /\ Cardinality(Below(f, v)) \in Nat
    BY <1>3, <1>4, Others
  <1>6. Cardinality(Below(f, v)) <= l /\ l < Cardinality(UpTo(f, v))
    BY <1>3 DEF IsNth, Below, UpTo
  <1>7. Cardinality(Below(g, -v)) <= k /\ k < Cardinality(UpTo(g, -v))
    BY <1>2, <1>5, <1>6
  <1>8. IsNth(-v, g, k)
    BY <1>7 DEF IsNth, Below, UpTo
  <1>9. NthElement(g, k) \in Int /\ IsNth(NthElement(g, k), g, k)
    BY <1>1, <1>2, NthElementIsNth
  <1>10. -v \in Int
    BY <1>3
  <1> QED
    BY <1>1, <1>8, <1>9, <1>10, NthIsUnique DEF g, v

\* Clock errors of the opposite sign give the opposite median, although the
\* even case divides with truncation.
THEOREM MedianIsUnbiased ==
    ASSUME NEW f, IsVector(f), DOMAIN f # {}
    PROVE  Median(Mirror(f)) = -Median(f)
  <1> DEFINE n == Size(f)
             mid == n \div 2
             a == NthElement(f, mid - 1)
             b == NthElement(f, mid)
  <1>1. /\ n \in Nat /\ mid \in Nat /\ mid < n
        /\ \/ n % 2 = 1 /\ n = 2 * mid + 1
           \/ n % 2 = 0 /\ n = 2 * mid /\ mid - 1 \in Nat /\ mid - 1 < n
    BY MiddleRanks
  <1>2. Size(Mirror(f)) = n
    BY DEF Size, Mirror
  <1>3. NthElement(Mirror(f), mid) = -NthElement(f, n - 1 - mid)
    BY <1>1, MirroredNth
  <1> HIDE DEF mid
  <1>4. CASE n % 2 = 1
    <2>1. n - 1 - mid = mid
      BY <1>1, <1>4
    <2> QED
      BY <1>2, <1>3, <1>4, <2>1 DEF Median, mid
  <1>5. CASE n % 2 = 0
    <2>1. n - 1 - mid = mid - 1 /\ n - 1 - (mid - 1) = mid /\ mid - 1 \in Nat /\ mid - 1 < n /\ n % 2 # 1
      BY <1>1, <1>5
    <2>2. NthElement(Mirror(f), mid - 1) = -b
      BY <2>1, MirroredNth
    <2>3. NthElement(Mirror(f), mid) = -a
      BY <1>3, <2>1
    <2>4. Median(f) = TruncDiv(a + b, 2) /\ Median(Mirror(f)) = TruncDiv((-b) + (-a), 2)
      BY <1>2, <2>1, <2>2, <2>3 DEF Median, mid
    <2>5. a \in Int /\ b \in Int
      BY <1>1, <2>1, NthElementIsNth
    <2> HIDE DEF a, b
    <2>6. TruncDiv((-b) + (-a), 2) = -TruncDiv(b + a, 2) /\ a + b = b + a
      BY <2>5, Halving
    <2> QED
      BY <2>4, <2>6
  <1> QED
    BY <1>1, <1>4, <1>5

\* Fewer than half of the offsets, whatever they are, cannot move the median out
\* of the range of the others.
THEOREM MajorityDecides ==
    ASSUME NEW f, IsVector(f), NEW B \in SUBSET DOMAIN f, 2 * Cardinality(B) < Size(f)
    PROVE  Median(f) \in Int /\ Between(Median(f), {f[i] : i \in DOMAIN f \ B})
  <1> DEFINE m == Median(f)
             up == {i \in DOMAIN f : f[i] >= m}
  <1>1. Size(f) \in Nat /\ IsFiniteSet(B) /\ Cardinality(B) \in Nat
    BY FS_CardinalityType, FS_Subset DEF IsVector, Size
  <1>2. DOMAIN f # {}
    BY <1>1, FS_EmptySet DEF Size
  <1>3. m \in Int /\ 2 * Cardinality(UpTo(f, m)) >= Size(f) /\ 2 * Cardinality(up) >= Size(f)
    BY <1>2, MedianSplits DEF SplitsInHalf, UpTo
  <1>4. ASSUME NEW S \in SUBSET DOMAIN f, 2 * Cardinality(S) >= Size(f) PROVE \E i \in S : i \notin B
    <2> SUFFICES ASSUME S \in SUBSET B PROVE FALSE
      OBVIOUS
    <2>1. Cardinality(S) <= Cardinality(B) /\ Cardinality(S) \in Nat
      BY Counting DEF IsVector
    <2> QED
      BY <1>1, <1>4, <2>1
  <1>5. PICK i \in DOMAIN f \ B : f[i] <= m
    BY <1>3, <1>4 DEF UpTo
  <1>6. PICK j \in DOMAIN f \ B : m <= f[j]
    <2>1. PICK j \in up : j \notin B
      BY <1>3, <1>4
    <2>2. f[j] >= m /\ f[j] \in Int
      BY <2>1 DEF IsVector
    <2> QED
      BY <1>3, <2>1, <2>2
  <1> QED
    BY <1>3, <1>5, <1>6 DEF Between

----------------------------------------------------------------------------
(* Smoothing                                                               *)

\* A quotient is within the bounds that the dividend has, multiplied.
LEMMA QuotientBounds ==
    ASSUME NEW x \in Int, NEW d \in Nat \ {0}, NEW lo \in Int, NEW hi \in Int, d * lo <= x, x <= d * hi
    PROVE  TruncDiv(x, d) \in Int /\ lo <= TruncDiv(x, d) /\ TruncDiv(x, d) <= hi
  BY SMTT(30) DEF TruncDiv

\* Smoothing with any alpha ends between the old value and the estimate, and
\* with an alpha of one half or more it comes nearer to the estimate whenever
\* they are two or more apart: truncation cannot freeze the offset.
THEOREM SmoothingApproaches ==
    ASSUME NEW old \in Int, NEW new \in Int, NEW num \in Int, NEW den \in Nat \ {0}
    PROVE  /\ Smooth(old, new, num, den) \in Int
           /\ Between(Smooth(old, new, num, den), {old, new})
           /\ 2 * num >= den /\ Deviation(new, old) >= 2
                => Deviation(Smooth(old, new, num, den), new) < Deviation(old, new)
  <1> DEFINE y == Smooth(old, new, num, den)
             x == (den - num) * old + num * new
  <1>1. CASE num >= den
    <2>1. y = new
      BY <1>1 DEF Smooth
    <2> QED
      BY <2>1 DEF Between, Deviation
  <1>2. CASE num <= 0
    <2>1. y = old /\ ~(2 * num >= den)
      BY <1>2 DEF Smooth
    <2> QED
      BY <2>1 DEF Between
  <1>3. CASE 0 < num /\ num < den
    <2>1. y = TruncDiv(x, den) /\ x \in Int
      BY <1>3 DEF Smooth
    <2>2. x = den * old + num * (new - old) /\ x = den * new - (den - num) * (new - old)
      OBVIOUS
    <2>3. ASSUME old <= new
          PROVE  /\ den * old <= x /\ x <= den * new
                 /\ 2 * num >= den /\ new - old >= 2 => den * (old + 1) <= x
      <3>1. num * (new - old) >= 0 /\ (den - num) * (new - old) >= 0
        BY <1>3, <2>3
      <3>2. new - old >= 2 => num * (new - old) >= 2 * num
        BY <1>3
      <3> HIDE DEF x
      <3> QED
        BY <2>1, <2>2, <3>1, <3>2
    <2>4. ASSUME new <= old
          PROVE  /\ den * new <= x /\ x <= den * old
                 /\ 2 * num >= den /\ old - new >= 2 => x <= den * (old - 1)
      <3>1. num * (old - new) >= 0 /\ (den - num) * (old - new) >= 0
        BY <1>3, <2>4
      <3>2. old - new >= 2 => num * (old - new) >= 2 * num
        BY <1>3
      <3>3. num * (new - old) = -(num * (old - new)) /\ (den - num) * (new - old) = -((den - num) * (old - new))
        OBVIOUS
      <3> HIDE DEF x
      <3> QED
        BY <2>1, <2>2, <3>1, <3>2, <3>3
    <2> HIDE DEF x, y
    <2>5. CASE old <= new
      <3>1. y \in Int /\ old <= y /\ y <= new
        BY <2>1, <2>3, <2>5, QuotientBounds
      <3>2. ASSUME 2 * num >= den, new - old >= 2 PROVE old + 1 <= y
        <4>1. den * (old + 1) <= x /\ x <= den * (new)
          BY <2>3, <2>5, <3>2
        <4>2. old + 1 \in Int /\ new \in Int
          OBVIOUS
        <4> QED
          BY <2>1, <4>1, <4>2, QuotientBounds
      <3> QED
        BY <2>5, <3>1, <3>2 DEF Between, Deviation, y
    <2>6. CASE new <= old
      <3>1. y \in Int /\ new <= y /\ y <= old
        BY <2>1, <2>4, <2>6, QuotientBounds
      <3>2. ASSUME 2 * num >= den, old - new >= 2 PROVE y <= old - 1
        <4>1. den * (new) <= x /\ x <= den * (old - 1)
          BY <2>4, <2>6, <3>2
        <4>2. new \in Int /\ old - 1 \in Int
          OBVIOUS
        <4> QED
          BY <2>1, <4>1, <4>2, QuotientBounds
      <3> QED
        BY <2>6, <3>1, <3>2 DEF Between, Deviation, y
    <2> QED
      BY <2>5, <2>6
  <1> QED
    BY <1>1, <1>2, <1>3

----------------------------------------------------------------------------
(* median_mad_trim()                                                       *)

Deviations(f) == [i \in DOMAIN f |-> Deviation(f[i], Median(f))]
Kept(f) == {i \in DOMAIN f : Within(f[i], Median(f), 3 * Median(Deviations(f)))}
Part(f, K) == [i \in K |-> f[i]]

\* The parts of median_mad_trim are vectors.
LEMMA PartsAreVectors ==
    ASSUME NEW f, IsVector(f), DOMAIN f # {}
    PROVE  /\ Median(f) \in Int /\ Median(Deviations(f)) \in Int
           /\ IsVector(Deviations(f)) /\ DOMAIN Deviations(f) = DOMAIN f
           /\ \A i \in DOMAIN f : Deviations(f)[i] \in Nat
           /\ \A K \in SUBSET DOMAIN f : IsVector(Part(f, K)) /\ DOMAIN Part(f, K) = K
  <1>1. Median(f) \in Int
    BY MedianSplits
  <1>2. \A i \in DOMAIN f : Deviations(f)[i] \in Nat
    BY <1>1 DEF Deviations, Deviation, IsVector
  <1>3. DOMAIN Deviations(f) = DOMAIN f
    BY DEF Deviations
  <1>4. IsVector(Deviations(f))
    BY <1>2, <1>3 DEF IsVector
  <1>5. Median(Deviations(f)) \in Int
    BY <1>3, <1>4, MedianSplits
  <1>6. ASSUME NEW K \in SUBSET DOMAIN f PROVE IsVector(Part(f, K)) /\ DOMAIN Part(f, K) = K
    BY FS_Subset DEF Part, IsVector
  <1> QED
    BY <1>1, <1>2, <1>3, <1>4, <1>5, <1>6

\* Trimming, by its parts.
LEMMA TrimCases ==
    ASSUME NEW f
    PROVE  MedianMadTrim(f) = IF Median(Deviations(f)) = 0 \/ Kept(f) = {} THEN Median(f) ELSE Median(Part(f, Kept(f)))
  BY DEF MedianMadTrim, Deviations, Kept, Part

\* Trimming favours no sign either.
THEOREM TrimIsUnbiased ==
    ASSUME NEW f, IsVector(f), DOMAIN f # {}
    PROVE  MedianMadTrim(Mirror(f)) = -MedianMadTrim(f)
  <1> DEFINE g == Mirror(f)
  <1>1. DOMAIN g = DOMAIN f /\ \A i \in DOMAIN f : f[i] \in Int /\ g[i] \in Int /\ g[i] = -f[i]
    BY DEF Mirror, IsVector
  <1>2. Median(g) = -Median(f) /\ Median(f) \in Int
    BY MedianIsUnbiased, MedianSplits
  <1> HIDE DEF g
  <1>3. Deviations(g) = Deviations(f)
    <2>1. \A i \in DOMAIN f : Deviation(g[i], Median(g)) = Deviation(f[i], Median(f))
      BY <1>1, <1>2 DEF Deviation
    <2> QED
      BY <1>1, <2>1 DEF Deviations
  <1>4. Kept(g) = Kept(f)
    <2>1. \A i \in DOMAIN f : Deviation(g[i], Median(g)) = Deviation(f[i], Median(f))
      BY <1>1, <1>2 DEF Deviation
    <2> QED
      BY <1>1, <1>3, <2>1 DEF Kept, Within
  <1>5. ASSUME Kept(f) # {} PROVE Median(Part(g, Kept(g))) = -Median(Part(f, Kept(f)))
    <2>1. Kept(f) \in SUBSET DOMAIN f
      BY DEF Kept
    <2>2. IsVector(Part(f, Kept(f))) /\ DOMAIN Part(f, Kept(f)) = Kept(f)
      BY <2>1, PartsAreVectors
    <2>3. Part(g, Kept(g)) = Mirror(Part(f, Kept(f)))
      BY <1>1, <1>4, <2>1 DEF Part, Mirror
    <2> QED
      BY <1>5, <2>2, <2>3, MedianIsUnbiased
  <1> QED
    BY <1>2, <1>3, <1>4, <1>5, TrimCases DEF g

\* How high trimming can end: whatever one offset of three or more is, no further
\* above the others than they are apart. An offset that decides alone with one
\* other is among those nearest to the median, which are at least half.
LEMMA TrimIsBounded ==
    ASSUME NEW f, IsVector(f), Size(f) >= 3, NEW k \in DOMAIN f,
           NEW lo \in DOMAIN f \ {k}, NEW hi \in DOMAIN f \ {k},
           \A i \in DOMAIN f \ {k} : f[lo] <= f[i] /\ f[i] <= f[hi]
    PROVE  MedianMadTrim(f) \in Int /\ MedianMadTrim(f) <= f[hi] + (f[hi] - f[lo])
  <1> DEFINE n == Size(f)
             med == Median(f)
             dev == Deviations(f)
             mad == Median(dev)
             bound == f[hi] + (f[hi] - f[lo])
             near == UpTo(dev, mad)
  <1>1. n \in Nat /\ n >= 3 /\ \A i \in DOMAIN f : f[i] \in Int
    BY FS_CardinalityType DEF IsVector, Size
  <1>2. /\ med \in Int /\ mad \in Int /\ IsVector(dev) /\ DOMAIN dev = DOMAIN f /\ Size(dev) = n
        /\ \A i \in DOMAIN f : dev[i] \in Nat
        /\ \A K \in SUBSET DOMAIN f : IsVector(Part(f, K)) /\ DOMAIN Part(f, K) = K
    <2>1. DOMAIN f # {}
      OBVIOUS
    <2>2. /\ med \in Int /\ mad \in Int /\ IsVector(dev) /\ DOMAIN dev = DOMAIN f
          /\ \A i \in DOMAIN f : dev[i] \in Nat
          /\ \A K \in SUBSET DOMAIN f : IsVector(Part(f, K)) /\ DOMAIN Part(f, K) = K
      BY <2>1, PartsAreVectors
    <2>3. Size(dev) = n
      BY <2>2 DEF Size
    <2> QED
      BY <2>2, <2>3
  <1>3. {k} \in SUBSET DOMAIN f /\ Cardinality({k}) = 1 /\ 2 * Cardinality({k}) < n
    <2>1. Cardinality({k}) = 1
      BY FS_Singleton
    <2> QED
      BY <1>1, <2>1
  <1>4. f[lo] <= med /\ med <= f[hi]
    <2>1. Between(med, {f[i] : i \in DOMAIN f \ {k}})
      BY <1>3, MajorityDecides
    <2>2. PICK i \in DOMAIN f \ {k}, j \in DOMAIN f \ {k} : f[i] <= med /\ med <= f[j]
      BY <2>1 DEF Between
    <2> QED
      BY <1>1, <1>2, <2>2
  <1>5. mad <= f[hi] - f[lo]
    <2>1. Between(mad, {dev[i] : i \in DOMAIN f \ {k}})
      BY <1>2, <1>3, MajorityDecides
    <2>2. PICK i \in DOMAIN f \ {k} : mad <= dev[i]
      BY <2>1 DEF Between
    <2>3. dev[i] = Deviation(f[i], med)
      BY DEF Deviations
    <2>4. f[lo] <= f[i] /\ f[i] <= f[hi]
      OBVIOUS
    <2> HIDE DEF med, dev, mad
    <2>5. dev[i] <= f[hi] - f[lo]
      BY <1>1, <1>2, <1>4, <2>3, <2>4 DEF Deviation
    <2> QED
      BY <1>1, <1>2, <2>2, <2>5
  <1>6. /\ near \in SUBSET DOMAIN f /\ Cardinality(near) \in Nat
        /\ 2 * Cardinality(near) >= n
    <2>1. SplitsInHalf(mad, dev)
      BY <1>2, MedianSplits
    <2>2. near \in SUBSET DOMAIN f
      BY <1>2 DEF UpTo
    <2>3. Cardinality(near) \in Nat
      BY <2>2, Counting DEF IsVector
    <2> QED
      BY <1>2, <2>1, <2>2, <2>3 DEF SplitsInHalf, UpTo
  <1> DEFINE kept == Kept(f)
             part == Part(f, kept)
  <1>7. kept \in SUBSET DOMAIN f /\ IsFiniteSet(kept) /\ Cardinality(kept) \in Nat
    BY Counting DEF Kept, IsVector
  <1>8. IsVector(part) /\ DOMAIN part = kept /\ Size(part) = Cardinality(kept) /\ \A i \in kept : part[i] = f[i]
    BY <1>2, <1>7 DEF Part, Size
  <1>9. \A i \in DOMAIN f \ {k} : f[i] <= bound
    BY <1>1
  <1>10. ASSUME kept # {}, NEW B \in SUBSET kept, 2 * Cardinality(B) < Cardinality(kept),
                \A i \in kept \ B : f[i] <= bound
         PROVE  Median(part) \in Int /\ Median(part) <= bound
    <2>1. Median(part) \in Int /\ Between(Median(part), {part[i] : i \in kept \ B})
      BY <1>8, <1>10, MajorityDecides
    <2>2. PICK i \in kept \ B : Median(part) <= part[i]
      BY <2>1 DEF Between
    <2> QED
      BY <1>1, <1>7, <1>8, <1>10, <2>1, <2>2
  <1>11. ASSUME kept # {}, mad # 0 PROVE Median(part) \in Int /\ Median(part) <= bound
    <2>1. CASE k \notin kept
      BY <1>7, <1>8, <1>9, <1>10, <1>11, <2>1, FS_EmptySet
    <2>2. CASE k \in kept /\ Cardinality(kept) >= 3
      <3>1. {k} \in SUBSET kept /\ 2 * Cardinality({k}) < Cardinality(kept)
        BY <1>3, <1>7, <2>2
      <3>2. \A i \in kept \ {k} : f[i] <= bound
        BY <1>7, <1>9
      <3> QED
        BY <1>10, <1>11, <3>1, <3>2
    <2>3. CASE k \in kept /\ Cardinality(kept) < 3
      <3>1. near \in SUBSET kept
        <4>1. ASSUME NEW i \in near PROVE i \in kept
          <5>1. i \in DOMAIN f /\ dev[i] <= mad /\ dev[i] \in Nat /\ dev[i] = Deviation(f[i], med)
            BY <1>2, <4>1 DEF UpTo, Deviations
          <5>2. Deviation(f[i], med) <= 3 * mad
            BY <1>2, <5>1
          <5> QED
            BY <5>1, <5>2 DEF Kept, Within
        <4> QED
          BY <4>1
      <3>2. near # kept => Cardinality(near) < Cardinality(kept)
        BY <1>7, <3>1, Counting
      <3>3. near = kept
        BY <1>1, <1>6, <1>7, <2>3, <3>2
      <3>4. dev[k] <= mad /\ dev[k] = Deviation(f[k], med)
        BY <2>3, <3>3 DEF UpTo, Deviations
      <3>5. f[k] <= bound
        BY <1>1, <1>2, <1>4, <1>5, <3>4 DEF Deviation
      <3>6. \A i \in kept \ {} : f[i] <= bound
        BY <1>7, <1>9, <3>5
      <3>7. {} \in SUBSET kept /\ 2 * Cardinality({}) < Cardinality(kept)
        BY <1>7, <1>11, FS_EmptySet
      <3> QED
        BY <1>10, <1>11, <3>6, <3>7
    <2> QED
      BY <1>7, <2>1, <2>2, <2>3
  <1> HIDE DEF med, dev, mad, bound, near, kept, part
  <1>12. CASE mad = 0 \/ kept = {}
    <2>1. MedianMadTrim(f) = med
      BY <1>12, TrimCases DEF med, dev, mad, kept
    <2> QED
      BY <1>1, <1>2, <1>4, <2>1 DEF bound
  <1>13. CASE ~(mad = 0 \/ kept = {})
    <2>1. MedianMadTrim(f) = Median(part)
      BY <1>13, TrimCases DEF med, dev, mad, kept, part
    <2> QED
      BY <1>11, <1>13, <2>1 DEF bound
  <1> QED
    BY <1>12, <1>13 DEF bound


\* With three samples or more no single one of them moves the trimmed median
\* further out of the range of the others than that range is wide.
THEOREM TrimResists ==
    ASSUME NEW f, IsVector(f), Size(f) >= 3, NEW k \in DOMAIN f
    PROVE  Between(MedianMadTrim(f), Reach(ValuesBut(f, k)))
  <1> DEFINE g == Mirror(f)
             D == DOMAIN f \ {k}
             m == MedianMadTrim(f)
             rest == ValuesBut(f, k)
             S == Reach(rest)
  <1>1. DOMAIN g = DOMAIN f /\ \A i \in DOMAIN f : f[i] \in Int /\ g[i] = -f[i]
    BY DEF Mirror, IsVector
  <1>2. IsVector(g) /\ Size(g) = Size(f)
    BY <1>1 DEF IsVector, Size
  <1>3. D \in SUBSET DOMAIN f /\ D # {}
    <2>1. Cardinality({k}) = 1
      BY FS_Singleton
    <2>2. DOMAIN f # {k}
      BY <2>1 DEF Size
    <2> QED
      BY <2>2
  <1>4. PICK hi \in D : \A i \in D : f[i] <= f[hi]
    BY <1>3, Greatest
  <1>5. PICK lo \in D : \A i \in D : g[i] <= g[lo]
    BY <1>1, <1>2, <1>3, Greatest
  <1>6. \A i \in D : f[lo] <= f[i]
    BY <1>1, <1>5
  <1>7. m \in Int /\ m <= f[hi] + (f[hi] - f[lo])
    BY <1>4, <1>6, TrimIsBounded
  <1>8. MedianMadTrim(g) <= g[lo] + (g[lo] - g[hi])
    <2>1. \A i \in DOMAIN g \ {k} : g[hi] <= g[i] /\ g[i] <= g[lo]
      BY <1>1, <1>4, <1>6
    <2> HIDE DEF g
    <2> QED
      BY <1>1, <1>2, <2>1, TrimIsBounded
  <1>9. MedianMadTrim(g) = -m
    BY TrimIsUnbiased
  <1> HIDE DEF g, m
  <1>10. 2 * f[lo] - f[hi] <= m /\ m <= 2 * f[hi] - f[lo]
    BY <1>1, <1>7, <1>8, <1>9
  <1>11. 2 * f[lo] - f[hi] \in S /\ 2 * f[hi] - f[lo] \in S
    <2>1. f[lo] \in rest /\ f[hi] \in rest
      BY DEF ValuesBut
    <2> HIDE DEF rest
    <2> QED
      BY <2>1 DEF Reach
  <1> QED
    BY <1>10, <1>11 DEF Between, m


----------------------------------------------------------------------------
(* best_delay_offset()                                                     *)

AnySample == [offset : Int, delay : Int, max_delay : Int, is_ok : BOOLEAN]

\* The sample kept after the n-th, if g tells those kept before.
KeptNext(s, g, n) ==
    IF IsValid(s[n]) /\ (g[n - 1] = 0 \/ Replaces(s[n], s[g[n - 1]])) THEN n ELSE g[n - 1]

\* The loop of best_delay_offset() up to the m-th sample.
IsLoop(s, g, m) == g = [n \in 0 .. m |-> IF n = 0 THEN 0 ELSE KeptNext(s, g, n)]

\* A set of numbers that is not empty has a least element.
LEMMA Least ==
    ASSUME NEW T \in SUBSET Nat, T # {}
    PROVE  \E x \in T : \A y \in T : x <= y
  <1>1. PICK x \in T : \A y \in T : <<y, x>> \notin OpToRel(<, Nat)
    BY NatLessThanWellFounded, WFMin
  <1>2. ASSUME NEW y \in T, y < x PROVE FALSE
    BY <1>1, <1>2 DEF OpToRel
  <1> QED
    BY <1>2

\* The loop can be run to the end: its shortest prefix that cannot be run would
\* be one step longer than one that can.
LEMMA LoopExists ==
    ASSUME NEW s, NEW m \in Nat
    PROVE  \E g : IsLoop(s, g, m)
  <1> DEFINE Stuck == {n \in Nat : ~\E g : IsLoop(s, g, n)}
  <1> SUFFICES ASSUME Stuck # {} PROVE FALSE
    OBVIOUS
  <1>1. PICK x \in Stuck : \A y \in Stuck : x <= y
    BY Least
  <1>2. x # 0
    <2>1. IsLoop(s, [n \in 0 .. 0 |-> 0], 0)
      BY DEF IsLoop
    <2> QED
      BY <1>1, <2>1
  <1>3. x - 1 \in Nat /\ x - 1 \notin Stuck
    BY <1>1, <1>2
  <1>4. PICK h : IsLoop(s, h, x - 1)
    BY <1>3
  <1> DEFINE g == [n \in 0 .. x |-> IF n = x THEN KeptNext(s, h, x) ELSE h[n]]
  <1>5. ASSUME NEW n \in 0 .. x PROVE g[n] = IF n = 0 THEN 0 ELSE KeptNext(s, g, n)
    <2>1. CASE n = x
      <3>1. g[n] = KeptNext(s, h, x) /\ n # 0 /\ g[x - 1] = h[x - 1]
        BY <1>1, <1>2, <1>3, <2>1
      <3> QED
        BY <2>1, <3>1 DEF KeptNext
    <2>2. CASE n # x
      <3>1. n \in 0 .. x - 1 /\ g[n] = h[n]
        BY <1>1, <2>2
      <3>2. h[n] = IF n = 0 THEN 0 ELSE KeptNext(s, h, n)
        BY <1>4, <3>1 DEF IsLoop
      <3>3. n # 0 => g[n - 1] = h[n - 1]
        BY <1>1, <3>1
      <3> QED
        BY <3>1, <3>2, <3>3 DEF KeptNext
    <2> QED
      BY <2>1, <2>2
  <1>6. IsLoop(s, g, x)
    BY <1>5 DEF IsLoop
  <1> QED
    BY <1>1, <1>6

\* What best_delay_offset() returns, by its loop.
LEMMA BestByLoop ==
    ASSUME NEW s, Len(s) \in Nat
    PROVE  \E g : /\ IsLoop(s, g, Len(s))
                  /\ BestDelayOffset(s) = IF g[Len(s)] = 0 THEN 0 ELSE s[g[Len(s)]].offset
  <1> DEFINE best == CHOOSE g : IsLoop(s, g, Len(s))
  <1>1. IsLoop(s, best, Len(s))
    BY LoopExists
  <1>2. BestDelayOffset(s) = IF best[Len(s)] = 0 THEN 0 ELSE s[best[Len(s)]].offset
    BY DEF BestDelayOffset, IsLoop, KeptNext
  <1> QED
    BY <1>1, <1>2


\* The samples of a measurement.
LEMMA SamplesAreTyped ==
    ASSUME NEW s \in Seq(AnySample)
    PROVE  /\ Len(s) \in Nat /\ Valid(s) \in SUBSET (1 .. Len(s))
           /\ \A i \in 1 .. Len(s) : s[i].delay \in Int /\ s[i].offset \in Int /\ (i \in Valid(s) <=> IsValid(s[i]))
  <1>1. Len(s) \in Nat /\ \A i \in 1 .. Len(s) : s[i] \in AnySample
    OBVIOUS
  <1>2. \A i \in 1 .. Len(s) : s[i].delay \in Int /\ s[i].offset \in Int
    BY <1>1 DEF AnySample
  <1>3. \A i \in 1 .. Len(s) : i \in Valid(s) <=> IsValid(s[i])
    BY DEF Valid, Indices
  <1>4. Valid(s) \in SUBSET (1 .. Len(s))
    BY DEF Valid, Indices
  <1> QED
    BY <1>1, <1>2, <1>3, <1>4

\* What the loop has kept after n samples: nothing as long as none was valid,
\* and then a valid one, and with positive delays none of the others was faster.
Delayed(s) == \A j \in Valid(s) : s[j].delay > 0

KeptSoFar(s, g, n) ==
    /\ g[n] \in 0 .. n
    /\ g[n] = 0 <=> \A j \in Valid(s) : j > n
    /\ g[n] # 0 => g[n] \in Valid(s) /\ (Delayed(s) => \A j \in Valid(s) : j <= n => s[g[n]].delay <= s[j].delay)

LEMMA KeptIsFastest ==
    ASSUME NEW s \in Seq(AnySample), NEW g, IsLoop(s, g, Len(s))
    PROVE  \A n \in 0 .. Len(s) : KeptSoFar(s, g, n)
  <1> DEFINE Wrong == {n \in 0 .. Len(s) : ~KeptSoFar(s, g, n)}
  <1> SUFFICES ASSUME Wrong # {} PROVE FALSE
    OBVIOUS
  <1>1. /\ Len(s) \in Nat /\ Valid(s) \in SUBSET (1 .. Len(s))
        /\ \A i \in 1 .. Len(s) : s[i].delay \in Int /\ (i \in Valid(s) <=> IsValid(s[i]))
    BY SamplesAreTyped
  <1>2. Wrong \in SUBSET Nat
    BY <1>1
  <1>3. PICK x \in Wrong : \A y \in Wrong : x <= y
    BY <1>2, Least
  <1>4. g[x] = IF x = 0 THEN 0 ELSE KeptNext(s, g, x)
    BY <1>3 DEF IsLoop
  <1>5. CASE x = 0
    <2>1. \A j \in Valid(s) : j > 0
      BY <1>1
    <2>2. KeptSoFar(s, g, 0)
      BY <1>4, <1>5, <2>1 DEF KeptSoFar
    <2> QED
      BY <1>3, <1>5, <2>2
  <1>6. CASE x # 0
    <2> DEFINE p == x - 1
    <2>1. x \in 1 .. Len(s) /\ p \in 0 .. Len(s) /\ p \notin Wrong
      BY <1>1, <1>3, <1>6
    <2>2. KeptSoFar(s, g, p)
      BY <2>1
    <2>3. g[x] = IF x \in Valid(s) /\ (g[p] = 0 \/ Replaces(s[x], s[g[p]])) THEN x ELSE g[p]
      BY <1>1, <1>4, <1>6, <2>1 DEF KeptNext
    <2>4. \A j \in Valid(s) : j <= x <=> (j <= p \/ j = x)
      BY <1>1, <2>1
    <2>5. \A j \in Valid(s) : j > x <=> (j > p /\ j # x)
      BY <1>1, <2>1
    <2>6. g[p] # 0 => /\ g[p] \in Valid(s) /\ s[g[p]].delay \in Int
                      /\ Delayed(s) => \A j \in Valid(s) : j <= p => s[g[p]].delay <= s[j].delay
      BY <1>1, <2>2 DEF KeptSoFar
    <2>7. g[p] \in 0 .. p /\ (g[p] = 0 <=> \A j \in Valid(s) : j > p)
      BY <2>2 DEF KeptSoFar
    <2>8. x \in Valid(s) => s[x].delay \in Int
      BY <1>1
    <2> HIDE DEF p
    <2>9. KeptSoFar(s, g, x)
      <3>1. CASE x \in Valid(s) /\ (g[p] = 0 \/ Replaces(s[x], s[g[p]]))
        <4>1. g[x] = x
          BY <2>3, <3>1
        <4>2. ASSUME Delayed(s), NEW j \in Valid(s), j <= x PROVE s[x].delay <= s[j].delay
          <5>1. j = x \/ (j <= p /\ g[p] # 0)
            BY <1>1, <2>4, <2>7, <4>2, <2>1 DEF p
          <5> QED
            BY <1>1, <4>2, <2>6, <2>8, <3>1, <5>1 DEF Replaces
        <4> QED
          BY <1>1, <2>1, <3>1, <4>1, <4>2 DEF KeptSoFar
      <3>2. CASE x \notin Valid(s)
        <4>1. g[x] = g[p] /\ g[x] \in 0 .. x
          BY <2>1, <2>3, <2>7, <3>2 DEF p
        <4>2. g[x] = 0 <=> \A j \in Valid(s) : j > x
          BY <2>5, <2>7, <3>2, <4>1
        <4>3. g[x] # 0 => g[x] \in Valid(s) /\ (Delayed(s) => \A j \in Valid(s) : j <= x => s[g[x]].delay <= s[j].delay)
          BY <2>4, <2>6, <3>2, <4>1
        <4> QED
          BY <4>1, <4>2, <4>3 DEF KeptSoFar
      <3>3. CASE x \in Valid(s) /\ g[p] # 0 /\ ~Replaces(s[x], s[g[p]])
        <4>1. g[x] = g[p] /\ g[x] \in 0 .. x /\ g[x] # 0
          BY <2>1, <2>3, <2>7, <3>3 DEF p
        <4>2. ~\A j \in Valid(s) : j > x
          BY <1>1, <2>1, <3>3
        <4>3. Delayed(s) => s[g[x]].delay <= s[x].delay
          BY <2>6, <2>8, <3>3, <4>1 DEF Replaces, Delayed
        <4>4. Delayed(s) => \A j \in Valid(s) : j <= x => s[g[x]].delay <= s[j].delay
          BY <2>4, <2>6, <3>3, <4>1, <4>3
        <4> QED
          BY <2>6, <3>3, <4>1, <4>2, <4>4 DEF KeptSoFar
      <3> QED
        BY <3>1, <3>2, <3>3
    <2> QED
      BY <1>3, <2>9
  <1> QED
    BY <1>5, <1>6


\* best_delay_offset() returns the offset of a valid sample, and with positive
\* delays no valid sample was faster.
THEOREM FastestDecides ==
    ASSUME NEW s \in Seq(AnySample), Valid(s) # {}
    PROVE  \E i \in Valid(s) : /\ s[i].offset = BestDelayOffset(s)
                               /\ Delayed(s) => \A j \in Valid(s) : s[i].delay <= s[j].delay
  <1>1. Len(s) \in Nat /\ Valid(s) \in SUBSET (1 .. Len(s))
    BY SamplesAreTyped
  <1>2. PICK g : /\ IsLoop(s, g, Len(s))
                 /\ BestDelayOffset(s) = IF g[Len(s)] = 0 THEN 0 ELSE s[g[Len(s)]].offset
    BY <1>1, BestByLoop
  <1>3. KeptSoFar(s, g, Len(s))
    BY <1>1, <1>2, KeptIsFastest
  <1>4. g[Len(s)] # 0
    BY <1>1, <1>3 DEF KeptSoFar
  <1> QED
    BY <1>1, <1>2, <1>3, <1>4 DEF KeptSoFar


----------------------------------------------------------------------------
(* The place of an offset does not matter                                  *)

\* g has the values of f in other places.
Moved(f, g, h) ==
    /\ IsVector(f) /\ IsVector(g)
    /\ h \in Bijection(DOMAIN f, DOMAIN g) /\ \A i \in DOMAIN f : g[h[i]] = f[i]

\* Each place is moved to one of its own, none is left over, and a part of f
\* has as many places as what it is moved to.
LEMMA MovedPlaces ==
    ASSUME NEW f, NEW g, NEW h, Moved(f, g, h)
    PROVE  /\ h \in [DOMAIN f -> DOMAIN g] /\ \A t \in DOMAIN g : \E a \in DOMAIN f : h[a] = t
           /\ \A A \in SUBSET DOMAIN f : Cardinality({h[a] : a \in A}) = Cardinality(A)
           /\ \A A \in SUBSET DOMAIN f : [a \in A |-> h[a]] \in Bijection(A, {h[a] : a \in A})
  <1>1. h \in Bijection(DOMAIN f, DOMAIN g) /\ IsFiniteSet(DOMAIN f)
    BY DEF Moved, IsVector
  <1>2. /\ h \in [DOMAIN f -> DOMAIN g] /\ \A t \in DOMAIN g : \E a \in DOMAIN f : h[a] = t
        /\ \A a, b \in DOMAIN f : h[a] = h[b] => a = b
    BY <1>1, Fun_BijectionProperties
  <1>3. ASSUME NEW A \in SUBSET DOMAIN f
        PROVE  /\ Cardinality({h[a] : a \in A}) = Cardinality(A)
               /\ [a \in A |-> h[a]] \in Bijection(A, {h[a] : a \in A})
    <2> DEFINE B == {h[a] : a \in A}
               F == [a \in A |-> h[a]]
    <2>1. F \in [A -> B] /\ (\A a, b \in A : F[a] = F[b] => a = b) /\ (\A t \in B : \E a \in A : F[a] = t)
      BY <1>2
    <2> HIDE DEF B, F
    <2>2. F \in Bijection(A, B)
      BY <2>1, Fun_IsBij
    <2>3. IsFiniteSet(A) /\ ExistsBijection(A, B)
      BY <1>1, <2>2, FS_Subset DEF ExistsBijection
    <2>4. Cardinality(B) = Cardinality(A)
      BY <2>3, FS_Bijection
    <2> QED
      BY <2>2, <2>4 DEF B, F
  <1> QED
    BY <1>2, <1>3

\* The ranks of values are those of the moved values.
LEMMA MovedRanks ==
    ASSUME NEW f, NEW g, NEW h, Moved(f, g, h)
    PROVE  /\ Size(g) = Size(f)
           /\ \A v, k : IsNth(v, g, k) <=> IsNth(v, f, k)
  <1>1. /\ h \in [DOMAIN f -> DOMAIN g] /\ \A t \in DOMAIN g : \E a \in DOMAIN f : h[a] = t
        /\ \A i \in DOMAIN f : g[h[i]] = f[i]
        /\ \A A \in SUBSET DOMAIN f : Cardinality({h[a] : a \in A}) = Cardinality(A)
    BY MovedPlaces DEF Moved
  <1>2. Size(g) = Size(f)
    <2>1. {h[a] : a \in DOMAIN f} = DOMAIN g
      BY <1>1
    <2> QED
      BY <1>1, <2>1 DEF Size
  <1>3. ASSUME NEW v
        PROVE  Cardinality(Below(g, v)) = Cardinality(Below(f, v)) /\ Cardinality(UpTo(g, v)) = Cardinality(UpTo(f, v))
    <2>1. Below(g, v) = {h[a] : a \in Below(f, v)} /\ Below(f, v) \in SUBSET DOMAIN f
      BY <1>1 DEF Below
    <2>2. UpTo(g, v) = {h[a] : a \in UpTo(f, v)} /\ UpTo(f, v) \in SUBSET DOMAIN f
      BY <1>1 DEF UpTo
    <2>3. Cardinality(Below(g, v)) = Cardinality(Below(f, v))
      BY <1>1, <2>1
    <2>4. Cardinality(UpTo(g, v)) = Cardinality(UpTo(f, v))
      BY <1>1, <2>2
    <2> QED
      BY <2>3, <2>4
  <1>4. ASSUME NEW v, NEW k PROVE IsNth(v, g, k) <=> IsNth(v, f, k)
    BY <1>3 DEF IsNth, Below, UpTo
  <1> QED
    BY <1>2, <1>4

\* So the element of a rank is the same,
LEMMA MovedNth ==
    ASSUME NEW f, NEW g, NEW h, Moved(f, g, h), NEW k \in Nat, k < Size(f)
    PROVE  NthElement(g, k) = NthElement(f, k)
  <1>1. IsVector(f) /\ IsVector(g)
    BY DEF Moved
  <1>2. NthElement(f, k) \in Int /\ IsNth(NthElement(f, k), f, k)
    BY <1>1, NthElementIsNth
  <1>3. NthElement(g, k) \in Int /\ IsNth(NthElement(g, k), g, k)
    BY <1>1, MovedRanks, NthElementIsNth
  <1> QED
    BY <1>1, <1>2, <1>3, MovedRanks, NthIsUnique

\* and the median.
LEMMA MovedMedian ==
    ASSUME NEW f, NEW g, NEW h, Moved(f, g, h), DOMAIN f # {}
    PROVE  Median(g) = Median(f)
  <1> DEFINE mid == Size(f) \div 2
  <1>1. IsVector(f) /\ Size(g) = Size(f)
    BY MovedRanks DEF Moved
  <1>2. /\ Size(f) \in Nat /\ mid \in Nat /\ mid < Size(f)
        /\ \/ Size(f) % 2 = 1
           \/ Size(f) % 2 = 0 /\ mid - 1 \in Nat /\ mid - 1 < Size(f)
    BY <1>1, MiddleRanks
  <1>3. NthElement(g, mid) = NthElement(f, mid)
    BY <1>2, MovedNth
  <1>4. Size(f) % 2 = 0 => NthElement(g, mid - 1) = NthElement(f, mid - 1)
    BY <1>2, MovedNth
  <1> QED
    BY <1>1, <1>2, <1>3, <1>4 DEF Median

\* Trimming depends on the values alone, too.
LEMMA MovedTrim ==
    ASSUME NEW f, NEW g, NEW h, Moved(f, g, h), DOMAIN f # {}
    PROVE  MedianMadTrim(g) = MedianMadTrim(f)
  <1>1. /\ IsVector(f) /\ IsVector(g) /\ DOMAIN g # {} /\ h \in [DOMAIN f -> DOMAIN g]
        /\ (\A i \in DOMAIN f : g[h[i]] = f[i]) /\ (\A t \in DOMAIN g : \E a \in DOMAIN f : h[a] = t)
        /\ h \in Bijection(DOMAIN f, DOMAIN g) /\ IsFiniteSet(DOMAIN f)
    BY MovedPlaces DEF Moved, IsVector
  <1>2. Median(g) = Median(f)
    BY MovedMedian
  <1>3. Median(Deviations(g)) = Median(Deviations(f))
    <2>1. /\ IsVector(Deviations(f)) /\ DOMAIN Deviations(f) = DOMAIN f
          /\ IsVector(Deviations(g)) /\ DOMAIN Deviations(g) = DOMAIN g
      BY <1>1, PartsAreVectors
    <2>2. \A i \in DOMAIN f : Deviations(g)[h[i]] = Deviations(f)[i]
      BY <1>1, <1>2 DEF Deviations
    <2>3. Moved(Deviations(f), Deviations(g), h)
      BY <1>1, <2>1, <2>2 DEF Moved
    <2> QED
      BY <2>1, <2>3, MovedMedian
  <1>4. /\ Kept(f) \in SUBSET DOMAIN f /\ Kept(g) \in SUBSET DOMAIN g
        /\ Kept(g) = {h[a] : a \in Kept(f)}
    BY <1>1, <1>2, <1>3 DEF Kept
  <1>5. Kept(g) = {} <=> Kept(f) = {}
    BY <1>4
  <1>6. ASSUME Kept(f) # {} PROVE Median(Part(g, Kept(g))) = Median(Part(f, Kept(f)))
    <2> DEFINE F == [a \in Kept(f) |-> h[a]]
    <2>1. /\ IsVector(Part(f, Kept(f))) /\ DOMAIN Part(f, Kept(f)) = Kept(f)
          /\ IsVector(Part(g, Kept(g))) /\ DOMAIN Part(g, Kept(g)) = Kept(g)
      BY <1>1, <1>4, PartsAreVectors
    <2>2. F \in Bijection(Kept(f), Kept(g))
      BY <1>4, MovedPlaces
    <2>3. \A i \in Kept(f) : Part(g, Kept(g))[F[i]] = Part(f, Kept(f))[i]
      BY <1>1, <1>4 DEF Part
    <2>4. Moved(Part(f, Kept(f)), Part(g, Kept(g)), F)
      BY <2>1, <2>2, <2>3 DEF Moved
    <2> QED
      BY <1>6, <2>1, <2>4, MovedMedian
  <1> QED
    BY <1>2, <1>3, <1>5, <1>6, TrimCases


----------------------------------------------------------------------------
(* Late and failed answers do not matter                                   *)

\* t has the valid samples of s, and no others, in the same order.
Filtered(s, t, h) ==
    /\ s \in Seq(AnySample) /\ t \in Seq(AnySample) /\ Valid(t) = Indices(t)
    /\ h \in Bijection(Valid(s), Indices(t))
    /\ \A i, j \in Valid(s) : i < j => h[i] < h[j]
    /\ \A i \in Valid(s) : t[h[i]] = s[i]

\* How the samples of t are numbered.
LEMMA FilteredPlaces ==
    ASSUME NEW s, NEW t, NEW h, Filtered(s, t, h)
    PROVE  /\ Len(s) \in Nat /\ Len(t) \in Nat /\ Valid(s) \in SUBSET (1 .. Len(s)) /\ Valid(t) = 1 .. Len(t)
           /\ \A i \in Valid(s) : h[i] \in 1 .. Len(t) /\ t[h[i]] = s[i]
           /\ \A r \in 1 .. Len(t) : \E i \in Valid(s) : h[i] = r
           /\ \A i, j \in Valid(s) : h[i] <= h[j] => i <= j
  <1>1. s \in Seq(AnySample) /\ t \in Seq(AnySample) /\ Valid(t) = Indices(t)
    BY DEF Filtered
  <1>2. Len(s) \in Nat /\ Len(t) \in Nat /\ Valid(s) \in SUBSET (1 .. Len(s)) /\ Valid(t) = 1 .. Len(t)
    BY <1>1, SamplesAreTyped DEF Indices
  <1>3. h \in [Valid(s) -> Valid(t)] /\ \A r \in Valid(t) : \E i \in Valid(s) : h[i] = r
    BY <1>1, Fun_BijectionProperties DEF Filtered
  <1>4. \A i, j \in Valid(s) : h[i] <= h[j] => i <= j
    <2> SUFFICES ASSUME NEW i \in Valid(s), NEW j \in Valid(s), h[i] <= h[j], j < i PROVE FALSE
      BY <1>2
    <2>1. h[j] < h[i]
      BY DEF Filtered
    <2> QED
      BY <1>2, <1>3, <2>1
  <1> QED
    BY <1>2, <1>3, <1>4 DEF Filtered

\* The loop over s has kept after n samples what the loop over t has after the r
\* valid ones of them.
InStep(s, t, h, g, k, n, r) ==
    /\ r \in 0 .. Len(t) /\ \A j \in Valid(s) : j <= n <=> h[j] <= r
    /\ \/ g[n] = 0 /\ k[r] = 0
       \/ g[n] \in Valid(s) /\ k[r] = h[g[n]]

LEMMA LoopsInStep ==
    ASSUME NEW s, NEW t, NEW h, Filtered(s, t, h),
           NEW g, IsLoop(s, g, Len(s)), NEW k, IsLoop(t, k, Len(t))
    PROVE  \A n \in 0 .. Len(s) : \E r : InStep(s, t, h, g, k, n, r)
  <1> DEFINE Wrong == {n \in 0 .. Len(s) : ~\E r : InStep(s, t, h, g, k, n, r)}
  <1> SUFFICES ASSUME Wrong # {} PROVE FALSE
    OBVIOUS
  <1>1. /\ Len(s) \in Nat /\ Len(t) \in Nat /\ Valid(s) \in SUBSET (1 .. Len(s)) /\ Valid(t) = 1 .. Len(t)
        /\ \A i \in Valid(s) : h[i] \in 1 .. Len(t) /\ t[h[i]] = s[i]
        /\ \A r \in 1 .. Len(t) : \E i \in Valid(s) : h[i] = r
        /\ \A i, j \in Valid(s) : h[i] <= h[j] => i <= j
    BY FilteredPlaces
  <1>2. /\ \A i \in 1 .. Len(s) : i \in Valid(s) <=> IsValid(s[i])
        /\ \A i \in 1 .. Len(t) : i \in Valid(t) <=> IsValid(t[i])
    BY SamplesAreTyped DEF Filtered
  <1>3. Wrong \in SUBSET Nat
    BY <1>1
  <1>4. PICK x \in Wrong : \A y \in Wrong : x <= y
    BY <1>3, Least
  <1>5. /\ g[x] = IF x = 0 THEN 0 ELSE KeptNext(s, g, x)
        /\ \A r \in 0 .. Len(t) : k[r] = IF r = 0 THEN 0 ELSE KeptNext(t, k, r)
    BY <1>4 DEF IsLoop
  <1>6. CASE x = 0
    <2>1. \A j \in Valid(s) : j <= x <=> h[j] <= 0
      BY <1>1, <1>6
    <2>2. InStep(s, t, h, g, k, x, 0)
      BY <1>1, <1>5, <1>6, <2>1 DEF InStep
    <2> QED
      BY <1>4, <2>2
  <1>7. CASE x # 0
    <2> DEFINE p == x - 1
    <2>1. x \in 1 .. Len(s) /\ p \in 0 .. Len(s) /\ p \notin Wrong
      BY <1>1, <1>4, <1>7
    <2>2. PICK r : InStep(s, t, h, g, k, p, r)
      BY <2>1
    <2>3. r \in 0 .. Len(t) /\ \A j \in Valid(s) : j <= p <=> h[j] <= r
      BY <2>2 DEF InStep
    <2>4. (g[p] = 0 /\ k[r] = 0) \/ (g[p] \in Valid(s) /\ k[r] = h[g[p]])
      BY <2>2 DEF InStep
    <2>5. g[x] = IF x \in Valid(s) /\ (g[p] = 0 \/ Replaces(s[x], s[g[p]])) THEN x ELSE g[p]
      BY <1>2, <1>5, <1>7, <2>1 DEF KeptNext
    <2>6. \A j \in Valid(s) : j <= x <=> (j <= p \/ j = x)
      BY <1>1, <2>1
    <2>7. CASE x \notin Valid(s)
      <3>1. g[x] = g[p] /\ \A j \in Valid(s) : j <= x <=> h[j] <= r
        BY <2>3, <2>5, <2>6, <2>7
      <3>2. InStep(s, t, h, g, k, x, r)
        BY <2>3, <2>4, <3>1 DEF InStep
      <3> QED
        BY <1>4, <3>2
    <2>8. CASE x \in Valid(s)
      <3> DEFINE q == h[x]
      <3>1. q \in 1 .. Len(t) /\ q > r /\ t[q] = s[x]
        BY <1>1, <2>1, <2>3, <2>8
      <3>2. q = r + 1
        <4> SUFFICES ASSUME q > r + 1 PROVE FALSE
          BY <2>3, <3>1
        <4>1. PICK i \in Valid(s) : h[i] = r + 1
          BY <1>1, <2>3, <3>1, SMTT(30)
        <4>2. i <= x /\ i # x /\ ~(i <= p)
          BY <1>1, <2>3, <2>8, <3>1, <4>1
        <4> QED
          BY <1>1, <2>1, <4>2
      <3> HIDE DEF q
      <3>3. k[q] = IF k[r] = 0 \/ Replaces(t[q], t[k[r]]) THEN q ELSE k[r]
        <4>1. q # 0 /\ q - 1 = r /\ q \in 0 .. Len(t) /\ IsValid(t[q])
          BY <1>1, <1>2, <2>3, <3>1, <3>2
        <4> QED
          BY <1>5, <4>1 DEF KeptNext
      <3>4. k[r] # 0 => g[p] # 0 /\ k[r] = h[g[p]] /\ t[k[r]] = s[g[p]]
        BY <1>1, <2>4
      <3>5. \A j \in Valid(s) : j <= x <=> h[j] <= q
        BY <1>1, <2>3, <2>6, <2>8, <3>1, <3>2 DEF q
      <3>6. (g[p] = 0 <=> k[r] = 0)
        BY <1>1, <2>4
      <3>7. (g[x] = x /\ k[q] = q) \/ (g[x] = g[p] /\ k[q] = k[r] /\ k[r] # 0)
        BY <2>5, <2>8, <3>1, <3>3, <3>4, <3>6
      <3>8. InStep(s, t, h, g, k, x, q)
        BY <2>4, <2>8, <3>1, <3>5, <3>7 DEF InStep, q
      <3> QED
        BY <1>4, <3>8
    <2> QED
      BY <2>7, <2>8
  <1> QED
    BY <1>6, <1>7


\* Indices are finitely many.
LEMMA PartOfInterval ==
    ASSUME NEW n \in Nat, NEW S \in SUBSET (1 .. n)
    PROVE  IsFiniteSet(S) /\ Cardinality(S) \in Nat
  <1>1. IsFiniteSet(1 .. n)
    BY FS_Interval
  <1>2. IsFiniteSet(S)
    BY <1>1, FS_Subset
  <1> QED
    BY <1>2, FS_CardinalityType

\* The estimate is made of the valid samples alone, with each strategy.
LEMMA FilteredEstimate ==
    ASSUME NEW s, NEW t, NEW h, Filtered(s, t, h), Valid(s) # {}, NEW kind
    PROVE  Estimate(kind, t) = Estimate(kind, s)
  <1>1. /\ Len(s) \in Nat /\ Len(t) \in Nat /\ Valid(s) \in SUBSET (1 .. Len(s)) /\ Valid(t) = 1 .. Len(t)
        /\ \A i \in Valid(s) : h[i] \in 1 .. Len(t) /\ t[h[i]] = s[i]
        /\ \A r \in 1 .. Len(t) : \E i \in Valid(s) : h[i] = r
    BY FilteredPlaces
  <1>2. Moved(Offsets(s), Offsets(t), h) /\ DOMAIN Offsets(s) # {}
    <2>1. DOMAIN Offsets(s) = Valid(s) /\ DOMAIN Offsets(t) = Valid(t) /\ h \in Bijection(Valid(s), Valid(t))
      BY DEF Offsets, Filtered
    <2>2. IsVector(Offsets(s)) /\ IsVector(Offsets(t))
      <3>1. s \in Seq(AnySample) /\ t \in Seq(AnySample)
        BY DEF Filtered
      <3>2. IsFiniteSet(Valid(s)) /\ IsFiniteSet(Valid(t))
        <4>1. Valid(t) \in SUBSET (1 .. Len(t))
          BY <1>1
        <4> QED
          BY <1>1, <4>1, PartOfInterval
      <3>3. (\A i \in Valid(s) : Offsets(s)[i] \in Int) /\ (\A i \in Valid(t) : Offsets(t)[i] \in Int)
        BY <1>1, <3>1, SamplesAreTyped DEF Offsets
      <3> QED
        BY <2>1, <3>2, <3>3 DEF IsVector
    <2>3. \A i \in Valid(s) : Offsets(t)[h[i]] = Offsets(s)[i]
      BY <1>1 DEF Offsets
    <2> QED
      BY <2>1, <2>2, <2>3 DEF Moved
  <1>3. Median(Offsets(t)) = Median(Offsets(s)) /\ MedianMadTrim(Offsets(t)) = MedianMadTrim(Offsets(s))
    BY <1>2, MovedMedian, MovedTrim
  <1>4. BestDelayOffset(t) = BestDelayOffset(s)
    <2>1. PICK g : /\ IsLoop(s, g, Len(s))
                   /\ BestDelayOffset(s) = IF g[Len(s)] = 0 THEN 0 ELSE s[g[Len(s)]].offset
      BY <1>1, BestByLoop
    <2>2. PICK k : /\ IsLoop(t, k, Len(t))
                   /\ BestDelayOffset(t) = IF k[Len(t)] = 0 THEN 0 ELSE t[k[Len(t)]].offset
      BY <1>1, BestByLoop
    <2>3. PICK r : InStep(s, t, h, g, k, Len(s), r)
      BY <1>1, <2>1, <2>2, LoopsInStep
    <2>4. r = Len(t)
      <3>1. PICK i \in Valid(s) : h[i] = Len(t)
        BY <1>1
      <3> QED
        BY <1>1, <2>3, <3>1 DEF InStep
    <2>5. \/ g[Len(s)] = 0 /\ k[Len(t)] = 0
          \/ g[Len(s)] \in Valid(s) /\ k[Len(t)] = h[g[Len(s)]]
      BY <2>3, <2>4 DEF InStep
    <2> QED
      BY <1>1, <2>1, <2>2, <2>5
  <1> QED
    BY <1>3, <1>4 DEF Estimate

Ranking(S) == [i \in S |-> Rank(i, S)]

\* Ranks number the elements of a set in their order, leaving none out: they are
\* distinct and as many as there are numbers.
LEMMA Ranks ==
    ASSUME NEW n \in Nat, NEW S \in SUBSET (1 .. n)
    PROVE  /\ Cardinality(S) \in Nat /\ Ranking(S) \in Bijection(S, 1 .. Cardinality(S))
           /\ \A i, j \in S : i < j => Ranking(S)[i] < Ranking(S)[j]
           /\ Ranking(S) \in [S -> 1 .. Cardinality(S)] /\ (\A i, j \in S : Ranking(S)[i] = Ranking(S)[j] => i = j)
           /\ \A r \in 1 .. Cardinality(S) : \E i \in S : Ranking(S)[i] = r
  <1> DEFINE h == Ranking(S)
             To(i) == {j \in S : j <= i}
  <1>1. IsFiniteSet(S) /\ Cardinality(S) \in Nat
    BY PartOfInterval
  <1>2. ASSUME NEW i \in S PROVE h[i] \in 1 .. Cardinality(S)
    <2>1. To(i) \in SUBSET S /\ {i} \in SUBSET To(i)
      BY <1>2
    <2>2. Cardinality(To(i)) \in Nat /\ Cardinality(To(i)) <= Cardinality(S)
      BY <1>1, <2>1, Counting
    <2>3. Cardinality({i}) <= Cardinality(To(i)) /\ Cardinality({i}) = 1
      BY <1>1, <2>1, Counting, FS_Singleton
    <2> QED
      BY <1>1, <2>2, <2>3 DEF Rank, Ranking
  <1>3. ASSUME NEW i \in S, NEW j \in S, i < j PROVE h[i] < h[j]
    <2>1. To(i) \in SUBSET To(j) /\ To(i) # To(j) /\ To(j) \in SUBSET S
      <3>1. j \in To(j) /\ j \notin To(i)
        BY <1>3
      <3>2. \A x \in S : x <= i => x <= j
        BY <1>3
      <3> QED
        BY <3>1, <3>2
    <2> HIDE DEF To
    <2>2. Cardinality(To(i)) < Cardinality(To(j))
      BY <1>1, <2>1, Counting
    <2> QED
      BY <2>2 DEF Rank, Ranking, To
  <1>4. h \in [S -> 1 .. Cardinality(S)] /\ \A i, j \in S : h[i] = h[j] => i = j
    <2>1. h \in [S -> 1 .. Cardinality(S)]
      BY <1>2 DEF Ranking
    <2>2. ASSUME NEW i \in S, NEW j \in S, h[i] = h[j], i # j PROVE FALSE
      <3>1. i < j \/ j < i
        BY <2>2
      <3> QED
        BY <1>1, <1>2, <1>3, <2>2, <3>1
    <2> QED
      BY <2>1, <2>2
  <1>5. h \in Injection(S, 1 .. Cardinality(S))
    BY <1>4, Fun_IsInj
  <1>6. IsFiniteSet(1 .. Cardinality(S)) /\ Cardinality(1 .. Cardinality(S)) = Cardinality(S)
    BY <1>1, FS_Interval
  <1>7. h \in Surjection(S, 1 .. Cardinality(S))
    BY <1>5, <1>6, FS_Injection
  <1>8. h \in Bijection(S, 1 .. Cardinality(S))
    BY <1>5, <1>7 DEF Bijection
  <1>9. \A r \in 1 .. Cardinality(S) : \E i \in S : h[i] = r
    BY <1>7 DEF Surjection
  <1> QED
    BY <1>1, <1>3, <1>4, <1>8, <1>9

\* A late or failed answer never reaches the estimate of update_from_samples():
\* removing it changes nothing, with each strategy.
THEOREM OnlyTimelyCount ==
    ASSUME NEW s \in Seq(AnySample), Valid(s) # {}, NEW kind
    PROVE  Select(s, Valid(s)) # <<>> /\ Estimate(kind, Select(s, Valid(s))) = Estimate(kind, s)
  <1> DEFINE S == Valid(s)
             t == Select(s, S)
             h == Ranking(S)
  <1>1. /\ Len(s) \in Nat /\ S \in SUBSET (1 .. Len(s))
        /\ \A i \in 1 .. Len(s) : s[i] \in AnySample /\ (i \in S <=> IsValid(s[i]))
    BY SamplesAreTyped
  <1> HIDE DEF S
  <1> HIDE DEF h
  <1>2. /\ Cardinality(S) \in Nat /\ h \in Bijection(S, 1 .. Cardinality(S))
        /\ \A i, j \in S : i < j => h[i] < h[j]
        /\ h \in [S -> 1 .. Cardinality(S)] /\ (\A i, j \in S : h[i] = h[j] => i = j)
        /\ \A r \in 1 .. Cardinality(S) : \E i \in S : h[i] = r
    <2>1. Len(s) \in Nat /\ S \in SUBSET (1 .. Len(s))
      BY <1>1
    <2> QED
      BY <2>1, Ranks DEF h
  <1>3. t = [r \in 1 .. Cardinality(S) |-> s[CHOOSE i \in S : Rank(i, S) = r]]
    BY DEF Select
  <1>4. ASSUME NEW i \in S PROVE h[i] \in 1 .. Cardinality(S) /\ t[h[i]] = s[i]
    <2>1. \A j \in S : h[j] = Rank(j, S)
      BY DEF h, Ranking
    <2>2. (CHOOSE j \in S : Rank(j, S) = h[i]) = i
      BY <1>2, <1>4, <2>1
    <2>3. h[i] \in 1 .. Cardinality(S)
      BY <1>2, <1>4
    <2>4. t[h[i]] = s[CHOOSE j \in S : Rank(j, S) = h[i]]
      BY <1>3, <2>3
    <2> HIDE DEF t
    <2> QED
      BY <2>2, <2>3, <2>4
  <1>5. ASSUME NEW r \in 1 .. Cardinality(S) PROVE t[r] \in AnySample /\ IsValid(t[r])
    <2>1. PICK i \in S : h[i] = r
      BY <1>2
    <2> QED
      BY <1>1, <1>4, <2>1
  <1>6. t \in Seq(AnySample) /\ Len(t) = Cardinality(S)
    <2>1. t \in [1 .. Cardinality(S) -> AnySample]
      <3>1. t = [r \in 1 .. Cardinality(S) |-> t[r]]
        BY <1>3
      <3> HIDE DEF t
      <3> QED
        BY <1>5, <3>1
    <2> HIDE DEF t
    <2> QED
      BY <1>2, <2>1
  <1>7. Indices(t) = 1 .. Cardinality(S) /\ Valid(t) = Indices(t)
    BY <1>5, <1>6 DEF Valid, Indices
  <1> HIDE DEF t
  <1>8. Filtered(s, t, h)
    BY <1>2, <1>4, <1>6, <1>7 DEF Filtered, S
  <1>9. Estimate(kind, t) = Estimate(kind, s)
    BY <1>8, FilteredEstimate
  <1>10. Len(t) # 0
    BY <1>2, <1>6 DEF S
  <1> QED
    BY <1>6, <1>9, <1>10 DEF t, S

=============================================================================
