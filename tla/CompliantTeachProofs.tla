------------------------ MODULE CompliantTeachProofs ------------------------
(***************************************************************************)
(* What the median of CompliantTeach is, for a window of any length, and   *)
(* what a controller makes of it.  The library's induction theorems have   *)
(* operator parameters; least elements of sets of numbers do without.      *)
(***************************************************************************)
EXTENDS CompliantTeach, FiniteSetTheorems, SequenceTheorems, TLAPS

\* A set of numbers that is not empty has a least element.
LEMMA Least ==
  ASSUME NEW S \in SUBSET Nat, S # {}
  PROVE  \E n \in S : \A m \in S : n <= m
<1> DEFINE R == OpToRel(<, Nat)
<1>1. PICK n \in S : \A m \in S : ~ (<<m, n>> \in R)
  <2>1. IsWellFoundedOn(R, Nat)
    BY NatLessThanWellFounded
  <2> HIDE DEF R
  <2> QED
    BY <2>1, WFMin
<1>2. \A m \in S : ~ (m < n)
  BY <1>1 DEF OpToRel
<1> QED
  BY <1>2

LEMMA Greatest ==
  ASSUME NEW S \in SUBSET Nat, S # {}, NEW b \in Nat, \A n \in S : n <= b
  PROVE  \E n \in S : \A m \in S : m <= n
<1> DEFINE D == {d \in Nat : b - d \in S}
<1>1. D # {}
  <2>1. PICK n \in S : n <= b
    OBVIOUS
  <2>2. b - n \in D
    BY <2>1
  <2> QED
    BY <2>2
<1>2. PICK d \in D : \A e \in D : d <= e
  <2> HIDE DEF D
  <2>1. D \in SUBSET Nat
    BY DEF D
  <2> QED
    BY <1>1, <2>1, Least
<1>3. \A m \in S : b - m \in D
  OBVIOUS
<1>4. ASSUME NEW m \in S PROVE m <= b - d
  <2>1. d <= b - m
    BY <1>2, <1>3
  <2> QED
    BY <2>1
<1> QED
  BY <1>4

-----------------------------------------------------------------------------
(***************************************************************************)
(* The median.                                                             *)
(***************************************************************************)

Below(s, x) == {i \in DOMAIN s : s[i] < x}
UpTo(s, x) == {i \in DOMAIN s : s[i] <= x}

LEMMA Counted ==
  ASSUME NEW s \in Seq(Int), NEW T \in SUBSET DOMAIN s
  PROVE  /\ IsFiniteSet(T) /\ Cardinality(T) \in Nat
         /\ Cardinality(T) <= Len(s)
<1>1. DOMAIN s = 1 .. Len(s) /\ Len(s) \in Nat
  OBVIOUS
<1>2. IsFiniteSet(1 .. Len(s)) /\ Cardinality(1 .. Len(s)) = Len(s)
  <2>1. /\ IsFiniteSet(1 .. Len(s))
        /\ Cardinality(1 .. Len(s)) = IF 1 > Len(s) THEN 0 ELSE Len(s) - 1 + 1
    BY <1>1, FS_Interval
  <2> QED
    BY <1>1, <2>1
<1> QED
  BY <1>1, <1>2, FS_Subset, FS_CardinalityType

LEMMA CountSubset ==
  ASSUME NEW s \in Seq(Int), NEW T \in SUBSET DOMAIN s, NEW U \in SUBSET T
  PROVE  /\ Cardinality(U) <= Cardinality(T)
         /\ U # T => Cardinality(U) < Cardinality(T)
<1>1. IsFiniteSet(T) /\ Cardinality(T) \in Nat /\ Cardinality(U) \in Nat
  BY Counted
<1> QED
  BY <1>1, FS_Subset

\* Of some indices, one holds the largest sample: all of them hold at most that.
LEMMA Topmost ==
  ASSUME NEW s \in Seq(Int), NEW T \in SUBSET DOMAIN s, T # {}
  PROVE  \E i \in T : \A k \in T : s[k] <= s[i]
<1> DEFINE Rank(i) == Cardinality(UpTo(s, s[i]))
           Ranks == {Rank(i) : i \in T}
<1>1. \A i \in T : Rank(i) \in Nat /\ Rank(i) <= Len(s)
  BY Counted DEF UpTo
<1>2. PICK r \in Ranks : \A m \in Ranks : m <= r
  <2>1. Ranks \in SUBSET Nat /\ Ranks # {} /\ \A m \in Ranks : m <= Len(s)
    BY <1>1
  <2>2. Len(s) \in Nat
    OBVIOUS
  <2> HIDE DEF Ranks
  <2> QED
    BY <2>1, <2>2, Greatest
<1>3. PICK i \in T : r = Rank(i)
  OBVIOUS
<1>4. ASSUME NEW k \in T, s[k] > s[i] PROVE FALSE
  <2>1. s[i] \in Int /\ s[k] \in Int
    OBVIOUS
  <2>2. UpTo(s, s[i]) \in SUBSET UpTo(s, s[k]) /\ k \in UpTo(s, s[k])
        /\ k \notin UpTo(s, s[i])
    BY <1>4, <2>1 DEF UpTo
  <2>3. UpTo(s, s[k]) \in SUBSET DOMAIN s
    BY DEF UpTo
  <2>4. Rank(i) < Rank(k)
    BY <2>2, <2>3, CountSubset
  <2>5. Rank(k) <= Rank(i)
    BY <1>2, <1>3
  <2> QED
    BY <1>1, <2>4, <2>5
<1>5. \A k \in T : s[k] \in Int
  OBVIOUS
<1> QED
  BY <1>4, <1>5

\* A window has a median, and Median is one.  Of the samples that more than
\* half do not exceed, the one fewest do not exceed has at most half below it.
THEOREM MedianIs ==
  ASSUME NEW s \in Seq(Int), Len(s) > 0
  PROVE  LET m == Median(s)
             half == Len(s) \div 2
         IN /\ \E i \in DOMAIN s : m = s[i]
            /\ Cardinality(Below(s, m)) <= half
            /\ Cardinality(UpTo(s, m)) > half
<1> DEFINE half == Len(s) \div 2
           Rank(i) == Cardinality(UpTo(s, s[i]))
           Upper == {i \in DOMAIN s : Rank(i) > half}
           Ranks == {Rank(i) : i \in Upper}
<1>1. /\ DOMAIN s = 1 .. Len(s) /\ Len(s) \in Nat
      /\ half \in Nat /\ half < Len(s)
  OBVIOUS
<1>2. \A i \in DOMAIN s : Rank(i) \in Nat /\ s[i] \in Int
  BY Counted DEF UpTo
<1>3. Upper # {}
  <2>1. PICK i \in DOMAIN s : \A k \in DOMAIN s : s[k] <= s[i]
    <3>1. 1 \in DOMAIN s
      BY <1>1
    <3> QED
      BY <3>1, Topmost
  <2>2. UpTo(s, s[i]) = DOMAIN s
    BY <2>1 DEF UpTo
  <2>3. Cardinality(DOMAIN s) = Len(s)
    <3>1. Cardinality(1 .. Len(s)) =
            IF 1 > Len(s) THEN 0 ELSE Len(s) - 1 + 1
      BY <1>1, FS_Interval
    <3> QED
      BY <1>1, <3>1
  <2> QED
    BY <1>1, <2>2, <2>3
<1>4. PICK r \in Ranks : \A m \in Ranks : r <= m
  <2>1. Ranks \in SUBSET Nat /\ Ranks # {}
    BY <1>2, <1>3
  <2> HIDE DEF Ranks
  <2> QED
    BY <2>1, Least
<1>5. PICK i \in Upper : r = Rank(i)
  OBVIOUS
<1>6. Cardinality(Below(s, s[i])) <= half
  <2> SUFFICES ASSUME Cardinality(Below(s, s[i])) > half PROVE FALSE
    <3>1. Cardinality(Below(s, s[i])) \in Nat
      BY Counted DEF Below
    <3> QED
      BY <1>1, <3>1
  <2>1. Below(s, s[i]) # {}
    <3> SUFFICES ASSUME Below(s, s[i]) = {} PROVE FALSE
      OBVIOUS
    <3>1. Cardinality(Below(s, s[i])) = 0
      BY FS_EmptySet
    <3> HIDE DEF half
    <3> QED
      BY <1>1, <3>1
  <2>2. PICK k \in Below(s, s[i]) : \A x \in Below(s, s[i]) : s[x] <= s[k]
    BY <2>1, Topmost DEF Below
  <2>3. UpTo(s, s[k]) = Below(s, s[i])
    BY <1>2, <2>2 DEF UpTo, Below
  <2>4. k \in Upper
    BY <2>3 DEF Below
  <2>5. Rank(k) < Rank(i)
    <3>1. /\ UpTo(s, s[k]) \in SUBSET UpTo(s, s[i])
          /\ i \in UpTo(s, s[i]) /\ i \notin UpTo(s, s[k])
      BY <1>2, <2>3 DEF UpTo, Below
    <3>2. UpTo(s, s[i]) \in SUBSET DOMAIN s
      BY DEF UpTo
    <3> QED
      BY <3>1, <3>2, CountSubset
  <2>6. Rank(i) <= Rank(k)
    BY <1>4, <1>5, <2>4
  <2> QED
    BY <1>2, <2>4, <2>5, <2>6
<1>7. \E m \in {s[x] : x \in DOMAIN s} :
        Cardinality(Below(s, m)) <= half /\ Cardinality(UpTo(s, m)) > half
  BY <1>6
<1> QED
  BY <1>7 DEF Median, Below, UpTo

LEMMA MedianBetween ==
  ASSUME NEW s \in Seq(Int), Len(s) > 0, NEW lo \in Int, NEW hi \in Int,
         Cardinality(Below(s, lo)) <= Len(s) \div 2,
         Cardinality(UpTo(s, hi)) > Len(s) \div 2
  PROVE  Median(s) \in Int /\ lo <= Median(s) /\ Median(s) <= hi
<1> DEFINE m == Median(s)
<1>1. /\ \E i \in DOMAIN s : m = s[i]
      /\ Cardinality(Below(s, m)) <= Len(s) \div 2
      /\ Cardinality(UpTo(s, m)) > Len(s) \div 2
  BY MedianIs
<1> HIDE DEF m
<1>2. m \in Int
  BY <1>1
<1>3. \A x \in {m, lo, hi} :
        /\ Below(s, x) \in SUBSET DOMAIN s /\ Cardinality(Below(s, x)) \in Nat
        /\ UpTo(s, x) \in SUBSET DOMAIN s /\ Cardinality(UpTo(s, x)) \in Nat
  BY Counted DEF Below, UpTo
<1>4. Len(s) \div 2 \in Nat
  OBVIOUS
<1>5. ASSUME m < lo PROVE FALSE
  <2>1. UpTo(s, m) \in SUBSET Below(s, lo)
    BY <1>2, <1>5 DEF UpTo, Below
  <2>2. Cardinality(UpTo(s, m)) <= Cardinality(Below(s, lo))
    BY <1>3, <2>1, CountSubset
  <2> QED
    BY <1>1, <1>3, <1>4, <2>2
<1>6. ASSUME m > hi PROVE FALSE
  <2>1. UpTo(s, hi) \in SUBSET Below(s, m)
    BY <1>2, <1>6 DEF UpTo, Below
  <2>2. Cardinality(UpTo(s, hi)) <= Cardinality(Below(s, m))
    BY <1>3, <2>1, CountSubset
  <2> QED
    BY <1>1, <1>3, <1>4, <2>2
<1> QED
  BY <1>2, <1>5, <1>6 DEF m

\* Samples that are all in a range have their median there.
LEMMA MedianOfAll ==
  ASSUME NEW s \in Seq(Int), Len(s) > 0, NEW lo \in Int, NEW hi \in Int,
         \A i \in DOMAIN s : lo <= s[i] /\ s[i] <= hi
  PROVE  Median(s) \in Int /\ lo <= Median(s) /\ Median(s) <= hi
BY MedianIs

\* So have samples of which the latest, more than half, are there.
LEMMA MedianOfLatest ==
  ASSUME NEW s \in Seq(Int), NEW lo \in Int, NEW hi \in Int,
         NEW k \in 0 .. Len(s), k > Len(s) \div 2,
         \A i \in DOMAIN s : i > Len(s) - k => lo <= s[i] /\ s[i] <= hi
  PROVE  Median(s) \in Int /\ lo <= Median(s) /\ Median(s) <= hi
<1> DEFINE n == Len(s)
<1>1. /\ n \in Nat /\ DOMAIN s = 1 .. n /\ \A i \in 1 .. n : s[i] \in Int
      /\ n > 0 /\ n - k <= n \div 2
  OBVIOUS
<1> HIDE DEF n
<1>2. Cardinality(1 .. n - k) = n - k /\ Cardinality(n - k + 1 .. n) = k
  <2>1. /\ Cardinality(1 .. n - k) =
             IF 1 > n - k THEN 0 ELSE n - k - 1 + 1
        /\ Cardinality(n - k + 1 .. n) =
             IF n - k + 1 > n THEN 0 ELSE n - (n - k + 1) + 1
    <3>1. 1 \in Int /\ n - k \in Int /\ n - k + 1 \in Int /\ n \in Int
      BY <1>1
    <3> QED
      BY <3>1, FS_Interval
  <2> QED
    BY <1>1, <2>1 DEF n
<1>3. Cardinality(Below(s, lo)) <= n - k
  <2>1. Below(s, lo) \in SUBSET (1 .. n - k)
    BY <1>1 DEF Below, n
  <2>2. 1 .. n - k \in SUBSET DOMAIN s
    BY <1>1
  <2> QED
    BY <1>2, <2>1, <2>2, CountSubset
<1>4. Cardinality(UpTo(s, hi)) >= k
  <2>1. n - k + 1 .. n \in SUBSET UpTo(s, hi)
    BY <1>1 DEF UpTo, n
  <2>2. UpTo(s, hi) \in SUBSET DOMAIN s
    BY DEF UpTo
  <2>3. Cardinality(n - k + 1 .. n) <= Cardinality(UpTo(s, hi))
    BY <2>1, <2>2, CountSubset
  <2>4. Cardinality(UpTo(s, hi)) \in Nat
    BY <2>2, Counted
  <2> QED
    BY <1>2, <2>3, <2>4
<1>5. Cardinality(Below(s, lo)) \in Nat /\ Cardinality(UpTo(s, hi)) \in Nat
  BY Counted DEF Below, UpTo
<1>6. Cardinality(Below(s, lo)) <= Len(s) \div 2
  BY <1>1, <1>3, <1>5 DEF n
<1>7. Cardinality(UpTo(s, hi)) > Len(s) \div 2
  BY <1>1, <1>4, <1>5 DEF n
<1> QED
  BY <1>1, <1>6, <1>7, MedianBetween DEF n

\* A median in a range stays there when a sample in that range replaces the
\* oldest one.
LEMMA MedianSlides ==
  ASSUME NEW s \in Seq(Int), Len(s) > 0, NEW f \in Int,
         NEW lo \in Int, NEW hi \in Int, lo <= f, f <= hi,
         lo <= Median(s), Median(s) <= hi
  PROVE  LET m == Median(Append(Tail(s), f))
         IN m \in Int /\ lo <= m /\ m <= hi
<1> DEFINE n == Len(s)
           u == Append(Tail(s), f)
<1>1. /\ n \in Nat /\ n > 0 /\ DOMAIN s = 1 .. n
      /\ \A i \in 1 .. n : s[i] \in Int
  OBVIOUS
<1>2. /\ u \in Seq(Int) /\ Len(u) = n /\ DOMAIN u = 1 .. n
      /\ \A i \in 1 .. n - 1 : u[i] = s[i + 1]
      /\ u[n] = f
  OBVIOUS
<1> HIDE DEF n, u
<1>3. \A x \in {Median(s), lo, hi} :
        /\ Below(s, x) \in SUBSET DOMAIN s /\ Cardinality(Below(s, x)) \in Nat
        /\ UpTo(s, x) \in SUBSET DOMAIN s /\ Cardinality(UpTo(s, x)) \in Nat
  BY Counted DEF Below, UpTo
<1>4. \A x \in {lo, hi} :
        /\ IsFiniteSet(Below(s, x)) /\ Cardinality(Below(u, x)) \in Nat
        /\ IsFiniteSet(UpTo(u, x)) /\ Cardinality(UpTo(u, x)) \in Nat
  BY <1>2, Counted DEF Below, UpTo
<1>5. /\ Median(s) \in Int
      /\ Cardinality(Below(s, Median(s))) <= n \div 2
      /\ Cardinality(UpTo(s, Median(s))) > n \div 2
  BY <1>1, MedianIs DEF n
<1>6. Cardinality(Below(s, lo)) <= Cardinality(Below(s, Median(s)))
  <2>1. Below(s, lo) \in SUBSET Below(s, Median(s))
    BY <1>1, <1>5 DEF Below
  <2> QED
    BY <1>3, <2>1, CountSubset
<1>7. Cardinality(UpTo(s, Median(s))) <= Cardinality(UpTo(s, hi))
  <2>1. UpTo(s, Median(s)) \in SUBSET UpTo(s, hi)
    BY <1>1, <1>5 DEF UpTo
  <2> QED
    BY <1>3, <2>1, CountSubset
<1>8. Cardinality(Below(u, lo)) <= Cardinality(Below(s, lo))
  <2> DEFINE shift == [i \in Below(u, lo) |-> i + 1]
  <2>1. shift \in Injection(Below(u, lo), Below(s, lo))
    <3>1. \A i \in Below(u, lo) : i \in 1 .. n - 1 /\ s[i + 1] < lo
      BY <1>1, <1>2 DEF Below
    <3>2. \A i \in Below(u, lo) : i + 1 \in Below(s, lo)
      BY <1>1, <3>1 DEF Below
    <3>3. shift \in [Below(u, lo) -> Below(s, lo)]
      BY <3>2
    <3>4. \A i, k \in Below(u, lo) : shift[i] = shift[k] => i = k
      BY <3>1
    <3> QED
      BY <3>3, <3>4 DEF Injection, IsInjective
  <2> HIDE DEF shift
  <2> QED
    BY <1>4, <2>1, FS_Injection
<1>9. Cardinality(UpTo(s, hi)) <= Cardinality(UpTo(u, hi))
  <2> DEFINE shift == [i \in UpTo(s, hi) |-> IF i = 1 THEN n ELSE i - 1]
  <2>1. shift \in Injection(UpTo(s, hi), UpTo(u, hi))
    <3>1. \A i \in UpTo(s, hi) : i \in 1 .. n /\ s[i] <= hi
      BY <1>1 DEF UpTo
    <3>2. \A i \in UpTo(s, hi) :
            (IF i = 1 THEN n ELSE i - 1) \in UpTo(u, hi)
      <4> SUFFICES ASSUME NEW i \in UpTo(s, hi), i # 1
                   PROVE  i - 1 \in UpTo(u, hi)
        BY <1>1, <1>2 DEF UpTo
      <4>1. i - 1 \in 1 .. n - 1 /\ (i - 1) + 1 = i
        BY <1>1, <3>1
      <4>2. u[i - 1] = s[i]
        BY <1>2, <4>1
      <4> QED
        BY <1>1, <1>2, <3>1, <4>1, <4>2 DEF UpTo
    <3>3. shift \in [UpTo(s, hi) -> UpTo(u, hi)]
      BY <3>2
    <3>4. \A i, k \in UpTo(s, hi) : shift[i] = shift[k] => i = k
      BY <1>1, <3>1
    <3> QED
      BY <3>3, <3>4 DEF Injection, IsInjective
  <2> HIDE DEF shift
  <2> QED
    BY <1>4, <2>1, FS_Injection
<1>10. /\ n \div 2 \in Nat
       /\ Cardinality(Below(s, Median(s))) \in Nat
       /\ Cardinality(Below(s, lo)) \in Nat
       /\ Cardinality(Below(u, lo)) \in Nat
       /\ Cardinality(UpTo(s, Median(s))) \in Nat
       /\ Cardinality(UpTo(s, hi)) \in Nat
       /\ Cardinality(UpTo(u, hi)) \in Nat
  BY <1>1, <1>3, <1>4
<1>11. Cardinality(Below(u, lo)) <= Len(u) \div 2
  BY <1>2, <1>5, <1>6, <1>8, <1>10
<1>12. Cardinality(UpTo(u, hi)) > Len(u) \div 2
  BY <1>2, <1>5, <1>7, <1>9, <1>10
<1> QED
  BY <1>1, <1>2, <1>11, <1>12, MedianBetween DEF u

=============================================================================
