---------------------------- MODULE QuotesProofs ----------------------------
(***************************************************************************)
(* The loops of a quote do what the operators of Pricing say, what the     *)
(* participants pay adds up, the offset is sound and ages are checked: for *)
(* every input, whatever its number of participants, tiers and cents.      *)
(*                                                                         *)
(* A fact about a sum is proved along the prefixes of the sequence: a set  *)
(* of indices that has 0 and, with each index, the next, has them all.     *)
(***************************************************************************)
EXTENDS Quotes, FiniteSetTheorems, WellFoundedInduction, TLAPS

-----------------------------------------------------------------------------
(* Sums of sequences. *)

(* A nonempty set of naturals has a least member: the induction the other  *)
(* lemmas use.                                                             *)
LEMMA LeastMember ==
  ASSUME NEW T \in SUBSET Nat, T # {}
  PROVE  \E n \in T : \A m \in T : n <= m
<1>1. PICK n \in T : \A m \in T : <<m, n>> \notin OpToRel(<, Nat)
  BY WFMin, NatLessThanWellFounded, Zenon
<1>2. \A m \in T : ~(m < n)
  BY <1>1, Zenon DEF OpToRel
<1>. QED
  BY <1>2

(* The prefix sums Total is defined from. *)
IsPrefixSum(g, s, n) == g = [i \in 0 .. n |-> IF i = 0 THEN 0 ELSE g[i - 1] + s[i]]

LEMMA PrefixSumExists ==
  ASSUME NEW s, NEW n \in Nat
  PROVE  \E g : IsPrefixSum(g, s, n)
<1> DEFINE Bad == {m \in Nat : ~ \E g : IsPrefixSum(g, s, m)}
<1>1. SUFFICES ASSUME Bad # {} PROVE FALSE
  OBVIOUS
<1>2. PICK m \in Bad : \A x \in Bad : m <= x
  <2>1. Bad \in SUBSET Nat
    OBVIOUS
  <2>. HIDE DEF Bad
  <2>. QED  BY <1>1, <2>1, LeastMember, Zenon
<1>3. m # 0
  <2>1. IsPrefixSum([i \in 0 .. 0 |-> 0], s, 0)
    BY DEF IsPrefixSum
  <2>. QED  BY <2>1
<1>4. m \in Nat /\ m - 1 \in Nat /\ ~(m <= m - 1)
  BY <1>3
<1>5. PICK g : IsPrefixSum(g, s, m - 1)
  BY <1>2, <1>4
<1>. DEFINE h == [i \in 0 .. m |-> IF i = m THEN g[m - 1] + s[m] ELSE g[i]]
<1>6. IsPrefixSum(h, s, m)
  <2>1. ASSUME NEW i \in 0 .. m
        PROVE  h[i] = IF i = 0 THEN 0 ELSE h[i - 1] + s[i]
    <3>1. CASE i = m
      <4>1. h[i] = g[m - 1] + s[m]
        BY <3>1
      <4>2. m - 1 \in 0 .. m /\ m - 1 # m
        BY <1>4
      <4>3. h[m - 1] = g[m - 1]
        BY <4>2
      <4>. QED  BY <3>1, <4>1, <4>3, <1>3
    <3>2. CASE i # m
      <4>1. i \in 0 .. (m - 1) /\ h[i] = g[i]
        BY <3>2, <1>4
      <4>2. g[i] = IF i = 0 THEN 0 ELSE g[i - 1] + s[i]
        BY <4>1, <1>5 DEF IsPrefixSum
      <4>3. i # 0 => i - 1 \in 0 .. m /\ i - 1 # m
        BY <4>1, <1>4
      <4>4. i # 0 => h[i - 1] = g[i - 1]
        BY <4>3
      <4>. QED  BY <4>1, <4>2, <4>4
    <3>. QED  BY <3>1, <3>2
  <2>2. h = [i \in 0 .. m |-> h[i]]
    OBVIOUS
  <2>. QED
    BY <2>1, <2>2, Zenon DEF IsPrefixSum
<1>. QED
  BY <1>2, <1>6

(* Induction over the indices of a sequence. *)
LEMMA AlongPrefixes ==
  ASSUME NEW n \in Nat, NEW S, 0 \in S, \A i \in 1 .. n : i - 1 \in S => i \in S
  PROVE  \A i \in 0 .. n : i \in S
<1> DEFINE Bad == {i \in 0 .. n : i \notin S}
<1>1. SUFFICES ASSUME Bad # {} PROVE FALSE
  OBVIOUS
<1>2. PICK i \in Bad : \A j \in Bad : i <= j
  <2>1. Bad \in SUBSET Nat
    OBVIOUS
  <2>. HIDE DEF Bad
  <2>. QED  BY <1>1, <2>1, LeastMember, Zenon
<1>3. i \in 1 .. n /\ i - 1 \in 0 .. n /\ ~(i <= i - 1)
  BY <1>2
<1>4. i - 1 \in S
  BY <1>2, <1>3
<1>. QED
  BY <1>2, <1>3, <1>4

(* The sums of the prefixes of a sequence, the last of which is its total. *)
Sums(s) == CHOOSE g : IsPrefixSum(g, s, Len(s))

LEMMA SumsStep ==
  ASSUME NEW s, Len(s) \in Nat
  PROVE  /\ Total(s) = Sums(s)[Len(s)]
         /\ Sums(s)[0] = 0
         /\ \A i \in 1 .. Len(s) : Sums(s)[i] = Sums(s)[i - 1] + s[i]
<1>1. IsPrefixSum(Sums(s), s, Len(s))
  BY PrefixSumExists, Zenon DEF Sums
<1>2. Total(s) = Sums(s)[Len(s)]
  BY Zenon DEF Total, IsPrefixSum, Sums
<1>3. \A i \in 0 .. Len(s) : Sums(s)[i] = IF i = 0 THEN 0 ELSE Sums(s)[i - 1] + s[i]
  BY <1>1, Zenon DEF IsPrefixSum
<1>. QED
  BY <1>2, <1>3

LEMMA SumsAreIntegers ==
  ASSUME NEW s, Len(s) \in Nat, \A i \in 1 .. Len(s) : s[i] \in Int
  PROVE  \A i \in 0 .. Len(s) : Sums(s)[i] \in Int
<1> DEFINE S == {i \in 0 .. Len(s) : Sums(s)[i] \in Int}
<1>1. 0 \in S
  BY SumsStep
<1>2. ASSUME NEW i \in 1 .. Len(s), i - 1 \in S
      PROVE  i \in S
  <2>1. Sums(s)[i] = Sums(s)[i - 1] + s[i]
    BY SumsStep
  <2>. QED  BY <1>2, <2>1
<1>3. \A i \in 0 .. Len(s) : i \in S
  <2>. HIDE DEF S
  <2>. QED  BY <1>1, <1>2, AlongPrefixes
<1>. QED
  BY <1>3

(* The sum of a difference is the difference of the sums. *)
LEMMA TotalOfDifference ==
  ASSUME NEW n \in Nat, NEW s, NEW t, NEW d, Len(s) = n, Len(t) = n, Len(d) = n,
         \A i \in 1 .. n : s[i] \in Int /\ t[i] \in Int /\ d[i] = s[i] - t[i]
  PROVE  Total(d) = Total(s) - Total(t)
<1>1. \A i \in 0 .. n : Sums(s)[i] \in Int /\ Sums(t)[i] \in Int /\ Sums(d)[i] \in Int
  <2>1. \A i \in 1 .. n : d[i] \in Int
    OBVIOUS
  <2>2. \A i \in 0 .. n : Sums(s)[i] \in Int
    BY SumsAreIntegers
  <2>3. \A i \in 0 .. n : Sums(t)[i] \in Int
    BY SumsAreIntegers
  <2>4. \A i \in 0 .. n : Sums(d)[i] \in Int
    BY <2>1, SumsAreIntegers
  <2>. QED  BY <2>2, <2>3, <2>4
<1> DEFINE S == {i \in 0 .. n : Sums(d)[i] = Sums(s)[i] - Sums(t)[i]}
<1>2. 0 \in S
  BY SumsStep
<1>3. ASSUME NEW i \in 1 .. n, i - 1 \in S
      PROVE  i \in S
  <2>1. /\ Sums(s)[i] = Sums(s)[i - 1] + s[i]
        /\ Sums(t)[i] = Sums(t)[i - 1] + t[i]
        /\ Sums(d)[i] = Sums(d)[i - 1] + d[i]
    BY SumsStep
  <2>2. i - 1 \in 0 .. n
    OBVIOUS
  <2>. QED  BY <1>1, <1>3, <2>1, <2>2
<1>4. \A i \in 0 .. n : i \in S
  <2>. HIDE DEF S
  <2>. QED  BY <1>2, <1>3, AlongPrefixes
<1>. QED
  BY <1>4, SumsStep

(* The sum of a multiple is the multiple of the sum. *)
LEMMA TotalOfMultiple ==
  ASSUME NEW n \in Nat, NEW s, NEW m, NEW c \in Int, Len(s) = n, Len(m) = n,
         \A i \in 1 .. n : s[i] \in Int /\ m[i] = c * s[i]
  PROVE  Total(m) = c * Total(s)
<1>1. \A i \in 1 .. n : m[i] \in Int
  OBVIOUS
<1>2. /\ \A i \in 0 .. n : Sums(s)[i] \in Int /\ Sums(m)[i] \in Int
  BY <1>1, SumsAreIntegers
<1> DEFINE S == {i \in 0 .. n : Sums(m)[i] = c * Sums(s)[i]}
<1>3. 0 \in S
  BY SumsStep
<1>4. ASSUME NEW i \in 1 .. n, i - 1 \in S
      PROVE  i \in S
  <2>1. /\ Sums(s)[i] = Sums(s)[i - 1] + s[i]
        /\ Sums(m)[i] = Sums(m)[i - 1] + m[i]
    BY SumsStep
  <2>4. Sums(m)[i] = c * Sums(s)[i - 1] + c * s[i]
    BY <1>4, <2>1
  <2>2. i - 1 \in 0 .. n
    OBVIOUS
  <2>3. \A a, b \in Int : c * (a + b) = c * a + c * b
    OBVIOUS
  <2>. QED  BY <1>2, <2>1, <2>2, <2>3, <2>4
<1>5. \A i \in 0 .. n : i \in S
  <2>. HIDE DEF S
  <2>. QED  BY <1>3, <1>4, AlongPrefixes
<1>. QED
  BY <1>5, SumsStep

(* A sum of naturals is at least 0 and at least each of them. *)
LEMMA TotalCovers ==
  ASSUME NEW n \in Nat, NEW s, Len(s) = n, \A i \in 1 .. n : s[i] \in Nat
  PROVE  Total(s) \in Nat /\ \A j \in 1 .. n : s[j] <= Total(s)
<1>1. ASSUME NEW j \in 0 .. n
      PROVE  Total(s) \in Nat /\ (j # 0 => s[j] <= Total(s))
  <2> DEFINE S == {i \in 0 .. n : Sums(s)[i] \in Nat /\ (0 < j /\ j <= i => s[j] <= Sums(s)[i])}
  <2>1. 0 \in S
    BY SumsStep
  <2>2. ASSUME NEW i \in 1 .. n, i - 1 \in S
        PROVE  i \in S
    <3>1. Sums(s)[i] = Sums(s)[i - 1] + s[i]
      BY SumsStep
    <3>. QED  BY <2>2, <3>1
  <2>3. \A i \in 0 .. n : i \in S
    <3>. HIDE DEF S
    <3>. QED  BY <2>1, <2>2, AlongPrefixes
  <2>. QED  BY <2>3, SumsStep
<1>. QED
  BY <1>1

(* Members below b sum to at most b - 1 for each that is not 0. *)
LEMMA TotalBelow ==
  ASSUME NEW n \in Nat, NEW s, NEW b \in Nat, Len(s) = n,
         \A i \in 1 .. n : s[i] \in Nat /\ s[i] < b
  PROVE  LET m == Cardinality({i \in 1 .. n : s[i] > 0})
         IN  m \in Nat /\ Total(s) <= b * m - m
<1> DEFINE P(k) == {i \in 1 .. k : s[i] > 0}
           c(k) == Cardinality(P(k))
           S    == {k \in 0 .. n : Sums(s)[k] <= b * c(k) - c(k)}
<1>1. ASSUME NEW k \in 0 .. n
      PROVE  IsFiniteSet(P(k)) /\ c(k) \in Nat
  <2>1. IsFiniteSet(1 .. k) /\ P(k) \in SUBSET (1 .. k)
    BY FS_Interval
  <2>. QED  BY <2>1, FS_Subset, FS_CardinalityType
<1>2. \A k \in 0 .. n : Sums(s)[k] \in Int
  BY SumsAreIntegers
<1>3. Sums(s)[0] = 0 /\ \A k \in 1 .. n : Sums(s)[k] = Sums(s)[k - 1] + s[k]
  BY SumsStep
<1>4. c(0) = 0
  <2>1. P(0) = {}
    OBVIOUS
  <2>. QED  BY <2>1, FS_EmptySet
<1>5. ASSUME NEW k \in 1 .. n
      PROVE  \/ s[k] = 0 /\ c(k) = c(k - 1)
             \/ s[k] # 0 /\ c(k) = c(k - 1) + 1
  <2>1. CASE s[k] = 0
    <3>1. P(k) = P(k - 1)
      BY <2>1
    <3>. QED  BY <2>1, <3>1
  <2>2. CASE s[k] # 0
    <3>1. P(k) = P(k - 1) \cup {k} /\ k \notin P(k - 1)
      BY <2>2
    <3>2. IsFiniteSet(P(k - 1))
      BY <1>1
    <3>. HIDE DEF P
    <3>3. c(k) = c(k - 1) + 1
      BY <3>1, <3>2, FS_AddElement
    <3>. QED  BY <2>2, <3>3
  <2>. QED  BY <2>1, <2>2
<1>6. \A k \in 0 .. n : k \in S
  <2>. HIDE DEF c, P
  <2>1. 0 \in S
    BY <1>3, <1>4
  <2>2. ASSUME NEW k \in 1 .. n, k - 1 \in S
        PROVE  k \in S
    <3>1. k - 1 \in 0 .. n /\ c(k - 1) \in Nat /\ Sums(s)[k - 1] \in Int /\ s[k] \in Nat /\ s[k] <= b - 1
      BY <1>1, <1>2
    <3>2. Sums(s)[k - 1] <= b * c(k - 1) - c(k - 1)
      BY <2>2
    <3>3. \A a \in Nat : b * (a + 1) = b * a + b
      OBVIOUS
    <3>4. CASE s[k] = 0 /\ c(k) = c(k - 1)
      BY <1>3, <3>1, <3>2, <3>4
    <3>5. CASE s[k] # 0 /\ c(k) = c(k - 1) + 1
      <4>1. b * c(k) = b * c(k - 1) + b
        BY <3>1, <3>3, <3>5
      <4>2. Sums(s)[k] = Sums(s)[k - 1] + s[k]
        BY <1>3
      <4>3. b * c(k - 1) \in Int
        BY <3>1
      <4>4. Sums(s)[k - 1] + s[k] <= (b * c(k - 1) - c(k - 1)) + (b - 1)
        BY <3>1, <3>2, <4>3
      <4>5. b * c(k) - c(k) = (b * c(k - 1) - c(k - 1)) + (b - 1)
        BY <3>1, <3>5, <4>1, <4>3
      <4>. QED  BY <4>2, <4>4, <4>5
    <3>. QED  BY <1>5, <3>4, <3>5
  <2>. HIDE DEF S
  <2>. QED  BY <2>1, <2>2, AlongPrefixes
<1>7. c(n) \in Nat /\ Sums(s)[n] <= b * c(n) - c(n)
  BY <1>1, <1>6
<1>8. Total(s) = Sums(s)[n]
  BY SumsStep
<1>. QED
  BY <1>7, <1>8

(* One less in one place is one less in all. *)
LEMMA TotalOneLess ==
  ASSUME NEW n \in Nat, NEW s, NEW t, Len(s) = n, Len(t) = n, NEW j \in 1 .. n,
         t[j] = s[j] - 1, \A i \in 1 .. n : s[i] \in Int /\ (i # j => t[i] = s[i])
  PROVE  Total(t) = Total(s) - 1
<1>1. \A i \in 1 .. n : t[i] \in Int
  OBVIOUS
<1>2. \A i \in 0 .. n : Sums(s)[i] \in Int /\ Sums(t)[i] \in Int
  BY <1>1, SumsAreIntegers
<1> DEFINE S == {i \in 0 .. n : /\ i < j  => Sums(t)[i] = Sums(s)[i]
                                /\ i >= j => Sums(t)[i] = Sums(s)[i] - 1}
<1>3. 0 \in S
  BY SumsStep
<1>4. ASSUME NEW i \in 1 .. n, i - 1 \in S
      PROVE  i \in S
  <2>1. Sums(s)[i] = Sums(s)[i - 1] + s[i]
    BY SumsStep
  <2>2. Sums(t)[i] = Sums(t)[i - 1] + t[i]
    BY SumsStep
  <2>3. /\ i - 1 \in 0 .. n
        /\ s[i] \in Int /\ Sums(s)[i - 1] \in Int
        /\ i # j => t[i] = s[i]
    BY <1>2
  <2>4. CASE i < j
    BY <1>4, <2>1, <2>2, <2>3, <2>4
  <2>5. CASE i = j
    <3>1. i - 1 < j /\ t[i] = s[i] - 1
      BY <2>5
    <3>2. Sums(t)[i - 1] = Sums(s)[i - 1]
      BY <1>4, <3>1
    <3>3. Sums(s)[i - 1] + t[i] = (Sums(s)[i - 1] + s[i]) - 1
      <4>1. \A a, b \in Int : a + (b - 1) = (a + b) - 1
        OBVIOUS
      <4>. QED  BY <2>3, <3>1, <4>1
    <3>4. Sums(t)[i] = Sums(s)[i] - 1
      BY <2>1, <2>2, <3>2, <3>3, Zenon
    <3>. QED  BY <2>5, <3>4
  <2>6. CASE i > j
    <3>1. i - 1 >= j /\ ~(i < j)
      BY <2>6
    <3>2. Sums(t)[i - 1] = Sums(s)[i - 1] - 1
      BY <1>4, <3>1
    <3>3. Sums(t)[i] = Sums(s)[i] - 1
      BY <2>1, <2>2, <2>3, <2>6, <3>2
    <3>. QED  BY <3>1, <3>3
  <2>. QED  BY <2>4, <2>5, <2>6
<1>5. \A i \in 0 .. n : i \in S
  <2>. HIDE DEF S
  <2>. QED  BY <1>3, <1>4, AlongPrefixes
<1>. QED
  BY <1>5, SumsStep

-----------------------------------------------------------------------------
(* Arithmetic the shares need: products of unknowns. *)

LEMMA DivMod ==
  ASSUME NEW a \in Nat, NEW b \in Nat, b > 0
  PROVE  /\ a \div b \in Nat /\ a % b \in Nat /\ a % b < b
         /\ a - b * (a \div b) = a % b
<1>1. a \div b \in Int /\ a \div b >= 0 /\ a % b \in Nat /\ a % b < b
  OBVIOUS
<1>2. a - b * (a \div b) = a % b
  OBVIOUS
<1>3. \A q \in Int : q >= 0 => q \in Nat
  OBVIOUS
<1>. QED
  BY <1>1, <1>2, <1>3, Zenon

LEMMA ProductType ==
  ASSUME NEW a \in Nat, NEW b \in Nat
  PROVE  a * b \in Nat
  OBVIOUS

LEMMA IntProductType ==
  ASSUME NEW a \in Int, NEW b \in Int
  PROVE  a * b \in Int
  OBVIOUS

LEMMA Distributes ==
  ASSUME NEW a \in Int, NEW b \in Int, NEW c \in Int
  PROVE  c * (a - b) = c * a - c * b /\ (a - b) * c = a * c - b * c /\ a * c = c * a
  OBVIOUS

LEMMA TimesMonotone ==
  ASSUME NEW a \in Int, NEW b \in Int, NEW c \in Nat
  PROVE  /\ a <= b => c * a <= c * b
         /\ c > 0 /\ c * a < c * b => a < b
         /\ c > 0 /\ c * a <= c * b => a <= b
<1>1. c * a \in Int /\ c * b \in Int
  OBVIOUS
<1>2. c * (b - a) = c * b - c * a /\ c * (a - b) = c * a - c * b
  BY Distributes
<1>3. a <= b => c * (b - a) \in Nat
  <2>1. a <= b => b - a \in Nat
    OBVIOUS
  <2>. QED  BY <2>1, ProductType
<1>4. c > 0 /\ a > b => c * (a - b) > 0
  <2>1. a > b => a - b \in Nat /\ a - b > 0
    OBVIOUS
  <2>2. \A x \in Nat : c > 0 /\ x > 0 => c * x > 0
    OBVIOUS
  <2>. QED  BY <2>1, <2>2
<1>5. a <= b => c * a <= c * b
  BY <1>1, <1>2, <1>3
<1>6. c > 0 /\ c * a <= c * b => a <= b
  BY <1>1, <1>2, <1>4
<1>7. c > 0 /\ c * a < c * b => a < b
  <2>1. a = b => ~(c * a < c * b)
    BY <1>1
  <2>. QED  BY <1>1, <1>6, <2>1
<1>. QED
  BY <1>5, <1>6, <1>7

(* How far a rounded share, less e cents, is from the exact share. *)
LEMMA ShareArithmetic ==
  ASSUME NEW p \in Int, NEW s \in Int, NEW e \in Int, NEW t \in Int, NEW d \in Int, NEW r,
         NEW a, a = t - d, d * p - t * s = r
  PROVE  (p - s - e) * t - p * a = r - e * t
<1>1. p - s \in Int /\ (p - s - e) * t = (p - s) * t - e * t
  <2>1. p - s \in Int
    OBVIOUS
  <2>. QED  BY <2>1, Distributes, Zenon
<1>2. (p - s) * t = p * t - s * t /\ p * (t - d) = p * t - p * d
  BY Distributes, ZenonT(40)
<1>3. p * d = d * p /\ s * t = t * s
  BY Distributes, ZenonT(40)
<1>. p * t \in Int /\ s * t \in Int /\ e * t \in Int /\ p * d \in Int
  <2>1. p * t \in Int
    BY IntProductType, Zenon
  <2>2. s * t \in Int
    BY IntProductType, Zenon
  <2>3. e * t \in Int
    BY IntProductType, Zenon
  <2>4. p * d \in Int
    BY IntProductType, Zenon
  <2>. QED  BY <2>1, <2>2, <2>3, <2>4, Zenon
<1>4. \E pt, st, et, pd \in Int : pt = p * t /\ st = s * t /\ et = e * t /\ pd = p * d
  BY Zenon
<1>. PICK pt, st, et, pd \in Int : pt = p * t /\ st = s * t /\ et = e * t /\ pd = p * d
  BY <1>4, Zenon
<1>5. (p - s - e) * t = pt - st - et
  BY <1>1, <1>2, <1>4, Zenon
<1>6. p * a = pt - pd
  BY <1>2, <1>4, Zenon
<1>7. r = pd - st
  BY <1>3, <1>4, Zenon
<1>8. (pt - st - et) - (pt - pd) = (pd - st) - et
  OBVIOUS
<1>9. (p - s - e) * t - p * a = (pd - st) - et
  BY <1>5, <1>6, <1>8, Zenon
<1>. QED
  BY <1>4, <1>7, <1>9, Zenon

(* A coupon never takes off more than the list amount.                     *)
LEMMA CouponDiscountBounded ==
  ASSUME NEW kind, NEW value \in Int, NEW total \in Nat
  PROVE  CouponDiscount(kind, value, total) \in 0 .. total
<1>1. CASE total = 0
  BY <1>1 DEF CouponDiscount
<1>2. CASE total > 0
  <2> DEFINE p == Least(Greatest(value, 0), 100)
  <2>1. p \in 0 .. 100
    BY DEF Least, Greatest
  <2>2. (total * p) \div 100 \in 0 .. total
    <3>. HIDE DEF p
    <3>1. total * p \in Nat /\ total * p <= total * 100
      BY <2>1
    <3>. QED  BY <3>1
  <2>3. Least(Greatest(value, 0), total) \in 0 .. total
    BY DEF Least, Greatest
  <2>. QED
    BY <1>2, <2>2, <2>3 DEF CouponDiscount
<1>. QED
  BY <1>1, <1>2

-----------------------------------------------------------------------------
(* The invariant, one part for each loop. *)

(* The candidate a is open for the runner whose tier is being chosen. *)
Open(a) == TierOpen(Cands[a], Runner.local, in.now, taken[Cands[a].id])

TierIds == UNION {{in.tiers[k][i].id : i \in DOMAIN in.tiers[k]} : k \in DOMAIN in.tiers}

QuoteType ==
  /\ in \in Inputs
  /\ step \in {"tiers", "offset", "share", "cents", "done", "refused"}
  /\ pos \in 1 .. (Len(in.runners) + 1)
  /\ cur \in Nat
  /\ picked \in Seq(TierRow)
  /\ taken \in [TierIds -> Nat]
  /\ failed \in BOOLEAN
  /\ offset \in Nat

(* best is the least open candidate of those scanned so far. *)
BestSoFar ==
  IF best = Null
  THEN \A j \in 1 .. (cur - 1) : ~Open(j)
  ELSE \E i \in 1 .. (cur - 1) :
         /\ best = Cands[i] /\ Open(i)
         /\ \A j \in 1 .. (cur - 1) : Open(j) => j = i \/ TierLess(Cands[i], Cands[j])

Scanning ==
  step = "tiers" =>
    /\ offset = 0
    /\ IF pos <= Len(in.runners)
       THEN cur \in 1 .. (Len(Cands) + 1) /\ BestSoFar
       ELSE cur = 1

EarlierSeats(n, id) == Cardinality({j \in 1 .. n : picked[j].id = id})

CheapestFor(i) ==
  LET all     == in.tiers[in.runners[i].cat]
      earlier == [id \in DOMAIN taken |-> EarlierSeats(i - 1, id)]
  IN  {picked[i]} = SelectTier({all[j] : j \in DOMAIN all}, in.runners[i].local, in.now, earlier)

OldEnough(i) == AgeOn(in.runners[i].birth, in.race) >= in.minAge[in.runners[i].cat]

ChosenSoFar ==
  step # "refused" /\ ~failed =>
    /\ Len(picked) = pos - 1
    /\ \A id \in DOMAIN taken : taken[id] = EarlierSeats(pos - 1, id)
    /\ \A i \in 1 .. (pos - 1) : CheapestFor(i) /\ OldEnough(i)

AllChosen == step \notin {"tiers", "refused"} => ~failed /\ pos = Len(in.runners) + 1

Searching ==
  step = "offset" =>
    /\ ~in.preview /\ After > 0 /\ offset = 0
    /\ cur > 0 /\ (cur = 1 \/ cur - 1 <= Limit)
    /\ \A n \in 1 .. (cur - 1) : After - n \in in.open

Payable == Priced => Amount >= 0

Spreading ==
  step = "cents" =>
    /\ List > 0 /\ cur \in 0 .. LeftOver
    /\ paid \in [DOMAIN Prices -> Int]
    /\ \A i \in DOMAIN Prices : paid[i] = Prices[i] - Share(i) - (IF Place(i) < cur THEN 1 ELSE 0)
    /\ Total(paid) = Amount + LeftOver - cur

QuoteInv ==
  /\ QuoteType /\ Scanning /\ ChosenSoFar /\ AllChosen
  /\ Searching /\ Payable /\ Spreading

-----------------------------------------------------------------------------
(* The list prices and their sum. *)

LEMMA TierRowFields ==
  ASSUME NEW r \in TierRow
  PROVE  r.id \in Int /\ r.price \in Nat /\ r.sort \in Int
BY Zenon DEF TierRow

LEMMA PricesType ==
  ASSUME QuoteType
  PROVE  /\ Len(picked) \in Nat /\ DOMAIN Prices = 1 .. Len(picked) /\ Len(Prices) = Len(picked)
         /\ \A i \in 1 .. Len(picked) : Prices[i] = picked[i].price /\ Prices[i] \in Nat
         /\ List \in Nat
         /\ \A i \in 1 .. Len(picked) : Prices[i] <= List
<1>1. picked \in Seq(TierRow)
  BY DEF QuoteType
<1>2. Len(picked) \in Nat /\ DOMAIN picked = 1 .. Len(picked)
  BY <1>1
<1>3. DOMAIN Prices = 1 .. Len(picked)
  BY <1>2 DEF Prices
<1>4. Len(Prices) = Len(picked)
  BY <1>2 DEF Prices
<1>5. \A i \in 1 .. Len(picked) : Prices[i] = picked[i].price
  BY <1>2 DEF Prices
<1>6. \A i \in 1 .. Len(picked) : picked[i].price \in Nat
  <2>1. \A i \in 1 .. Len(picked) : picked[i] \in TierRow
    BY <1>1
  <2>. QED  BY <2>1, TierRowFields
<1>7. List \in Nat /\ \A i \in 1 .. Len(picked) : Prices[i] <= List
  <2>1. \A i \in 1 .. Len(picked) : Prices[i] \in Nat
    BY <1>5, <1>6
  <2>2. Total(Prices) \in Nat /\ \A i \in 1 .. Len(picked) : Prices[i] <= Total(Prices)
    BY <1>2, <1>4, <2>1, TotalCovers
  <2>. QED  BY <2>2 DEF List
<1>. QED
  BY <1>2, <1>3, <1>4, <1>5, <1>6, <1>7

LEMMA AfterType ==
  ASSUME QuoteType
  PROVE  After \in 0 .. List
<1>1. List \in Nat
  BY PricesType
<1>2. CASE in.coupon = Null
  BY <1>1, <1>2 DEF After
<1>3. CASE in.coupon # Null
  <2>1. in.coupon.value \in Int
    BY <1>3, InputRows DEF QuoteType
  <2>2. CouponDiscount(in.coupon.kind, in.coupon.value, List) \in 0 .. List
    BY <1>1, <2>1, CouponDiscountBounded
  <2>3. After = List - CouponDiscount(in.coupon.kind, in.coupon.value, List)
    BY <1>3 DEF After
  <2>. QED  BY <1>1, <2>2, <2>3
<1>. QED
  BY <1>2, <1>3

(* What the amount takes off the list is the discount Allocate spreads. *)
LEMMA DiscountType ==
  ASSUME QuoteType, Amount >= 0
  PROVE  /\ Amount \in Nat /\ Amount <= List /\ Discount = List - Amount
         /\ Discount \in Nat /\ Discount <= List
<1>1. List \in Nat /\ After \in 0 .. List /\ offset \in Nat
  BY PricesType, AfterType DEF QuoteType
<1>2. Amount = After - offset
  BY DEF Amount
<1>3. Amount \in Nat /\ Amount <= List
  BY <1>1, <1>2
<1>4. Discount = List - Amount
  BY <1>1, <1>3 DEF Discount, Least, Greatest
<1>. QED
  BY <1>1, <1>3, <1>4

(* The floor of a share and the remainder dropped. *)
LEMMA SharesType ==
  ASSUME QuoteType, Amount >= 0, List > 0, NEW i \in 1 .. Len(picked)
  PROVE  /\ Share(i) \in Nat /\ Rem(i) \in Nat /\ Rem(i) < List
         /\ Discount * Prices[i] - List * Share(i) = Rem(i)
         /\ Share(i) <= Prices[i]
         /\ Rem(i) > 0 => Share(i) < Prices[i]
<1>1. Discount \in Nat /\ Discount <= List /\ List \in Nat /\ Prices[i] \in Nat
  BY DiscountType, PricesType
<1>2. Discount * Prices[i] \in Nat
  BY <1>1, ProductType
<1>3. /\ Share(i) \in Nat /\ Rem(i) \in Nat /\ Rem(i) < List
      /\ Discount * Prices[i] - List * Share(i) = Rem(i)
  <2> DEFINE x == Discount * Prices[i]
  <2>1. Share(i) = x \div List /\ Rem(i) = x % List
    BY DEF Share, Rem
  <2>2. x \in Nat
    BY <1>2
  <2>. HIDE DEF x
  <2>3. /\ x \div List \in Nat /\ x % List \in Nat /\ x % List < List
        /\ x - List * (x \div List) = x % List
    BY <1>1, <2>2, DivMod
  <2>4. /\ Share(i) \in Nat /\ Rem(i) \in Nat /\ Rem(i) < List
        /\ x - List * Share(i) = Rem(i)
    BY <2>1, <2>3, Zenon
  <2>. QED  BY <2>4 DEF x
<1>4. Discount * Prices[i] <= List * Prices[i]
  <2>1. Prices[i] * Discount <= Prices[i] * List
    BY <1>1, TimesMonotone
  <2>2. Prices[i] * Discount = Discount * Prices[i] /\ Prices[i] * List = List * Prices[i]
    BY <1>1
  <2>. QED  BY <2>1, <2>2
<1>5. List * Share(i) \in Nat /\ List * Prices[i] \in Nat
  BY <1>1, <1>3, ProductType
<1>6. List * Share(i) <= List * Prices[i] /\ (Rem(i) > 0 => List * Share(i) < List * Prices[i])
  <2>1. \A x, y, z \in Nat : \A r \in Nat :
          x - y = r /\ x <= z => y <= z /\ (r > 0 => y < z)
    OBVIOUS
  <2>. QED  BY <1>2, <1>3, <1>4, <1>5, <2>1, Zenon
<1>7. Share(i) <= Prices[i] /\ (Rem(i) > 0 => Share(i) < Prices[i])
  BY <1>1, <1>3, <1>6, TimesMonotone
<1>. QED
  BY <1>3, <1>7

LEMMA LengthOfFunction ==
  ASSUME NEW n \in Nat, NEW f, DOMAIN f = 1 .. n, f = [i \in 1 .. n |-> f[i]]
  PROVE  Len(f) = n
OBVIOUS

LEMMA CountTo ==
  ASSUME NEW n \in Nat
  PROVE  /\ IsFiniteSet(1 .. n) /\ Cardinality(1 .. n) = n
         /\ IsFiniteSet(0 .. (n - 1)) /\ Cardinality(0 .. (n - 1)) = n
BY FS_Interval

(* The cents left over once every share is rounded down: no more than the  *)
(* participants whose share was rounded.                                   *)
LEMMA LeftOverFits ==
  ASSUME QuoteType, Amount >= 0, List > 0
  PROVE  LET n == Len(picked)
             m == Cardinality({i \in 1 .. n : Rem(i) > 0})
         IN  /\ m \in Nat /\ m <= n /\ LeftOver \in Nat /\ LeftOver <= m
             /\ Total([i \in DOMAIN Prices |-> Share(i)]) \in Nat
<1> DEFINE n == Len(picked)
           m == Cardinality({i \in 1 .. n : Rem(i) > 0})
           shares  == [i \in DOMAIN Prices |-> Share(i)]
           exact   == [i \in 1 .. n |-> Discount * Prices[i]]
           rounded == [i \in 1 .. n |-> List * Share(i)]
           dropped == [i \in 1 .. n |-> Rem(i)]
<1>1. /\ n \in Nat /\ DOMAIN Prices = 1 .. n /\ Len(Prices) = n /\ List \in Nat
      /\ \A i \in 1 .. n : Prices[i] \in Nat
  BY PricesType
<1>2. Discount \in Nat
  BY DiscountType
<1>3. \A i \in 1 .. n : /\ Share(i) \in Nat /\ Rem(i) \in Nat /\ Rem(i) < List
                        /\ Discount * Prices[i] - List * Share(i) = Rem(i)
  BY SharesType
<1>4. Len(shares) = n /\ Len(exact) = n /\ Len(rounded) = n /\ Len(dropped) = n
  <2>. HIDE DEF n
  <2>. QED  BY <1>1
<1>5. /\ \A i \in 1 .. n : shares[i] = Share(i) /\ exact[i] = Discount * Prices[i]
      /\ \A i \in 1 .. n : rounded[i] = List * Share(i) /\ dropped[i] = Rem(i)
  BY <1>1
<1>6. \A i \in 1 .. n : exact[i] \in Nat /\ rounded[i] \in Nat
  BY <1>1, <1>2, <1>3, <1>5, ProductType
<1>. HIDE DEF n, shares, exact, rounded, dropped
<1>7. Total(exact) = Discount * List
  <2>1. /\ \A i \in 1 .. n : Prices[i] \in Int /\ exact[i] = Discount * Prices[i]
        /\ Discount \in Int
    BY <1>1, <1>2, <1>5
  <2>2. n \in Nat /\ Len(Prices) = n /\ Len(exact) = n
    BY <1>1, <1>4
  <2>3. Total(exact) = Discount * Total(Prices)
    BY <2>1, <2>2, TotalOfMultiple, Zenon
  <2>. QED  BY <2>3, Zenon DEF List
<1>8. Total(rounded) = List * Total(shares)
  <2>1. /\ \A i \in 1 .. n : shares[i] \in Int /\ rounded[i] = List * shares[i]
        /\ List \in Int
    <3>1. \A k \in Nat : k \in Int
      OBVIOUS
    <3>. QED  BY <1>1, <1>3, <1>5, <3>1, Zenon
  <2>2. n \in Nat /\ Len(shares) = n /\ Len(rounded) = n
    BY <1>1, <1>4
  <2>. QED  BY <2>1, <2>2, TotalOfMultiple, Zenon
<1>9. Total(dropped) = Total(exact) - Total(rounded)
  <2>1. ASSUME NEW i \in 1 .. n
        PROVE  exact[i] \in Int /\ rounded[i] \in Int /\ dropped[i] = exact[i] - rounded[i]
    <3>1. exact[i] \in Int /\ rounded[i] \in Int
      BY <1>6
    <3>2. dropped[i] = Rem(i) /\ exact[i] = Discount * Prices[i] /\ rounded[i] = List * Share(i)
      BY <1>5
    <3>3. Discount * Prices[i] - List * Share(i) = Rem(i)
      BY <1>3
    <3>. QED  BY <3>1, <3>2, <3>3, Zenon
  <2>2. \A i \in 1 .. n : /\ exact[i] \in Int /\ rounded[i] \in Int
                          /\ dropped[i] = exact[i] - rounded[i]
    BY <2>1, Zenon
  <2>3. n \in Nat /\ Len(exact) = n /\ Len(rounded) = n /\ Len(dropped) = n
    BY <1>1, <1>4
  <2>. QED  BY <2>2, <2>3, TotalOfDifference, ZenonT(30)
<1>10. Total(shares) \in Nat /\ Total(dropped) \in Nat
  BY <1>1, <1>3, <1>4, <1>5, TotalCovers
<1>11. LeftOver = Discount - Total(shares)
  BY DEF LeftOver, shares
<1>12. Total(dropped) = List * LeftOver /\ LeftOver \in Int
  <2>1. LeftOver \in Int
    BY <1>2, <1>10, <1>11
  <2>2. List * LeftOver = List * Discount - List * Total(shares)
    BY <1>1, <1>2, <1>10, <1>11, Distributes
  <2>3. List * Discount = Discount * List
    BY <1>1, <1>2
  <2>. QED  BY <1>7, <1>8, <1>9, <2>1, <2>2, <2>3, Zenon
<1>13. LeftOver \in Nat
  <2>1. List * 0 = 0 /\ List * 0 <= List * LeftOver
    BY <1>1, <1>10, <1>12
  <2>2. 0 <= LeftOver
    BY <1>1, <1>12, <2>1, TimesMonotone
  <2>. QED  BY <1>12, <2>2
<1>14. m \in Nat /\ Total(dropped) <= List * m - m
  <2>1. \A i \in 1 .. n : dropped[i] \in Nat /\ dropped[i] < List
    BY <1>3, <1>5
  <2>2. {i \in 1 .. n : Rem(i) > 0} = {i \in 1 .. n : dropped[i] > 0}
    BY <1>5
  <2>. QED  BY <1>1, <1>4, <2>1, <2>2, TotalBelow
<1>15. m <= n
  <2>1. IsFiniteSet(1 .. n) /\ Cardinality(1 .. n) = n
    BY <1>1, CountTo, Zenon
  <2>2. {i \in 1 .. n : Rem(i) > 0} \in SUBSET (1 .. n)
    OBVIOUS
  <2>. QED  BY <2>1, <2>2, FS_Subset
<1>16. LeftOver <= m
  <2>1. List * m \in Nat
    BY <1>1, <1>14, ProductType
  <2>2. List * LeftOver <= List * m
    <3>. HIDE DEF m
    <3>1. \A t, c \in Nat : \A x \in Nat : t <= x - c => t <= x
      OBVIOUS
    <3>. QED  BY <1>10, <1>12, <1>14, <2>1, <3>1, Zenon
  <2>3. LeftOver \in Int /\ m \in Int
    <3>. HIDE DEF m
    <3>. QED  BY <1>13, <1>14
  <2>. QED  BY <1>1, <2>2, <2>3, TimesMonotone, Zenon
<1>. QED
  BY <1>10, <1>13, <1>14, <1>15, <1>16 DEF n, shares

-----------------------------------------------------------------------------
(* The order in which participants get a cent of what is left over. *)

Ahead(i) == {j \in DOMAIN Prices : Rem(j) > Rem(i) \/ (Rem(j) = Rem(i) /\ j < i)}

LEMMA PlaceType ==
  ASSUME QuoteType, Amount >= 0, List > 0, NEW i \in 1 .. Len(picked)
  PROVE  /\ IsFiniteSet(Ahead(i)) /\ Ahead(i) \subseteq 1 .. Len(picked)
         /\ Place(i) = Cardinality(Ahead(i))
         /\ Place(i) \in 0 .. (Len(picked) - 1)
<1> DEFINE n == Len(picked)
<1>1. n \in Nat /\ DOMAIN Prices = 1 .. n /\ i \in 1 .. n
  BY PricesType
<1>2. Place(i) = Cardinality(Ahead(i))
  BY Zenon DEF Place, Ahead
<1>3. Rem(i) \in Nat
  BY SharesType
<1>4. Ahead(i) \in SUBSET ((1 .. n) \ {i})
  BY <1>1, <1>3 DEF Ahead
<1>. HIDE DEF n
<1>5. IsFiniteSet(1 .. n) /\ Cardinality(1 .. n) = n
  BY <1>1, CountTo, Zenon
<1>6. IsFiniteSet((1 .. n) \ {i}) /\ Cardinality((1 .. n) \ {i}) = n - 1
  BY <1>1, <1>5, FS_RemoveElement
<1>7. IsFiniteSet(Ahead(i)) /\ Cardinality(Ahead(i)) <= n - 1
  BY <1>4, <1>6, FS_Subset
<1>8. Cardinality(Ahead(i)) \in Nat
  BY <1>7, FS_CardinalityType
<1>9. Cardinality(Ahead(i)) \in 0 .. (n - 1)
  BY <1>1, <1>7, <1>8
<1>. QED
  BY <1>2, <1>4, <1>7, <1>9 DEF n

LEMMA PlacesInOrder ==
  ASSUME QuoteType, Amount >= 0, List > 0,
         NEW i \in 1 .. Len(picked), NEW j \in 1 .. Len(picked), j \in Ahead(i)
  PROVE  Place(j) < Place(i)
<1>1. \A k \in 1 .. Len(picked) : Rem(k) \in Nat
  BY SharesType
<1>2. /\ IsFiniteSet(Ahead(i)) /\ Place(i) = Cardinality(Ahead(i)) /\ Place(i) \in Nat
      /\ IsFiniteSet(Ahead(j)) /\ Place(j) = Cardinality(Ahead(j)) /\ Place(j) \in Nat
  BY PlaceType
<1>3. DOMAIN Prices = 1 .. Len(picked)
  BY PricesType
<1>4. Ahead(j) \cup {j} \in SUBSET Ahead(i) /\ j \notin Ahead(j)
  BY <1>1, <1>3 DEF Ahead
<1>5. Cardinality(Ahead(j) \cup {j}) = Cardinality(Ahead(j)) + 1
  BY <1>2, <1>4, FS_AddElement
<1>6. Cardinality(Ahead(j) \cup {j}) <= Cardinality(Ahead(i))
  BY <1>2, <1>4, FS_Subset
<1>. QED
  BY <1>2, <1>5, <1>6

LEMMA PlacesDiffer ==
  ASSUME QuoteType, Amount >= 0, List > 0,
         NEW i \in 1 .. Len(picked), NEW j \in 1 .. Len(picked), i # j
  PROVE  Place(i) # Place(j)
<1>1. Rem(i) \in Nat /\ Rem(j) \in Nat
  BY SharesType
<1>2. DOMAIN Prices = 1 .. Len(picked) /\ Len(picked) \in Nat
  BY PricesType
<1>3. j \in Ahead(i) \/ i \in Ahead(j)
  BY <1>1, <1>2 DEF Ahead
<1>4. Place(i) \in Nat /\ Place(j) \in Nat
  BY PlaceType
<1>. QED
  BY <1>3, <1>4, PlacesInOrder

LEMMA EveryPlaceTaken ==
  ASSUME QuoteType, Amount >= 0, List > 0, NEW c \in 0 .. (Len(picked) - 1)
  PROVE  \E i \in 1 .. Len(picked) : Place(i) = c
<1> DEFINE n == Len(picked)
           T == (0 .. (n - 1)) \ {c}
           f == [i \in 1 .. n |-> Place(i)]
<1>1. SUFFICES ASSUME \A i \in 1 .. n : Place(i) # c PROVE FALSE
  OBVIOUS
<1>2. n \in Nat
  BY PricesType
<1>3. IsFiniteSet(1 .. n) /\ Cardinality(1 .. n) = n
  <2>. QED  BY <1>2, CountTo, Zenon
<1>4. IsFiniteSet(T) /\ Cardinality(T) < Cardinality(1 .. n)
  <2>1. IsFiniteSet(0 .. (n - 1)) /\ Cardinality(0 .. (n - 1)) = n
    BY <1>2, CountTo, Zenon
  <2>2. IsFiniteSet(T) /\ Cardinality(T) = n - 1
    BY <2>1, FS_RemoveElement, Zenon
  <2>. HIDE DEF n, T
  <2>. QED  BY <1>2, <1>3, <2>2
<1>5. f \in [1 .. n -> T]
  BY <1>1, PlaceType
<1>6. PICK x, y \in 1 .. n : x # y /\ f[x] = f[y]
  <2>. HIDE DEF n, T, f
  <2>. QED  BY <1>3, <1>4, <1>5, FS_PigeonHole
<1>7. Place(x) = Place(y)
  BY <1>6
<1>. QED
  BY <1>6, <1>7, PlacesDiffer

(* A cent goes only to a participant whose share was rounded. *)
LEMMA CentsToRounded ==
  ASSUME QuoteType, Amount >= 0, List > 0, NEW i \in 1 .. Len(picked), Place(i) < LeftOver
  PROVE  Rem(i) > 0
<1> DEFINE P == {j \in 1 .. Len(picked) : Rem(j) > 0}
<1>1. SUFFICES ASSUME Rem(i) = 0 PROVE FALSE
  BY SharesType
<1>2. P \in SUBSET Ahead(i)
  <2>1. DOMAIN Prices = 1 .. Len(picked)
    BY PricesType
  <2>. QED  BY <1>1, <2>1 DEF Ahead
<1>3. IsFiniteSet(Ahead(i)) /\ Place(i) = Cardinality(Ahead(i)) /\ Place(i) \in Nat
  BY PlaceType
<1>4. Cardinality(P) <= Place(i)
  BY <1>2, <1>3, FS_Subset
<1>5. Cardinality(P) \in Nat /\ LeftOver \in Nat /\ LeftOver <= Cardinality(P)
  BY LeftOverFits
<1>. QED
  BY <1>3, <1>4, <1>5

-----------------------------------------------------------------------------
(* Birthdays are counted one by one, AgeOn subtracts years. *)

LEMMA BirthdaysCover ==
  ASSUME NEW b \in Calendar, NEW race \in Calendar
  PROVE  /\ Birthdays(b, race) \in Nat /\ AgeOn(b, race) \in Int
         /\ AgeOn(b, race) <= Birthdays(b, race)
<1> DEFINE had   == {y \in (b.y + 1) .. race.y :
                       \/ y < race.y
                       \/ Birthday(b, y)[1] < race.m
                       \/ Birthday(b, y)[1] = race.m /\ Birthday(b, y)[2] <= race.d}
           shift == b.m = 2 /\ b.d = 29 /\ ~LeapYear(race.y)
           bm    == IF shift THEN 3 ELSE b.m
           bd    == IF shift THEN 1 ELSE b.d
           early == race.m < bm \/ (race.m = bm /\ race.d < bd)
           last  == IF early THEN race.y - 1 ELSE race.y
<1>1. /\ b.y \in Int /\ b.m \in Int /\ b.d \in Int
      /\ race.y \in Int /\ race.m \in Int /\ race.d \in Int
  BY DEF Calendar
<1>2. AgeOn(b, race) = last - b.y
  BY <1>1 DEF AgeOn
<1>3. Birthday(b, race.y)[1] = bm /\ Birthday(b, race.y)[2] = bd
  BY DEF Birthday
<1>4. bm \in Int /\ bd \in Int /\ last \in Int /\ last <= race.y
  BY <1>1
<1>5. (b.y + 1) .. last \in SUBSET had
  <2>1. ASSUME NEW y \in (b.y + 1) .. last
        PROVE  y \in had
    <3>1. y \in (b.y + 1) .. race.y /\ y \in Int
      BY <1>1, <1>4
    <3>2. CASE y < race.y
      BY <3>1, <3>2
    <3>3. CASE ~(y < race.y)
      <4>1. y = race.y /\ ~early
        BY <1>1, <3>1, <3>3
      <4>2. bm < race.m \/ (bm = race.m /\ bd <= race.d)
        <5>. HIDE DEF bm, bd
        <5>. QED  BY <1>1, <1>4, <4>1
      <4>. QED  BY <1>3, <3>1, <4>1, <4>2
    <3>. QED  BY <3>2, <3>3
  <2>. QED  BY <2>1
<1>6. IsFiniteSet(had) /\ Cardinality(had) \in Nat
  <2>1. IsFiniteSet((b.y + 1) .. race.y)
    BY <1>1, FS_Interval
  <2>2. had \in SUBSET ((b.y + 1) .. race.y)
    OBVIOUS
  <2>. QED  BY <2>1, <2>2, FS_Subset, FS_CardinalityType
<1>7. Cardinality((b.y + 1) .. last) <= Cardinality(had)
  <2>. HIDE DEF had, last
  <2>. QED  BY <1>5, <1>6, FS_Subset
<1>8. last - b.y <= Cardinality((b.y + 1) .. last)
  <2>. HIDE DEF last
  <2>1. b.y + 1 \in Int
    BY <1>1
  <2>2. Cardinality((b.y + 1) .. last) = IF b.y + 1 > last THEN 0 ELSE last - (b.y + 1) + 1
    BY <1>4, <2>1, FS_Interval, Zenon
  <2>. QED  BY <1>1, <1>4, <2>2
<1>9. Cardinality((b.y + 1) .. last) \in Nat
  <2>. HIDE DEF last
  <2>1. b.y + 1 \in Int
    BY <1>1
  <2>2. IsFiniteSet((b.y + 1) .. last)
    BY <1>4, <2>1, FS_Interval, Zenon
  <2>. QED  BY <2>2, FS_CardinalityType, Zenon
<1>10. Birthdays(b, race) = Cardinality(had)
  BY Zenon DEF Birthdays
<1>. QED
  <2>. HIDE DEF had, last
  <2>. QED  BY <1>1, <1>2, <1>4, <1>6, <1>7, <1>8, <1>9, <1>10

-----------------------------------------------------------------------------
(* Choosing tiers. *)

LEMMA TierLessOrders ==
  ASSUME NEW a \in TierRow, NEW b \in TierRow
  PROVE  /\ a.id # b.id => TierLess(a, b) \/ TierLess(b, a)
         /\ ~(TierLess(a, b) /\ TierLess(b, a))
         /\ \A c \in TierRow : TierLess(a, b) /\ TierLess(b, c) => TierLess(a, c)
<1>1. \A r \in TierRow : r.id \in Int /\ r.price \in Int /\ r.sort \in Int
  BY TierRowFields
<1>. QED
  BY <1>1 DEF TierLess

LEMMA RunnerFields ==
  ASSUME NEW S, NEW r \in [local : BOOLEAN, cat : S, birth : Calendar]
  PROVE  r.cat \in S /\ r.birth \in Calendar
OBVIOUS

LEMMA RunnersType ==
  ASSUME QuoteType
  PROVE  /\ Len(in.runners) \in Nat /\ in.race \in Calendar
         /\ \A i \in 1 .. Len(in.runners) : /\ in.runners[i].cat \in DOMAIN in.tiers
                                           /\ in.runners[i].birth \in Calendar
                                           /\ in.minAge[in.runners[i].cat] \in Int
<1>1. /\ in.race \in Calendar /\ in.minAge \in [DOMAIN in.tiers -> Int]
      /\ in.runners \in Seq([local : BOOLEAN, cat : DOMAIN in.tiers, birth : Calendar])
  BY InputRows, Zenon DEF QuoteType
<1>2. \A S, q : q \in Seq(S) => Len(q) \in Nat /\ \A i \in 1 .. Len(q) : q[i] \in S
  OBVIOUS
<1>3. \A i \in 1 .. Len(in.runners) :
        in.runners[i] \in [local : BOOLEAN, cat : DOMAIN in.tiers, birth : Calendar]
  BY <1>1, <1>2, Zenon
<1>4. Len(in.runners) \in Nat
  BY <1>1, <1>2, Zenon
<1>5. \A i \in 1 .. Len(in.runners) : /\ in.runners[i].cat \in DOMAIN in.tiers
                                      /\ in.runners[i].birth \in Calendar
  BY <1>3, RunnerFields, Zenon
<1>6. \A k \in DOMAIN in.tiers : in.minAge[k] \in Int
  BY <1>1
<1>. QED
  BY <1>1, <1>4, <1>5, <1>6, Zenon

LEMMA CandsType ==
  ASSUME QuoteType, pos <= Len(in.runners)
  PROVE  /\ Len(Cands) \in Nat /\ DOMAIN Cands = 1 .. Len(Cands)
         /\ \A j \in 1 .. Len(Cands) : /\ Cands[j] \in TierRow /\ Cands[j] # Null
                                      /\ Cands[j].id \in TierIds
         /\ \A i, j \in 1 .. Len(Cands) : Cands[i].id = Cands[j].id => i = j
<1>1. /\ in.tiers \in [DOMAIN in.tiers -> Seq(TierRow)]
      /\ \A k \in DOMAIN in.tiers : \A i, j \in DOMAIN in.tiers[k] :
           in.tiers[k][i].id = in.tiers[k][j].id => i = j
      /\ Null \notin TierRow
  BY InputRows, Zenon DEF QuoteType
<1>2. pos \in 1 .. Len(in.runners)
  BY RunnersType DEF QuoteType
<1>3. Runner.cat \in DOMAIN in.tiers
  BY <1>2, RunnersType, Zenon DEF Runner
<1>4. Cands \in Seq(TierRow)
  BY <1>1, <1>3 DEF Cands
<1>5. Len(Cands) \in Nat /\ DOMAIN Cands = 1 .. Len(Cands)
  BY <1>4
<1>6. \A j \in 1 .. Len(Cands) : Cands[j] \in TierRow
  BY <1>4
<1>7. \A i, j \in 1 .. Len(Cands) : Cands[i].id = Cands[j].id => i = j
  BY <1>1, <1>3, <1>5, Zenon DEF Cands
<1>8. \A j \in 1 .. Len(Cands) : Cands[j].id \in TierIds
  <2> DEFINE idsOf(k) == {in.tiers[k][i].id : i \in DOMAIN in.tiers[k]}
  <2>1. \A j \in 1 .. Len(Cands) : Cands[j].id \in idsOf(Runner.cat)
    BY <1>5, Zenon DEF Cands
  <2>2. TierIds = UNION {idsOf(k) : k \in DOMAIN in.tiers}
    BY Zenon DEF TierIds
  <2>. HIDE DEF idsOf
  <2>. QED  BY <1>3, <2>1, <2>2
<1>. QED
  BY <1>1, <1>5, <1>6, <1>7, <1>8

(* The candidate the scan has kept is one of those scanned. *)
LEMMA BestIsCandidate ==
  ASSUME QuoteType, BestSoFar, best # Null,
         pos <= Len(in.runners), cur \in 1 .. (Len(Cands) + 1)
  PROVE  best \in TierRow /\ best.id \in TierIds
<1>1. PICK i \in 1 .. (cur - 1) : best = Cands[i]
  BY DEF BestSoFar
<1>2. i \in 1 .. Len(Cands)
  BY CandsType
<1>. QED
  BY <1>1, <1>2, CandsType

(* Scanned to the end, it is the one SelectTier names. *)
LEMMA BestIsSelected ==
  ASSUME QuoteType, BestSoFar, best # Null, pos <= Len(in.runners), cur = Len(Cands) + 1
  PROVE  {best} = SelectTier({Cands[j] : j \in DOMAIN Cands}, Runner.local, in.now, taken)
<1> DEFINE open == {c \in {Cands[j] : j \in DOMAIN Cands} :
                      TierOpen(c, Runner.local, in.now, taken[c.id])}
<1>1. /\ Len(Cands) \in Nat /\ DOMAIN Cands = 1 .. Len(Cands)
      /\ \A j \in 1 .. Len(Cands) : Cands[j] \in TierRow
      /\ cur - 1 = Len(Cands)
  BY CandsType
<1>2. PICK i \in 1 .. Len(Cands) :
        /\ best = Cands[i] /\ Open(i)
        /\ \A j \in 1 .. Len(Cands) : Open(j) => j = i \/ TierLess(Cands[i], Cands[j])
  BY <1>1, Zenon DEF BestSoFar
<1>3. best \in open
  BY <1>1, <1>2, Zenon DEF Open
<1>4. \A d \in open \ {best} : TierLess(best, d)
  BY <1>1, <1>2, Zenon DEF Open
<1>5. open \in SUBSET TierRow
  BY <1>1
<1>6. \A c \in open : (\A d \in open \ {c} : TierLess(c, d)) => c = best
  BY <1>3, <1>4, <1>5, TierLessOrders
<1>7. {best} = {c \in open : \A d \in open \ {c} : TierLess(c, d)}
  <2>. HIDE DEF open
  <2>. QED  BY <1>3, <1>4, <1>6
<1>. QED
  BY <1>7, Zenon DEF SelectTier

-----------------------------------------------------------------------------
(* What a step leaves alone. *)

LEMMA SamePrices ==
  ASSUME UNCHANGED <<in, picked>>
  PROVE  Prices' = Prices /\ List' = List /\ After' = After /\ Limit' = Limit
<1>1. Prices' = Prices
  BY DEF Prices
<1>2. List' = List
  BY <1>1, Zenon DEF List
<1>3. After' = After
  BY <1>2 DEF After
<1>. QED
  BY <1>1, <1>2, <1>3 DEF Limit

LEMMA SameShares ==
  ASSUME UNCHANGED <<in, picked, offset>>
  PROVE  /\ Amount' = Amount /\ LeftOver' = LeftOver /\ Discount' = Discount
         /\ \A i : Share(i)' = Share(i) /\ Rem(i)' = Rem(i) /\ Place(i)' = Place(i)
<1>1. Prices' = Prices /\ List' = List /\ After' = After
  BY SamePrices
<1>2. Amount' = Amount
  BY <1>1 DEF Amount
<1>3. Discount' = Discount
  BY <1>1, <1>2, Zenon DEF Discount
<1>4. \A i : Share(i)' = Share(i) /\ Rem(i)' = Rem(i)
  BY <1>1, <1>3, Zenon DEF Share, Rem
<1>5. \A i : Place(i)' = Place(i)
  BY <1>1, <1>4, Zenon DEF Place
<1>6. LeftOver' = LeftOver
  BY <1>1, <1>3, <1>4, Zenon DEF LeftOver
<1>. QED
  BY <1>2, <1>3, <1>4, <1>5, <1>6

LEMMA SameChoice ==
  ASSUME ChosenSoFar, step # "refused", UNCHANGED <<in, pos, taken, picked, failed>>
  PROVE  ChosenSoFar'
<1>1. \A n, id : EarlierSeats(n, id)' = EarlierSeats(n, id)
  BY Zenon DEF EarlierSeats
<1>2. \A i : CheapestFor(i)' <=> CheapestFor(i)
  BY <1>1, Zenon DEF CheapestFor
<1>3. \A i : OldEnough(i)' <=> OldEnough(i)
  BY Zenon DEF OldEnough
<1>. QED
  BY <1>1, <1>2, <1>3, Zenon DEF ChosenSoFar

-----------------------------------------------------------------------------
(* Every step keeps the invariant. *)

LEMMA ScanKeeps ==
  ASSUME QuoteInv, ScanTier
  PROVE  QuoteInv'
<1>1. /\ QuoteType /\ Scanning /\ ChosenSoFar
      /\ step = "tiers" /\ pos <= Len(in.runners) /\ cur <= Len(Cands)
      /\ cur' = cur + 1
      /\ UNCHANGED <<in, step, pos, taken, picked, failed, offset, paid>>
  BY DEF QuoteInv, ScanTier
<1>2. BestSoFar /\ cur \in 1 .. Len(Cands) /\ offset = 0
  BY <1>1, CandsType DEF Scanning
<1>3. /\ Cands' = Cands /\ Runner' = Runner
      /\ \A a : Open(a)' <=> Open(a)
  <2>1. Cands' = Cands /\ Runner' = Runner
    BY <1>1 DEF Cands, Runner
  <2>. QED  BY <1>1, <2>1, Zenon DEF Open
<1>4. /\ Len(Cands) \in Nat
      /\ \A j \in 1 .. Len(Cands) : Cands[j] \in TierRow /\ Cands[j] # Null
      /\ \A i, j \in 1 .. Len(Cands) : Cands[i].id = Cands[j].id => i = j
  BY <1>1, CandsType
<1>5. best' = IF Open(cur) /\ (best # Null => TierLess(Cands[cur], best)) THEN Cands[cur] ELSE best
  BY Zenon DEF ScanTier, Open
<1>6. cur' - 1 = cur /\ 1 .. cur = (1 .. (cur - 1)) \cup {cur} /\ cur \notin 1 .. (cur - 1)
  BY <1>1, <1>2
<1>7. BestSoFar'
  <2>1. CASE best = Null
    <3>1. \A j \in 1 .. (cur - 1) : ~Open(j)
      BY <1>2, <2>1, Zenon DEF BestSoFar
    <3>2. CASE Open(cur)
      <4>1. best' = Cands[cur] /\ best' # Null
        BY <1>2, <1>4, <1>5, <2>1, <3>2, Zenon
      <4>. QED  BY <1>3, <1>6, <3>1, <3>2, <4>1 DEF BestSoFar
    <3>3. CASE ~Open(cur)
      BY <1>3, <1>5, <1>6, <2>1, <3>1, <3>3 DEF BestSoFar
    <3>. QED  BY <3>2, <3>3
  <2>2. CASE best # Null
    <3>1. PICK i \in 1 .. (cur - 1) :
            /\ best = Cands[i] /\ Open(i)
            /\ \A j \in 1 .. (cur - 1) : Open(j) => j = i \/ TierLess(Cands[i], Cands[j])
      BY <1>2, <2>2, Zenon DEF BestSoFar
    <3>2. 1 .. (cur - 1) \subseteq 1 .. Len(Cands) /\ i # cur
      BY <1>2, <1>4
    <3>3. Cands[i] \in TierRow /\ Cands[cur] \in TierRow /\ Cands[i].id # Cands[cur].id
      BY <1>2, <1>4, <3>1, <3>2
    <3>4. CASE Open(cur) /\ TierLess(Cands[cur], best)
      <4>1. best' = Cands[cur] /\ best' # Null
        BY <1>2, <1>4, <1>5, <3>4, Zenon
      <4>2. \A j \in 1 .. (cur - 1) : Open(j) => TierLess(Cands[cur], Cands[j])
        BY <1>4, <3>1, <3>2, <3>3, <3>4, TierLessOrders, Zenon
      <4>. QED  BY <1>3, <1>6, <3>4, <4>1, <4>2 DEF BestSoFar
    <3>5. CASE ~(Open(cur) /\ TierLess(Cands[cur], best))
      <4>1. best' = best
        BY <1>5, <2>2, <3>5, Zenon
      <4>2. Open(cur) => TierLess(Cands[i], Cands[cur])
        BY <3>1, <3>3, <3>5, TierLessOrders, Zenon
      <4>. QED  BY <1>3, <1>6, <2>2, <3>1, <4>1, <4>2 DEF BestSoFar
    <3>. QED  BY <3>4, <3>5
  <2>. QED  BY <2>1, <2>2
<1>8. Scanning'
  BY <1>1, <1>2, <1>3, <1>4, <1>7 DEF Scanning
<1>9. QuoteType'
  BY <1>1 DEF QuoteType, TierIds
<1>10. ChosenSoFar'
  BY <1>1, SameChoice, Zenon
<1>. QED
  BY <1>1, <1>8, <1>9, <1>10 DEF QuoteInv, AllChosen, Searching, Payable, Priced, Spreading

(* The seats counted before a participant, once the last one has a tier.   *)
LEMMA SeatsOfAppend ==
  ASSUME QuoteType, NEW n \in Nat, Len(picked) = n, picked' = Append(picked, best)
  PROVE  /\ \A i \in 1 .. n : picked'[i] = picked[i]
         /\ picked'[n + 1] = best /\ Len(picked') = n + 1
         /\ \A k \in 0 .. n : \A id : EarlierSeats(k, id)' = EarlierSeats(k, id)
         /\ \A id : /\ id = best.id => EarlierSeats(n + 1, id)' = EarlierSeats(n, id) + 1
                    /\ id # best.id => EarlierSeats(n + 1, id)' = EarlierSeats(n, id)
<1>1. picked \in Seq(TierRow)
  BY DEF QuoteType
<1>2. \A i \in 1 .. n : picked'[i] = picked[i]
  BY <1>1
<1>3. picked'[n + 1] = best /\ Len(picked') = n + 1
  BY <1>1
<1>4. ASSUME NEW k \in 0 .. n, NEW id
      PROVE  EarlierSeats(k, id)' = EarlierSeats(k, id)
  <2>1. {j \in 1 .. k : picked'[j].id = id} = {j \in 1 .. k : picked[j].id = id}
    BY <1>2
  <2>. QED  BY <2>1, Zenon DEF EarlierSeats
<1>5. ASSUME NEW id
      PROVE  /\ id = best.id => EarlierSeats(n + 1, id)' = EarlierSeats(n, id) + 1
             /\ id # best.id => EarlierSeats(n + 1, id)' = EarlierSeats(n, id)
  <2> DEFINE old == {j \in 1 .. n : picked[j].id = id}
             new == {j \in 1 .. (n + 1) : picked'[j].id = id}
  <2>1. EarlierSeats(n + 1, id)' = Cardinality(new) /\ EarlierSeats(n, id) = Cardinality(old)
    BY Zenon DEF EarlierSeats
  <2>2. IsFiniteSet(old) /\ old \subseteq 1 .. n
    <3>1. IsFiniteSet(1 .. n) /\ old \in SUBSET (1 .. n)
      BY CountTo
    <3>. QED  BY <3>1, FS_Subset
  <2>3. 1 .. (n + 1) = (1 .. n) \cup {n + 1} /\ n + 1 \notin 1 .. n
    OBVIOUS
  <2>4. ASSUME id = best.id
        PROVE  Cardinality(new) = Cardinality(old) + 1
    <3>1. new = old \cup {n + 1} /\ n + 1 \notin old
      BY <1>2, <1>3, <2>3, <2>4
    <3>. HIDE DEF old, new
    <3>. QED  BY <2>2, <3>1, FS_AddElement
  <2>5. ASSUME id # best.id
        PROVE  new = old
    BY <1>2, <1>3, <2>3, <2>5
  <2>. QED  BY <2>1, <2>4, <2>5, Zenon
<1>. QED
  BY <1>2, <1>3, <1>4, <1>5

LEMMA TakeKeeps ==
  ASSUME QuoteInv, TakeTier
  PROVE  QuoteInv'
<1>1. /\ QuoteType /\ Scanning /\ ChosenSoFar
      /\ step = "tiers" /\ pos <= Len(in.runners) /\ cur > Len(Cands)
      /\ failed' = (failed \/ best = Null
                    \/ AgeOn(Runner.birth, in.race) < in.minAge[Runner.cat])
      /\ pos' = pos + 1 /\ cur' = 1 /\ best' = Null
      /\ UNCHANGED <<in, step, offset, paid>>
      /\ best = Null => UNCHANGED <<taken, picked>>
      /\ best # Null => /\ taken' = [taken EXCEPT ![best.id] = @ + 1]
                        /\ picked' = Append(picked, best)
  BY DEF QuoteInv, TakeTier
<1>2. /\ Len(Cands) \in Nat /\ BestSoFar /\ offset = 0
      /\ cur \in 1 .. (Len(Cands) + 1) /\ cur = Len(Cands) + 1
  BY <1>1, CandsType DEF Scanning
<1>3. best # Null => best \in TierRow /\ best.id \in TierIds
  BY <1>1, <1>2, BestIsCandidate, Zenon
<1>4. Len(in.runners) \in Nat /\ pos \in Nat /\ pos > 0 /\ pos' \in 1 .. (Len(in.runners) + 1)
  BY <1>1, RunnersType DEF QuoteType
<1>5. QuoteType'
  <2>1. picked \in Seq(TierRow) /\ taken \in [TierIds -> Nat]
    BY <1>1 DEF QuoteType
  <2>2. picked' \in Seq(TierRow) /\ taken' \in [TierIds -> Nat]
    <3>1. CASE best = Null
      BY <1>1, <2>1, <3>1
    <3>2. CASE best # Null
      <4>1. picked' \in Seq(TierRow)
        <5>1. picked' = Append(picked, best) /\ best \in TierRow
          BY <1>1, <1>3, <3>2
        <5>. QED  BY <2>1, <5>1
      <4>2. taken' \in [TierIds -> Nat]
        <5>1. taken' = [taken EXCEPT ![best.id] = @ + 1] /\ best.id \in TierIds
          BY <1>1, <1>3, <3>2
        <5>. QED  BY <2>1, <5>1
      <4>. QED  BY <4>1, <4>2
    <3>. QED  BY <3>1, <3>2
  <2>3. TierIds' = TierIds
    BY <1>1 DEF TierIds
  <2>4. failed' \in BOOLEAN
    BY <1>1 DEF QuoteType
  <2>. QED  BY <1>1, <1>4, <2>2, <2>3, <2>4 DEF QuoteType
<1>6. Scanning'
  <2>1. CASE pos' <= Len(in.runners)
    <3>1. (Len(Cands) \in Nat)'
      <4>1. (pos <= Len(in.runners))'
        BY <1>1, <2>1
      <4>. QED  BY <1>5, <4>1, CandsType, PTL
    <3>2. BestSoFar'
      BY <1>1 DEF BestSoFar
    <3>. QED  BY <1>1, <1>2, <3>1, <3>2 DEF Scanning
  <2>2. CASE ~(pos' <= Len(in.runners))
    BY <1>1, <1>2, <2>2 DEF Scanning
  <2>. QED  BY <2>1, <2>2
<1>7. PICK n \in Nat : pos = n + 1 /\ n = pos - 1 /\ n + 1 = pos' - 1
  BY <1>1, <1>4
<1>8. ChosenSoFar'
  <2> SUFFICES ASSUME ~failed'
               PROVE  /\ Len(picked') = n + 1
                      /\ \A id \in DOMAIN taken' : taken'[id] = EarlierSeats(n + 1, id)'
                      /\ \A i \in 1 .. (n + 1) : CheapestFor(i)' /\ OldEnough(i)'
    BY <1>7 DEF ChosenSoFar
  <2>1. ~failed /\ best # Null /\ ~(AgeOn(Runner.birth, in.race) < in.minAge[Runner.cat])
    BY <1>1
  <2>2. /\ Len(picked) = n
        /\ \A id \in DOMAIN taken : taken[id] = EarlierSeats(n, id)
        /\ \A i \in 1 .. n : CheapestFor(i) /\ OldEnough(i)
    BY <1>1, <1>7, <2>1 DEF ChosenSoFar
  <2>3. /\ \A i \in 1 .. n : picked'[i] = picked[i]
        /\ picked'[n + 1] = best /\ Len(picked') = n + 1
        /\ \A k \in 0 .. n : \A id : EarlierSeats(k, id)' = EarlierSeats(k, id)
        /\ \A id : /\ id = best.id => EarlierSeats(n + 1, id)' = EarlierSeats(n, id) + 1
                   /\ id # best.id => EarlierSeats(n + 1, id)' = EarlierSeats(n, id)
    BY <1>1, <2>1, <2>2, SeatsOfAppend, Zenon
  <2>4. taken \in [TierIds -> Nat] /\ DOMAIN taken = TierIds /\ DOMAIN taken' = DOMAIN taken
    BY <1>1, <2>1 DEF QuoteType
  <2>5. ASSUME NEW id \in DOMAIN taken'
        PROVE  taken'[id] = EarlierSeats(n + 1, id)'
    <3>1. CASE id = best.id
      <4>1. taken'[id] = taken[id] + 1
        BY <1>1, <2>1, <2>4, <3>1
      <4>2. taken[id] = EarlierSeats(n, id)
        BY <2>2, <2>4
      <4>3. EarlierSeats(n + 1, id)' = EarlierSeats(n, id) + 1
        BY <2>3, <3>1, Zenon
      <4>. QED  BY <4>1, <4>2, <4>3, Zenon
    <3>2. CASE id # best.id
      <4>1. taken'[id] = taken[id]
        BY <1>1, <2>1, <2>4, <3>2
      <4>. QED  BY <2>2, <2>3, <2>4, <3>2, <4>1, Zenon
    <3>. QED  BY <3>1, <3>2
  <2>6. ASSUME NEW i \in 1 .. n
        PROVE  CheapestFor(i)' /\ OldEnough(i)'
    <3>1. i - 1 \in 0 .. n
      OBVIOUS
    <3>2. \A id : EarlierSeats(i - 1, id)' = EarlierSeats(i - 1, id)
      BY <2>3, <3>1, Zenon
    <3>3. picked'[i] = picked[i] /\ CheapestFor(i) /\ OldEnough(i)
      BY <2>2, <2>3
    <3>4. CheapestFor(i)'
      <4>1. [id \in DOMAIN taken' |-> EarlierSeats(i - 1, id)']
              = [id \in DOMAIN taken |-> EarlierSeats(i - 1, id)]
        BY <2>4, <3>2, Zenon
      <4>2. in' = in
        BY <1>1
      <4>. QED  BY <3>3, <4>1, <4>2, Zenon DEF CheapestFor
    <3>5. OldEnough(i)'
      BY <1>1, <3>3, Zenon DEF OldEnough
    <3>. QED  BY <3>4, <3>5
  <2>7. CheapestFor(n + 1)'
    <3> SUFFICES ASSUME NEW p, p = n + 1, p - 1 = n
                 PROVE  CheapestFor(p)'
      BY <1>7
    <3>1. {best} = SelectTier({Cands[j] : j \in DOMAIN Cands}, Runner.local, in.now, taken)
      BY <1>1, <1>2, <2>1, BestIsSelected, Zenon
    <3>2. [id \in DOMAIN taken' |-> EarlierSeats(p - 1, id)'] = taken
      <4>1. \A id \in DOMAIN taken : EarlierSeats(p - 1, id)' = taken[id]
        <5>1. n \in 0 .. n
          OBVIOUS
        <5>. QED  BY <2>2, <2>3, <5>1, Zenon
      <4>2. taken = [id \in DOMAIN taken |-> taken[id]]
        BY <2>4
      <4>. QED  BY <2>4, <4>1, <4>2, Zenon
    <3>3. /\ in'.tiers[in'.runners[p].cat] = Cands /\ in'.runners[p].local = Runner.local
          /\ in'.now = in.now /\ picked'[p] = best
      BY <1>1, <1>7, <2>3, Zenon DEF Cands, Runner
    <3>. QED  BY <3>1, <3>2, <3>3, Zenon DEF CheapestFor
  <2>8. OldEnough(n + 1)'
    <3>1. n + 1 \in 1 .. Len(in.runners)
      BY <1>1, <1>4, <1>7
    <3>2. AgeOn(Runner.birth, in.race) \in Int /\ in.minAge[Runner.cat] \in Int
      BY <1>1, <1>7, <3>1, RunnersType, BirthdaysCover, Zenon DEF Runner
    <3>3. AgeOn(Runner.birth, in.race) >= in.minAge[Runner.cat]
      BY <2>1, <3>2
    <3>. QED  BY <1>1, <1>7, <3>3, Zenon DEF OldEnough, Runner
  <2>9. \A i \in 1 .. (n + 1) : i \in 1 .. n \/ i = n + 1
    OBVIOUS
  <2>. QED  BY <2>3, <2>5, <2>6, <2>7, <2>8, <2>9, Zenon
<1>. QED
  BY <1>1, <1>5, <1>6, <1>8 DEF QuoteInv, AllChosen, Searching, Payable, Priced, Spreading

LEMMA EndTiersKeeps ==
  ASSUME QuoteInv, EndTiers
  PROVE  QuoteInv' /\ OffsetSound'
<1>1. /\ QuoteType /\ Scanning /\ ChosenSoFar
      /\ step = "tiers" /\ pos > Len(in.runners)
      /\ step' = IF failed THEN "refused"
                 ELSE IF in.preview \/ After = 0 THEN "share" ELSE "offset"
      /\ UNCHANGED <<in, pos, cur, best, taken, picked, failed, offset, paid>>
  BY DEF QuoteInv, EndTiers
<1>2. offset = 0 /\ cur = 1 /\ pos = Len(in.runners) + 1 /\ failed \in BOOLEAN
  BY <1>1, RunnersType DEF Scanning, QuoteType
<1>3. After \in Nat /\ After' = After /\ Amount' = Amount /\ Amount = After /\ Limit' = Limit
  <2>1. After \in Nat
    BY <1>1, AfterType, PricesType
  <2>2. Amount = After
    BY <1>2, <2>1 DEF Amount
  <2>. QED  BY <1>1, <2>1, <2>2, SamePrices, SameShares
<1>4. QuoteType'
  BY <1>1 DEF QuoteType, TierIds
<1>5. ChosenSoFar' /\ Scanning' /\ AllChosen'
  <2>1. ChosenSoFar'
    BY <1>1, SameChoice, Zenon
  <2>. QED  BY <1>1, <1>2, <2>1 DEF Scanning, AllChosen
<1>6. Searching' /\ Payable' /\ Spreading'
  BY <1>1, <1>2, <1>3 DEF Searching, Payable, Spreading
<1>7. OffsetSound'
  <2>1. ASSUME Priced'
        PROVE  in.preview \/ After = 0
    BY <1>1, <2>1 DEF Priced
  <2>. QED  BY <1>1, <1>3, <2>1 DEF OffsetSound
<1>. QED
  BY <1>4, <1>5, <1>6, <1>7 DEF QuoteInv

(* The offset the loop ends with is the one PickIdentOffset names. *)
LimitOf(after, maxCents) == Least(Least(maxCents, IdentOffsetCap), after - 1)

LEMMA OffsetFound ==
  ASSUME NEW after \in Nat, after > 0, NEW open, NEW maxCents \in Int, NEW c \in Nat, c > 0,
         c = 1 \/ c - 1 <= LimitOf(after, maxCents),
         \A n \in 1 .. (c - 1) : after - n \in open,
         ~(c <= LimitOf(after, maxCents) /\ after - c \in open)
  PROVE  LET limit == LimitOf(after, maxCents)
             n == IF c <= limit THEN c ELSE 0
         IN  /\ n = PickIdentOffset(after, open, maxCents)
             /\ n \in Nat /\ after - n > 0
             /\ n > 0 => after - n \notin open
             /\ \A k \in 1 .. limit : (n = 0 \/ k < n) => after - k \in open
<1> DEFINE limit == LimitOf(after, maxCents)
           n    == IF c <= limit THEN c ELSE 0
           free == {k \in 1 .. limit : after - k \notin open}
<1>1. limit \in Int /\ limit <= after - 1
  BY DEF LimitOf, Least, IdentOffsetCap
<1>2. PickIdentOffset(after, open, maxCents)
        = IF free = {} THEN 0 ELSE CHOOSE k \in free : \A m \in free : k <= m
  BY Zenon DEF PickIdentOffset, LimitOf
<1>5. /\ c = 1 \/ c - 1 <= limit
      /\ ~(c <= limit /\ after - c \in open)
  OBVIOUS
<1>. HIDE DEF limit
<1>3. CASE c <= limit
  <2>1. c \in free /\ \A m \in free : c <= m
    BY <1>1, <1>3, <1>5
  <2>2. \A k \in free : (\A m \in free : k <= m) => k = c
    BY <1>1, <2>1
  <2>3. (CHOOSE k \in free : \A m \in free : k <= m) = c
    <3>. HIDE DEF free
    <3>. QED  BY <2>1, <2>2
  <2>4. PickIdentOffset(after, open, maxCents) = c
    <3>1. free # {}
      BY <2>1
    <3>. HIDE DEF free
    <3>. QED  BY <1>2, <2>3, <3>1, Zenon
  <2>. QED  BY <1>1, <1>3, <1>5, <2>4 DEF limit
<1>4. CASE ~(c <= limit)
  <2>1. \A k \in 1 .. limit : k \in 1 .. (c - 1)
    BY <1>1, <1>4, <1>5
  <2>2. free = {}
    BY <2>1
  <2>3. PickIdentOffset(after, open, maxCents) = 0
    <3>. HIDE DEF free
    <3>. QED  BY <1>2, <2>2, Zenon
  <2>. QED  BY <1>4, <2>1, <2>3 DEF limit
<1>. QED
  BY <1>3, <1>4

LEMMA TryOffsetKeeps ==
  ASSUME QuoteInv, TryOffset
  PROVE  QuoteInv' /\ OffsetSound'
<1>1. /\ QuoteType /\ ChosenSoFar /\ AllChosen /\ step = "offset"
      /\ UNCHANGED <<in, pos, best, taken, picked, failed, paid>>
      /\ ~in.preview /\ After > 0 /\ offset = 0 /\ cur \in Nat
      /\ cur > 0 /\ (cur = 1 \/ cur - 1 <= Limit)
      /\ \A n \in 1 .. (cur - 1) : After - n \in in.open
  BY DEF QuoteInv, TryOffset, Searching, QuoteType
<1>2. After \in Nat /\ After' = After /\ Limit' = Limit /\ in.maxCents \in Int
  <2>1. After \in Nat
    BY <1>1, AfterType, PricesType
  <2>2. After' = After /\ Limit' = Limit
    BY <1>1, SamePrices
  <2>3. in.maxCents \in Int
    BY <1>1, InputRows, Zenon DEF QuoteType
  <2>. QED  BY <2>1, <2>2, <2>3
<1>3. Limit = LimitOf(After, in.maxCents)
  BY Zenon DEF Limit, LimitOf
<1>4. ChosenSoFar' /\ TierIds' = TierIds
  <2>1. step # "refused"
    BY <1>1
  <2>2. ChosenSoFar'
    BY <1>1, <2>1, SameChoice, Zenon
  <2>. QED  BY <1>1, <2>2 DEF TierIds
<1>5. CASE cur <= Limit /\ After - cur \in in.open
  <2>1. cur' = cur + 1 /\ UNCHANGED <<step, offset>>
    BY <1>5 DEF TryOffset
  <2>2. QuoteType' /\ Scanning' /\ AllChosen'
    BY <1>1, <1>4, <2>1 DEF QuoteType, Scanning, AllChosen
  <2>3. Searching'
    <3>1. \A n \in 1 .. (cur' - 1) : n \in 1 .. (cur - 1) \/ n = cur
      BY <1>1, <2>1
    <3>2. Limit \in Int
      BY <1>2, <1>3 DEF LimitOf, Least, IdentOffsetCap
    <3>3. \A n \in 1 .. (cur' - 1) : After - n \in in.open
      BY <1>1, <1>5, <3>1
    <3>. QED  BY <1>1, <1>2, <1>5, <2>1, <3>2, <3>3 DEF Searching
  <2>. QED
    BY <1>1, <1>4, <2>1, <2>2, <2>3 DEF QuoteInv, Payable, Priced, Spreading, OffsetSound
<1>6. CASE ~(cur <= Limit /\ After - cur \in in.open)
  <2>1. offset' = (IF cur <= Limit THEN cur ELSE 0) /\ step' = "share" /\ cur' = cur
    BY <1>6 DEF TryOffset
  <2>2. /\ offset' = PickIdentOffset(After, in.open, in.maxCents)
        /\ offset' \in Nat /\ After - offset' > 0
        /\ offset' > 0 => After - offset' \notin in.open
        /\ \A k \in 1 .. Limit : (offset' = 0 \/ k < offset') => After - k \in in.open
    <3> DEFINE n == IF cur <= Limit THEN cur ELSE 0
    <3>1. /\ n = PickIdentOffset(After, in.open, in.maxCents)
          /\ n \in Nat /\ After - n > 0
          /\ n > 0 => After - n \notin in.open
          /\ \A k \in 1 .. Limit : (n = 0 \/ k < n) => After - k \in in.open
      <4>1. /\ cur = 1 \/ cur - 1 <= LimitOf(After, in.maxCents)
            /\ ~(cur <= LimitOf(After, in.maxCents) /\ After - cur \in in.open)
        BY <1>1, <1>3, <1>6
      <4>2. /\ After \in Nat /\ After > 0 /\ in.maxCents \in Int /\ cur \in Nat /\ cur > 0
            /\ \A k \in 1 .. (cur - 1) : After - k \in in.open
        BY <1>1, <1>2
      <4>. HIDE DEF n
      <4>3. LET m == IF cur <= Limit THEN cur ELSE 0
            IN  /\ m = PickIdentOffset(After, in.open, in.maxCents)
                /\ m \in Nat /\ After - m > 0
                /\ m > 0 => After - m \notin in.open
                /\ \A k \in 1 .. Limit : (m = 0 \/ k < m) => After - k \in in.open
        BY <1>3, <4>1, <4>2, OffsetFound
      <4>. QED  BY <4>3 DEF n
    <3>2. offset' = n
      BY <2>1
    <3>. HIDE DEF n
    <3>. QED  BY <3>1, <3>2, Zenon
  <2>3. Amount' = After - offset'
    BY <1>2, Zenon DEF Amount
  <2>4. QuoteType' /\ Scanning' /\ AllChosen'
    BY <1>1, <1>4, <2>1, <2>2 DEF QuoteType, Scanning, AllChosen
  <2>5. Searching' /\ Payable' /\ Spreading'
    BY <1>2, <2>1, <2>2, <2>3 DEF Searching, Payable, Spreading
  <2>6. OffsetSound'
    BY <1>1, <1>2, <2>2, <2>3, Zenon DEF OffsetSound
  <2>. QED  BY <1>4, <2>4, <2>5, <2>6 DEF QuoteInv
<1>. QED
  BY <1>5, <1>6

-----------------------------------------------------------------------------
(* Spreading the discount. *)

LEMMA AllocateIs ==
  ASSUME QuoteType, Amount >= 0
  PROVE  /\ List = 0 => Allocate(Prices, List - Amount) = [i \in DOMAIN Prices |-> 0]
         /\ List > 0 => Allocate(Prices, List - Amount)
                          = [i \in DOMAIN Prices |->
                               Prices[i] - Share(i) - (IF Place(i) < LeftOver THEN 1 ELSE 0)]
<1> DEFINE share    == [i \in DOMAIN Prices |-> (Discount * Prices[i]) \div List]
           rem      == [i \in DOMAIN Prices |-> (Discount * Prices[i]) % List]
           left     == Discount - Total(share)
           ahead(i) == {j \in DOMAIN Prices : rem[j] > rem[i] \/ (rem[j] = rem[i] /\ j < i)}
<1>1. Allocate(Prices, List - Amount)
        = IF List <= 0
          THEN [i \in DOMAIN Prices |-> 0]
          ELSE [i \in DOMAIN Prices |->
                  Prices[i] - share[i] - (IF Cardinality(ahead(i)) < left THEN 1 ELSE 0)]
  BY Zenon DEF Allocate, List, Discount
<1>2. share = [i \in DOMAIN Prices |-> Share(i)] /\ \A i \in DOMAIN Prices : share[i] = Share(i)
  BY Zenon DEF Share
<1>3. \A i \in DOMAIN Prices : rem[i] = Rem(i)
  BY Zenon DEF Rem
<1>. HIDE DEF share, rem
<1>4. left = LeftOver
  BY <1>2, Zenon DEF LeftOver
<1>5. ASSUME NEW i \in DOMAIN Prices
      PROVE  Cardinality(ahead(i)) = Place(i)
  <2>1. ahead(i) = {j \in DOMAIN Prices : Rem(j) > Rem(i) \/ (Rem(j) = Rem(i) /\ j < i)}
    BY <1>3, Zenon
  <2>. QED  BY <2>1, Zenon DEF Place
<1>. HIDE DEF left, ahead
<1>6. List \in Nat
  BY PricesType
<1>7. List = 0 => List <= 0
  OBVIOUS
<1>8. List > 0 => ~(List <= 0)
  BY <1>6
<1>9. \A i \in DOMAIN Prices :
        Prices[i] - share[i] - (IF Cardinality(ahead(i)) < left THEN 1 ELSE 0)
          = Prices[i] - Share(i) - (IF Place(i) < LeftOver THEN 1 ELSE 0)
  BY <1>2, <1>4, <1>5, Zenon
<1>. QED
  BY <1>1, <1>7, <1>8, <1>9, Zenon

(* A quote of nothing: every price is 0, and so is every share. *)
LEMMA NothingToPay ==
  ASSUME QuoteType, Amount >= 0, List = 0, paid = [i \in DOMAIN Prices |-> 0]
  PROVE  PaidAddsUp
<1> DEFINE n == Len(picked)
<1>1. /\ n \in Nat /\ DOMAIN Prices = 1 .. n /\ Len(Prices) = n
      /\ \A i \in 1 .. n : Prices[i] \in Nat
  BY PricesType
<1>2. Amount = 0
  BY DiscountType
<1>3. Len(paid) = n /\ DOMAIN paid = 1 .. n /\ \A i \in 1 .. n : paid[i] = 0
  <2>. HIDE DEF n
  <2>. QED  BY <1>1
<1>4. Total(paid) = 0
  <2>1. PICK c \in Int : c = 0
    OBVIOUS
  <2>2. \A i \in 1 .. n : Prices[i] \in Int /\ paid[i] = c * Prices[i]
    BY <1>1, <1>3, <2>1
  <2>3. Total(paid) = c * Total(Prices)
    <3>. HIDE DEF n
    <3>. QED  BY <1>1, <1>3, <2>2, TotalOfMultiple, ZenonT(30)
  <2>4. Total(Prices) = 0
    BY DEF List
  <2>. QED  BY <2>1, <2>3, <2>4
<1>5. paid = Allocate(Prices, List - Amount)
  BY AllocateIs, Zenon
<1>. QED
  BY <1>1, <1>2, <1>3, <1>4, <1>5 DEF PaidAddsUp

LEMMA FloorsKeeps ==
  ASSUME QuoteInv, Floors
  PROVE  QuoteInv' /\ (OffsetSound => OffsetSound') /\ PaidAddsUp'
<1> DEFINE n == Len(picked)
<1>1. /\ QuoteType /\ ChosenSoFar /\ AllChosen /\ step = "share" /\ Amount >= 0
      /\ paid' = [i \in DOMAIN Prices |-> IF List = 0 THEN 0 ELSE Prices[i] - Share(i)]
      /\ step' = IF List = 0 THEN "done" ELSE "cents"
      /\ cur' = 0
      /\ UNCHANGED <<in, pos, best, taken, picked, failed, offset>>
  BY DEF QuoteInv, Floors, Payable, Priced
<1>2. /\ Prices' = Prices /\ List' = List /\ After' = After /\ Limit' = Limit
      /\ Amount' = Amount /\ LeftOver' = LeftOver
      /\ \A i : Share(i)' = Share(i) /\ Place(i)' = Place(i)
  BY <1>1, SamePrices, SameShares
<1>3. QuoteType' /\ Scanning' /\ AllChosen' /\ Searching'
  BY <1>1 DEF QuoteType, TierIds, Scanning, AllChosen, Searching
<1>4. ChosenSoFar'
  <2>1. step # "refused"
    BY <1>1
  <2>. QED  BY <1>1, <2>1, SameChoice, Zenon
<1>5. Payable' /\ (OffsetSound => OffsetSound')
  BY <1>1, <1>2, Zenon DEF Payable, OffsetSound, Priced
<1>6. CASE List = 0
  <2>1. step' = "done" /\ paid' = [i \in DOMAIN Prices |-> 0]
    BY <1>1, <1>6
  <2>2. PaidAddsUp'
    <3>1. (QuoteType /\ Amount >= 0 /\ List = 0 /\ paid = [i \in DOMAIN Prices |-> 0])'
      BY <1>1, <1>2, <1>3, <1>6, <2>1
    <3>. QED  BY <3>1, NothingToPay, PTL
  <2>. QED  BY <1>3, <1>4, <1>5, <2>1, <2>2 DEF QuoteInv, Spreading
<1>7. CASE List # 0
  <2>1. step' = "cents" /\ paid' = [i \in DOMAIN Prices |-> Prices[i] - Share(i)]
    BY <1>1, <1>7
  <2>2. /\ n \in Nat /\ DOMAIN Prices = 1 .. n /\ Len(Prices) = n /\ List \in Nat /\ List > 0
        /\ \A i \in 1 .. n : Prices[i] \in Nat
    BY <1>1, <1>7, PricesType
  <2>3. \A i \in 1 .. n : Share(i) \in Nat /\ Place(i) \in Nat
    BY <1>1, <2>2, SharesType, PlaceType
  <2>4. LeftOver \in Nat /\ Total([i \in DOMAIN Prices |-> Share(i)]) \in Nat
    BY <1>1, <2>2, LeftOverFits
  <2>5. /\ DOMAIN paid' = 1 .. n /\ Len(paid') = n
        /\ \A i \in 1 .. n : paid'[i] = Prices[i] - Share(i) /\ paid'[i] \in Int
    <3>. HIDE DEF n
    <3>. QED  BY <2>1, <2>2, <2>3
  <2>6. Total(paid') = Amount + LeftOver
    <3> DEFINE shares == [i \in DOMAIN Prices |-> Share(i)]
    <3>1. Len(shares) = n
      <4>. HIDE DEF n
      <4>. QED  BY <2>2
    <3>2. \A i \in 1 .. n : /\ Prices[i] \in Int /\ shares[i] \in Int
                            /\ paid'[i] = Prices[i] - shares[i]
      BY <2>2, <2>3, <2>5
    <3>3. LeftOver = Discount - Total(shares)
      BY Zenon DEF LeftOver
    <3>4. Total(shares) \in Nat
      BY <2>4
    <3>. HIDE DEF n, shares
    <3>5. Total(paid') = Total(Prices) - Total(shares)
      <4>1. n \in Nat /\ Len(Prices) = n /\ Len(shares) = n /\ Len(paid') = n
        BY <2>2, <2>5, <3>1, Zenon
      <4>. QED  BY <3>2, <4>1, TotalOfDifference, ZenonT(30)
    <3>6. Discount = List - Amount /\ Amount \in Nat /\ Discount \in Nat
      BY <1>1, DiscountType
    <3>7. Total(Prices) = List
      BY Zenon DEF List
    <3>. QED  BY <2>2, <3>3, <3>4, <3>5, <3>6, <3>7
  <2>7. Spreading'
    <3>1. paid' \in [DOMAIN Prices -> Int]
      BY <2>1, <2>2, <2>3
    <3>2. \A i \in DOMAIN Prices : paid'[i] = Prices[i] - Share(i) - (IF Place(i) < 0 THEN 1 ELSE 0)
      BY <2>2, <2>3, <2>5
    <3>3. Total(paid') = Amount + LeftOver - 0
      <4>1. Amount \in Nat
        BY <1>1, DiscountType
      <4>. QED  BY <2>4, <2>6, <4>1
    <3>4. 0 \in 0 .. LeftOver
      BY <2>4
    <3>. QED  BY <1>1, <1>2, <2>2, <3>1, <3>2, <3>3, <3>4, Zenon DEF Spreading
  <2>8. PaidAddsUp'
    BY <2>1 DEF PaidAddsUp
  <2>. QED  BY <1>3, <1>4, <1>5, <2>7, <2>8 DEF QuoteInv
<1>. QED
  BY <1>6, <1>7

(* The amounts once every cent left over is given out. *)
LEMMA SpreadAddsUp ==
  ASSUME QuoteType, Amount >= 0, List > 0, DOMAIN paid = DOMAIN Prices,
         paid = [i \in DOMAIN paid |-> paid[i]], Total(paid) = Amount,
         \A i \in DOMAIN Prices :
           paid[i] = Prices[i] - Share(i) - (IF Place(i) < LeftOver THEN 1 ELSE 0)
  PROVE  PaidAddsUp
<1>1. /\ DOMAIN Prices = 1 .. Len(picked) /\ List \in Nat
      /\ \A i \in 1 .. Len(picked) : Prices[i] \in Nat
  BY PricesType
<1>2. Amount \in Nat /\ Discount = List - Amount /\ Discount \in Nat
  BY DiscountType
<1>3. paid = Allocate(Prices, List - Amount)
  <2>1. paid = [i \in DOMAIN Prices |->
                  Prices[i] - Share(i) - (IF Place(i) < LeftOver THEN 1 ELSE 0)]
    BY Zenon
  <2>. QED  BY <2>1, AllocateIs, Zenon
<1>4. ASSUME NEW i \in DOMAIN paid
      PROVE  /\ 0 <= paid[i] /\ paid[i] <= Prices[i]
             /\ paid[i] * List - Prices[i] * Amount < List
             /\ Prices[i] * Amount - paid[i] * List < List
  <2>1. i \in 1 .. Len(picked) /\ i \in DOMAIN Prices
    BY <1>1
  <2>2. PICK e \in {0, 1} : e = (IF Place(i) < LeftOver THEN 1 ELSE 0)
    OBVIOUS
  <2>3. PICK p, s, r : p = Prices[i] /\ s = Share(i) /\ r = Rem(i)
    OBVIOUS
  <2>4. /\ p \in Nat /\ s \in Nat /\ r \in Nat /\ r < List
        /\ Discount * p - List * s = r /\ s <= p /\ (r > 0 => s < p)
    BY <1>1, <2>1, <2>3, SharesType
  <2>5. e = 1 => r > 0
    BY <2>1, <2>2, <2>3, CentsToRounded
  <2>6. paid[i] = p - s - e
    BY <2>1, <2>2, <2>3, Zenon
  <2>7. 0 <= p - s - e /\ p - s - e <= p
    BY <2>2, <2>4, <2>5
  <2>8. (p - s - e) * List - p * Amount = r - e * List
    <3>1. p \in Int /\ s \in Int /\ e \in Int /\ List \in Int /\ Discount \in Int
      BY <1>1, <1>2, <2>2, <2>4
    <3>2. Amount = List - Discount
      BY <1>1, <1>2
    <3>3. Discount * p - List * s = r
      BY <2>4
    <3>. QED  BY <3>1, <3>2, <3>3, ShareArithmetic
  <2>9. r - e * List < List /\ e * List - r < List
    <3>1. CASE e = 0
      BY <1>1, <2>4, <3>1
    <3>2. CASE e = 1
      BY <1>1, <2>4, <2>5, <3>2
    <3>. QED  BY <2>2, <3>1, <3>2
  <2>10. p * Amount - (p - s - e) * List < List
    <3>1. (p - s - e) * List \in Int /\ p * Amount \in Int /\ e * List \in Int
      BY <1>1, <1>2, <2>2, <2>4
    <3>2. \A a, b, c \in Int : a - b = r - c => b - a = c - r
      BY <2>4
    <3>3. p * Amount - (p - s - e) * List = e * List - r
      BY <2>8, <3>1, <3>2, Zenon
    <3>. QED  BY <2>9, <3>3, Zenon
  <2>. QED  BY <2>3, <2>6, <2>7, <2>8, <2>9, <2>10, Zenon
<1>. QED
  BY <1>3, <1>4, Zenon DEF PaidAddsUp

LEMMA CentKeeps ==
  ASSUME QuoteInv, Cent
  PROVE  QuoteInv' /\ (OffsetSound => OffsetSound') /\ PaidAddsUp'
<1> DEFINE n == Len(picked)
<1>1. /\ QuoteType /\ ChosenSoFar /\ AllChosen /\ step = "cents" /\ Amount >= 0
      /\ UNCHANGED <<in, pos, best, taken, picked, failed, offset>>
      /\ List > 0 /\ cur \in 0 .. LeftOver
      /\ paid \in [DOMAIN Prices -> Int]
      /\ \A i \in DOMAIN Prices : paid[i] = Prices[i] - Share(i) - (IF Place(i) < cur THEN 1 ELSE 0)
      /\ Total(paid) = Amount + LeftOver - cur
  BY DEF QuoteInv, Cent, Payable, Priced, Spreading
<1>2. /\ Prices' = Prices /\ List' = List /\ After' = After /\ Limit' = Limit
      /\ Amount' = Amount /\ LeftOver' = LeftOver
      /\ \A i : Share(i)' = Share(i) /\ Place(i)' = Place(i)
  BY <1>1, SamePrices, SameShares
<1>3. /\ n \in Nat /\ DOMAIN Prices = 1 .. n
      /\ \A i \in 1 .. n : Prices[i] \in Nat /\ Share(i) \in Nat /\ Place(i) \in Nat
  <2>1. n \in Nat /\ DOMAIN Prices = 1 .. n /\ \A i \in 1 .. n : Prices[i] \in Nat
    BY <1>1, PricesType
  <2>2. \A i \in 1 .. n : Share(i) \in Nat
    BY <1>1, SharesType
  <2>3. \A i \in 1 .. n : Place(i) \in 0 .. (n - 1)
    BY <1>1, PlaceType
  <2>4. 0 .. (n - 1) \subseteq Nat
    OBVIOUS
  <2>. QED  BY <2>1, <2>2, <2>3, <2>4
<1>4. LeftOver \in Nat /\ LeftOver <= n /\ Amount \in Nat
  <2> DEFINE m == Cardinality({i \in 1 .. n : Rem(i) > 0})
  <2>1. m \in Nat /\ m <= n /\ LeftOver \in Nat /\ LeftOver <= m
    BY <1>1, LeftOverFits
  <2>2. Amount \in Nat
    BY <1>1, DiscountType
  <2>. HIDE DEF m, n
  <2>. QED  BY <1>3, <2>1, <2>2
<1>5. ChosenSoFar'
  <2>1. step # "refused"
    BY <1>1
  <2>. QED  BY <1>1, <2>1, SameChoice, Zenon
<1>6. CASE cur < LeftOver
  <2>1. /\ paid' = [i \in DOMAIN paid |-> IF Place(i) = cur THEN paid[i] - 1 ELSE paid[i]]
        /\ cur' = cur + 1 /\ step' = "cents"
    BY <1>1, <1>6 DEF Cent
  <2>2. QuoteType' /\ Scanning' /\ AllChosen' /\ Searching'
    BY <1>1, <2>1 DEF QuoteType, TierIds, Scanning, AllChosen, Searching
  <2>3. Payable' /\ (OffsetSound => OffsetSound') /\ PaidAddsUp'
    <3>1. Payable' /\ (OffsetSound => OffsetSound')
      BY <1>1, <1>2, Zenon DEF Payable, OffsetSound, Priced
    <3>2. PaidAddsUp'
      BY <2>1 DEF PaidAddsUp
    <3>. QED  BY <3>1, <3>2
  <2>4. PICK j \in 1 .. n : Place(j) = cur
    <3>1. cur \in 0 .. (n - 1)
      <4>. HIDE DEF n
      <4>. QED  BY <1>1, <1>3, <1>4, <1>6
    <3>. QED  BY <1>1, <3>1, EveryPlaceTaken
  <2>5. \A i \in 1 .. n : i # j => Place(i) # cur
    BY <1>1, <2>4, PlacesDiffer
  <2>. HIDE DEF n
  <2>6. /\ DOMAIN paid = 1 .. n /\ Len(paid) = n /\ DOMAIN paid' = 1 .. n /\ Len(paid') = n
        /\ \A i \in 1 .. n : paid[i] \in Int
    BY <1>1, <1>3, <2>1
  <2>7. /\ paid'[j] = paid[j] - 1
        /\ \A i \in 1 .. n : i # j => paid'[i] = paid[i]
    BY <2>1, <2>4, <2>5, <2>6
  <2>8. Total(paid') = Total(paid) - 1
    <3>1. \A i \in 1 .. n : paid[i] \in Int /\ (i # j => paid'[i] = paid[i])
      BY <2>6, <2>7
    <3>2. n \in Nat /\ Len(paid) = n /\ Len(paid') = n
      BY <1>3, <2>6
    <3>. QED  BY <2>7, <3>1, <3>2, TotalOneLess, ZenonT(30)
  <2>9. paid' \in [DOMAIN Prices -> Int]
    BY <1>1, <1>3, <2>1
  <2>10. ASSUME NEW i \in DOMAIN Prices
         PROVE  paid'[i] = Prices[i] - Share(i) - (IF Place(i) < cur + 1 THEN 1 ELSE 0)
    <3>1. /\ paid[i] = Prices[i] - Share(i) - (IF Place(i) < cur THEN 1 ELSE 0)
          /\ Prices[i] \in Nat /\ Share(i) \in Nat /\ Place(i) \in Nat /\ cur \in Nat
          /\ paid'[i] = IF Place(i) = cur THEN paid[i] - 1 ELSE paid[i]
      BY <1>1, <1>3, <1>4, <2>1, <2>6
    <3>2. CASE Place(i) < cur
      BY <3>1, <3>2
    <3>3. CASE Place(i) = cur
      BY <3>1, <3>3
    <3>4. CASE Place(i) > cur
      BY <3>1, <3>4
    <3>. QED  BY <3>1, <3>2, <3>3, <3>4
  <2>11. Total(paid') = Amount + LeftOver - (cur + 1) /\ cur + 1 \in 0 .. LeftOver
    BY <1>1, <1>4, <1>6, <2>8
  <2>12. Spreading'
    BY <1>1, <1>2, <2>1, <2>9, <2>10, <2>11, Zenon DEF Spreading
  <2>. QED  BY <1>5, <2>2, <2>3, <2>12 DEF QuoteInv
<1>7. CASE ~(cur < LeftOver)
  <2>1. step' = "done" /\ UNCHANGED <<paid, cur>>
    BY <1>7 DEF Cent
  <2>2. QuoteType' /\ Scanning' /\ AllChosen' /\ Searching' /\ Spreading'
    BY <1>1, <2>1 DEF QuoteType, TierIds, Scanning, AllChosen, Searching, Spreading
  <2>3. Payable' /\ (OffsetSound => OffsetSound')
    BY <1>1, <1>2, Zenon DEF Payable, OffsetSound, Priced
  <2>4. cur = LeftOver
    BY <1>1, <1>4, <1>7
  <2>5. Total(paid) = Amount
    BY <1>1, <1>4, <2>4
  <2>6. (/\ QuoteType /\ Amount >= 0 /\ List > 0 /\ DOMAIN paid = DOMAIN Prices
         /\ paid = [i \in DOMAIN paid |-> paid[i]] /\ Total(paid) = Amount
         /\ \A i \in DOMAIN Prices :
              paid[i] = Prices[i] - Share(i) - (IF Place(i) < LeftOver THEN 1 ELSE 0))'
    <3>1. DOMAIN paid = DOMAIN Prices /\ paid = [i \in DOMAIN paid |-> paid[i]]
      BY <1>1
    <3>2. paid' = paid /\ QuoteType'
      BY <2>1, <2>2
    <3>. QED  BY <1>1, <1>2, <2>4, <2>5, <3>1, <3>2, Zenon
  <2>7. PaidAddsUp'
    BY <2>6, SpreadAddsUp, PTL
  <2>. QED  BY <1>5, <2>2, <2>3, <2>7 DEF QuoteInv
<1>. QED
  BY <1>6, <1>7

-----------------------------------------------------------------------------
LEMMA InitKeeps ==
  ASSUME Init
  PROVE  QuoteInv /\ OffsetSound /\ PaidAddsUp
<1>1. /\ in \in Inputs /\ step = "tiers" /\ pos = 1 /\ cur = 1 /\ best = Null
      /\ taken = [id \in TierIds |-> 0]
      /\ picked = <<>> /\ failed = FALSE /\ offset = 0
  BY DEF Init, TierIds
<1>2. QuoteType
  <2>1. in.runners \in Seq([local : BOOLEAN, cat : DOMAIN in.tiers, birth : Calendar])
    BY <1>1, InputRows, Zenon
  <2>2. Len(in.runners) \in Nat
    BY <2>1
  <2>3. pos \in 1 .. (Len(in.runners) + 1) /\ cur \in Nat /\ offset \in Nat
    BY <1>1, <2>2
  <2>4. picked \in Seq(TierRow) /\ taken \in [TierIds -> Nat]
    BY <1>1
  <2>. QED  BY <1>1, <2>3, <2>4 DEF QuoteType
<1>3. Scanning
  <2>1. CASE pos <= Len(in.runners)
    <3>1. Len(Cands) \in Nat
      BY <1>2, <2>1, CandsType
    <3>2. BestSoFar
      BY <1>1 DEF BestSoFar
    <3>. QED  BY <1>1, <2>1, <3>1, <3>2 DEF Scanning
  <2>2. CASE ~(pos <= Len(in.runners))
    BY <1>1, <2>2 DEF Scanning
  <2>. QED  BY <2>1, <2>2
<1>4. ChosenSoFar
  <2>1. \A id : EarlierSeats(0, id) = 0
    <3>1. \A id : {j \in 1 .. 0 : picked[j].id = id} = {}
      OBVIOUS
    <3>. QED  BY <3>1, FS_EmptySet, Zenon DEF EarlierSeats
  <2>2. \A id \in DOMAIN taken : taken[id] = 0
    BY <1>1
  <2>. QED  BY <1>1, <2>1, <2>2 DEF ChosenSoFar
<1>. QED
  BY <1>1, <1>2, <1>3, <1>4 DEF QuoteInv, AllChosen, Searching, Payable, Priced, Spreading,
                                OffsetSound, PaidAddsUp

(* Nothing happens to a quote between its steps. *)
LEMMA StutterKeeps ==
  ASSUME QuoteInv, OffsetSound, PaidAddsUp, UNCHANGED vars
  PROVE  (QuoteInv /\ OffsetSound /\ PaidAddsUp)'
<1>1. UNCHANGED <<in, step, pos, cur, best, taken, picked, failed, offset, paid>>
  BY DEF vars
<1>2. /\ Prices' = Prices /\ List' = List /\ After' = After /\ Limit' = Limit
      /\ Amount' = Amount /\ LeftOver' = LeftOver
      /\ \A i : Share(i)' = Share(i) /\ Place(i)' = Place(i)
  BY <1>1, SamePrices, SameShares
<1>3. Scanning'
  <2>1. Cands' = Cands /\ Runner' = Runner
    BY <1>1 DEF Cands, Runner
  <2>2. \A a : Open(a)' <=> Open(a)
    BY <1>1, <2>1, Zenon DEF Open
  <2>3. BestSoFar' <=> BestSoFar
    BY <1>1, <2>1, <2>2, Zenon DEF BestSoFar
  <2>. QED  BY <1>1, <2>1, <2>3, Zenon DEF QuoteInv, Scanning
<1>4. ChosenSoFar'
  <2>1. step = "refused" => ChosenSoFar'
    BY <1>1 DEF ChosenSoFar
  <2>. QED  BY <1>1, <2>1, SameChoice, Zenon DEF QuoteInv
<1>5. QuoteType' /\ AllChosen' /\ Searching' /\ Payable'
  BY <1>1, <1>2 DEF QuoteInv, QuoteType, TierIds, AllChosen, Searching, Payable, Priced
<1>6. Spreading'
  BY <1>1, <1>2, Zenon DEF QuoteInv, Spreading
<1>7. OffsetSound' /\ PaidAddsUp'
  BY <1>1, <1>2, Zenon DEF OffsetSound, Priced, PaidAddsUp
<1>. QED
  BY <1>3, <1>4, <1>5, <1>6, <1>7 DEF QuoteInv

(* The invariant holds throughout, the offset is sound and the shares add  *)
(* up: the inductive core of the theorems below.                           *)
THEOREM QuoteInvariant == Spec => [](QuoteInv /\ OffsetSound /\ PaidAddsUp)
<1>1. Init => QuoteInv /\ OffsetSound /\ PaidAddsUp
  BY InitKeeps
<1>2. QuoteInv /\ OffsetSound /\ PaidAddsUp /\ [Next]_vars
        => (QuoteInv /\ OffsetSound /\ PaidAddsUp)'
  <2> SUFFICES ASSUME QuoteInv, OffsetSound, PaidAddsUp, [Next]_vars
               PROVE  (QuoteInv /\ OffsetSound /\ PaidAddsUp)'
    OBVIOUS
  <2>1. CASE ScanTier
    <3>1. QuoteInv'
      BY <2>1, ScanKeeps
    <3>2. step' = "tiers"
      BY <2>1 DEF ScanTier
    <3>. QED  BY <3>1, <3>2 DEF OffsetSound, Priced, PaidAddsUp
  <2>2. CASE TakeTier
    <3>1. QuoteInv'
      BY <2>2, TakeKeeps
    <3>2. step' = "tiers"
      BY <2>2 DEF TakeTier
    <3>. QED  BY <3>1, <3>2 DEF OffsetSound, Priced, PaidAddsUp
  <2>3. CASE EndTiers
    <3>1. QuoteInv' /\ OffsetSound'
      BY <2>3, EndTiersKeeps
    <3>2. step' # "done"
      BY <2>3 DEF EndTiers
    <3>. QED  BY <3>1, <3>2 DEF PaidAddsUp
  <2>4. CASE TryOffset
    <3>1. QuoteInv' /\ OffsetSound'
      BY <2>4, TryOffsetKeeps
    <3>2. step' # "done"
      BY <2>4 DEF TryOffset
    <3>. QED  BY <3>1, <3>2 DEF PaidAddsUp
  <2>5. CASE Floors
    BY <2>5, FloorsKeeps
  <2>6. CASE Cent
    BY <2>6, CentKeeps
  <2>7. CASE UNCHANGED vars
    BY <2>7, StutterKeeps
  <2>. QED  BY <2>1, <2>2, <2>3, <2>4, <2>5, <2>6, <2>7 DEF Next
<1>. QED
  BY <1>1, <1>2, PTL DEF Spec

(* Every participant gets the tier SelectTier names, the seats of the      *)
(* participants before counted.                                            *)
THEOREM CheapestTiers == Spec => []TiersAreCheapest
<1>1. QuoteInv => TiersAreCheapest
  <2> SUFFICES ASSUME QuoteInv, Priced
               PROVE  /\ Len(picked) = Len(in.runners)
                      /\ \A i \in DOMAIN picked : CheapestFor(i)
    BY Zenon DEF TiersAreCheapest, CheapestFor, EarlierSeats
  <2>1. ~failed /\ pos = Len(in.runners) + 1 /\ step # "refused"
    BY DEF QuoteInv, AllChosen, Priced
  <2>2. Len(in.runners) \in Nat /\ picked \in Seq(TierRow)
    BY RunnersType DEF QuoteInv, QuoteType
  <2>3. Len(picked) = pos - 1 /\ \A i \in 1 .. (pos - 1) : CheapestFor(i)
    BY <2>1 DEF QuoteInv, ChosenSoFar
  <2>. QED  BY <2>1, <2>2, <2>3
<1>. QED
  BY <1>1, QuoteInvariant, PTL

(* The offset leaves something to pay, makes the amount differ from every  *)
(* open one when it can, and is the least that does.                       *)
THEOREM OffsetsIdentify == Spec => []OffsetSound
BY QuoteInvariant, PTL

(* What the participants pay adds up to the amount, each within a cent of  *)
(* an exact share and never more than the list price.                      *)
THEOREM SharesAddUp == Spec => []PaidAddsUp
BY QuoteInvariant, PTL

(* Nobody is priced who has had too few birthdays by race day for the      *)
(* category they chose.                                                    *)
THEOREM RunnersOldEnough == Spec => []AgesChecked
<1>1. QuoteInv => AgesChecked
  <2> SUFFICES ASSUME QuoteInv, Priced, NEW i \in DOMAIN in.runners
               PROVE  Birthdays(in.runners[i].birth, in.race) >= in.minAge[in.runners[i].cat]
    BY DEF AgesChecked
  <2>1. ~failed /\ pos = Len(in.runners) + 1 /\ step # "refused"
    BY DEF QuoteInv, AllChosen, Priced
  <2>2. QuoteType
    BY DEF QuoteInv
  <2>3. i \in 1 .. Len(in.runners) /\ Len(in.runners) \in Nat
    <3>1. in.runners \in Seq([local : BOOLEAN, cat : DOMAIN in.tiers, birth : Calendar])
      BY <2>2, InputRows, Zenon DEF QuoteType
    <3>. QED  BY <3>1
  <2>4. AgeOn(in.runners[i].birth, in.race) >= in.minAge[in.runners[i].cat]
    BY <2>1, <2>3 DEF QuoteInv, ChosenSoFar, OldEnough
  <2>5. /\ in.runners[i].birth \in Calendar /\ in.race \in Calendar
        /\ in.minAge[in.runners[i].cat] \in Int
    BY <2>2, <2>3, RunnersType
  <2>6. /\ Birthdays(in.runners[i].birth, in.race) \in Nat
        /\ AgeOn(in.runners[i].birth, in.race) \in Int
        /\ AgeOn(in.runners[i].birth, in.race) <= Birthdays(in.runners[i].birth, in.race)
    BY <2>5, BirthdaysCover, Zenon
  <2>. QED  BY <2>4, <2>5, <2>6
<1>. QED
  BY <1>1, QuoteInvariant, PTL
=============================================================================
