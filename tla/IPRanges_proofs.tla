-------------------------- MODULE IPRanges_proofs --------------------------
(***************************************************************************)
(* What holds of a pattern of ranges for addresses of any width and any    *)
(* number of ranges.  The search, the loop of Remove and the loading are   *)
(* recursive: the proofs go by induction, which is a choice of a smallest  *)
(* counterexample.                                                         *)
(***************************************************************************)
EXTENDS IPRanges, FiniteSetTheorems, WellFoundedInduction, TLAPS

(* Induction over numbers, by a smallest counterexample.                   *)
LEMMA Induction ==
  ASSUME NEW Good \in SUBSET Nat, 0 \in Good, \A n \in Good : n + 1 \in Good
  PROVE  \A n \in Nat : n \in Good
<1> SUFFICES ASSUME Nat \ Good # {} PROVE FALSE
  OBVIOUS
<1>1. PICK n \in Nat \ Good : \A m \in Nat \ Good : <<m, n>> \notin OpToRel(<, Nat)
  BY NatLessThanWellFounded, WFMin
<1>2. \A m \in Nat \ Good : ~ (m < n)
  BY <1>1 DEF OpToRel
<1>3. n - 1 \in Nat /\ n - 1 \in Good
  BY <1>2
<1> QED
  BY <1>3
-----------------------------------------------------------------------------
(* Powers of two count subsets.                                            *)
LEMMA PowerType ==
  ASSUME NEW n \in Nat
  PROVE  /\ 2 ^ n \in Nat /\ 2 ^ n >= 1
         /\ IsFiniteSet(SUBSET (1 .. n)) /\ 2 ^ n = Cardinality(SUBSET (1 .. n))
<1>1. IsFiniteSet(1 .. n) /\ Cardinality(1 .. n) = n
  BY FS_Interval
<1>2. IsFiniteSet(SUBSET (1 .. n)) /\ Cardinality(SUBSET (1 .. n)) = 2 ^ Cardinality(1 .. n)
  BY <1>1, FS_SUBSET
<1>3. Cardinality(SUBSET (1 .. n)) \in Nat /\ Cardinality(SUBSET (1 .. n)) # 0
  <2>1. SUBSET (1 .. n) # {}
    OBVIOUS
  <2> QED
    BY <1>2, <2>1, FS_CardinalityType, FS_EmptySet
<1>4. 2 ^ n = Cardinality(SUBSET (1 .. n))
  BY <1>1, <1>2
<1> QED
  BY <1>2, <1>3, <1>4

LEMMA PowerSum ==
  ASSUME NEW m \in Nat, NEW n \in Nat
  PROVE  2 ^ (m + n) = 2 ^ m * 2 ^ n
<1> DEFINE A == 1 .. m
           B == (m + 1) .. (m + n)
           C == 1 .. (m + n)
           split == [s \in SUBSET C |-> <<s \cap A, s \cap B>>]
<1>1. IsFiniteSet(SUBSET B) /\ Cardinality(SUBSET B) = 2 ^ n
  <2>1. IsFiniteSet(B) /\ Cardinality(B) = n
    BY FS_Interval
  <2>2. IsFiniteSet(SUBSET B) /\ Cardinality(SUBSET B) = 2 ^ Cardinality(B)
    BY <2>1, FS_SUBSET
  <2> QED
    BY <2>1, <2>2
<1>2. IsFiniteSet(SUBSET A) /\ Cardinality(SUBSET A) = 2 ^ m
  BY PowerType
<1>3. IsFiniteSet(SUBSET C) /\ Cardinality(SUBSET C) = 2 ^ (m + n)
  BY PowerType
<1>4. /\ IsFiniteSet((SUBSET A) \X (SUBSET B))
      /\ Cardinality((SUBSET A) \X (SUBSET B)) = 2 ^ m * 2 ^ n
  BY <1>1, <1>2, FS_Product
<1>5. C = A \cup B /\ A \cap B = {}
  OBVIOUS
<1> HIDE DEF A, B, C
<1>6. split \in Bijection(SUBSET C, (SUBSET A) \X (SUBSET B))
  <2>1. split \in [SUBSET C -> (SUBSET A) \X (SUBSET B)]
    OBVIOUS
  <2>2. ASSUME NEW s \in SUBSET C, NEW t \in SUBSET C, split[s] = split[t]
        PROVE  s = t
    <3>1. s \cap A = t \cap A /\ s \cap B = t \cap B
      BY <2>2
    <3> QED
      BY <1>5, <3>1
  <2>3. ASSUME NEW u \in SUBSET A, NEW v \in SUBSET B
        PROVE  \E s \in SUBSET C : split[s] = <<u, v>>
    <3>1. u \cup v \in SUBSET C /\ (u \cup v) \cap A = u /\ (u \cup v) \cap B = v
      BY <1>5
    <3> QED
      BY <3>1
  <2> HIDE DEF split
  <2>4. split \in Injection(SUBSET C, (SUBSET A) \X (SUBSET B))
    BY <2>1, <2>2 DEF Injection, IsInjective
  <2>5. split \in Surjection(SUBSET C, (SUBSET A) \X (SUBSET B))
    <3>1. ASSUME NEW t \in (SUBSET A) \X (SUBSET B)
          PROVE  \E s \in SUBSET C : split[s] = t
      <4>1. PICK u \in SUBSET A, v \in SUBSET B : t = <<u, v>>
        OBVIOUS
      <4> QED
        BY <2>3, <4>1
    <3> QED
      BY <2>1, <3>1 DEF Surjection
  <2> QED
    BY <2>4, <2>5 DEF Bijection
<1>7. Cardinality((SUBSET A) \X (SUBSET B)) = Cardinality(SUBSET C)
  BY <1>3, <1>6, FS_Bijection DEF ExistsBijection
<1> QED
  BY <1>3, <1>4, <1>7

(* A range is one of the addresses there are.                              *)
LEMMA RangeShape ==
  ASSUME NEW r \in Ranges
  PROVE  /\ r \in [start : Nat, end : Nat]
         /\ r.start <= r.end /\ r.end < Space
         /\ Space \in Nat
<1>0. PICK host \in 0 .. Bits : \E n \in 0 .. 2 ^ (Bits - host) - 1 :
        r = [start |-> n * 2 ^ host, end |-> n * 2 ^ host + 2 ^ host - 1]
  BY DEF Ranges
<1>1. PICK n \in 0 .. 2 ^ (Bits - host) - 1 :
        r = [start |-> n * 2 ^ host, end |-> n * 2 ^ host + 2 ^ host - 1]
  BY <1>0
<1>2. Bits - host \in Nat /\ host \in Nat /\ (Bits - host) + host = Bits
  BY IPRangesAssumption
<1> DEFINE p == 2 ^ host
           q == 2 ^ (Bits - host)
<1>3. p \in Nat /\ p >= 1 /\ q \in Nat /\ q >= 1 /\ Space = q * p
  BY <1>2, PowerType, PowerSum DEF Space
<1>4. n \in 0 .. q - 1 /\ r = [start |-> n * p, end |-> n * p + p - 1]
  BY <1>1
<1> HIDE DEF p, q
<1>5. n \in Nat /\ n + 1 <= q
  BY <1>3, <1>4
<1>6. n * p \in Nat /\ (n + 1) * p <= q * p /\ (n + 1) * p = n * p + p /\ q * p \in Nat
  BY <1>3, <1>5
<1> QED
  BY <1>3, <1>4, <1>6
-----------------------------------------------------------------------------
(* The search, as it calls itself for an interval.                         *)
Bounds(a) == (0 .. Len(a)) \X (0 .. Len(a))
Half(b)   == (b[1] + b[2]) \div 2

SearchStep(a, ip, f, b) ==
  IF b[1] >= b[2] THEN b[1]
  ELSE IF a[Half(b) + 1].end >= ip THEN f[<<b[1], Half(b)>>] ELSE f[<<Half(b) + 1, b[2]>>]

IsSearch(a, ip, f) == f = [b \in Bounds(a) |-> SearchStep(a, ip, f, b)]

(* The interval gets shorter, and stays within its bounds.                 *)
LEMMA Halves ==
  ASSUME NEW a \in Seq(Ranges), NEW b \in Bounds(a)
  PROVE  /\ b[1] \in 0 .. Len(a) /\ b[2] \in 0 .. Len(a) /\ Len(a) \in Nat
         /\ b = <<b[1], b[2]>>
         /\ b[1] < b[2] => /\ Half(b) \in 0 .. Len(a) - 1
                          /\ b[1] <= Half(b) /\ Half(b) < b[2]
                          /\ <<b[1], Half(b)>> \in Bounds(a)
                          /\ <<Half(b) + 1, b[2]>> \in Bounds(a)
<1>1. Len(a) \in Nat
  OBVIOUS
<1>2. b[1] \in 0 .. Len(a) /\ b[2] \in 0 .. Len(a) /\ b = <<b[1], b[2]>>
  BY DEF Bounds
<1>3. ASSUME b[1] < b[2]
      PROVE  Half(b) \in 0 .. Len(a) - 1 /\ b[1] <= Half(b) /\ Half(b) < b[2]
  BY <1>1, <1>2, <1>3 DEF Half
<1> QED
  BY <1>1, <1>2, <1>3 DEF Bounds

(* What a search says of an interval depends on shorter ones only.         *)
LEMMA StepSame ==
  ASSUME NEW a \in Seq(Ranges), NEW ip, NEW b \in Bounds(a), NEW f, NEW g,
         \A c \in Bounds(a) : c[2] - c[1] < b[2] - b[1] => f[c] = g[c]
  PROVE  SearchStep(a, ip, f, b) = SearchStep(a, ip, g, b)
<1>1. CASE b[1] >= b[2]
  BY <1>1 DEF SearchStep
<1>2. CASE ~ (b[1] >= b[2])
  <2>1. /\ Half(b) \in Int /\ b[1] \in Int /\ b[2] \in Int
        /\ b[1] <= Half(b) /\ Half(b) < b[2]
        /\ <<b[1], Half(b)>> \in Bounds(a) /\ <<Half(b) + 1, b[2]>> \in Bounds(a)
    BY <1>2, Halves
  <2>2. f[<<b[1], Half(b)>>] = g[<<b[1], Half(b)>>]
    BY <2>1
  <2>3. f[<<Half(b) + 1, b[2]>>] = g[<<Half(b) + 1, b[2]>>]
    BY <2>1
  <2> QED
    BY <2>2, <2>3 DEF SearchStep
<1> QED
  BY <1>1, <1>2

(* There is a function that calls itself as Search says: for intervals of  *)
(* any length, by induction on it.                                         *)
LEMMA SearchExists ==
  ASSUME NEW a \in Seq(Ranges), NEW ip
  PROVE  \E f : IsSearch(a, ip, f)
<1> DEFINE UpTo(f, m) ==
             \A b \in Bounds(a) : b[2] - b[1] <= m => f[b] = SearchStep(a, ip, f, b)
           Good == {m \in Nat : \E f : UpTo(f, m)}
<1>0. ASSUME NEW b \in Bounds(a)
      PROVE  b[1] \in Nat /\ b[2] \in Nat /\ b[2] - b[1] <= Len(a)
  <2>1. b[1] \in 0 .. Len(a) /\ b[2] \in 0 .. Len(a) /\ Len(a) \in Nat
    BY Halves
  <2> QED
    BY <2>1
<1>1. \E f : UpTo(f, 0)
  <2> DEFINE f == [b \in Bounds(a) |-> b[1]]
  <2>1. UpTo(f, 0)
    BY <1>0 DEF SearchStep
  <2> QED
    BY <2>1
<1>2. ASSUME NEW m \in Nat, NEW f, UpTo(f, m) PROVE \E g : UpTo(g, m + 1)
  <2> DEFINE g == [b \in Bounds(a) |->
                    IF b[2] - b[1] <= m THEN f[b] ELSE SearchStep(a, ip, f, b)]
  <2>1. ASSUME NEW b \in Bounds(a), b[2] - b[1] <= m + 1
        PROVE  g[b] = SearchStep(a, ip, g, b)
    <3>1. g[b] = SearchStep(a, ip, f, b)
      BY <1>2
    <3>2. \A c \in Bounds(a) : c[2] - c[1] < b[2] - b[1] => f[c] = g[c]
      BY <1>0, <2>1
    <3> HIDE DEF g
    <3> QED
      BY <3>1, <3>2, StepSame
  <2>2. UpTo(g, m + 1)
    BY <2>1
  <2> HIDE DEF g
  <2> QED
    BY <2>2
<1> HIDE DEF UpTo
<1>3. \A m \in Nat : m \in Good
  <2>1. 0 \in Good /\ \A m \in Good : m + 1 \in Good
    BY <1>1, <1>2
  <2>2. Good \in SUBSET Nat
    OBVIOUS
  <2> HIDE DEF Good
  <2> QED
    BY <2>1, <2>2, Induction
<1>4. Len(a) \in Good
  BY <1>3
<1>5. PICK f : UpTo(f, Len(a))
  BY <1>4
<1> DEFINE g == [b \in Bounds(a) |-> f[b]]
<1>6. ASSUME NEW b \in Bounds(a) PROVE f[b] = SearchStep(a, ip, g, b)
  <2>1. f[b] = SearchStep(a, ip, f, b)
    BY <1>0, <1>5 DEF UpTo
  <2>2. SearchStep(a, ip, f, b) = SearchStep(a, ip, g, b)
    <3>1. \A c \in Bounds(a) : f[c] = g[c]
      OBVIOUS
    <3> HIDE DEF g
    <3> QED
      BY <3>1, StepSame
  <2> QED
    BY <2>1, <2>2
<1>7. g = [b \in Bounds(a) |-> SearchStep(a, ip, g, b)]
  BY <1>6
<1> HIDE DEF g
<1> QED
  BY <1>7 DEF IsSearch

LEMMA SearchIs ==
  ASSUME NEW a \in Seq(Ranges), NEW ip
  PROVE  \E f : IsSearch(a, ip, f) /\ Search(a, ip) = f[<<0, Len(a)>>]
<1> DEFINE first == CHOOSE f : IsSearch(a, ip, f)
<1>1. IsSearch(a, ip, first)
  BY SearchExists
<1>2. Search(a, ip) = first[<<0, Len(a)>>]
  BY DEF Search, IsSearch, SearchStep, Half, Bounds
<1> QED
  BY <1>1, <1>2

(* What a search of an interval finds: the range there ends at ip or       *)
(* later, and if the array is in order all before it end earlier.          *)
Found(a, ip, b, i) ==
  /\ i \in b[1] .. b[2]
  /\ i < b[2] => a[i + 1].end >= ip
  /\ Sorted(a) => \A j \in b[1] + 1 .. i : a[j].end < ip

LEMMA SearchFinds ==
  ASSUME NEW a \in Seq(Ranges), NEW ip \in Int, NEW f, IsSearch(a, ip, f)
  PROVE  \A b \in Bounds(a) : b[1] <= b[2] => Found(a, ip, b, f[b])
<1> DEFINE Good == {m \in Nat : \A b \in Bounds(a) :
                      b[1] <= b[2] /\ b[2] - b[1] <= m => Found(a, ip, b, f[b])}
<1>1. ASSUME NEW b \in Bounds(a)
      PROVE  /\ b[1] \in Nat /\ b[2] \in Nat /\ b[2] <= Len(a) /\ Len(a) \in Nat
             /\ f[b] = SearchStep(a, ip, f, b)
  <2>1. b[1] \in 0 .. Len(a) /\ b[2] \in 0 .. Len(a) /\ Len(a) \in Nat
    BY Halves
  <2> QED
    BY <2>1 DEF IsSearch
<1>2. ASSUME NEW b \in Bounds(a), b[1] = b[2] PROVE Found(a, ip, b, f[b])
  <2>1. b[1] \in Nat /\ b[2] \in Nat /\ f[b] = SearchStep(a, ip, f, b)
    BY <1>1
  <2>2. f[b] = b[1]
    BY <1>2, <2>1 DEF SearchStep
  <2>3. f[b] \in b[1] .. b[2] /\ ~ (f[b] < b[2]) /\ b[1] + 1 .. f[b] = {}
    BY <1>2, <2>1, <2>2
  <2> QED
    BY <2>3 DEF Found
<1>3. ASSUME NEW m \in Nat, NEW b \in Bounds(a), b[1] < b[2], b[2] - b[1] <= m + 1,
             \A c \in Bounds(a) : c[1] <= c[2] /\ c[2] - c[1] <= m => Found(a, ip, c, f[c])
      PROVE  Found(a, ip, b, f[b])
  <2> DEFINE h == Half(b)
  <2>1. /\ h \in Nat /\ h < Len(a) /\ b[1] <= h /\ h < b[2]
        /\ <<b[1], h>> \in Bounds(a) /\ <<h + 1, b[2]>> \in Bounds(a)
    BY <1>3, Halves
  <2>2. /\ b[1] \in Nat /\ b[2] \in Nat /\ b[2] <= Len(a) /\ Len(a) \in Nat
        /\ f[b] = IF a[h + 1].end >= ip THEN f[<<b[1], h>>] ELSE f[<<h + 1, b[2]>>]
    BY <1>1, <1>3 DEF SearchStep
  <2> HIDE DEF h
  <2>3. \A j \in 1 .. Len(a) : a[j].end \in Int
    BY RangeShape
  <2>4. CASE a[h + 1].end >= ip
    <3> DEFINE c == <<b[1], h>>
    <3>1. c \in Bounds(a) /\ c[1] = b[1] /\ c[2] = h /\ f[b] = f[c]
      BY <2>1, <2>2, <2>4
    <3>2. c[1] <= c[2] /\ c[2] - c[1] <= m
      BY <1>3, <2>1, <2>2
    <3> HIDE DEF c
    <3>3. Found(a, ip, c, f[b])
      BY <1>3, <3>1, <3>2
    <3>4. /\ f[b] \in b[1] .. h /\ (f[b] < h => a[f[b] + 1].end >= ip)
          /\ Sorted(a) => \A j \in b[1] + 1 .. f[b] : a[j].end < ip
      BY <3>1, <3>3 DEF Found
    <3>5. f[b] \in b[1] .. b[2] /\ (f[b] = h \/ f[b] < h)
      BY <2>1, <2>2, <3>4
    <3> QED
      BY <2>4, <3>4, <3>5 DEF Found
  <2>5. CASE ~ (a[h + 1].end >= ip)
    <3> DEFINE c == <<h + 1, b[2]>>
               i == f[b]
    <3>0. c \in Bounds(a) /\ c[1] = h + 1 /\ c[2] = b[2] /\ f[b] = f[c]
      BY <2>1, <2>2, <2>5
    <3>1. c[1] <= c[2] /\ c[2] - c[1] <= m
      BY <1>3, <2>1, <2>2
    <3> HIDE DEF c
    <3>2. /\ i \in h + 1 .. b[2] /\ (i < b[2] => a[i + 1].end >= ip)
          /\ Sorted(a) => \A j \in h + 1 + 1 .. i : a[j].end < ip
      BY <1>3, <3>0, <3>1 DEF Found
    <3> HIDE DEF i
    <3>3. ASSUME Sorted(a), NEW j \in b[1] + 1 .. i PROVE a[j].end < ip
      <4>1. CASE j \in h + 1 + 1 .. i
        BY <3>2, <3>3, <4>1
      <4>2. CASE j \in b[1] + 1 .. h + 1
        <5>1. j \in 1 .. Len(a) /\ h + 1 \in 1 .. Len(a) /\ j <= h + 1
          BY <2>1, <2>2, <4>2
        <5>2. a[j].end <= a[h + 1].end
          BY <2>3, <3>3, <5>1 DEF Sorted
        <5> QED
          BY <2>3, <2>5, <5>1, <5>2
      <4> QED
        BY <2>1, <2>2, <3>2, <4>1, <4>2
    <3>4. i \in b[1] .. b[2]
      BY <2>1, <2>2, <3>2
    <3>5. Found(a, ip, b, i)
      BY <3>2, <3>3, <3>4 DEF Found
    <3> QED
      BY <3>5 DEF i
  <2> QED
    BY <2>4, <2>5
<1>4. 0 \in Good
  BY <1>1, <1>2
<1>5. ASSUME NEW m \in Good PROVE m + 1 \in Good
  <2>1. ASSUME NEW b \in Bounds(a), b[1] <= b[2], b[2] - b[1] <= m + 1
        PROVE  Found(a, ip, b, f[b])
    BY <1>1, <1>2, <1>3, <2>1
  <2> QED
    BY <2>1
<1>6. \A m \in Nat : m \in Good
  <2>1. Good \in SUBSET Nat
    OBVIOUS
  <2> HIDE DEF Good
  <2> QED
    BY <1>4, <1>5, <2>1, Induction
<1>7. ASSUME NEW b \in Bounds(a), b[1] <= b[2] PROVE Found(a, ip, b, f[b])
  <2>1. b[2] - b[1] \in Nat
    BY <1>1, <1>7
  <2>2. b[2] - b[1] \in Good
    BY <1>6, <2>1
  <2> QED
    BY <1>7, <2>1, <2>2
<1> QED
  BY <1>7

LEMMA SearchResult ==
  ASSUME NEW a \in Seq(Ranges), NEW ip \in Int, NEW i, i = Search(a, ip)
  PROVE  /\ i \in 0 .. Len(a) /\ Len(a) \in Nat
         /\ i < Len(a) => a[i + 1].end >= ip
         /\ Sorted(a) => \A j \in 1 .. i : a[j].end < ip
<1>1. PICK f : IsSearch(a, ip, f) /\ i = f[<<0, Len(a)>>]
  BY SearchIs
<1> DEFINE b == <<0, Len(a)>>
<1>2. b \in Bounds(a) /\ b[1] = 0 /\ b[2] = Len(a) /\ b[1] <= b[2]
  BY DEF Bounds
<1> HIDE DEF b
<1>3. Found(a, ip, b, f[b])
  BY <1>1, <1>2, SearchFinds
<1>4. i = f[b]
  BY <1>1 DEF b
<1> QED
  BY <1>2, <1>3, <1>4 DEF Found

(* What matches is in a range, in whatever order they are.                 *)
LEMMA ContainsIsIn ==
  ASSUME NEW a \in Seq(Ranges), NEW ip \in Int, Contains(a, ip)
  PROVE  In(ip, a)
<1>0. PICK i : i = Search(a, ip)
  OBVIOUS
<1>1. /\ i \in 0 .. Len(a) /\ i < Len(a) /\ Len(a) \in Nat
      /\ a[i + 1].end >= ip /\ a[i + 1].start <= ip
  BY <1>0, SearchResult DEF Contains
<1>2. i + 1 \in DOMAIN a
  BY <1>1
<1>3. a[i + 1].end \in Int
  BY <1>2, RangeShape
<1> QED
  BY <1>1, <1>2, <1>3 DEF In

(* In and Apart look at the values of an array, wherever they are.         *)
LEMMA ByValues ==
  ASSUME NEW a
  PROVE  /\ \A ip : In(ip, a) <=> \E v \in Range(a) : v.start <= ip /\ ip <= v.end
         /\ \A r : Apart(a, r) <=>
              \A v \in Range(a) : v = r \/ v.end < r.start \/ r.end < v.start
BY DEF In, Apart, Range

(* And what is in a range matches, when the array is in order and the      *)
(* range overlaps no other: it is the first that ends there or later.      *)
LEMMA InIsContained ==
  ASSUME NEW a \in Seq(Ranges), Sorted(a), NEW r \in Range(a), Apart(a, r),
         NEW ip \in Int, r.start <= ip, ip <= r.end
  PROVE  Contains(a, ip)
<1>0. PICK i : i = Search(a, ip)
  OBVIOUS
<1>1. /\ i \in 0 .. Len(a) /\ Len(a) \in Nat /\ (i < Len(a) => a[i + 1].end >= ip)
      /\ \A j \in 1 .. i : a[j].end < ip
  BY <1>0, SearchResult
<1>2. PICK k \in 1 .. Len(a) : a[k] = r
  BY DEF Range
<1>3. \A j \in 1 .. Len(a) : /\ a[j].start \in Int /\ a[j].end \in Int
                             /\ a[j].start <= a[j].end
  BY RangeShape
<1> SUFFICES i < Len(a) /\ a[i + 1].start <= ip
  BY <1>0 DEF Contains
<1>4. k \notin 1 .. i
  BY <1>1, <1>2, <1>3
<1>5. i + 1 <= k /\ i < Len(a) /\ i + 1 \in 1 .. Len(a)
  BY <1>1, <1>2, <1>4
<1>6. CASE i + 1 = k
  BY <1>2, <1>5, <1>6
<1>7. CASE i + 1 # k
  <2>1. a[i + 1].end <= a[k].end
    BY <1>5, <1>7 DEF Sorted
  <2>2. a[i + 1] = r \/ a[i + 1].end < r.start \/ r.end < a[i + 1].start
    BY <1>5 DEF Apart
  <2> QED
    BY <1>1, <1>2, <1>3, <1>5, <2>1, <2>2
<1> QED
  BY <1>6, <1>7
-----------------------------------------------------------------------------
(* The folds of the community modules go over the subsets of the places,   *)
(* the biggest place last.                                                 *)
Biggest(S) == CHOOSE x \in S : \A y \in S : x >= y

(* A set of places has a biggest one.                                      *)
LEMMA BiggestIs ==
  ASSUME NEW n \in Nat, NEW S \in SUBSET (1 .. n), S # {}
  PROVE  Biggest(S) \in S /\ \A y \in S : Biggest(S) >= y
<1> DEFINE Good == {m \in Nat : \A T \in SUBSET (1 .. m) :
                      T # {} => \E x \in T : \A y \in T : x >= y}
<1>1. 0 \in Good
  <2>1. 1 .. 0 = {}
    OBVIOUS
  <2> QED
    BY <2>1
<1>2. ASSUME NEW m \in Good PROVE m + 1 \in Good
  <2>1. ASSUME NEW T \in SUBSET (1 .. m + 1), T # {}
        PROVE  \E x \in T : \A y \in T : x >= y
    <3>1. CASE m + 1 \in T
      BY <3>1
    <3>2. CASE m + 1 \notin T
      <4>1. T \in SUBSET (1 .. m)
        BY <3>2
      <4> QED
        BY <2>1, <4>1
    <3> QED
      BY <3>1, <3>2
  <2> QED
    BY <2>1
<1>3. \A m \in Nat : m \in Good
  <2>1. Good \in SUBSET Nat
    OBVIOUS
  <2> HIDE DEF Good
  <2> QED
    BY <1>1, <1>2, <2>1, Induction
<1>4. \E x \in S : \A y \in S : x >= y
  BY <1>3
<1> QED
  BY <1>4 DEF Biggest

(* It is the last place, where the set has that one.                       *)
LEMMA LastIsBiggest ==
  ASSUME NEW n \in Nat, NEW S \in SUBSET (1 .. n), n \in S
  PROVE  Biggest(S) = n
<1>0. PICK b : b = Biggest(S)
  OBVIOUS
<1>1. b \in S /\ b >= n
  BY <1>0, BiggestIs
<1>2. b \in 1 .. n
  BY <1>1
<1>3. b = n
  BY <1>1, <1>2
<1> QED
  BY <1>0, <1>3

(* There is a function that a fold calls itself as: by induction on the    *)
(* places.                                                                 *)
FoldStep(F, base, g, S) ==
  IF S = {} THEN base ELSE F[<<g[S \ {Biggest(S)}], Biggest(S)>>]

FoldUpTo(F, base, g, m) == \A S \in SUBSET (1 .. m) : g[S] = FoldStep(F, base, g, S)

Folds(X, F, base, m) ==
  \E g \in [SUBSET (1 .. m) -> X] : FoldUpTo(F, base, g, m)

LEMMA FoldExists ==
  ASSUME NEW X, NEW base \in X, NEW n \in Nat, NEW F \in [X \X (1 .. n) -> X]
  PROVE  Folds(X, F, base, n)
<1> DEFINE Good == {m \in Nat : m <= n => Folds(X, F, base, m)}
<1>1. 0 \in Good
  <2> DEFINE g == [S \in SUBSET (1 .. 0) |-> base]
  <2>1. g \in [SUBSET (1 .. 0) -> X] /\ FoldUpTo(F, base, g, 0)
    BY DEF FoldStep, FoldUpTo
  <2> HIDE DEF g
  <2> QED
    BY <2>1 DEF Folds
<1>2. ASSUME NEW m \in Nat, m + 1 <= n, NEW g \in [SUBSET (1 .. m) -> X], FoldUpTo(F, base, g, m)
      PROVE  \E h \in [SUBSET (1 .. m + 1) -> X] : FoldUpTo(F, base, h, m + 1)
  <2> DEFINE h == [S \in SUBSET (1 .. m + 1) |->
                     IF m + 1 \in S THEN F[<<g[S \ {m + 1}], m + 1>>] ELSE g[S]]
  <2>0. /\ m + 1 \in 1 .. n
        /\ \A S \in SUBSET (1 .. m + 1) : S \ {m + 1} \in SUBSET (1 .. m)
        /\ \A S \in SUBSET (1 .. m) : /\ S \in SUBSET (1 .. m + 1)
                                      /\ h[S] = g[S]
    BY <1>2
  <2>1. h \in [SUBSET (1 .. m + 1) -> X]
    <3>1. ASSUME NEW S \in SUBSET (1 .. m + 1) PROVE h[S] \in X
      <4>1. CASE m + 1 \in S
        <5>1. S \ {m + 1} \in SUBSET (1 .. m)
          BY <2>0
        <5>2. g[S \ {m + 1}] \in X
          BY <5>1
        <5> QED
          BY <2>0, <4>1, <5>2
      <4>2. CASE m + 1 \notin S
        <5>1. S \in SUBSET (1 .. m)
          BY <4>2
        <5> QED
          BY <4>2, <5>1
      <4> QED
        BY <4>1, <4>2
    <3> QED
      BY <3>1
  <2>2. ASSUME NEW S \in SUBSET (1 .. m + 1) PROVE h[S] = FoldStep(F, base, h, S)
    <3>1. CASE m + 1 \in S
      <4>1. Biggest(S) = m + 1
        BY <3>1, LastIsBiggest
      <4>2. h[S] = F[<<g[S \ {m + 1}], m + 1>>]
        BY <3>1
      <4>3. h[S \ {m + 1}] = g[S \ {m + 1}]
        BY <2>0
      <4> HIDE DEF h
      <4> QED
        BY <3>1, <4>1, <4>2, <4>3 DEF FoldStep
    <3>2. CASE m + 1 \notin S
      <4>1. S \in SUBSET (1 .. m)
        BY <3>2
      <4>2. h[S] = FoldStep(F, base, g, S)
        BY <1>2, <2>0, <4>1 DEF FoldUpTo
      <4>3. CASE S = {}
        BY <4>2, <4>3 DEF FoldStep
      <4>4. CASE S # {}
        <5>1. S \ {Biggest(S)} \in SUBSET (1 .. m)
          BY <4>1
        <5>2. h[S \ {Biggest(S)}] = g[S \ {Biggest(S)}]
          BY <2>0, <5>1
        <5> HIDE DEF h
        <5> QED
          BY <4>2, <4>4, <5>2 DEF FoldStep
      <4> QED
        BY <4>3, <4>4
    <3> QED
      BY <3>1, <3>2
  <2>3. FoldUpTo(F, base, h, m + 1)
    BY <2>2 DEF FoldUpTo
  <2> HIDE DEF h
  <2> QED
    BY <2>1, <2>3
<1>3. \A m \in Nat : m \in Good
  <2>1. Good \in SUBSET Nat
    OBVIOUS
  <2>2. ASSUME NEW m \in Nat, m + 1 <= n, Folds(X, F, base, m)
        PROVE  Folds(X, F, base, m + 1)
    BY <1>2, <2>2 DEF Folds
  <2>3. ASSUME NEW m \in Good PROVE m + 1 \in Good
    <3>1. m \in Nat /\ (m + 1 <= n => m <= n)
      OBVIOUS
    <3>2. m <= n => Folds(X, F, base, m)
      OBVIOUS
    <3> QED
      BY <2>2, <3>1, <3>2
  <2> HIDE DEF Good
  <2> QED
    BY <1>1, <2>1, <2>3, Induction
<1> QED
  BY <1>3

(* Along the places, a fold has a value for each.                          *)
LEMMA UpToPlace ==
  ASSUME NEW n \in Nat, NEW m \in 1 .. n
  PROVE  /\ 1 .. m \in SUBSET (1 .. n) /\ 1 .. m # {}
         /\ Biggest(1 .. m) = m /\ (1 .. m) \ {m} = 1 .. (m - 1)
<1>1. m \in Nat /\ 1 .. m \in SUBSET (1 .. m) /\ m \in 1 .. m
  OBVIOUS
<1>2. Biggest(1 .. m) = m
  BY <1>1, LastIsBiggest
<1> QED
  BY <1>2
-----------------------------------------------------------------------------
(* The loading: the array after each value of the configuration.           *)
AddStep(s, g, S) ==
  IF S = {} THEN <<>> ELSE Add(g[S \ {Biggest(S)}], s[Biggest(S)])

IsAdding(s, g) == g = [S \in SUBSET DOMAIN s |-> AddStep(s, g, S)]

(* Add appends the range, or leaves the array.                             *)
LEMMA AddKeeps ==
  ASSUME NEW a \in Seq(Ranges), NEW r \in Ranges
  PROVE  Add(a, r) \in Seq(Ranges) /\ (Add(a, r) = a \/ Add(a, r) = Append(a, r))
BY DEF Add

(* The fold of Add is one of those functions,                              *)
LEMMA AddingExists ==
  ASSUME NEW s \in Seq(Ranges)
  PROVE  \E g : IsAdding(s, g)
<1> DEFINE X == Seq(Ranges)
           n == Len(s)
           F == [p \in X \X (1 .. n) |-> Add(p[1], s[p[2]])]
<1>0. n \in Nat /\ DOMAIN s = 1 .. n /\ <<>> \in X /\ \A k \in 1 .. n : s[k] \in Ranges
  OBVIOUS
<1>1. F \in [X \X (1 .. n) -> X]
  <2>1. ASSUME NEW p \in X \X (1 .. n) PROVE Add(p[1], s[p[2]]) \in X
    <3>1. p[1] \in Seq(Ranges) /\ s[p[2]] \in Ranges
      BY <1>0
    <3> QED
      BY <3>1, AddKeeps
  <2> QED
    BY <2>1
<1>2. \A a \in X, k \in 1 .. n : F[<<a, k>>] = Add(a, s[k])
  OBVIOUS
<1> HIDE DEF X, n, F
<1>3. n \in Nat /\ <<>> \in X
  BY <1>0
<1>4. Folds(X, F, <<>>, n)
  BY <1>3, <1>1, FoldExists
<1>5. PICK g \in [SUBSET (1 .. n) -> X] :
        \A S \in SUBSET (1 .. n) : g[S] = FoldStep(F, <<>>, g, S)
  BY <1>4 DEF Folds, FoldUpTo
<1>6. ASSUME NEW S \in SUBSET (1 .. n) PROVE g[S] = AddStep(s, g, S)
  <2>1. CASE S = {}
    BY <1>5, <2>1 DEF FoldStep, AddStep
  <2>2. CASE S # {}
    <3>1. PICK b : b = Biggest(S)
      OBVIOUS
    <3>2. b \in S
      BY <1>0, <2>2, <3>1, BiggestIs
    <3>3. b \in 1 .. n /\ S \ {b} \in SUBSET (1 .. n)
      BY <3>2
    <3>4. g[S \ {b}] \in X
      BY <3>3
    <3>5. g[S] = F[<<g[S \ {b}], b>>]
      BY <1>5, <2>2, <3>1 DEF FoldStep
    <3>6. g[S] = Add(g[S \ {b}], s[b])
      BY <1>2, <3>3, <3>4, <3>5
    <3> QED
      BY <2>2, <3>1, <3>6 DEF AddStep
  <2> QED
    BY <2>1, <2>2
<1>7. g = [S \in SUBSET DOMAIN s |-> AddStep(s, g, S)]
  BY <1>0, <1>6
<1> QED
  BY <1>7 DEF IsAdding

(* and gives an array after each value.                                    *)
LEMMA Adding ==
  ASSUME NEW s \in Seq(Ranges)
  PROVE  \E h : /\ h[0] = <<>>
                /\ \A k \in 1 .. Len(s) : h[k] = Add(h[k - 1], s[k])
                /\ h[Len(s)] = Seqs!FoldLeft(Add, <<>>, s)
<1>1. PICK g : g = CHOOSE f : IsAdding(s, f)
  OBVIOUS
<1>2. IsAdding(s, g)
  BY <1>1, AddingExists
<1>3. Seqs!FoldLeft(Add, <<>>, s) = g[DOMAIN s]
  BY <1>1 DEF Seqs!FoldLeft, Seqs!MapThenFoldSet, Seqs!Max, Biggest, IsAdding, AddStep
<1> DEFINE h == [m \in 0 .. Len(s) |-> g[1 .. m]]
<1>4. Len(s) \in Nat /\ DOMAIN s = 1 .. Len(s)
  OBVIOUS
<1>5. \A S \in SUBSET (1 .. Len(s)) : g[S] = AddStep(s, g, S)
  BY <1>2, <1>4 DEF IsAdding
<1>6. h[0] = <<>>
  <2>1. h[0] = g[{}]
    BY <1>4
  <2> QED
    BY <1>5, <2>1 DEF AddStep
<1>7. ASSUME NEW k \in 1 .. Len(s) PROVE h[k] = Add(h[k - 1], s[k])
  <2>1. /\ 1 .. k \in SUBSET (1 .. Len(s)) /\ 1 .. k # {}
        /\ Biggest(1 .. k) = k /\ (1 .. k) \ {k} = 1 .. (k - 1)
    BY <1>4, UpToPlace
  <2>2. h[k] = g[1 .. k] /\ h[k - 1] = g[1 .. (k - 1)]
    BY <1>4
  <2> HIDE DEF h
  <2> QED
    BY <1>5, <2>1, <2>2 DEF AddStep
<1>8. h[Len(s)] = Seqs!FoldLeft(Add, <<>>, s)
  BY <1>3, <1>4
<1> HIDE DEF h
<1> QED
  BY <1>6, <1>7, <1>8

(* Each value adds one range or none.                                      *)
LEMMA Loaded ==
  ASSUME NEW s \in Seq(Ranges), NEW h, h[0] = <<>>,
         \A k \in 1 .. Len(s) : h[k] = Add(h[k - 1], s[k])
  PROVE  \A k \in 0 .. Len(s) : h[k] \in Seq(Ranges) /\ Len(h[k]) <= k
<1> DEFINE Good == {k \in Nat : k <= Len(s) => h[k] \in Seq(Ranges) /\ Len(h[k]) <= k}
<1>1. 0 \in Good
  <2>1. h[0] \in Seq(Ranges) /\ Len(h[0]) <= 0
    OBVIOUS
  <2> QED
    BY <2>1
<1>2. ASSUME NEW k \in Good PROVE k + 1 \in Good
  <2> SUFFICES ASSUME k + 1 <= Len(s)
               PROVE  h[k + 1] \in Seq(Ranges) /\ Len(h[k + 1]) <= k + 1
    OBVIOUS
  <2>0. Good \in SUBSET Nat /\ Len(s) \in Nat
    OBVIOUS
  <2>1. k \in Nat /\ Len(s) \in Nat
    BY <2>0
  <2>2. k <= Len(s) /\ k + 1 \in 1 .. Len(s) /\ (k + 1) - 1 = k
    BY <2>1
  <2>3. h[k] \in Seq(Ranges) /\ Len(h[k]) <= k
    BY <2>2
  <2>4. h[k + 1] = Add(h[k], s[k + 1]) /\ s[k + 1] \in Ranges
    BY <2>2
  <2>5. h[k + 1] \in Seq(Ranges) /\ (h[k + 1] = h[k] \/ h[k + 1] = Append(h[k], s[k + 1]))
    BY <2>3, <2>4, AddKeeps
  <2> QED
    BY <2>1, <2>3, <2>4, <2>5
<1>3. \A k \in Nat : k \in Good
  <2>1. Good \in SUBSET Nat
    OBVIOUS
  <2> HIDE DEF Good
  <2> QED
    BY <1>1, <1>2, <2>1, Induction
<1> QED
  BY <1>3
-----------------------------------------------------------------------------
(* The loop of Remove: what it has after each place.                       *)
VisitOf(r, s, k) ==
  IF s.panic \/ s.a[k] # r THEN s
  ELSE IF k > s.n THEN [s EXCEPT !.panic = TRUE]
  ELSE [s EXCEPT !.a = Without(s.a, k, s.n), !.n = @ - 1]

Whole(a)  == [a |-> a, n |-> Len(a), panic |-> FALSE]
Places(a) == [k \in DOMAIN a |-> k]
States(n) == [a : [1 .. n -> Ranges], n : 0 .. n, panic : BOOLEAN]

VisitStep(r, a, g, S) ==
  IF S = {} THEN Whole(a) ELSE VisitOf(r, g[S \ {Biggest(S)}], Places(a)[Biggest(S)])

IsVisiting(r, a, g) == g = [S \in SUBSET DOMAIN Places(a) |-> VisitStep(r, a, g, S)]

(* The first n places hold ranges all the time, n never more than at first.*)
LEMMA VisitType ==
  ASSUME NEW n \in Nat, NEW r, NEW s \in States(n), NEW k \in 1 .. n
  PROVE  VisitOf(r, s, k) \in States(n)
<1>1. s.a \in [1 .. n -> Ranges] /\ s.n \in 0 .. n
  BY DEF States
<1>2. ASSUME k <= s.n
      PROVE  Without(s.a, k, s.n) \in [1 .. n -> Ranges] /\ s.n - 1 \in 0 .. n
  BY <1>1, <1>2 DEF Without
<1>3. CASE s.panic \/ s.a[k] # r
  BY <1>3 DEF VisitOf
<1>4. CASE ~ (s.panic \/ s.a[k] # r) /\ k > s.n
  BY <1>4 DEF VisitOf, States
<1>5. CASE ~ (s.panic \/ s.a[k] # r) /\ ~ (k > s.n)
  <2>1. k <= s.n
    BY <1>1, <1>5
  <2> QED
    BY <1>2, <1>5, <2>1 DEF VisitOf, States
<1> QED
  BY <1>3, <1>4, <1>5

LEMMA WholeType ==
  ASSUME NEW a \in Seq(Ranges)
  PROVE  /\ Len(a) \in Nat /\ Whole(a) \in States(Len(a))
         /\ DOMAIN Places(a) = 1 .. Len(a)
         /\ \A k \in 1 .. Len(a) : Places(a)[k] = k
BY DEF Whole, Places, States

(* The fold of a visit is one of those functions,                          *)
LEMMA VisitingExists ==
  ASSUME NEW a \in Seq(Ranges), NEW r
  PROVE  \E g : IsVisiting(r, a, g)
<1> DEFINE n == Len(a)
           X == States(n)
           F == [p \in X \X (1 .. n) |-> VisitOf(r, p[1], p[2])]
           base == Whole(a)
<1>0. /\ n \in Nat /\ DOMAIN Places(a) = 1 .. n /\ base \in X
      /\ \A k \in 1 .. n : Places(a)[k] = k
  BY WholeType
<1>1. F \in [X \X (1 .. n) -> X]
  <2>1. ASSUME NEW p \in X \X (1 .. n) PROVE VisitOf(r, p[1], p[2]) \in X
    <3>1. p[1] \in States(n) /\ p[2] \in 1 .. n
      OBVIOUS
    <3> QED
      BY <1>0, <3>1, VisitType
  <2> QED
    BY <2>1
<1>2. \A s \in X, k \in 1 .. n : F[<<s, k>>] = VisitOf(r, s, k)
  OBVIOUS
<1> HIDE DEF X, n, F, base
<1>3. Folds(X, F, base, n)
  BY <1>0, <1>1, FoldExists
<1>4. PICK g \in [SUBSET (1 .. n) -> X] :
        \A S \in SUBSET (1 .. n) : g[S] = FoldStep(F, base, g, S)
  BY <1>3 DEF Folds, FoldUpTo
<1>5. ASSUME NEW S \in SUBSET (1 .. n) PROVE g[S] = VisitStep(r, a, g, S)
  <2>1. CASE S = {}
    BY <1>4, <2>1 DEF FoldStep, VisitStep, base
  <2>2. CASE S # {}
    <3>1. PICK b : b = Biggest(S)
      OBVIOUS
    <3>2. b \in S
      BY <1>0, <2>2, <3>1, BiggestIs
    <3>3. b \in 1 .. n /\ S \ {b} \in SUBSET (1 .. n)
      BY <3>2
    <3>4. g[S \ {b}] \in X
      BY <3>3
    <3>5. g[S] = F[<<g[S \ {b}], b>>]
      BY <1>4, <2>2, <3>1 DEF FoldStep
    <3>6. g[S] = VisitOf(r, g[S \ {b}], b)
      BY <1>2, <3>3, <3>4, <3>5
    <3> QED
      BY <1>0, <2>2, <3>1, <3>3, <3>6 DEF VisitStep
  <2> QED
    BY <2>1, <2>2
<1>6. g = [S \in SUBSET DOMAIN Places(a) |-> VisitStep(r, a, g, S)]
  BY <1>0, <1>5
<1> QED
  BY <1>6 DEF IsVisiting

(* and gives a state after each place.                                     *)
IsLoop(r, a, h) ==
  h[0] = Whole(a) /\ \A k \in 1 .. Len(a) : h[k] = VisitOf(r, h[k - 1], k)

LEMMA Removing ==
  ASSUME NEW a \in Seq(Ranges), NEW r
  PROVE  \E h : /\ IsLoop(r, a, h)
                /\ Remove(a, r) = SubSeq(h[Len(a)].a, 1, h[Len(a)].n)
<1>1. PICK g : g = CHOOSE f : IsVisiting(r, a, f)
  OBVIOUS
<1>2. IsVisiting(r, a, g)
  BY <1>1, VisitingExists
<1>3. Remove(a, r) = SubSeq(g[DOMAIN Places(a)].a, 1, g[DOMAIN Places(a)].n)
  BY <1>1 DEF Remove, Seqs!FoldLeft, Seqs!MapThenFoldSet, Seqs!Max, Biggest,
              IsVisiting, VisitStep, VisitOf, Places, Whole
<1> DEFINE h == [m \in 0 .. Len(a) |-> g[1 .. m]]
<1>4. Len(a) \in Nat /\ DOMAIN Places(a) = 1 .. Len(a)
      /\ \A k \in 1 .. Len(a) : Places(a)[k] = k
  BY WholeType
<1>5. \A S \in SUBSET (1 .. Len(a)) : g[S] = VisitStep(r, a, g, S)
  BY <1>2, <1>4 DEF IsVisiting
<1>6. h[0] = Whole(a)
  <2>1. h[0] = g[{}]
    BY <1>4
  <2> QED
    BY <1>5, <2>1 DEF VisitStep
<1>7. ASSUME NEW k \in 1 .. Len(a) PROVE h[k] = VisitOf(r, h[k - 1], k)
  <2>1. /\ 1 .. k \in SUBSET (1 .. Len(a)) /\ 1 .. k # {}
        /\ Biggest(1 .. k) = k /\ (1 .. k) \ {k} = 1 .. (k - 1)
    BY <1>4, UpToPlace
  <2>2. h[k] = g[1 .. k] /\ h[k - 1] = g[1 .. (k - 1)]
    BY <1>4
  <2> HIDE DEF h
  <2>3. g[1 .. k] = VisitStep(r, a, g, 1 .. k)
    BY <1>5, <2>1
  <2>4. g[1 .. k] = VisitOf(r, g[(1 .. k) \ {Biggest(1 .. k)}], Places(a)[Biggest(1 .. k)])
    BY <2>1, <2>3, Zenon DEF VisitStep
  <2>5. Places(a)[Biggest(1 .. k)] = k /\ g[(1 .. k) \ {Biggest(1 .. k)}] = h[k - 1]
    BY <1>4, <2>1, <2>2
  <2> QED
    BY <2>2, <2>4, <2>5
<1>8. Remove(a, r) = SubSeq(h[Len(a)].a, 1, h[Len(a)].n)
  <2>1. h[Len(a)] = g[DOMAIN Places(a)]
    BY <1>4
  <2> HIDE DEF h
  <2> QED
    BY <1>3, <2>1
<1> HIDE DEF h
<1> QED
  BY <1>6, <1>7, <1>8 DEF IsLoop

LEMMA LoopType ==
  ASSUME NEW a \in Seq(Ranges), NEW r, NEW h, IsLoop(r, a, h)
  PROVE  \A k \in 0 .. Len(a) : h[k] \in States(Len(a))
<1> DEFINE n == Len(a)
           Good == {k \in Nat : k <= n => h[k] \in States(n)}
<1>0. n \in Nat /\ Whole(a) \in States(n)
  BY WholeType
<1>1. h[0] = Whole(a) /\ \A k \in 1 .. n : h[k] = VisitOf(r, h[k - 1], k)
  BY DEF IsLoop
<1> HIDE DEF n
<1>2. ASSUME NEW k \in Nat, k + 1 <= n, h[k] \in States(n)
      PROVE  h[k + 1] \in States(n)
  <2>1. k + 1 \in 1 .. n /\ (k + 1) - 1 = k
    BY <1>0, <1>2
  <2>2. h[k + 1] = VisitOf(r, h[k], k + 1)
    BY <1>1, <2>1
  <2> QED
    BY <1>0, <1>2, <2>1, <2>2, VisitType
<1>3. \A k \in Nat : k \in Good
  <2>1. Good \in SUBSET Nat
    OBVIOUS
  <2>2. 0 \in Good
    BY <1>0, <1>1
  <2>3. ASSUME NEW k \in Good PROVE k + 1 \in Good
    <3>1. k \in Nat /\ (k + 1 <= n => k <= n)
      BY <1>0
    <3>2. k <= n => h[k] \in States(n)
      OBVIOUS
    <3> QED
      BY <1>2, <3>1, <3>2
  <2> HIDE DEF Good
  <2> QED
    BY <2>1, <2>2, <2>3, Induction
<1>4. \A k \in 0 .. n : h[k] \in States(n)
  BY <1>0, <1>3
<1> QED
  BY <1>4 DEF n

(* Remove leaves ranges, and no more of them than there were.              *)
LEMMA RemoveKeeps ==
  ASSUME NEW a \in Seq(Ranges), NEW r
  PROVE  Remove(a, r) \in Seq(Ranges) /\ Len(Remove(a, r)) <= Len(a)
<1>1. PICK h : IsLoop(r, a, h) /\ Remove(a, r) = SubSeq(h[Len(a)].a, 1, h[Len(a)].n)
  BY Removing
<1>2. Len(a) \in Nat /\ h[Len(a)] \in States(Len(a))
  BY <1>1, LoopType
<1>3. PICK b, m : b = h[Len(a)].a /\ m = h[Len(a)].n
  OBVIOUS
<1>4. b \in [1 .. Len(a) -> Ranges] /\ m \in 0 .. Len(a)
  BY <1>2, <1>3 DEF States
<1>5. Remove(a, r) = SubSeq(b, 1, m)
  BY <1>1, <1>3
<1>6. b \in Seq(Ranges) /\ Len(b) = Len(a)
  BY <1>2, <1>4
<1>7. SubSeq(b, 1, m) \in Seq(Ranges) /\ Len(SubSeq(b, 1, m)) = m
  BY <1>2, <1>4, <1>6
<1> QED
  BY <1>2, <1>4, <1>5, <1>7
-----------------------------------------------------------------------------
(* The sequences that TLC counts out are those of a bounded length.        *)
LEMMA Bounded ==
  ASSUME NEW n \in Nat, NEW s
  PROVE  s \in Seqs!BoundedSeq(Ranges, n) <=> s \in Seq(Ranges) /\ Len(s) <= n
<1>1. ASSUME s \in Seqs!BoundedSeq(Ranges, n) PROVE s \in Seq(Ranges) /\ Len(s) <= n
  <2>1. PICK m \in 0 .. n : s \in [1 .. m -> Ranges]
    BY <1>1 DEF Seqs!BoundedSeq, Seqs!SeqOf
  <2> QED
    BY <2>1
<1>2. ASSUME s \in Seq(Ranges), Len(s) <= n PROVE s \in Seqs!BoundedSeq(Ranges, n)
  <2>1. PICK m : m = Len(s)
    OBVIOUS
  <2>2. m \in 0 .. n /\ s \in [1 .. m -> Ranges]
    BY <1>2, <2>1
  <2> QED
    BY <2>2 DEF Seqs!BoundedSeq, Seqs!SeqOf
<1> QED
  BY <1>1, <1>2

(* To sort leaves the ranges that were there, in order.                    *)
LEMMA SortingsKeep ==
  ASSUME NEW a \in Seq(Ranges), NEW s \in Sortings(a)
  PROVE  /\ s \in Seq(Ranges) /\ Len(s) = Len(a) /\ Sorted(s)
         /\ \E p \in Bijection(DOMAIN a, DOMAIN a) : s = [i \in DOMAIN a |-> a[p[i]]]
<1>1. /\ Sorted(s)
      /\ \E p \in Bijection(DOMAIN a, DOMAIN a) : s = [i \in DOMAIN a |-> a[p[i]]]
  BY DEF Sortings
<1>2. PICK p \in Bijection(DOMAIN a, DOMAIN a) : s = [i \in DOMAIN a |-> a[p[i]]]
  BY <1>1
<1>3. p \in [1 .. Len(a) -> 1 .. Len(a)]
  BY DEF Bijection, Injection
<1>4. Len(a) \in Nat /\ s = [i \in 1 .. Len(a) |-> a[p[i]]]
  BY <1>2
<1>5. s \in [1 .. Len(a) -> Ranges]
  BY <1>3, <1>4
<1>6. s \in Seq(Ranges) /\ Len(s) = Len(a)
  BY <1>4, <1>5
<1> QED
  BY <1>1, <1>6

(* As it is loaded, the array has no more ranges than there are values.    *)
LEMMA LoadKeeps ==
  ASSUME NEW s \in Seq(Ranges)
  PROVE  /\ Seqs!FoldLeft(Add, <<>>, s) \in Seq(Ranges)
         /\ Len(Seqs!FoldLeft(Add, <<>>, s)) <= Len(s)
<1>1. PICK h : /\ h[0] = <<>>
               /\ \A k \in 1 .. Len(s) : h[k] = Add(h[k - 1], s[k])
               /\ h[Len(s)] = Seqs!FoldLeft(Add, <<>>, s)
  BY Adding
<1>2. Len(s) \in 0 .. Len(s)
  OBVIOUS
<1>3. h[Len(s)] \in Seq(Ranges) /\ Len(h[Len(s)]) <= Len(s)
  BY <1>1, <1>2, Loaded
<1> QED
  BY <1>1, <1>3

(* The array has ranges of addresses only, whatever Add and Remove do to   *)
(* it, and never more of them than the bound of the model allows.          *)
THEOREM TypeCorrect == Spec => []TypeOK
<1>1. Init => TypeOK
  <2> SUFFICES ASSUME Init PROVE TypeOK
    OBVIOUS
  <2>1. MaxConfig \in Nat /\ MaxRanges \in Nat /\ MaxConfig <= MaxRanges
    BY IPRangesAssumption
  <2>2. config \in Seq(Ranges) /\ Len(config) <= MaxConfig
    BY <2>1, Bounded DEF Init
  <2>3. PICK a : a = Seqs!FoldLeft(Add, <<>>, config)
    OBVIOUS
  <2>4. a \in Seq(Ranges) /\ Len(a) <= Len(config) /\ vals \in Sortings(a)
    BY <2>2, <2>3, LoadKeeps DEF Init
  <2>5. vals \in Seq(Ranges) /\ Len(vals) = Len(a)
    BY <2>4, SortingsKeep
  <2>6. Len(vals) <= MaxRanges
    BY <2>1, <2>2, <2>4, <2>5
  <2> QED
    BY <2>1, <2>5, <2>6, Bounded DEF Init, TypeOK
<1>2. TypeOK /\ [Next]_vars => TypeOK'
  <2> SUFFICES ASSUME TypeOK, [Next]_vars PROVE TypeOK'
    OBVIOUS
  <2>1. MaxConfig \in Nat /\ MaxRanges \in Nat
    BY IPRangesAssumption
  <2>2. vals \in Seq(Ranges) /\ Len(vals) <= MaxRanges
    BY <2>1, Bounded DEF TypeOK
  <2>3. ASSUME NEW a \in Seq(Ranges), Len(a) <= MaxRanges, Edit(a) PROVE TypeOK'
    <3>1. <<>> \in Seqs!BoundedSeq(Ranges, MaxConfig)
      <4>1. PICK e : e = <<>>
        OBVIOUS
      <4>2. e \in Seq(Ranges) /\ Len(e) <= MaxConfig
        BY <2>1, <4>1
      <4> QED
        BY <2>1, <4>1, <4>2, Bounded
    <3>2. a \in Seqs!BoundedSeq(Ranges, MaxRanges)
      BY <2>1, <2>3, Bounded
    <3> QED
      BY <2>3, <3>1, <3>2 DEF Edit, TypeOK
  <2>4. CASE Put
    <3>1. PICK r \in Ranges : Edit(Add(vals, r))
      BY <2>4 DEF Put
    <3>2. Len(vals) < MaxRanges
      BY <2>4 DEF Put
    <3>3. /\ Add(vals, r) \in Seq(Ranges)
          /\ Add(vals, r) = vals \/ Add(vals, r) = Append(vals, r)
      BY <2>2, AddKeeps
    <3>4. Len(Add(vals, r)) <= MaxRanges
      BY <2>1, <2>2, <3>2, <3>3
    <3> QED
      BY <2>3, <3>1, <3>3, <3>4
  <2>5. CASE Delete
    <3>1. PICK r \in Ranges : Edit(Remove(vals, r))
      BY <2>5 DEF Delete
    <3>2. PICK a : a = Remove(vals, r)
      OBVIOUS
    <3>3. a \in Seq(Ranges) /\ Len(a) <= Len(vals)
      BY <2>2, <3>2, RemoveKeeps
    <3>4. Len(a) <= MaxRanges
      BY <2>1, <2>2, <3>3
    <3> QED
      BY <2>3, <3>1, <3>2, <3>3, <3>4
  <2>6. CASE UNCHANGED vars
    BY <2>6 DEF vars, TypeOK
  <2> QED
    BY <2>4, <2>5, <2>6 DEF Next
<1> QED
  BY <1>1, <1>2, PTL DEF Spec

(* What the type invariant says, for the lemmas above.                     *)
LEMMA TypesAre ==
  ASSUME TypeOK
  PROVE  /\ vals \in Seq(Ranges) /\ Len(vals) <= MaxRanges
         /\ config \in Seq(Ranges)
BY Bounded, IPRangesAssumption DEF TypeOK

(* An address that matches (Contains) is in one of the pattern's ranges,   *)
(* whatever order the edits of the API have left them in.                  *)
THEOREM NothingElse == Spec => []NothingElseMatches
<1>1. TypeOK => NothingElseMatches
  <2> SUFFICES ASSUME TypeOK, NEW ip \in Addrs, Contains(vals, ip) PROVE In(ip, vals)
    BY DEF NothingElseMatches
  <2>1. ip \in Int
    BY DEF Addrs
  <2> QED
    BY <2>1, TypesAre, ContainsIsIn
<1> QED
  BY <1>1, TypeCorrect, PTL
-----------------------------------------------------------------------------
(* Where the value is not, the loop of Remove changes nothing.             *)
LEMMA LoopSkips ==
  ASSUME NEW a \in Seq(Ranges), NEW r, NEW h, IsLoop(r, a, h),
         NEW lo \in 0 .. Len(a), NEW hi \in 0 .. Len(a), lo <= hi,
         NEW s, h[lo] = s, \A k \in lo + 1 .. hi : s.a[k] # r
  PROVE  h[hi] = s
<1> DEFINE Good == {k \in Nat : lo + k <= hi => h[lo + k] = s}
<1>1. lo \in Nat /\ hi \in Nat /\ hi <= Len(a) /\ Len(a) \in Nat
  OBVIOUS
<1>2. 0 \in Good
  BY <1>1
<1>3. ASSUME NEW k \in Nat, lo + (k + 1) <= hi, h[lo + k] = s
      PROVE  h[lo + (k + 1)] = s
  <2>1. PICK m : m = lo + (k + 1)
    OBVIOUS
  <2>2. m \in 1 .. Len(a) /\ m - 1 = lo + k /\ m \in lo + 1 .. hi
    BY <1>1, <1>3, <2>1
  <2>3. h[m] = VisitOf(r, h[m - 1], m)
    BY <2>2 DEF IsLoop
  <2>4. h[m] = VisitOf(r, s, m) /\ s.a[m] # r
    BY <1>3, <2>2, <2>3
  <2> QED
    BY <2>1, <2>4 DEF VisitOf
<1>4. \A k \in Nat : k \in Good
  <2>1. Good \in SUBSET Nat
    OBVIOUS
  <2>2. ASSUME NEW k \in Good PROVE k + 1 \in Good
    <3>1. k \in Nat /\ (lo + (k + 1) <= hi => lo + k <= hi)
      BY <1>1
    <3>2. lo + k <= hi => h[lo + k] = s
      OBVIOUS
    <3> QED
      BY <1>3, <3>1, <3>2
  <2> HIDE DEF Good
  <2> QED
    BY <1>2, <2>1, <2>2, Induction
<1>5. hi - lo \in Nat /\ lo + (hi - lo) = hi
  BY <1>1
<1>6. hi - lo \in Good
  BY <1>4, <1>5
<1> QED
  BY <1>5, <1>6

Once(a) == \A i, j \in DOMAIN a : a[i] = a[j] => i = j

(* Of an array where no range is there twice, Remove takes one or none.    *)
LEMMA RemoveTakesOne ==
  ASSUME NEW a \in Seq(Ranges), NEW r, Once(a), Len(Remove(a, r)) < Len(a)
  PROVE  \E k \in DOMAIN a : Remove(a, r) = Seqs!RemoveAt(a, k)
<1>1. PICK h : IsLoop(r, a, h) /\ Remove(a, r) = SubSeq(h[Len(a)].a, 1, h[Len(a)].n)
  BY Removing
<1>2. PICK n : n = Len(a)
  OBVIOUS
<1>3. n \in Nat /\ DOMAIN a = 1 .. n /\ a \in [1 .. n -> Ranges]
  BY <1>2
<1>4. h[0] = Whole(a) /\ Whole(a).a = a /\ Whole(a).n = n /\ Whole(a).panic = FALSE
  BY <1>1, <1>2 DEF IsLoop, Whole
<1>5. CASE \A k \in 1 .. n : a[k] # r
  <2>1. h[n] = Whole(a)
    BY <1>1, <1>2, <1>3, <1>4, <1>5, LoopSkips
  <2>2. Remove(a, r) = SubSeq(a, 1, n)
    BY <1>1, <1>2, <1>4, <2>1
  <2>3. Len(SubSeq(a, 1, n)) = n
    BY <1>2, <1>3
  <2> QED
    BY <1>2, <1>3, <2>2, <2>3
<1>6. ASSUME NEW m \in 1 .. n, a[m] = r PROVE Remove(a, r) = Seqs!RemoveAt(a, m)
  <2>1. \A k \in 1 .. n : a[k] = r => k = m
    BY <1>3, <1>6 DEF Once
  <2>2. h[m - 1] = Whole(a)
    <3>1. m - 1 \in 0 .. n /\ 0 \in 0 .. n /\ 0 <= m - 1
      BY <1>3, <1>6
    <3>2. \A k \in 0 + 1 .. m - 1 : Whole(a).a[k] # r
      BY <1>3, <1>4, <1>6, <2>1
    <3> QED
      BY <1>1, <1>2, <1>4, <3>1, <3>2, LoopSkips
  <2>3. PICK b : b = Without(a, m, n)
    OBVIOUS
  <2>4. PICK s : s = [a |-> b, n |-> n - 1, panic |-> FALSE]
    OBVIOUS
  <2>5. h[m] = s
    <3>1. h[m] = VisitOf(r, Whole(a), m)
      BY <1>1, <1>2, <1>6, <2>2 DEF IsLoop
    <3>2. ~ (m > n)
      BY <1>3, <1>6
    <3>3. h[m] = [Whole(a) EXCEPT !.a = Without(Whole(a).a, m, Whole(a).n), !.n = @ - 1]
      BY <1>4, <1>6, <3>1, <3>2 DEF VisitOf
    <3> QED
      BY <1>2, <1>4, <2>3, <2>4, <3>3 DEF Whole
  <2>6. /\ b \in [1 .. n -> Ranges]
        /\ \A k \in 1 .. n : b[k] = IF m <= k /\ k < n THEN a[k + 1] ELSE a[k]
    BY <1>3, <1>6, <2>3 DEF Without
  <2>7. h[n] = s
    <3>1. s.a = b
      BY <2>4
    <3>2. ASSUME NEW k \in m + 1 .. n PROVE b[k] # r
      <4>1. k \in 1 .. n /\ k # m /\ m <= k /\ (k < n => k + 1 \in 1 .. n /\ k + 1 # m)
        BY <1>3, <1>6
      <4> QED
        BY <2>1, <2>6, <4>1
    <3>3. m \in 0 .. n /\ n \in 0 .. n /\ m <= n
      BY <1>3, <1>6
    <3> QED
      BY <1>1, <1>2, <2>5, <3>1, <3>2, <3>3, LoopSkips
  <2>8. Remove(a, r) = SubSeq(b, 1, n - 1)
    BY <1>1, <1>2, <2>4, <2>7
  <2>9. SubSeq(b, 1, n - 1) = SubSeq(a, 1, m - 1) \o SubSeq(a, m + 1, n)
    <3>1. b \in Seq(Ranges) /\ Len(b) = n
      BY <1>3, <2>6
    <3>2. PICK u, v : u = SubSeq(a, 1, m - 1) /\ v = SubSeq(a, m + 1, n)
      OBVIOUS
    <3>3. /\ u \in Seq(Ranges) /\ Len(u) = m - 1
          /\ \A k \in 1 .. m - 1 : u[k] = a[k]
      BY <1>2, <1>3, <1>6, <3>2
    <3>4. /\ v \in Seq(Ranges) /\ Len(v) = n - m
          /\ \A k \in 1 .. n - m : v[k] = a[k + m]
      BY <1>2, <1>3, <1>6, <3>2
    <3>5. PICK w : w = u \o v
      OBVIOUS
    <3>6. /\ w \in Seq(Ranges) /\ Len(w) = n - 1
          /\ \A k \in 1 .. n - 1 : w[k] = IF k <= m - 1 THEN u[k] ELSE v[k - (m - 1)]
      BY <1>3, <1>6, <3>3, <3>4, <3>5
    <3>7. PICK x : x = SubSeq(b, 1, n - 1)
      OBVIOUS
    <3>8. /\ x \in Seq(Ranges) /\ Len(x) = n - 1
          /\ \A k \in 1 .. n - 1 : x[k] = b[k]
      BY <1>3, <1>6, <3>1, <3>7
    <3>9. ASSUME NEW k \in 1 .. n - 1 PROVE x[k] = w[k]
      <4>1. CASE k <= m - 1
        <5>1. b[k] = a[k]
          BY <1>3, <1>6, <2>6, <4>1
        <5> QED
          BY <1>3, <1>6, <3>3, <3>6, <3>8, <4>1, <5>1
      <4>2. CASE ~ (k <= m - 1)
        <5>1. b[k] = a[k + 1]
          BY <1>3, <1>6, <2>6, <4>2
        <5>2. k - (m - 1) \in 1 .. n - m /\ (k - (m - 1)) + m = k + 1
          BY <1>3, <1>6, <4>2
        <5>3. w[k] = a[k + 1]
          BY <3>4, <3>6, <4>2, <5>2
        <5> QED
          BY <3>8, <5>1, <5>3
      <4> QED
        BY <4>1, <4>2
    <3>10. x = w
      BY <3>6, <3>8, <3>9
    <3> QED
      BY <3>2, <3>5, <3>7, <3>10
  <2> QED
    BY <1>2, <2>8, <2>9 DEF Seqs!RemoveAt
<1> QED
  BY <1>3, <1>5, <1>6

(* While no range is in the array twice, no more than one goes at a time,  *)
(* and the order of the others stays: what Remove's loop moves under its   *)
(* own index does not make it take another, nor end it half-way.           *)
THEOREM RemovesOnlyOne == Spec => RemovesOne
<1>1. ASSUME TypeOK, [Next]_vars, Len(vals') < Len(vals), Once(vals)
      PROVE  \E k \in DOMAIN vals : vals' = Seqs!RemoveAt(vals, k)
  <2>1. vals \in Seq(Ranges) /\ Len(vals) \in Nat
    BY <1>1, TypesAre
  <2>2. CASE Put
    <3>1. PICK r \in Ranges : vals' = Add(vals, r)
      BY <2>2 DEF Put, Edit
    <3>2. vals' = vals \/ vals' = Append(vals, r)
      BY <2>1, <3>1, AddKeeps
    <3>3. Len(vals') >= Len(vals)
      BY <2>1, <3>2
    <3> QED
      BY <1>1, <2>1, <3>2
  <2>3. CASE Delete
    <3>1. PICK r \in Ranges : vals' = Remove(vals, r)
      BY <2>3 DEF Delete, Edit
    <3>2. PICK a : a = vals
      OBVIOUS
    <3>3. \E k \in DOMAIN a : Remove(a, r) = Seqs!RemoveAt(a, k)
      BY <1>1, <2>1, <3>1, <3>2, RemoveTakesOne
    <3> QED
      BY <3>1, <3>2, <3>3
  <2>4. CASE UNCHANGED vars
    BY <1>1, <2>1, <2>4 DEF vars
  <2> QED
    BY <1>1, <2>2, <2>3, <2>4 DEF Next
<1>2. TypeOK /\ [Next]_vars =>
        [Len(vals') < Len(vals) /\ (\A i, j \in DOMAIN vals : vals[i] = vals[j] => i = j)
           => \E k \in DOMAIN vals : vals' = Seqs!RemoveAt(vals, k)]_vars
  BY <1>1 DEF Once
<1> QED
  BY <1>2, TypeCorrect, PTL DEF Spec, RemovesOne
-----------------------------------------------------------------------------
(* A value that overlaps no other, and is no single address with a         *)
(* neighbour, is taken, if it is not there yet: neither of the addresses   *)
(* that Add looks for is in an array of values of the configuration.       *)
LEMMA NotYet ==
  ASSUME NEW c \in Seq(Ranges), NEW r \in Ranges, Apart(c, r), Alone(c, r),
         NEW a \in Seq(Ranges), Range(a) \subseteq Range(c), r \notin Range(a)
  PROVE  Add(a, r) = Append(a, r)
<1>1. /\ r.start \in Nat /\ r.end \in Nat /\ r.start <= r.end /\ r.end < Space
      /\ Space \in Nat /\ Space >= 1
  BY RangeShape
<1>2. \A v \in Range(a) : /\ v \in Ranges /\ v.start \in Nat /\ v.end \in Nat
                          /\ v # r /\ (v.end < r.start \/ r.end < v.start)
  <2>1. \A v \in Range(a) : v \in Ranges
    BY DEF Range
  <2>2. \A v \in Range(a) : v # r /\ (v.end < r.start \/ r.end < v.start)
    BY ByValues
  <2> QED
    BY <2>1, <2>2, RangeShape
<1>3. ASSUME NEW ip \in Int, Contains(a, ip) PROVE In(ip, a)
  BY <1>3, ContainsIsIn
<1>4. ASSUME NEW ip \in Int, Contains(a, ip), r.start <= ip, ip <= r.end PROVE FALSE
  <2>1. PICK v \in Range(a) : v.start <= ip /\ ip <= v.end
    BY <1>3, <1>4, ByValues
  <2> QED
    BY <1>1, <1>2, <1>4, <2>1
<1>5. ASSUME NEW ip \in Int, Contains(a, ip) PROVE In(ip, c)
  <2>1. PICK v \in Range(a) : v.start <= ip /\ ip <= v.end
    BY <1>3, <1>5, ByValues
  <2> QED
    BY <2>1, ByValues
<1>6. (r.start + 1) % Space \in Int /\ (r.end - 1) % Space \in Int
  BY <1>1
<1>7. CASE r.start = r.end
  <2>1. ~ In((r.start + 1) % Space, c) /\ ~ In((r.end - 1) % Space, c)
    BY <1>7, Zenon DEF Alone
  <2>2. ~ Contains(a, (r.start + 1) % Space) /\ ~ Contains(a, (r.end - 1) % Space)
    BY <1>5, <1>6, <2>1
  <2> QED
    BY <2>2 DEF Add
<1>8. CASE r.start < r.end
  <2>1. (r.start + 1) % Space = r.start + 1 /\ (r.end - 1) % Space = r.end - 1
    <3>1. r.start + 1 \in 0 .. Space - 1 /\ r.end - 1 \in 0 .. Space - 1
      BY <1>1, <1>8
    <3>2. \A x \in 0 .. Space - 1 : x % Space = x
      BY <1>1
    <3> QED
      BY <3>1, <3>2
  <2>2. /\ r.start <= r.start + 1 /\ r.start + 1 <= r.end /\ r.start + 1 \in Int
        /\ r.start <= r.end - 1 /\ r.end - 1 <= r.end /\ r.end - 1 \in Int
    BY <1>1, <1>8
  <2>3. ~ Contains(a, (r.start + 1) % Space) /\ ~ Contains(a, (r.end - 1) % Space)
    BY <1>4, <2>1, <2>2
  <2> QED
    BY <2>3 DEF Add
<1> QED
  BY <1>1, <1>7, <1>8

LEMMA AppendAddsOne ==
  ASSUME NEW a \in Seq(Ranges), NEW r \in Ranges
  PROVE  Range(Append(a, r)) = Range(a) \cup {r}
<1>1. PICK b : b = Append(a, r)
  OBVIOUS
<1>2. /\ Len(a) \in Nat /\ DOMAIN a = 1 .. Len(a)
      /\ DOMAIN b = 1 .. Len(a) + 1 /\ b[Len(a) + 1] = r
      /\ \A i \in 1 .. Len(a) : b[i] = a[i]
  BY <1>1
<1>3. ASSUME NEW v \in Range(b) PROVE v \in Range(a) \cup {r}
  <2>1. PICK i \in 1 .. Len(a) + 1 : v = b[i]
    BY <1>2 DEF Range
  <2>2. i \in 1 .. Len(a) \/ i = Len(a) + 1
    BY <1>2
  <2> QED
    BY <1>2, <2>1, <2>2 DEF Range
<1>4. ASSUME NEW v \in Range(a) \cup {r} PROVE v \in Range(b)
  <2>1. CASE v = r
    <3>1. Len(a) + 1 \in DOMAIN b
      BY <1>2
    <3> QED
      BY <1>2, <2>1, <3>1 DEF Range
  <2>2. CASE v \in Range(a)
    <3>1. PICK i \in 1 .. Len(a) : v = a[i]
      BY <1>2, <2>2 DEF Range
    <3>2. i \in DOMAIN b
      BY <1>2
    <3> QED
      BY <1>2, <3>1, <3>2 DEF Range
  <2> QED
    BY <1>4, <2>1, <2>2
<1> QED
  BY <1>1, <1>3, <1>4

(* All the values of the array come from the configuration, and those that *)
(* overlap no other are all there.                                         *)
Taken(c, a, k) ==
  /\ a \in Seq(Ranges) /\ Range(a) \subseteq Range(c)
  /\ \A j \in 1 .. k : Apart(c, c[j]) /\ Alone(c, c[j]) => c[j] \in Range(a)

LEMMA TakenStep ==
  ASSUME NEW c \in Seq(Ranges), NEW k \in Nat, k + 1 <= Len(c), NEW a, Taken(c, a, k)
  PROVE  Taken(c, Add(a, c[k + 1]), k + 1)
<1>1. PICK r : r = c[k + 1]
  OBVIOUS
<1>2. /\ Len(c) \in Nat /\ k + 1 \in 1 .. Len(c) /\ r \in Ranges /\ r \in Range(c)
      /\ \A j \in 1 .. k + 1 : j \in 1 .. k \/ j = k + 1
  <2>1. Len(c) \in Nat /\ k + 1 \in 1 .. Len(c) /\ DOMAIN c = 1 .. Len(c)
    OBVIOUS
  <2> QED
    BY <1>1, <2>1 DEF Range
<1>3. PICK b : b = Add(a, r)
  OBVIOUS
<1>4. /\ a \in Seq(Ranges) /\ Range(a) \subseteq Range(c)
      /\ \A j \in 1 .. k : Apart(c, c[j]) /\ Alone(c, c[j]) => c[j] \in Range(a)
  BY DEF Taken
<1>5. b \in Seq(Ranges) /\ (b = a \/ b = Append(a, r))
  BY <1>2, <1>3, <1>4, AddKeeps
<1>6. Range(b) = Range(a) \/ Range(b) = Range(a) \cup {r}
  BY <1>2, <1>4, <1>5, AppendAddsOne
<1>7. Apart(c, r) /\ Alone(c, r) => r \in Range(b)
  <2>1. CASE r \in Range(a)
    BY <1>6, <2>1
  <2>2. ASSUME r \notin Range(a), Apart(c, r), Alone(c, r) PROVE r \in Range(b)
    <3>1. b = Append(a, r)
      BY <1>2, <1>3, <1>4, <2>2, NotYet
    <3> QED
      BY <1>2, <1>4, <3>1, AppendAddsOne
  <2> QED
    BY <2>1, <2>2
<1>8. ASSUME NEW j \in 1 .. k + 1, Apart(c, c[j]), Alone(c, c[j])
      PROVE  c[j] \in Range(b)
  BY <1>1, <1>2, <1>4, <1>6, <1>7, <1>8
<1>9. Range(b) \subseteq Range(c)
  BY <1>2, <1>4, <1>6
<1> QED
  BY <1>1, <1>3, <1>5, <1>8, <1>9 DEF Taken

LEMMA ApartTaken ==
  ASSUME NEW c \in Seq(Ranges)
  PROVE  Taken(c, Seqs!FoldLeft(Add, <<>>, c), Len(c))
<1>1. PICK h : /\ h[0] = <<>>
               /\ \A k \in 1 .. Len(c) : h[k] = Add(h[k - 1], c[k])
               /\ h[Len(c)] = Seqs!FoldLeft(Add, <<>>, c)
  BY Adding
<1>2. PICK n : n = Len(c)
  OBVIOUS
<1>3. n \in Nat
  BY <1>2
<1> DEFINE Good == {k \in Nat : k <= n => Taken(c, h[k], k)}
<1>4. 0 \in Good
  <2>1. Taken(c, <<>>, 0)
    BY DEF Taken, Range
  <2> QED
    BY <1>1, <2>1
<1>5. ASSUME NEW k \in Nat, k + 1 <= n, Taken(c, h[k], k)
      PROVE  Taken(c, h[k + 1], k + 1)
  <2>1. k + 1 \in 1 .. Len(c) /\ (k + 1) - 1 = k
    BY <1>2, <1>3, <1>5
  <2>2. h[k + 1] = Add(h[k], c[k + 1])
    BY <1>1, <2>1
  <2> QED
    BY <1>2, <1>5, <2>2, TakenStep
<1>6. \A k \in Nat : k \in Good
  <2>1. Good \in SUBSET Nat
    OBVIOUS
  <2>2. ASSUME NEW k \in Good PROVE k + 1 \in Good
    <3>1. k \in Nat /\ (k + 1 <= n => k <= n)
      BY <1>3
    <3>2. k <= n => Taken(c, h[k], k)
      OBVIOUS
    <3> QED
      BY <1>5, <3>1, <3>2
  <2> HIDE DEF Good
  <2> QED
    BY <1>4, <2>1, <2>2, Induction
<1>7. Taken(c, h[n], n)
  BY <1>3, <1>6
<1> QED
  BY <1>1, <1>2, <1>7

(* To sort an array moves its ranges and loses none.                       *)
LEMMA SortedValues ==
  ASSUME NEW a \in Seq(Ranges), NEW s \in Sortings(a)
  PROVE  Range(s) = Range(a)
<1>1. PICK p \in Bijection(DOMAIN a, DOMAIN a) : s = [i \in DOMAIN a |-> a[p[i]]]
  BY SortingsKeep
<1>2. /\ p \in [DOMAIN a -> DOMAIN a]
      /\ \A j \in DOMAIN a : \E i \in DOMAIN a : p[i] = j
  BY DEF Bijection, Injection, Surjection
<1>3. DOMAIN s = DOMAIN a /\ \A i \in DOMAIN a : p[i] \in DOMAIN a /\ s[i] = a[p[i]]
  BY <1>1, <1>2
<1>4. ASSUME NEW v \in Range(s) PROVE v \in Range(a)
  BY <1>3 DEF Range
<1>5. ASSUME NEW v \in Range(a) PROVE v \in Range(s)
  <2>1. PICK j \in DOMAIN a : v = a[j]
    BY DEF Range
  <2>2. PICK i \in DOMAIN a : p[i] = j
    BY <1>2
  <2> QED
    BY <1>3, <2>1, <2>2 DEF Range
<1> QED
  BY <1>4, <1>5

(* Until the first edit, the array is what the configuration loads to.     *)
AsLoaded == ~ edited => vals \in Sortings(Seqs!FoldLeft(Add, <<>>, config))

(* A pattern as NewIPCIDRPattern leaves it matches no address that is not  *)
(* in the configuration, and all the addresses of each value that overlaps *)
(* no other (and is no single address with a neighbour), although each     *)
(* value is tested against an array that is not in order yet, and whatever *)
(* happens to the values that overlap.                                     *)
THEOREM ConfigMatches == Spec => []ConfiguredMatch
<1>1. Init => AsLoaded
  BY DEF Init, AsLoaded
<1>2. AsLoaded /\ [Next]_vars => AsLoaded'
  <2>1. ASSUME AsLoaded, UNCHANGED vars PROVE AsLoaded'
    BY <2>1 DEF AsLoaded, vars
  <2>2. ASSUME Next PROVE edited' = TRUE
    BY <2>2 DEF Next, Put, Delete, Edit
  <2>3. ASSUME edited' = TRUE PROVE AsLoaded'
    BY <2>3 DEF AsLoaded
  <2> QED
    BY <2>1, <2>2, <2>3
<1>3. TypeOK /\ AsLoaded => ConfiguredMatch
  <2> SUFFICES ASSUME TypeOK, AsLoaded, ~ edited, NEW ip \in Addrs
               PROVE  /\ Contains(vals, ip) => In(ip, config)
                      /\ \A i \in DOMAIN config :
                           /\ Apart(config, config[i]) /\ Alone(config, config[i])
                           /\ config[i].start <= ip /\ ip <= config[i].end
                           => Contains(vals, ip)
    BY DEF ConfiguredMatch
  <2>1. config \in Seq(Ranges) /\ vals \in Seq(Ranges) /\ ip \in Int
    BY TypesAre DEF Addrs
  <2>2. PICK c, a, s : /\ c = config /\ s = vals
                       /\ a = Seqs!FoldLeft(Add, <<>>, config)
    OBVIOUS
  <2>3. /\ c \in Seq(Ranges) /\ s \in Seq(Ranges) /\ s \in Sortings(a)
        /\ Taken(c, a, Len(c))
    BY <2>1, <2>2, ApartTaken DEF AsLoaded
  <2>4. a \in Seq(Ranges) /\ Range(s) = Range(a) /\ Range(s) \subseteq Range(c)
    BY <2>3, SortedValues DEF Taken
  <2>5. ASSUME Contains(s, ip) PROVE In(ip, c)
    <3>1. In(ip, s)
      BY <2>1, <2>3, <2>5, ContainsIsIn
    <3> QED
      BY <2>4, <3>1, ByValues
  <2>6. ASSUME NEW i \in DOMAIN c, Apart(c, c[i]), Alone(c, c[i]),
               c[i].start <= ip, ip <= c[i].end
        PROVE  Contains(s, ip)
    <3>1. PICK r : r = c[i]
      OBVIOUS
    <3>2. i \in 1 .. Len(c)
      BY <2>3
    <3>3. r \in Range(s)
      BY <2>3, <2>4, <2>6, <3>1, <3>2 DEF Taken
    <3>4. Apart(s, r)
      BY <2>4, <2>6, <3>1, ByValues
    <3>5. Sorted(s)
      BY <2>3, <2>4, SortingsKeep
    <3> QED
      BY <2>1, <2>3, <2>6, <3>1, <3>3, <3>4, <3>5, InIsContained
  <2> QED
    BY <2>2, <2>5, <2>6
<1> QED
  BY <1>1, <1>2, <1>3, TypeCorrect, PTL DEF Spec
=============================================================================
