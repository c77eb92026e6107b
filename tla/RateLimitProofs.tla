---------------------------- MODULE RateLimitProofs ----------------------------
(***************************************************************************)
(* RateLimit for every rate, burst and cap, and every clock: the requests  *)
(* a key is granted, what a refusal promises it and which keys the cap     *)
(* gives up.                                                               *)
(***************************************************************************)
EXTENDS RateLimit, SequenceTheorems, FiniteSetTheorems, TLAPS

(* Gain parts a tick, over two spans of time one after the other.           *)
LEMMA Spans ==
  ASSUME NEW g \in Nat, NEW a \in Int, NEW b \in Int, NEW c \in Int
  PROVE  /\ g * (b - a) + g * (c - b) = g * (c - a)
         /\ a <= b => g * (b - a) \in Nat
         /\ a <= b => g * (a - c) <= g * (b - c)
         /\ g * (b - a) \in Int /\ (b - a) * g = g * (b - a)
  <1>1. g * (b - a) + g * (c - b) = g * (c - a)
    OBVIOUS
  <1>2. a <= b => g * (b - a) \in Nat
    OBVIOUS
  <1>3. a <= b => g * (a - c) <= g * (b - c)
    OBVIOUS
  <1>4. g * (b - a) \in Int /\ (b - a) * g = g * (b - a)
    <2> DEFINE n == b - a
    <2>1. n \in Int
      OBVIOUS
    <2> HIDE DEF n
    <2>2. g * n \in Int /\ n * g = g * n
      BY <2>1
    <2> QED
      BY <2>2 DEF n
  <1> QED
    BY <1>1, <1>2, <1>3, <1>4

(* The whole seconds of a wait cover what is missing.                       *)
LEMMA WaitCovers ==
  ASSUME NEW m \in Nat, NEW d \in Nat \ {0}
  PROVE  /\ (m + d - 1) \div d \in Nat
         /\ m <= ((m + d - 1) \div d) * d
  OBVIOUS

-----------------------------------------------------------------------------
(* The map as a sequence: a key that is presented moves to the back, and a  *)
(* new one puts the first out when the map is full.                         *)

LEMMA RemoveAtProperties ==
  ASSUME NEW S, NEW s \in Seq(S), NEW p \in 1..Len(s)
  PROVE  /\ RemoveAt(s, p) \in Seq(S)
         /\ Len(RemoveAt(s, p)) = Len(s) - 1
         /\ \A j \in 1 .. Len(s) - 1 : /\ j < p => RemoveAt(s, p)[j] = s[j]
                                       /\ j >= p => RemoveAt(s, p)[j] = s[j + 1]
  <1> DEFINE a == SubSeq(s, 1, p - 1)
             b == SubSeq(s, p + 1, Len(s))
  <1>1. Len(s) \in Nat /\ \A i \in 1..Len(s) : s[i] \in S
    BY LenProperties, ElementOfSeq
  <1>2. a \in Seq(S) /\ Len(a) = p - 1 /\ \A j \in 1 .. p - 1 : a[j] = s[j]
    <2>1. \A i \in 1 .. p - 1 : s[i] \in S
      BY <1>1
    <2> QED
      BY <1>1, <2>1, SubSeqProperties
  <1>3. b \in Seq(S) /\ Len(b) = Len(s) - p /\ \A j \in 1 .. Len(s) - p : b[j] = s[p + j]
    <2>1. \A i \in p + 1 .. Len(s) : s[i] \in S
      BY <1>1
    <2>2. /\ b \in Seq(S)
          /\ Len(b) = IF p + 1 <= Len(s) THEN Len(s) - (p + 1) + 1 ELSE 0
          /\ \A j \in 1 .. Len(s) - (p + 1) + 1 : b[j] = s[p + 1 + j - 1]
      BY <1>1, <2>1, SubSeqProperties
    <2> QED
      BY <1>1, <2>2
  <1> HIDE DEF a, b
  <1>4. /\ a \o b \in Seq(S)
        /\ Len(a \o b) = Len(a) + Len(b)
        /\ \A i \in 1 .. Len(a) + Len(b) : (a \o b)[i] = IF i <= Len(a) THEN a[i] ELSE b[i - Len(a)]
    BY <1>2, <1>3, ConcatProperties
  <1>5. ASSUME NEW j \in 1 .. Len(s) - 1
        PROVE  /\ j < p => (a \o b)[j] = s[j]
               /\ j >= p => (a \o b)[j] = s[j + 1]
    <2>1. j \in 1 .. Len(a) + Len(b)
      BY <1>1, <1>2, <1>3
    <2>2. CASE j < p
      BY <1>1, <1>2, <1>4, <2>1, <2>2
    <2>3. CASE j >= p
      <3>1. j - (p - 1) \in 1 .. Len(s) - p /\ p + (j - (p - 1)) = j + 1
        BY <1>1, <2>3
      <3>2. (a \o b)[j] = b[j - (p - 1)]
        BY <1>1, <1>2, <1>4, <2>1, <2>3
      <3> QED
        BY <1>1, <1>3, <2>3, <3>1, <3>2
    <2> QED
      BY <2>2, <2>3
  <1>6. RemoveAt(s, p) = a \o b
    BY DEF RemoveAt, a, b
  <1>7. Len(a \o b) = Len(s) - 1
    BY <1>1, <1>2, <1>3, <1>4
  <1> QED
    BY <1>4, <1>5, <1>6, <1>7

LEMMA KeysOfSeq ==
  ASSUME NEW S, NEW s \in Seq(S)
  PROVE  \A q : q \in Keys(s) <=> \E i \in 1..Len(s) : s[i].key = q
  BY LenProperties DEF Keys

LEMMA PositionOfAKey ==
  ASSUME NEW S, NEW s \in Seq(S), NEW k \in Keys(s)
  PROVE  /\ Position(s, k) \in 1..Len(s)
         /\ BucketOf(s, k) = s[Position(s, k)] /\ BucketOf(s, k).key = k
         /\ BucketOf(s, k) \in S
  <1>1. \E i \in DOMAIN s : s[i].key = k
    BY DEF Keys
  <1>2. Position(s, k) \in DOMAIN s /\ s[Position(s, k)].key = k
    BY <1>1 DEF Position
  <1>3. Position(s, k) \in 1..Len(s)
    BY <1>2, LenProperties
  <1> QED
    BY <1>2, <1>3, ElementOfSeq DEF BucketOf

(* What Presented leaves in the map: bucket b at the back, and ahead of it  *)
(* the others as they were, less the first when the map was full.           *)
Arranged(s, t, k, b) ==
  /\ Len(t) \in 1..MaxKeys /\ t[Len(t)] = b
  /\ \A j \in 1 .. Len(t) - 1 : t[j] \in {s[i] : i \in 1..Len(s)} /\ t[j].key # k
  /\ \A i, j \in 1 .. Len(t) - 1 :
        i < j => \E m, n \in 1..Len(s) : m < n /\ t[i] = s[m] /\ t[j] = s[n]
  /\ \A q \in Keys(s) \ Keys(t) : Len(t) = MaxKeys /\ \A j \in 1 .. Len(t) - 1 :
        \E m, n \in 1..Len(s) : m < n /\ s[m].key = q /\ t[j] = s[n]

LEMMA TakenHeld ==
  ASSUME RateAssumption, NEW S, NEW s \in Seq(S), NEW k \in Keys(s), NEW now, Len(s) <= MaxKeys,
         \A i, j \in 1..Len(s) : s[i].key = s[j].key => i = j,
         NEW b \in S,
         b = Bucket(k, IF Refilled(BucketOf(s, k), now) < Unit THEN Refilled(BucketOf(s, k), now)
                       ELSE Refilled(BucketOf(s, k), now) - Unit, Base(BucketOf(s, k), now))
  PROVE  Taken(s, k, now) \in Seq(S) /\ Arranged(s, Taken(s, k, now), k, b)
  <1> DEFINE p == Position(s, k)
             o == Others(s, k)
             t == Taken(s, k, now)
  <1>1. /\ Len(s) \in Nat /\ p \in 1..Len(s) /\ s[p].key = k
        /\ \A i \in 1..Len(s) : s[i] \in S
    BY LenProperties, PositionOfAKey, ElementOfSeq
  <1>2. /\ o \in Seq(S) /\ Len(o) = Len(s) - 1
        /\ \A j \in 1 .. Len(s) - 1 : (j < p => o[j] = s[j]) /\ (j >= p => o[j] = s[j + 1])
    BY <1>1, RemoveAtProperties DEF Others
  <1>3. t = Append(o, b)
    BY DEF Taken
  <1>4. /\ t \in Seq(S) /\ Len(t) = Len(s) /\ t[Len(s)] = b
        /\ \A j \in 1 .. Len(s) - 1 : (j < p => t[j] = s[j]) /\ (j >= p => t[j] = s[j + 1])
    <2> HIDE DEF o, t
    <2> QED
      BY <1>1, <1>2, <1>3, AppendProperties
  <1> DEFINE From(j) == IF j < p THEN j ELSE j + 1
  <1>5. \A j \in 1 .. Len(s) - 1 : From(j) \in 1..Len(s) /\ t[j] = s[From(j)] /\ From(j) # p
    BY <1>1, <1>4
  <1>6. \A i, j \in 1 .. Len(s) - 1 : i < j => From(i) < From(j)
    BY <1>1
  <1>7. b.key = k
    BY DEF Bucket
  <1>8. \A i \in 1..Len(t) : t[i].key \in Keys(t)
    BY <1>4, KeysOfSeq
  <1> HIDE DEF From, p, t
  <1>9. \A j \in 1 .. Len(t) - 1 : t[j] \in {s[i] : i \in 1..Len(s)} /\ t[j].key # k
    BY <1>1, <1>4, <1>5
  <1>10. ASSUME NEW i \in 1 .. Len(t) - 1, NEW j \in 1 .. Len(t) - 1, i < j
         PROVE  \E m, n \in 1..Len(s) : m < n /\ t[i] = s[m] /\ t[j] = s[n]
    <2>1. From(i) < From(j) /\ From(i) \in 1..Len(s) /\ From(j) \in 1..Len(s)
      BY <1>4, <1>5, <1>6, <1>10
    <2>2. t[i] = s[From(i)] /\ t[j] = s[From(j)]
      BY <1>4, <1>5
    <2> QED
      BY <2>1, <2>2
  <1>11. Keys(s) \subseteq Keys(t)
    <2> SUFFICES ASSUME NEW i \in 1..Len(s) PROVE s[i].key \in Keys(t)
      BY KeysOfSeq
    <2>1. CASE i = p
      BY <1>1, <1>4, <1>7, <1>8, <2>1
    <2>2. CASE i < p
      <3>1. i \in 1 .. Len(s) - 1 /\ t[i] = s[i]
        BY <1>1, <1>4, <2>2
      <3> QED
        BY <1>1, <1>4, <1>8, <3>1
    <2>3. CASE i > p
      <3>1. i - 1 \in 1 .. Len(s) - 1 /\ t[i - 1] = s[i]
        BY <1>1, <1>4, <2>3
      <3> QED
        BY <1>1, <1>4, <1>8, <3>1
    <2> QED
      BY <1>1, <2>1, <2>2, <2>3
  <1>12. Len(t) \in 1..MaxKeys
    BY <1>1, <1>4 DEF RateAssumption
  <1> QED
    BY <1>4, <1>9, <1>10, <1>11, <1>12 DEF Arranged, t

LEMMA TakenNew ==
  ASSUME RateAssumption, NEW S, NEW s \in Seq(S), NEW k, k \notin Keys(s), NEW now,
         Len(s) <= MaxKeys, Bucket(k, (Burst - 1) * Unit, now) \in S
  PROVE  /\ Taken(s, k, now) \in Seq(S)
         /\ Arranged(s, Taken(s, k, now), k, Bucket(k, (Burst - 1) * Unit, now))
  <1> DEFINE b == Bucket(k, (Burst - 1) * Unit, now)
             a == Append(s, b)
             t == Taken(s, k, now)
             lost == IF Len(s) = MaxKeys THEN 1 ELSE 0    \* 1 when the first goes
  <1>1. Len(s) \in Nat /\ MaxKeys \in Nat \ {0} /\ lost \in 0..1
    BY LenProperties DEF RateAssumption
  <1>2. /\ a \in Seq(S) /\ Len(a) = Len(s) + 1 /\ a[Len(s) + 1] = b
        /\ \A j \in 1..Len(s) : a[j] = s[j]
    BY AppendProperties
  <1>3. t = SubSeq(a, lost + 1, Len(a))
    <2>1. t = SubSeq(a, Most(1, Len(a) - MaxKeys + 1), Len(a))
      BY DEF Taken, Trimmed
    <2>2. Most(1, Len(a) - MaxKeys + 1) = lost + 1
      <3>2. CASE Len(s) = MaxKeys
        <4>1. Len(a) - MaxKeys + 1 = 2
          BY <1>1, <1>2, <3>2
        <4> QED
          BY <3>2, <4>1 DEF Most
      <3>3. CASE Len(s) # MaxKeys
        <4>1. Len(a) - MaxKeys + 1 <= 1 /\ Len(a) - MaxKeys + 1 \in Int
          BY <1>1, <1>2, <3>3
        <4> HIDE DEF a
        <4> QED
          BY <1>1, <1>2, <3>3, <4>1 DEF Most
      <3> QED
        BY <3>2, <3>3
    <2> QED
      BY <2>1, <2>2
  <1>0. /\ Len(s) = MaxKeys => lost = 1
        /\ Len(s) # MaxKeys => lost = 0
    OBVIOUS
  <1> HIDE DEF a, b, t, lost
  <1>4. /\ t \in Seq(S) /\ Len(t) = Len(s) + 1 - lost
        /\ \A j \in 1 .. Len(s) + 1 - lost : t[j] = a[lost + j]
    <2>1. \A i \in lost + 1 .. Len(a) : a[i] \in S
      BY <1>1, <1>2, ElementOfSeq
    <2>2. /\ t \in Seq(S)
          /\ Len(t) = IF lost + 1 <= Len(a) THEN Len(a) - (lost + 1) + 1 ELSE 0
          /\ \A j \in 1 .. Len(a) - (lost + 1) + 1 : t[j] = a[lost + 1 + j - 1]
      BY <1>1, <1>2, <1>3, <2>1, SubSeqProperties
    <2> QED
      BY <1>1, <1>2, <2>2
  <1>5. Len(t) \in 1..MaxKeys /\ t[Len(t)] = b
    <2>1. Len(t) \in 1..MaxKeys
      BY <1>0, <1>1, <1>2, <1>4
    <2>2. lost + Len(t) = Len(s) + 1
      BY <1>1, <1>4
    <2> QED
      BY <1>1, <1>2, <1>4, <2>1, <2>2
  <1>6. \A j \in 1 .. Len(t) - 1 : lost + j \in 1..Len(s) /\ t[j] = s[lost + j]
    BY <1>1, <1>2, <1>4
  <1>7. \A j \in 1 .. Len(t) - 1 : t[j] \in {s[i] : i \in 1..Len(s)} /\ t[j].key # k
    BY <1>6, KeysOfSeq
  <1>8. \A i, j \in 1 .. Len(t) - 1 :
          i < j => \E m, n \in 1..Len(s) : m < n /\ t[i] = s[m] /\ t[j] = s[n]
    <2> TAKE i, j \in 1 .. Len(t) - 1
    <2> HAVE i < j
    <2>1. lost + i < lost + j
      BY <1>1, <1>4
    <2> QED
      BY <1>6, <2>1
  <1>9. ASSUME NEW q \in Keys(s) \ Keys(t)
        PROVE  /\ Len(t) = MaxKeys
               /\ \A j \in 1 .. Len(t) - 1 : \E m, n \in 1..Len(s) : m < n /\ s[m].key = q /\ t[j] = s[n]
    <2>1. PICK i \in 1..Len(s) : s[i].key = q
      BY KeysOfSeq
    <2>2. \A j \in 1..Len(t) : t[j].key \in Keys(t)
      BY <1>4, KeysOfSeq
    <2>3. ~(i > lost)
      <3> SUFFICES ASSUME i > lost PROVE FALSE
        OBVIOUS
      <3>1. i - lost \in 1 .. Len(t) - 1 /\ lost + (i - lost) = i
        BY <1>1, <1>4, <2>1
      <3>2. t[i - lost] = s[i] /\ i - lost \in 1..Len(t)
        BY <1>1, <1>4, <1>6, <2>2, <3>1
      <3> QED
        BY <2>1, <2>2, <3>2
    <2>4. i = 1 /\ lost = 1
      BY <1>1, <2>3
    <2>5. Len(t) = MaxKeys
      BY <1>0, <1>1, <1>4, <2>4
    <2>6. \A j \in 1 .. Len(t) - 1 : i < lost + j
      BY <1>1, <1>4, <2>4
    <2> QED
      BY <1>6, <2>1, <2>5, <2>6
  <1> QED
    BY <1>4, <1>5, <1>7, <1>8, <1>9 DEF Arranged, b, t

-----------------------------------------------------------------------------
(* The invariant, bucket by bucket.                                         *)

AnyBucket == [key : Key, tokens : Rest, updated : 0..MaxClock]
AnyPromise == [told : 0..MaxClock, due : Nat]

Earned(b, g, o) ==
  /\ g * Unit + b.tokens <= Burst * Unit + Gain * (b.updated - o)
  /\ Burst * Unit <= g * Unit + b.tokens

Covered(b, p) ==
  p.due > 0 /\ b.updated <= p.told => p.told <= p.due /\ b.tokens + Gain * (p.due - b.updated) >= Unit

LEMMA Bounds ==
  ASSUME LimitAssumption
  PROVE  /\ Burst \in Nat \ {0} /\ Unit \in Nat \ {0} /\ Gain \in Nat \ {0} /\ Second \in Nat \ {0}
         /\ MaxKeys \in Nat \ {0} /\ MaxClock \in Nat
         /\ Burst * Unit \in Nat /\ (Burst - 1) * Unit \in Nat /\ (Burst - 1) * Unit = Burst * Unit - Unit
         /\ \A x \in Int : x \in Rest <=> 0 <= x /\ (x <= Burst * Unit - Unit \/ x <= Unit - 1)
  <1>1. /\ Burst \in Nat \ {0} /\ Unit \in Nat \ {0} /\ Gain \in Nat \ {0} /\ Second \in Nat \ {0}
        /\ MaxKeys \in Nat \ {0} /\ MaxClock \in Nat
    BY DEF LimitAssumption, RateAssumption
  <1>2. Burst * Unit \in Nat /\ (Burst - 1) * Unit \in Nat /\ (Burst - 1) * Unit = Burst * Unit - Unit
    BY <1>1
  <1>3. \A x \in Int : x \in Rest <=> 0 <= x /\ (x <= Burst * Unit - Unit \/ x <= Unit - 1)
    <2> DEFINE full == Burst * Unit - Unit
    <2>1. Rest = 0..Most(full, Unit - 1) /\ full \in Int
      BY <1>1, <1>2 DEF Rest
    <2> HIDE DEF full
    <2>2. \A x \in Int : x \in 0..Most(full, Unit - 1) <=> 0 <= x /\ (x <= full \/ x <= Unit - 1)
      BY <1>1, <2>1 DEF Most
    <2> QED
      BY <2>1, <2>2 DEF full
  <1> QED
    BY <1>1, <1>2, <1>3

LEMMA MapFacts ==
  ASSUME InductiveInv
  PROVE  /\ buckets \in Seq(AnyBucket) /\ Len(buckets) \in Nat /\ Len(buckets) <= MaxKeys
         /\ \A i, j \in 1..Len(buckets) : buckets[i].key = buckets[j].key => i = j
         /\ \A i, j \in 1..Len(buckets) : i < j => buckets[j].key \in others[buckets[i].key]
         /\ \A i \in 1..Len(buckets) :
               LET b == buckets[i] IN
               b \in AnyBucket /\ Earned(b, granted[b.key], opened[b.key]) /\ Covered(b, promised[b.key])
  <1>1. buckets \in Seq(AnyBucket) /\ Len(buckets) <= MaxKeys
    BY DEF InductiveInv, TypeOK, AnyBucket
  <1>2. Len(buckets) \in Nat /\ DOMAIN buckets = 1..Len(buckets)
    BY <1>1, LenProperties
  <1>3. \A i \in DOMAIN buckets :
          /\ Earned(buckets[i], granted[buckets[i].key], opened[buckets[i].key])
          /\ Covered(buckets[i], promised[buckets[i].key])
    BY DEF InductiveInv, GrantsAreEarned, PromiseIsCovered, Earned, Covered
  <1>4. \A i \in 1..Len(buckets) : buckets[i] \in AnyBucket
    BY <1>1, ElementOfSeq
  <1>5. /\ \A i, j \in DOMAIN buckets : buckets[i].key = buckets[j].key => i = j
        /\ \A i, j \in DOMAIN buckets : i < j => buckets[j].key \in others[buckets[i].key]
    BY DEF InductiveInv, TypeOK, LatestAtTheBack
  <1> QED
    BY <1>1, <1>2, <1>3, <1>4, <1>5

(* The order and the cap: the key presented is behind every other, and one  *)
(* the map gives up had a mapful come after it.                             *)
LEMMA ArrangedKeeps ==
  ASSUME LimitAssumption, InductiveInv, NEW k \in Key, NEW b, b.key = k,
         buckets' \in Seq(AnyBucket), Arranged(buckets, buckets', k, b),
         others' = [q \in Key |-> IF q = k THEN {} ELSE others[q] \cup {k}]
  PROVE  /\ others' \in [Key -> SUBSET Key]
         /\ \A i, j \in 1..Len(buckets') : buckets'[i].key = buckets'[j].key => i = j
         /\ LatestAtTheBack'
  <1> DEFINE n == Len(buckets')
  <1>1. others \in [Key -> SUBSET Key] /\ others' \in [Key -> SUBSET Key]
    BY DEF InductiveInv, TypeOK
  <1>2. /\ n \in 1..MaxKeys /\ MaxKeys \in Nat \ {0} /\ n \in Nat /\ buckets'[n].key = k
        /\ \A j \in 1 .. n - 1 : buckets'[j].key # k
    BY Bounds DEF Arranged
  <1>3. ASSUME NEW i \in 1 .. n - 1, NEW j \in 1 .. n - 1, i < j
        PROVE  /\ buckets'[i].key # buckets'[j].key
               /\ buckets'[j].key \in others[buckets'[i].key]
    <2>1. PICK l \in 1..Len(buckets), m \in 1..Len(buckets) :
                 l < m /\ buckets'[i] = buckets[l] /\ buckets'[j] = buckets[m]
      BY <1>3 DEF Arranged
    <2> QED
      BY <2>1, MapFacts
  <1>4. \A i \in 1..n : buckets'[i] \in AnyBucket /\ buckets'[i].key \in Key
    <2>1. \A i \in 1..n : buckets'[i] \in AnyBucket
      BY ElementOfSeq
    <2> QED
      BY <2>1 DEF AnyBucket
  <1> HIDE DEF n
  <1>5. ASSUME NEW i \in 1..n, NEW j \in 1..n, i < j
        PROVE  /\ buckets'[i].key # buckets'[j].key
               /\ buckets'[j].key \in others'[buckets'[i].key]
    <2>1. i \in 1 .. n - 1 /\ (j \in 1 .. n - 1 \/ j = n)
      BY <1>2, <1>5
    <2>2. others'[buckets'[i].key] = others[buckets'[i].key] \cup {k}
      BY <1>2, <1>4, <2>1
    <2> QED
      BY <1>2, <1>3, <1>5, <2>1, <2>2
  <1>6. \A i, j \in 1..n : buckets'[i].key = buckets'[j].key => i = j
    <2> TAKE i, j \in 1..n
    <2>1. i < j \/ j < i \/ i = j
      BY <1>2
    <2> QED
      BY <1>5, <2>1
  <1>7. ASSUME NEW q \in Key \ Keys(buckets')
        PROVE  MaxKeys <= Cardinality(others'[q])
    <2>1. IsFiniteSet(others'[q]) /\ IsFiniteSet(others[q])
      BY <1>1, FS_Subset DEF LimitAssumption
    <2>2. q # k
      BY <1>2, KeysOfSeq DEF n
    <2>3. others'[q] = others[q] \cup {k}
      BY <2>2
    <2>4. CASE q \notin Keys(buckets)
      <3>1. MaxKeys <= Cardinality(others[q])
        BY <2>4 DEF InductiveInv, LatestAtTheBack
      <3>2. Cardinality(others[q]) <= Cardinality(others'[q])
        BY <2>1, <2>3, FS_Subset
      <3> QED
        BY <1>2, <2>1, <3>1, <3>2, FS_CardinalityType
    <2>5. CASE q \in Keys(buckets)
      <3>1. n = MaxKeys /\ \A j \in 1 .. n - 1 :
              \E l, m \in 1..Len(buckets) : l < m /\ buckets[l].key = q /\ buckets'[j] = buckets[m]
        <4>1. q \in Keys(buckets) \ Keys(buckets')
          BY <2>5
        <4>2. \A x \in Keys(buckets) \ Keys(buckets') : n = MaxKeys /\ \A j \in 1 .. n - 1 :
                \E l, m \in 1..Len(buckets) : l < m /\ buckets[l].key = x /\ buckets'[j] = buckets[m]
          BY DEF Arranged, n
        <4> QED
          BY <4>1, <4>2
      <3>2. \A j \in 1 .. n - 1 : buckets'[j].key \in others[q]
        BY <3>1, MapFacts
      <3>3. \A j \in 1..n : buckets'[j].key \in others'[q]
        <4> TAKE j \in 1..n
        <4>1. j \in 1 .. n - 1 \/ j = n
          BY <1>2
        <4> QED
          BY <1>2, <2>3, <3>2, <4>1
      <3> DEFINE f == [j \in 1..n |-> buckets'[j].key]
      <3>4. f \in Injection(1..n, others'[q])
        BY <1>6, <3>3 DEF Injection, IsInjective
      <3>5. Cardinality(1..n) <= Cardinality(others'[q])
        BY <2>1, <3>4, FS_Injection
      <3> QED
        BY <1>2, <3>1, <3>5, FS_Interval
    <2> QED
      BY <2>4, <2>5
  <1>8. DOMAIN buckets' = 1..n
    BY LenProperties DEF n
  <1>9. \A i, j \in DOMAIN buckets' : i < j => buckets'[j].key \in others'[buckets'[i].key]
    BY <1>5, <1>8
  <1> QED
    BY <1>1, <1>6, <1>7, <1>9 DEF LatestAtTheBack, n

(* A presentation keeps the invariant when the bucket it leaves does.       *)
LEMMA PresentedInductive ==
  ASSUME LimitAssumption, InductiveInv, NEW k \in Key, NEW b \in AnyBucket, b.key = k,
         Presented(k), buckets' \in Seq(AnyBucket), Arranged(buckets, buckets', k, b),
         granted' \in [Key -> Nat], opened' \in [Key -> 0..MaxClock], promised' \in [Key -> AnyPromise],
         \A q \in Key \ {k} : /\ granted'[q] = granted[q] /\ opened'[q] = opened[q]
                              /\ promised'[q] = promised[q],
         Earned(b, granted'[k], opened'[k]), Covered(b, promised'[k])
  PROVE  InductiveInv'
  <1>1. /\ others' \in [Key -> SUBSET Key]
        /\ \A i, j \in 1..Len(buckets') : buckets'[i].key = buckets'[j].key => i = j
        /\ LatestAtTheBack'
    BY ArrangedKeeps DEF Presented
  <1>2. Len(buckets') \in 1..MaxKeys /\ Len(buckets') \in Nat /\ MaxKeys \in Nat
    BY Bounds DEF Arranged
  <1>3. ASSUME NEW i \in 1..Len(buckets')
        PROVE  LET c == buckets'[i] IN
               c \in AnyBucket /\ Earned(c, granted'[c.key], opened'[c.key]) /\ Covered(c, promised'[c.key])
    <2>1. CASE i = Len(buckets')
      BY <2>1 DEF Arranged
    <2>2. CASE i # Len(buckets')
      <3>1. i \in 1 .. Len(buckets') - 1
        BY <1>2, <2>2
      <3>2. PICK j \in 1..Len(buckets) : buckets'[i] = buckets[j] /\ buckets[j].key # k
        <4>1. buckets'[i] \in {buckets[j] : j \in 1..Len(buckets)} /\ buckets'[i].key # k
          BY <3>1 DEF Arranged
        <4> QED
          BY <4>1
      <3>3. buckets[j].key \in Key \ {k}
        BY <3>2, MapFacts DEF AnyBucket
      <3> QED
        BY <3>2, <3>3, MapFacts
    <2> QED
      BY <2>1, <2>2
  <1>4. DOMAIN buckets' = 1..Len(buckets')
    BY LenProperties
  <1>5. TypeOK'
    <2>1. \A i, j \in DOMAIN buckets' : buckets'[i].key = buckets'[j].key => i = j
      BY <1>1, <1>4
    <2>2. Len(buckets') <= MaxKeys
      BY <1>2
    <2> QED
      BY <1>1, <2>1, <2>2 DEF TypeOK, InductiveInv, Presented, AnyBucket, AnyPromise
  <1>6. GrantsAreEarned'
    <2> SUFFICES ASSUME NEW i \in DOMAIN buckets'
                 PROVE  LET c == buckets'[i]
                            spent == granted'[c.key] * Unit
                        IN  /\ spent + c.tokens <= Burst * Unit + Gain * (c.updated - opened'[c.key])
                            /\ c.tokens >= 0
                            /\ spent + c.tokens >= Burst * Unit
      BY DEF GrantsAreEarned
    <2>1. buckets'[i] \in AnyBucket /\ Earned(buckets'[i], granted'[buckets'[i].key], opened'[buckets'[i].key])
      BY <1>3, <1>4
    <2>2. buckets'[i].tokens >= 0
      BY <2>1, Bounds DEF AnyBucket, Rest
    <2> QED
      BY <2>1, <2>2 DEF Earned
  <1>7. PromiseIsCovered'
    <2>1. \A i \in DOMAIN buckets' : Covered(buckets'[i], promised'[buckets'[i].key])
      BY <1>3, <1>4
    <2> QED
      BY <2>1 DEF PromiseIsCovered, Covered
  <1> QED
    BY <1>1, <1>5, <1>6, <1>7 DEF InductiveInv

-----------------------------------------------------------------------------
(* The presentations, and the clock.                                        *)

LEMMA OpenStep ==
  ASSUME LimitAssumption, InductiveInv, NEW k \in Key, Open(k)
  PROVE  InductiveInv'
  <1> DEFINE b == Bucket(k, (Burst - 1) * Unit, clock)
  <1>1. clock \in 0..MaxClock /\ (Burst - 1) * Unit \in Rest
    BY Bounds DEF InductiveInv, TypeOK
  <1>2. b \in AnyBucket /\ b.key = k /\ b.tokens = (Burst - 1) * Unit /\ b.updated = clock
    BY <1>1 DEF Bucket, AnyBucket
  <1>3. buckets' \in Seq(AnyBucket) /\ Arranged(buckets, buckets', k, b)
    BY <1>2, MapFacts, TakenNew DEF Open, Presented, LimitAssumption
  <1>4. /\ granted' \in [Key -> Nat] /\ opened' \in [Key -> 0..MaxClock]
        /\ promised' \in [Key -> AnyPromise]
        /\ granted'[k] = 1 /\ opened'[k] = clock /\ promised'[k] = NoPromise
        /\ \A q \in Key \ {k} : /\ granted'[q] = granted[q] /\ opened'[q] = opened[q]
                                /\ promised'[q] = promised[q]
    <2>1. NoPromise \in AnyPromise
      BY Bounds DEF NoPromise, AnyPromise
    <2> QED
      BY <1>1, <2>1 DEF Open, InductiveInv, TypeOK, AnyPromise
  <1>5. Earned(b, granted'[k], opened'[k])
    <2>1. 1 * Unit + b.tokens = Burst * Unit /\ Gain * (clock - clock) = 0 /\ Burst * Unit \in Nat
      BY <1>1, <1>2, Bounds
    <2> QED
      BY <1>2, <1>4, <2>1 DEF Earned
  <1>6. Covered(b, promised'[k])
    BY <1>4 DEF Covered, NoPromise
  <1> QED
    BY <1>2, <1>3, <1>4, <1>5, <1>6, PresentedInductive DEF Open

(* What a bucket holds at the clock, and the base it then counts from.      *)
LEMMA RefilledFacts ==
  ASSUME LimitAssumption, InductiveInv, NEW k \in Keys(buckets)
  PROVE  LET c == BucketOf(buckets, k)
             held == Refilled(c, clock)
             base == Base(c, clock)
         IN  /\ clock \in 0..MaxClock /\ k \in Key
             /\ c \in AnyBucket /\ c.key = k /\ c.tokens \in Nat /\ c.updated \in 0..MaxClock
             /\ held \in Nat /\ held <= Burst * Unit
             /\ base \in 0..MaxClock /\ clock <= base
             /\ Earned([c EXCEPT !.tokens = held, !.updated = base], granted[k], opened[k])
             /\ granted[k] * Unit \in Nat
  <1> DEFINE c == BucketOf(buckets, k)
             held == Refilled(c, clock)
             base == Base(c, clock)
             o == opened[k]
             spent == granted[k] * Unit
  <1>1. PICK i \in 1..Len(buckets) : c = buckets[i] /\ c.key = k
    BY MapFacts, PositionOfAKey
  <1>2. c \in AnyBucket /\ Earned(c, granted[k], opened[k]) /\ k \in Key
    BY <1>1, MapFacts DEF AnyBucket
  <1>3. /\ clock \in 0..MaxClock /\ MaxClock \in Nat /\ granted[k] \in Nat /\ o \in 0..MaxClock
        /\ Burst * Unit \in Nat /\ Gain \in Nat /\ Unit \in Nat
    BY <1>2, Bounds DEF InductiveInv, TypeOK
  <1>4. c.tokens \in Nat /\ c.updated \in 0..MaxClock
    BY <1>2, Bounds DEF AnyBucket, Rest
  <1>5. spent \in Nat
    BY <1>3
  <1>6. base \in 0..MaxClock /\ clock <= base /\ c.updated <= base
    BY <1>3, <1>4 DEF Base, Most
  <1>7. /\ held \in Nat /\ held <= Burst * Unit /\ held <= c.tokens + Gain * (base - c.updated)
        /\ held = Burst * Unit \/ c.tokens <= held
    <2> DEFINE gain == Most(0, (clock - c.updated) * Gain)
    <2>1. gain \in Nat /\ gain = Gain * (base - c.updated)
      <3>1. CASE c.updated <= clock
        <4>1. base = clock
          BY <1>3, <1>4, <3>1 DEF Base, Most
        <4>2. (clock - c.updated) * Gain \in Nat /\ (clock - c.updated) * Gain = Gain * (clock - c.updated)
          BY <1>3, <1>4, <3>1, Spans
        <4> QED
          BY <4>1, <4>2 DEF Most
      <3>2. CASE clock < c.updated
        <4>1. base = c.updated
          BY <1>3, <1>4, <3>2 DEF Base, Most
        <4>2. (clock - c.updated) * Gain <= 0 /\ (clock - c.updated) * Gain \in Int
          BY <1>3, <1>4, <3>2
        <4>3. Gain * (c.updated - c.updated) = 0
          BY <1>3, <1>4
        <4> QED
          BY <4>1, <4>2, <4>3 DEF Most
      <3> QED
        BY <1>3, <1>4, <3>1, <3>2
    <2>2. held = Least(Burst * Unit, c.tokens + gain)
      BY DEF Refilled
    <2> DEFINE full == Burst * Unit
               y == Gain * (base - c.updated)
    <2>3. gain \in Nat /\ gain = y /\ held = Least(full, c.tokens + gain) /\ full \in Nat
      BY <1>3, <2>1, <2>2
    <2> HIDE DEF gain, held, full, y
    <2>4. held \in Nat /\ held <= full /\ held <= c.tokens + y /\ (held = full \/ c.tokens <= held)
      BY <1>4, <2>3 DEF Least
    <2> QED
      BY <2>4 DEF full, y
  <1>8. /\ spent + held <= Burst * Unit + Gain * (base - o)
        /\ Burst * Unit <= spent + held
    <2> DEFINE full == Burst * Unit
               x == Gain * (c.updated - o)
               y == Gain * (base - c.updated)
               z == Gain * (base - o)
               t == c.tokens
    <2>1. spent + t <= full + x /\ full <= spent + t
      BY <1>2 DEF Earned
    <2>2. x + y = z
      <3>1. Gain \in Nat /\ o \in Int /\ c.updated \in Int /\ base \in Int
        BY <1>3, <1>4, <1>6
      <3> HIDE DEF o, base, c
      <3>2. Gain * (c.updated - o) + Gain * (base - c.updated) = Gain * (base - o)
        BY <3>1, Spans
      <3> QED
        BY <3>2
    <2>3. x \in Int /\ y \in Int /\ z \in Int /\ full \in Nat
      <3>1. base \in Int /\ c.updated \in Int /\ o \in Int
        BY <1>3, <1>4, <1>6
      <3>2. Gain * (c.updated - o) \in Int
        BY <1>3, <3>1, Spans
      <3>3. Gain * (base - c.updated) \in Int
        BY <1>3, <3>1, Spans
      <3>4. Gain * (base - o) \in Int
        BY <1>3, <3>1, Spans
      <3> QED
        BY <1>3, <3>2, <3>3, <3>4
    <2>4. t \in Nat /\ held \in Nat /\ (held = full \/ t <= held)
      BY <1>4, <1>7
    <2>5. held <= t + y
      BY <1>7
    <2> HIDE DEF spent, held, base, o, full, x, y, z, t
    <2>6. spent + held <= full + z /\ full <= spent + held
      BY <1>5, <2>1, <2>2, <2>3, <2>4, <2>5
    <2> QED
      BY <2>6 DEF full, z
  <1>9. Earned([c EXCEPT !.tokens = held, !.updated = base], granted[k], opened[k])
    <2> HIDE DEF held, base, c
    <2> QED
      BY <1>2, <1>8 DEF Earned, AnyBucket
  <1> QED
    BY <1>1, <1>2, <1>3, <1>4, <1>5, <1>6, <1>7, <1>9

LEMMA GrantStep ==
  ASSUME LimitAssumption, InductiveInv, NEW k \in Key, Grant(k)
  PROVE  InductiveInv'
  <1> DEFINE c == BucketOf(buckets, k)
             held == Refilled(c, clock)
             base == Base(c, clock)
             b == Bucket(k, held - Unit, base)
  <1>1. k \in Keys(buckets) /\ held >= Unit
    BY DEF Grant, Allowed
  <1>2. /\ c \in AnyBucket /\ held \in Nat /\ held <= Burst * Unit /\ base \in 0..MaxClock
        /\ Earned([c EXCEPT !.tokens = held, !.updated = base], granted[k], opened[k])
        /\ granted[k] * Unit \in Nat
    BY <1>1, RefilledFacts
  <1>3. Unit \in Nat \ {0} /\ Burst * Unit \in Nat
    BY Bounds
  <1> HIDE DEF c, held, base
  <1>4. held - Unit \in Rest
    BY <1>1, <1>2, <1>3, Bounds
  <1>5. b \in AnyBucket /\ b.key = k /\ b.tokens = held - Unit /\ b.updated = base
    BY <1>2, <1>4 DEF Bucket, AnyBucket
  <1>6. b = Bucket(k, IF held < Unit THEN held ELSE held - Unit, base)
    BY <1>1, <1>2, <1>3
  <1>7. buckets' \in Seq(AnyBucket) /\ Arranged(buckets, buckets', k, b)
    <2>1. buckets' = Taken(buckets, k, clock)
      BY DEF Grant, Presented
    <2> QED
      BY <1>1, <1>5, <1>6, <2>1, MapFacts, TakenHeld DEF LimitAssumption, c, held, base
  <1>8. /\ granted' \in [Key -> Nat] /\ opened' \in [Key -> 0..MaxClock]
        /\ promised' \in [Key -> AnyPromise]
        /\ granted'[k] = granted[k] + 1 /\ opened'[k] = opened[k] /\ promised'[k] = NoPromise
        /\ granted[k] \in Nat
        /\ \A q \in Key \ {k} : /\ granted'[q] = granted[q] /\ opened'[q] = opened[q]
                                /\ promised'[q] = promised[q]
    <2>1. NoPromise \in AnyPromise
      BY Bounds DEF NoPromise, AnyPromise
    <2> QED
      BY <2>1 DEF Grant, InductiveInv, TypeOK, AnyPromise
  <1>9. Earned(b, granted'[k], opened'[k])
    <2>1. (granted[k] + 1) * Unit = granted[k] * Unit + Unit
      BY <1>3, <1>8
    <2>2. (granted[k] + 1) * Unit + (held - Unit) = granted[k] * Unit + held
      BY <1>2, <1>3, <2>1
    <2>3. /\ granted[k] * Unit + held <= Burst * Unit + Gain * (base - opened[k])
          /\ Burst * Unit <= granted[k] * Unit + held
      BY <1>2 DEF Earned, AnyBucket
    <2> QED
      BY <1>5, <1>8, <2>2, <2>3 DEF Earned
  <1>10. Covered(b, promised'[k])
    BY <1>8 DEF Covered, NoPromise
  <1> QED
    BY <1>5, <1>7, <1>8, <1>9, <1>10, PresentedInductive DEF Grant

LEMMA RefuseStep ==
  ASSUME LimitAssumption, InductiveInv, NEW k \in Key, Refuse(k)
  PROVE  InductiveInv'
  <1> DEFINE c == BucketOf(buckets, k)
             held == Refilled(c, clock)
             base == Base(c, clock)
             wait == RetryAfter(c, clock)
             b == Bucket(k, held, base)
  <1>1. k \in Keys(buckets) /\ ~(held >= Unit)
    BY DEF Refuse, Allowed
  <1>2. /\ clock \in 0..MaxClock
        /\ c \in AnyBucket /\ held \in Nat /\ base \in 0..MaxClock /\ clock <= base
        /\ Earned([c EXCEPT !.tokens = held, !.updated = base], granted[k], opened[k])
    BY <1>1, RefilledFacts
  <1>3. Unit \in Nat \ {0} /\ Gain \in Nat \ {0} /\ Second \in Nat \ {0}
    BY Bounds
  <1>4. wait \in Nat /\ wait * Second \in Nat /\ Unit - held <= Gain * (wait * Second)
    <2> DEFINE d == Gain * Second
               m == Unit - held
    <2> HIDE DEF held
    <2>1. d \in Nat \ {0} /\ m \in Nat
      BY <1>1, <1>2, <1>3
    <2>2. wait = Most(1, (m + d - 1) \div d)
      BY DEF RetryAfter, held
    <2> HIDE DEF d, m, wait
    <2>3. (m + d - 1) \div d \in Nat /\ m <= ((m + d - 1) \div d) * d
      BY <2>1, WaitCovers
    <2>4. wait \in Nat /\ (m + d - 1) \div d <= wait
      BY <2>2, <2>3 DEF Most
    <2>5. m <= wait * d
      <3>1. \A x, y \in Nat : x <= y => x * d <= y * d
        BY <2>1
      <3>2. ((m + d - 1) \div d) * d <= wait * d /\ wait * d \in Nat /\ ((m + d - 1) \div d) * d \in Nat
        BY <2>1, <2>3, <2>4, <3>1
      <3> QED
        BY <2>1, <2>3, <3>2
    <2>6. wait * d = Gain * (wait * Second) /\ wait * Second \in Nat
      BY <1>3, <2>4 DEF d
    <2> QED
      BY <2>4, <2>5, <2>6 DEF m
  <1> HIDE DEF c, held, base, wait
  <1>5. held \in Rest
    BY <1>1, <1>2, <1>3, Bounds
  <1>6. b \in AnyBucket /\ b.key = k /\ b.tokens = held /\ b.updated = base
    BY <1>2, <1>5 DEF Bucket, AnyBucket
  <1>7. b = Bucket(k, IF held < Unit THEN held ELSE held - Unit, base)
    BY <1>1, <1>2, <1>3
  <1>8. buckets' \in Seq(AnyBucket) /\ Arranged(buckets, buckets', k, b)
    <2>1. buckets' = Taken(buckets, k, clock)
      BY DEF Refuse, Presented
    <2> QED
      BY <1>1, <1>6, <1>7, <2>1, MapFacts, TakenHeld DEF LimitAssumption, c, held, base
  <1>9. /\ granted' \in [Key -> Nat] /\ opened' \in [Key -> 0..MaxClock]
        /\ promised' \in [Key -> AnyPromise]
        /\ granted'[k] = granted[k] /\ opened'[k] = opened[k]
        /\ promised'[k] = [told |-> clock, due |-> clock + wait * Second]
        /\ \A q \in Key \ {k} : /\ granted'[q] = granted[q] /\ opened'[q] = opened[q]
                                /\ promised'[q] = promised[q]
    <2>1. [told |-> clock, due |-> clock + wait * Second] \in AnyPromise
      BY <1>2, <1>4, Bounds DEF AnyPromise
    <2> QED
      BY <2>1 DEF Refuse, InductiveInv, TypeOK, AnyPromise, wait, c
  <1>10. Earned(b, granted'[k], opened'[k])
    BY <1>2, <1>6, <1>9 DEF Earned, AnyBucket
  <1>11. Covered(b, promised'[k])
    <2>1. ASSUME base <= clock
          PROVE  clock <= clock + wait * Second /\ held + Gain * (clock + wait * Second - base) >= Unit
      <3>1. base = clock
        BY <1>2, <2>1, Bounds
      <3>2. clock + wait * Second - base = wait * Second
        BY <1>2, <1>4, <3>1, Bounds
      <3>3. Gain * (wait * Second) \in Nat
        BY <1>3, <1>4
      <3> QED
        BY <1>2, <1>3, <1>4, <3>2, <3>3, Bounds
    <2>2. promised'[k].told = clock /\ promised'[k].due = clock + wait * Second
      BY <1>9
    <2> DEFINE p == promised'[k]
    <2>3. Gain * (p.due - b.updated) = Gain * (clock + wait * Second - base)
      <3>1. p.due = clock + wait * Second /\ b.updated = base
        BY <1>6, <2>2
      <3> HIDE DEF b, p
      <3> QED
        BY <1>2, <1>3, <1>4, <3>1, Bounds
    <2>4. b.updated <= p.told
          => p.told <= p.due /\ b.tokens + Gain * (p.due - b.updated) >= Unit
      <3> HIDE DEF b, p
      <3>1. b.updated = base /\ b.tokens = held
        BY <1>6
      <3>2. p.told = clock /\ p.due = clock + wait * Second
        BY <2>2 DEF p
      <3> SUFFICES ASSUME base <= clock
                   PROVE  p.told <= p.due /\ held + Gain * (p.due - b.updated) >= Unit
        BY <3>1, <3>2
      <3>3. held + Gain * (p.due - b.updated) >= Unit
        BY <2>1, <2>3 DEF p
      <3> QED
        BY <2>1, <3>2, <3>3
    <2> QED
      BY <2>4 DEF Covered
  <1> QED
    BY <1>6, <1>8, <1>9, <1>10, <1>11, PresentedInductive DEF Refuse

LEMMA NextInductive ==
  ASSUME LimitAssumption, InductiveInv, [Next]_vars
  PROVE  InductiveInv'
  <1>1. CASE Move \/ UNCHANGED vars
    <2>1. UNCHANGED <<buckets, granted, opened, others, promised>>
      BY <1>1 DEF Move, vars
    <2>2. TypeOK'
      BY <1>1, <2>1 DEF Move, vars, InductiveInv, TypeOK
    <2>3. GrantsAreEarned' /\ PromiseIsCovered' /\ LatestAtTheBack'
      BY <2>1 DEF InductiveInv, GrantsAreEarned, PromiseIsCovered, LatestAtTheBack, Keys
    <2> QED
      BY <2>2, <2>3 DEF InductiveInv
  <1>2. ASSUME NEW k \in Key, Open(k) \/ Grant(k) \/ Refuse(k)
        PROVE  InductiveInv'
    BY <1>2, OpenStep, GrantStep, RefuseStep
  <1> QED
    BY <1>1, <1>2 DEF Next

LEMMA InitInductive ==
  ASSUME LimitAssumption, Init
  PROVE  InductiveInv
  <1>1. buckets = <<>> /\ Len(buckets) = 0 /\ DOMAIN buckets = {} /\ buckets \in Seq(AnyBucket)
    BY EmptySeq, LenProperties DEF Init
  <1>2. TypeOK
    BY <1>1, Bounds DEF Init, TypeOK, NoPromise, AnyBucket
  <1>3. LatestAtTheBack
    BY <1>1 DEF Init, LatestAtTheBack, LimitAssumption
  <1> QED
    BY <1>1, <1>2, <1>3 DEF InductiveInv, GrantsAreEarned, PromiseIsCovered

-----------------------------------------------------------------------------
(* The bucket of every key in every state holds what the requests granted   *)
(* and the time account for, covers the last refusal's promise, and stands  *)
(* in the order keys were presented.                                        *)
THEOREM RateInductive ==
  ASSUME LimitAssumption
  PROVE  Spec => []InductiveInv
  <1>1. Init => InductiveInv
    BY InitInductive
  <1>2. InductiveInv /\ [Next]_vars => InductiveInv'
    BY NextInductive
  <1> QED
    BY <1>1, <1>2, PTL DEF Spec

(* gateway/src/access.ts, take: a client that waits the seconds a refusal   *)
(* states is not refused again by the same bucket.                          *)
THEOREM HintIsEnough ==
  ASSUME LimitAssumption
  PROVE  Spec => []HintSuffices
  <1>1. InductiveInv => HintSuffices
    <2> SUFFICES ASSUME InductiveInv, NEW k \in Keys(buckets), Waited(k),
                        BucketOf(buckets, k).updated <= promised[k].told
                 PROVE  Refilled(BucketOf(buckets, k), clock) >= Unit
      BY DEF HintSuffices, Allowed
    <2> DEFINE c == BucketOf(buckets, k)
               due == promised[k].due
    <2>1. PICK i \in 1..Len(buckets) : c = buckets[i] /\ c.key = k
      BY MapFacts, PositionOfAKey
    <2>2. c \in AnyBucket /\ Covered(c, promised[k]) /\ k \in Key
      BY <2>1, MapFacts DEF AnyBucket
    <2>3. /\ clock \in Nat /\ due \in Nat /\ promised[k].told \in Nat
          /\ Gain \in Nat /\ Unit \in Nat /\ Burst \in Nat \ {0} /\ Burst * Unit \in Nat
      BY <2>2, Bounds DEF InductiveInv, TypeOK
    <2>4. c.tokens \in Nat /\ c.updated \in Nat
      BY <2>2, Bounds DEF AnyBucket, Rest
    <2>5. 0 < due /\ due <= clock /\ c.updated <= due /\ c.tokens + Gain * (due - c.updated) >= Unit
      BY <2>2, <2>3, <2>4 DEF Waited, Covered
    <2>6. Unit <= Burst * Unit
      BY <2>3
    <2> HIDE DEF c, due
    <2>7. /\ Gain * (due - c.updated) <= Gain * (clock - c.updated)
          /\ Gain * (clock - c.updated) \in Nat /\ Gain * (due - c.updated) \in Nat
          /\ (clock - c.updated) * Gain = Gain * (clock - c.updated)
      <3>1. c.updated \in Int /\ due \in Int /\ clock \in Int /\ c.updated <= clock
        BY <2>3, <2>4, <2>5
      <3>2. Gain * (due - c.updated) <= Gain * (clock - c.updated)
        BY <2>3, <2>5, <3>1, Spans
      <3>3. Gain * (clock - c.updated) \in Nat /\ (clock - c.updated) * Gain = Gain * (clock - c.updated)
        BY <2>3, <3>1, Spans
      <3>4. Gain * (due - c.updated) \in Nat
        BY <2>3, <2>5, <3>1, Spans
      <3> QED
        BY <3>2, <3>3, <3>4
    <2>8. c.tokens + Gain * (clock - c.updated) >= Unit
      <3> DEFINE p == Gain * (due - c.updated)
                 q == Gain * (clock - c.updated)
      <3>1. p <= q /\ p \in Nat /\ q \in Nat /\ c.tokens + p >= Unit
        BY <2>5, <2>7
      <3> HIDE DEF p, q
      <3>2. c.tokens + q >= Unit
        BY <2>3, <2>4, <3>1
      <3> QED
        BY <3>2 DEF q
    <2>9. Most(0, (clock - c.updated) * Gain) = Gain * (clock - c.updated)
      BY <2>7 DEF Most
    <2>10. Refilled(c, clock) >= Unit
      BY <2>3, <2>4, <2>6, <2>7, <2>8, <2>9 DEF Refilled, Least
    <2> QED
      BY <2>10 DEF c
  <1> QED
    BY <1>1, RateInductive, PTL

(* gateway/src/access.ts, trim: a key presented after which fewer others    *)
(* came than the map holds keeps its bucket.                                *)
THEOREM BusyKeysStay ==
  ASSUME LimitAssumption
  PROVE  Spec => []BusyKeyKept
  <1>1. InductiveInv => BusyKeyKept
    <2> SUFFICES ASSUME InductiveInv, NEW k \in Key, Cardinality(others[k]) < MaxKeys
                 PROVE  k \in Keys(buckets)
      BY DEF BusyKeyKept
    <2>1. IsFiniteSet(others[k])
      BY FS_Subset DEF LimitAssumption, InductiveInv, TypeOK
    <2>2. Cardinality(others[k]) \in Nat /\ MaxKeys \in Nat
      BY <2>1, Bounds, FS_CardinalityType
    <2> QED
      BY <2>2 DEF InductiveInv, LatestAtTheBack
  <1> QED
    BY <1>1, RateInductive, PTL
=============================================================================
