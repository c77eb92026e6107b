---------------------------- MODULE AdmissionProofs ----------------------------
(***************************************************************************)
(* Admission for every file of credentials, every tolerance and window the *)
(* assumption allows, every cap and every clock: a signature passes the    *)
(* replay check once, and a guess changes and learns nothing.              *)
(***************************************************************************)
EXTENDS Admission, SequenceTheorems, FiniteSetTheorems, TLAPS

LEMMA RemoveAtProperties ==
  ASSUME NEW S, NEW s \in Seq(S), NEW p \in 1..Len(s)
  PROVE  /\ RemoveAt(s, p) \in Seq(S)
         /\ Len(RemoveAt(s, p)) = Len(s) - 1
         /\ \A j \in 1 .. Len(s) - 1 : /\ j < p => RemoveAt(s, p)[j] = s[j]
                                       /\ j >= p => RemoveAt(s, p)[j] = s[j + 1]
  <1> DEFINE a == SubSeq(s, 1, p - 1)
             b == SubSeq(s, p + 1, Len(s))
  <1>1. Len(s) \in Nat /\ \A i \in 1..Len(s) : s[i] \in S
    BY LenProperties, ElementOfSeq
  <1>2. a \in Seq(S) /\ Len(a) = p - 1 /\ \A j \in 1 .. p - 1 : a[j] = s[j]
    <2>1. \A i \in 1 .. p - 1 : s[i] \in S
      BY <1>1
    <2> QED
      BY <1>1, <2>1, SubSeqProperties
  <1>3. b \in Seq(S) /\ Len(b) = Len(s) - p /\ \A j \in 1 .. Len(s) - p : b[j] = s[p + j]
    <2>1. \A i \in p + 1 .. Len(s) : s[i] \in S
      BY <1>1
    <2>2. /\ b \in Seq(S)
          /\ Len(b) = IF p + 1 <= Len(s) THEN Len(s) - (p + 1) + 1 ELSE 0
          /\ \A j \in 1 .. Len(s) - (p + 1) + 1 : b[j] = s[p + 1 + j - 1]
      BY <1>1, <2>1, SubSeqProperties
    <2> QED
      BY <1>1, <2>2
  <1> HIDE DEF a, b
  <1>4. /\ a \o b \in Seq(S)
        /\ Len(a \o b) = Len(a) + Len(b)
        /\ \A i \in 1 .. Len(a) + Len(b) : (a \o b)[i] = IF i <= Len(a) THEN a[i] ELSE b[i - Len(a)]
    BY <1>2, <1>3, ConcatProperties
  <1>5. ASSUME NEW j \in 1 .. Len(s) - 1
        PROVE  /\ j < p => (a \o b)[j] = s[j]
               /\ j >= p => (a \o b)[j] = s[j + 1]
    <2>1. j \in 1 .. Len(a) + Len(b)
      BY <1>1, <1>2, <1>3
    <2>2. CASE j < p
      BY <1>1, <1>2, <1>4, <2>1, <2>2
    <2>3. CASE j >= p
      <3>1. j - (p - 1) \in 1 .. Len(s) - p /\ p + (j - (p - 1)) = j + 1
        BY <1>1, <2>3
      <3>2. (a \o b)[j] = b[j - (p - 1)]
        BY <1>1, <1>2, <1>4, <2>1, <2>3
      <3> QED
        BY <1>1, <1>3, <2>3, <3>1, <3>2
    <2> QED
      BY <2>2, <2>3
  <1>6. RemoveAt(s, p) = a \o b
    BY DEF RemoveAt, a, b
  <1>7. Len(a \o b) = Len(s) - 1
    BY <1>1, <1>2, <1>3, <1>4
  <1> QED
    BY <1>4, <1>5, <1>6, <1>7

AnyEntry == [pair : Pair, expiry : Nat]
PeerBucket == [key : Peer, tokens : Int, updated : Int]
OwnBucket == [key : Cred, tokens : Int, updated : Int]

LEMMA Widths ==
  ASSUME WindowAssumption
  PROVE  /\ Tolerance \in Nat /\ Window \in Nat /\ Window >= 2 * Tolerance + 1
         /\ Second \in Nat \ {0} /\ MaxEntries \in Nat \ {0} /\ MaxPeers \in Nat \ {0}
         /\ MaxClock \in Nat /\ Remembered \in Nat
         /\ PeerBurst \in Nat /\ Burst \in Nat /\ Unit \in Nat /\ Gain \in Nat
  <1>1. /\ Tolerance \in Nat /\ Window \in Nat /\ Window >= 2 * Tolerance + 1
        /\ Second \in Nat \ {0} /\ MaxEntries \in Nat \ {0} /\ MaxPeers \in Nat \ {0}
        /\ MaxClock \in Nat
        /\ PeerBurst \in Nat /\ Burst \in Nat /\ Unit \in Nat /\ Gain \in Nat
    BY DEF WindowAssumption
  <1>2. Remembered \in Nat
    BY <1>1 DEF Remembered
  <1> QED
    BY <1>1, <1>2

(* Whole seconds: what is cut off never reaches the next one.               *)
LEMMA Seconds ==
  ASSUME NEW c \in Nat, NEW s \in Nat \ {0}
  PROVE  /\ c \div s \in Nat
         /\ (c \div s) * s <= c
         /\ \A a \in Int : a * s <= c => a <= c \div s
  OBVIOUS

-----------------------------------------------------------------------------
(* A token bucket hands back a map of buckets.                              *)

LEMMA PeerTaken ==
  ASSUME WindowAssumption, TypeOK, BucketsAreBuckets, NEW k \in Peer
  PROVE  /\ Peers!Taken(peers, k, clock) \in Seq(PeerBucket)
         /\ Len(Peers!Taken(peers, k, clock)) <= MaxPeers
  <1> DEFINE t == Peers!Taken(peers, k, clock)
  <1>1. /\ peers \in Seq(PeerBucket) /\ Len(peers) \in Nat /\ Len(peers) <= MaxPeers
        /\ clock \in Nat
    BY Widths, LenProperties DEF BucketsAreBuckets, TypeOK, PeerBucket
  <1>2. CASE k \notin Peers!Keys(peers)
    <2> DEFINE b == Peers!Bucket(k, (PeerBurst - 1) * Unit, clock)
               a == Append(peers, b)
               m == Peers!Most(1, Len(a) - MaxPeers + 1)
    <2>1. (PeerBurst - 1) * Unit \in Int
      BY Widths
    <2>2. b \in PeerBucket
      BY <1>1, <2>1 DEF Peers!Bucket, PeerBucket
    <2>3. a \in Seq(PeerBucket) /\ Len(a) = Len(peers) + 1
      BY <1>1, <2>2, AppendProperties
    <2>4. t = SubSeq(a, m, Len(a))
      BY <1>2 DEF Peers!Taken, Peers!Trimmed
    <2>5. m \in 1..Len(a) /\ Len(a) - m + 1 <= MaxPeers
      <3> DEFINE x == Len(a) - MaxPeers + 1
      <3>0. Len(a) \in Nat /\ MaxPeers \in Nat \ {0}
        BY <1>1, <2>3, Widths
      <3>1. x \in Int /\ x <= Len(a) /\ Len(a) - x + 1 = MaxPeers
        <4> HIDE DEF a
        <4> QED
          BY <3>0
      <3> HIDE DEF x
      <3>2. m = Peers!Most(1, x)
        BY DEF x
      <3>3. m \in Int /\ 1 <= m /\ x <= m /\ (m = 1 \/ m = x)
        <4> HIDE DEF m
        <4> QED
          BY <3>1, <3>2 DEF Peers!Most
      <3>4. Len(a) >= 1
        BY <1>1, <2>3
      <3> HIDE DEF m, a
      <3> QED
        BY <3>0, <3>1, <3>3, <3>4
    <2> HIDE DEF a, m, t
    <2>6. \A i \in m..Len(a) : a[i] \in PeerBucket
      BY <1>1, <2>3, <2>5, ElementOfSeq
    <2>7. /\ t \in Seq(PeerBucket)
          /\ Len(t) = IF m <= Len(a) THEN Len(a) - m + 1 ELSE 0
      BY <1>1, <2>3, <2>4, <2>5, <2>6, SubSeqProperties
    <2>8. Len(t) <= MaxPeers
      BY <1>1, <2>3, <2>5, <2>7
    <2> QED
      BY <2>7, <2>8 DEF t
  <1>3. CASE k \in Peers!Keys(peers)
    <2> DEFINE p == Peers!Position(peers, k)
               o == Peers!Others(peers, k)
               c == Peers!BucketOf(peers, k)
               held == Peers!Refilled(c, clock)
               b == Peers!Bucket(k, IF held < Unit THEN held ELSE held - Unit, Peers!Base(c, clock))
    <2>1. p \in 1..Len(peers)
      <3>1. p \in DOMAIN peers
        BY <1>3 DEF Peers!Keys, Peers!Position
      <3> QED
        BY <1>1, <3>1, LenProperties
    <2>2. c \in PeerBucket
      BY <1>1, <2>1, ElementOfSeq DEF Peers!BucketOf
    <2>3. held \in Int /\ Peers!Base(c, clock) \in Int
      <3> DEFINE full == PeerBurst * Unit
                 gain == (clock - c.updated) * Gain
      <3>1. gain \in Int /\ full \in Int /\ c.tokens \in Int /\ c.updated \in Int
        <4>1. c.tokens \in Int /\ c.updated \in Int
          BY <2>2 DEF PeerBucket
        <4>2. clock \in Int /\ Gain \in Int /\ Unit \in Int /\ PeerBurst \in Int
          BY <1>1, Widths
        <4> DEFINE span == clock - c.updated
        <4>3. span \in Int
          BY <4>1, <4>2
        <4> HIDE DEF c, span
        <4>4. span * Gain \in Int
          BY <4>2, <4>3
        <4>5. PeerBurst * Unit \in Int
          BY <4>2
        <4> QED
          BY <4>1, <4>4, <4>5 DEF span
      <3>2. held = Peers!Least(full, c.tokens + Peers!Most(0, gain))
        BY DEF Peers!Refilled
      <3> HIDE DEF c, held, full, gain
      <3>3. held \in Int
        BY <3>1, <3>2 DEF Peers!Least, Peers!Most
      <3>4. Peers!Base(c, clock) \in Int
        BY <1>1, <3>1 DEF Peers!Base, Peers!Most
      <3> QED
        BY <3>3, <3>4
    <2> HIDE DEF held
    <2>4. b \in PeerBucket
      BY <2>3, Widths DEF Peers!Bucket, PeerBucket
    <2>5. o \in Seq(PeerBucket) /\ Len(o) = Len(peers) - 1
      BY <1>1, <2>1, RemoveAtProperties DEF Peers!Others, Peers!RemoveAt, RemoveAt
    <2>6. t = Append(o, b)
      BY <1>3 DEF Peers!Taken, held
    <2> HIDE DEF o, b, t
    <2> QED
      BY <1>1, <2>4, <2>5, <2>6, AppendProperties DEF t
  <1> QED
    BY <1>2, <1>3

LEMMA OwnTaken ==
  ASSUME WindowAssumption, TypeOK, BucketsAreBuckets, NEW k \in Cred
  PROVE  Own!Taken(own, k, clock) \in Seq(OwnBucket)
  <1> DEFINE t == Own!Taken(own, k, clock)
  <1>1. /\ own \in Seq(OwnBucket) /\ Len(own) \in Nat
        /\ clock \in Nat
    BY Widths, LenProperties DEF BucketsAreBuckets, TypeOK, OwnBucket
  <1>2. CASE k \notin Own!Keys(own)
    <2> DEFINE b == Own!Bucket(k, (Burst - 1) * Unit, clock)
               a == Append(own, b)
               m == Own!Most(1, Len(a) - Cardinality(Cred) + 1)
    <2>1. (Burst - 1) * Unit \in Int
      BY Widths
    <2>2. b \in OwnBucket
      BY <1>1, <2>1 DEF Own!Bucket, OwnBucket
    <2>3. a \in Seq(OwnBucket) /\ Len(a) = Len(own) + 1
      BY <1>1, <2>2, AppendProperties
    <2>4. t = SubSeq(a, m, Len(a))
      BY <1>2 DEF Own!Taken, Own!Trimmed
    <2>5. m \in Int /\ 1 <= m
      <3> DEFINE x == Len(a) - Cardinality(Cred) + 1
      <3>1. Cardinality(Cred) \in Nat
        BY FS_CardinalityType DEF WindowAssumption
      <3>2. x \in Int
        BY <1>1, <2>3, <3>1
      <3> HIDE DEF x
      <3>3. m = Own!Most(1, x)
        BY DEF x
      <3> HIDE DEF m
      <3> QED
        BY <3>2, <3>3 DEF Own!Most
    <2> HIDE DEF a, m, t
    <2>6. \A i \in m..Len(a) : a[i] \in OwnBucket
      BY <1>1, <2>3, <2>5, ElementOfSeq
    <2>7. /\ t \in Seq(OwnBucket)
          /\ Len(t) = IF m <= Len(a) THEN Len(a) - m + 1 ELSE 0
      BY <1>1, <2>3, <2>4, <2>5, <2>6, SubSeqProperties
    <2> QED
      BY <2>7 DEF t
  <1>3. CASE k \in Own!Keys(own)
    <2> DEFINE p == Own!Position(own, k)
               o == Own!Others(own, k)
               c == Own!BucketOf(own, k)
               held == Own!Refilled(c, clock)
               b == Own!Bucket(k, IF held < Unit THEN held ELSE held - Unit, Own!Base(c, clock))
    <2>1. p \in 1..Len(own)
      <3>1. p \in DOMAIN own
        BY <1>3 DEF Own!Keys, Own!Position
      <3> QED
        BY <1>1, <3>1, LenProperties
    <2>2. c \in OwnBucket
      BY <1>1, <2>1, ElementOfSeq DEF Own!BucketOf
    <2>3. held \in Int /\ Own!Base(c, clock) \in Int
      <3> DEFINE full == Burst * Unit
                 gain == (clock - c.updated) * Gain
      <3>1. gain \in Int /\ full \in Int /\ c.tokens \in Int /\ c.updated \in Int
        <4>1. c.tokens \in Int /\ c.updated \in Int
          BY <2>2 DEF OwnBucket
        <4>2. clock \in Int /\ Gain \in Int /\ Unit \in Int /\ Burst \in Int
          BY <1>1, Widths
        <4> DEFINE span == clock - c.updated
        <4>3. span \in Int
          BY <4>1, <4>2
        <4> HIDE DEF c, span
        <4>4. span * Gain \in Int
          BY <4>2, <4>3
        <4>5. Burst * Unit \in Int
          BY <4>2
        <4> QED
          BY <4>1, <4>4, <4>5 DEF span
      <3>2. held = Own!Least(full, c.tokens + Own!Most(0, gain))
        BY DEF Own!Refilled
      <3> HIDE DEF c, held, full, gain
      <3>3. held \in Int
        BY <3>1, <3>2 DEF Own!Least, Own!Most
      <3>4. Own!Base(c, clock) \in Int
        BY <1>1, <3>1 DEF Own!Base, Own!Most
      <3> QED
        BY <3>3, <3>4
    <2> HIDE DEF held
    <2>4. b \in OwnBucket
      BY <2>3, Widths DEF Own!Bucket, OwnBucket
    <2>5. o \in Seq(OwnBucket) /\ Len(o) = Len(own) - 1
      BY <1>1, <2>1, RemoveAtProperties DEF Own!Others, Own!RemoveAt, RemoveAt
    <2>6. t = Append(o, b)
      BY <1>3 DEF Own!Taken, held
    <2> HIDE DEF o, b, t
    <2> QED
      BY <1>1, <2>4, <2>5, <2>6, AppendProperties DEF t
  <1> QED
    BY <1>2, <1>3

-----------------------------------------------------------------------------
(* The replay set.                                                          *)

LEMMA SeenProperties ==
  ASSUME WindowAssumption, TypeOK
  PROVE  /\ seen \in Seq(AnyEntry)
         /\ Len(seen) \in Nat /\ Len(seen) <= MaxEntries
         /\ \A i \in 1..Len(seen) : seen[i] \in AnyEntry
         /\ \A i, j \in 1..Len(seen) : seen[i].pair = seen[j].pair => i = j
  <1>1. seen \in Seq(AnyEntry) /\ Len(seen) <= MaxEntries
    BY DEF TypeOK, AnyEntry
  <1>2. Len(seen) \in Nat /\ DOMAIN seen = 1..Len(seen)
    BY <1>1, LenProperties
  <1>3. \A i, j \in 1..Len(seen) : seen[i].pair = seen[j].pair => i = j
    BY <1>2 DEF TypeOK
  <1>4. \A i \in 1..Len(seen) : seen[i] \in AnyEntry
    BY <1>1, ElementOfSeq
  <1> QED
    BY <1>1, <1>2, <1>3, <1>4

(* What is left when the entry of a pair is taken out: the others, in their *)
(* order, none with more entries behind it than it had.                     *)
LEMMA WithoutProperties ==
  ASSUME WindowAssumption, TypeOK, NEW pair \in Pair
  PROVE  LET w == Without(pair) IN
         /\ w \in Seq(AnyEntry) /\ Len(w) \in Nat /\ Len(w) <= Len(seen)
         /\ \A j \in 1..Len(w) :
               /\ w[j].pair # pair
               /\ \E i \in 1..Len(seen) : w[j] = seen[i] /\ Len(w) - j <= Len(seen) - i
         /\ \A j, k \in 1..Len(w) : w[j].pair = w[k].pair => j = k
         /\ \A i \in 1..Len(seen) : seen[i].pair # pair => \E j \in 1..Len(w) : w[j] = seen[i]
  <1> DEFINE w == Without(pair)
             n == Len(seen)
  <1>1. /\ seen \in Seq(AnyEntry) /\ n \in Nat
        /\ \A i, j \in 1..n : seen[i].pair = seen[j].pair => i = j
    BY SeenProperties
  <1>2. DOMAIN seen = 1..n
    BY <1>1, LenProperties
  <1>3. CASE ~ \E i \in 1..n : seen[i].pair = pair
    <2>1. w = seen
      BY <1>2, <1>3 DEF Without
    <2> HIDE DEF w
    <2> QED
      BY <1>1, <1>3, <2>1 DEF w
  <1>4. CASE \E i \in 1..n : seen[i].pair = pair
    <2> DEFINE p == CHOOSE i \in 1..n : seen[i].pair = pair
    <2>1. p \in 1..n /\ seen[p].pair = pair
      BY <1>4
    <2>2. w = RemoveAt(seen, p)
      BY <1>2, <1>4 DEF Without
    <2> HIDE DEF p, w
    <2>3. /\ w \in Seq(AnyEntry)
          /\ Len(w) = n - 1
          /\ \A j \in 1 .. n - 1 : /\ j < p => w[j] = seen[j]
                                   /\ j >= p => w[j] = seen[j + 1]
      BY <1>1, <2>1, <2>2, RemoveAtProperties
    <2> HIDE DEF n
    <2>4. \A j \in 1..Len(w) : \E i \in 1..n : /\ i # p /\ w[j] = seen[i] /\ Len(w) - j <= n - i
                                               /\ (j < p => i = j) /\ (j >= p => i = j + 1)
      <3> SUFFICES ASSUME NEW j \in 1..Len(w)
                   PROVE  \E i \in 1..n : /\ i # p /\ w[j] = seen[i] /\ Len(w) - j <= n - i
                                          /\ (j < p => i = j) /\ (j >= p => i = j + 1)
        OBVIOUS
      <3>1. j \in 1 .. n - 1 /\ j \in 1..n /\ j + 1 \in 1..n
        BY <1>1, <2>3
      <3>2. CASE j < p
        BY <1>1, <2>1, <2>3, <3>1, <3>2
      <3>3. CASE j >= p
        <4> DEFINE i == j + 1
        <4>1. i \in 1..n /\ i # p /\ w[j] = seen[i] /\ Len(w) - j <= n - i /\ i = j + 1
          BY <1>1, <2>1, <2>3, <3>1, <3>3
        <4>2. ~(j < p)
          BY <2>1, <3>1, <3>3
        <4> HIDE DEF i
        <4> QED
          BY <4>1, <4>2
      <3> QED
        BY <2>1, <3>1, <3>2, <3>3
    <2>5. \A j \in 1..Len(w) : w[j].pair # pair
      BY <1>1, <2>1, <2>4
    <2>6. \A j, k \in 1..Len(w) : w[j].pair = w[k].pair => j = k
      <3> SUFFICES ASSUME NEW j \in 1..Len(w), NEW k \in 1..Len(w), w[j].pair = w[k].pair
                   PROVE  j = k
        OBVIOUS
      <3>1. PICK a \in 1..n : /\ a # p /\ w[j] = seen[a]
                              /\ (j < p => a = j) /\ (j >= p => a = j + 1)
        BY <2>4
      <3>2. PICK b \in 1..n : /\ b # p /\ w[k] = seen[b]
                              /\ (k < p => b = k) /\ (k >= p => b = k + 1)
        BY <2>4
      <3>3. a = b
        BY <1>1, <3>1, <3>2
      <3>4. j \in Nat /\ k \in Nat /\ p \in Nat
        BY <1>1, <2>1, <2>3
      <3> QED
        BY <3>1, <3>2, <3>3, <3>4
    <2>7. ASSUME NEW i \in 1..n, seen[i].pair # pair
          PROVE  \E j \in 1..Len(w) : w[j] = seen[i]
      <3>1. i # p
        BY <2>1, <2>7
      <3>2. CASE i < p
        <4>1. i \in 1..Len(w) /\ w[i] = seen[i]
          BY <1>1, <2>1, <2>3, <3>2
        <4> QED
          BY <4>1
      <3>3. CASE i > p
        <4>1. i - 1 \in 1..Len(w) /\ i - 1 >= p /\ (i - 1) + 1 = i
          BY <1>1, <2>1, <2>3, <3>3
        <4>2. w[i - 1] = seen[i]
          BY <2>3, <4>1
        <4> QED
          BY <4>1, <4>2
      <3> QED
        BY <2>1, <3>1, <3>2, <3>3
    <2>8. Len(w) \in Nat /\ Len(w) <= n
      BY <1>1, <2>1, <2>3
    <2> QED
      BY <2>3, <2>4, <2>5, <2>6, <2>7, <2>8 DEF n, w
  <1> QED
    BY <1>3, <1>4

(* What a pair that passes leaves: its own entry last and the others before *)
(* it, the first of them gone when the set was full.                        *)
LEMMA RecordedProperties ==
  ASSUME WindowAssumption, TypeOK, NEW pair \in Pair
  PROVE  LET t == Recorded(pair) IN
         /\ t \in Seq(AnyEntry) /\ Len(t) \in Nat /\ 1 <= Len(t) /\ Len(t) <= MaxEntries
         /\ t[Len(t)] = [pair |-> pair, expiry |-> clock + Remembered]
         /\ \A j \in 1..Len(t) : j # Len(t) =>
               /\ t[j].pair # pair
               /\ \E i \in 1..Len(seen) : t[j] = seen[i] /\ Len(t) - j <= Len(seen) - i + 1
         /\ \A j, k \in 1..Len(t) : t[j].pair = t[k].pair => j = k
         /\ \A i \in 1..Len(seen) :
               \/ seen[i].pair = pair
               \/ Len(seen) - i + 1 >= MaxEntries
               \/ \E j \in 1..Len(t) : t[j] = seen[i]
  <1> DEFINE w == Without(pair)
             e == [pair |-> pair, expiry |-> clock + Remembered]
             g == Append(w, e)
             t == Recorded(pair)
             n == Len(seen)
             l == Len(w)
             m == IF Len(g) > MaxEntries THEN 2 ELSE 1
  <1>1. /\ n \in Nat /\ n <= MaxEntries /\ MaxEntries \in Nat \ {0}
        /\ \A i, j \in 1..n : seen[i].pair = seen[j].pair => i = j
    BY SeenProperties, Widths
  <1>2. /\ w \in Seq(AnyEntry) /\ l \in Nat /\ l <= n
        /\ \A j \in 1..l :
              /\ w[j].pair # pair
              /\ \E i \in 1..n : w[j] = seen[i] /\ l - j <= n - i
        /\ \A j, k \in 1..l : w[j].pair = w[k].pair => j = k
        /\ \A i \in 1..n : seen[i].pair # pair => \E j \in 1..l : w[j] = seen[i]
    BY WithoutProperties
  <1>3. e \in AnyEntry /\ e.pair = pair
    <2>1. clock + Remembered \in Nat
      BY Widths DEF TypeOK
    <2> QED
      BY <2>1 DEF AnyEntry
  <1>4. t = SubSeq(g, m, Len(g))
    BY DEF Recorded, Grown
  <1> HIDE DEF w, e, t
  <1>5. /\ g \in Seq(AnyEntry) /\ Len(g) = l + 1
        /\ \A j \in 1..l : g[j] = w[j]
        /\ g[l + 1] = e
    BY <1>2, <1>3, AppendProperties
  <1>6. /\ m \in {1, 2} /\ (m = 2 => l >= MaxEntries) /\ l + 1 - m + 1 <= MaxEntries
        /\ m <= l + 1
    <2>1. (l + 1 > MaxEntries => m = 2) /\ (l + 1 <= MaxEntries => m = 1)
      BY <1>2, <1>5, <1>1
    <2> HIDE DEF m, l, n
    <2> QED
      BY <1>1, <1>2, <2>1
  <1> HIDE DEF g, m, l, n
  <1>7. /\ t \in Seq(AnyEntry) /\ Len(t) = l + 2 - m
        /\ \A j \in 1 .. l + 2 - m : t[j] = g[m + j - 1]
    <2>1. \A j \in m .. Len(g) : g[j] \in AnyEntry
      BY <1>2, <1>5, <1>6, ElementOfSeq
    <2>2. /\ t \in Seq(AnyEntry)
          /\ Len(t) = IF m <= Len(g) THEN Len(g) - m + 1 ELSE 0
          /\ \A j \in 1 .. Len(g) - m + 1 : t[j] = g[m + j - 1]
      BY <1>2, <1>4, <1>5, <1>6, <2>1, SubSeqProperties
    <2> QED
      BY <1>2, <1>5, <1>6, <2>2
  <1>8. Len(t) \in Nat /\ 1 <= Len(t) /\ Len(t) <= MaxEntries
    BY <1>1, <1>2, <1>6, <1>7
  <1>9. t[Len(t)] = e
    <2>1. Len(t) \in 1 .. l + 2 - m /\ m + Len(t) - 1 = l + 1
      BY <1>2, <1>6, <1>7
    <2> QED
      BY <1>5, <1>7, <2>1
  <1>10. \A j \in 1..Len(t) : j # Len(t) => m + j - 1 \in 1..l /\ t[j] = w[m + j - 1]
    <2> SUFFICES ASSUME NEW j \in 1..Len(t), j # Len(t)
                 PROVE  m + j - 1 \in 1..l /\ t[j] = w[m + j - 1]
      OBVIOUS
    <2>1. m + j - 1 \in 1..l /\ j \in 1 .. l + 2 - m
      BY <1>2, <1>6, <1>7
    <2> QED
      BY <1>5, <1>7, <2>1
  <1>11. ASSUME NEW j \in 1..Len(t), j # Len(t)
         PROVE  /\ t[j].pair # pair
                /\ \E i \in 1..n : t[j] = seen[i] /\ Len(t) - j <= n - i + 1
    <2>1. m + j - 1 \in 1..l /\ t[j] = w[m + j - 1]
      BY <1>10, <1>11
    <2>2. PICK i \in 1..n : w[m + j - 1] = seen[i] /\ l - (m + j - 1) <= n - i
      BY <1>2, <2>1
    <2>3. Len(t) - j <= n - i + 1
      BY <1>1, <1>2, <1>6, <1>7, <2>2
    <2>4. t[j].pair # pair
      BY <1>2, <2>1
    <2> QED
      BY <2>1, <2>2, <2>3, <2>4
  <1>12. ASSUME NEW j \in 1..Len(t), NEW k \in 1..Len(t), t[j].pair = t[k].pair
         PROVE  j = k
    <2>1. CASE j = Len(t) \/ k = Len(t)
      BY <1>3, <1>9, <1>11, <1>12, <2>1
    <2>2. CASE j # Len(t) /\ k # Len(t)
      <3>1. /\ m + j - 1 \in 1..l /\ t[j] = w[m + j - 1]
            /\ m + k - 1 \in 1..l /\ t[k] = w[m + k - 1]
        BY <1>10, <2>2
      <3> DEFINE a == m + j - 1
                 b == m + k - 1
      <3>2. a = b
        <4>1. a \in 1..l /\ b \in 1..l /\ w[a].pair = w[b].pair
          BY <1>12, <3>1
        <4> HIDE DEF a, b
        <4> QED
          BY <1>2, <4>1
      <3> QED
        BY <1>6, <1>8, <3>2
    <2> QED
      BY <2>1, <2>2
  <1>13. ASSUME NEW i \in 1..n, seen[i].pair # pair, ~(n - i + 1 >= MaxEntries)
         PROVE  \E j \in 1..Len(t) : t[j] = seen[i]
    <2>1. PICK j \in 1..l : w[j] = seen[i]
      BY <1>2, <1>13
    <2>2. PICK k \in 1..n : w[j] = seen[k] /\ l - j <= n - k
      BY <1>2
    <2>3. k = i
      BY <1>1, <2>1, <2>2
    <2>4. j >= m
      <3>1. l - j <= n - i
        BY <2>2, <2>3
      <3> QED
        BY <1>1, <1>2, <1>6, <1>13, <3>1
    <2>5. j - m + 1 \in 1..Len(t) /\ m + (j - m + 1) - 1 = j /\ j - m + 1 \in 1 .. l + 2 - m
      BY <1>2, <1>6, <1>7, <2>4
    <2>6. t[j - m + 1] = seen[i]
      BY <1>5, <1>7, <2>1, <2>5
    <2> QED
      BY <2>5, <2>6
  <1> QED
    BY <1>7, <1>8, <1>9, <1>11, <1>12, <1>13 DEF e, n, t

-----------------------------------------------------------------------------
(* The steps that leave the replay set as it is.                            *)

Quiet == UNCHANGED <<clock, seen, recent, later>>

LEMMA QuietStep ==
  ASSUME WindowAssumption, InductiveInv, Quiet,
         verdict' \in Verdicts, guess' \in SUBSET Guesses,
         peers' \in Seq(PeerBucket), Len(peers') <= MaxPeers, own' \in Seq(OwnBucket)
  PROVE  InductiveInv'
  <1> USE DEF Quiet, InductiveInv
  <1>1. BucketsAreBuckets'
    BY DEF BucketsAreBuckets, PeerBucket, OwnBucket
  <1>2. Peers!Keys(peers') \subseteq Peer
    <2>1. ASSUME NEW i \in DOMAIN peers'
          PROVE  peers'[i].key \in Peer
      <3>1. i \in 1..Len(peers')
        BY LenProperties
      <3>2. peers'[i] \in PeerBucket
        BY <3>1, ElementOfSeq
      <3> QED
        BY <3>2 DEF PeerBucket
    <2> QED
      BY <2>1 DEF Peers!Keys
  <1>3. Own!Keys(own') \subseteq Cred
    <2>1. ASSUME NEW i \in DOMAIN own'
          PROVE  own'[i].key \in Cred
      <3>1. i \in 1..Len(own')
        BY LenProperties
      <3>2. own'[i] \in OwnBucket
        BY <3>1, ElementOfSeq
      <3> QED
        BY <3>2 DEF OwnBucket
    <2> QED
      BY <2>1 DEF Own!Keys
  <1>4. TypeOK'
    BY <1>2, <1>3 DEF TypeOK
  <1>5. EntryOutlastsItsStamps'
    BY DEF EntryOutlastsItsStamps
  <1> QED
    BY <1>1, <1>4, <1>5

(* The charge of a peer, in the shape the steps need it.                    *)
LEMMA ChargedPeer ==
  ASSUME WindowAssumption, InductiveInv, NEW k \in Peer, PeerCharged(k)
  PROVE  peers' \in Seq(PeerBucket) /\ Len(peers') <= MaxPeers
  BY PeerTaken DEF InductiveInv, PeerCharged

(* What a step does for a guess: the answer anyone is told who proves       *)
(* nothing, and nothing the holder of the name could feel.                  *)
GuessStep == \A g \in guess' : seen' = seen /\ own' = own /\ verdict' = Told(g)

LEMMA PublicStep ==
  ASSUME WindowAssumption, InductiveInv, NEW peer \in Peer, Public(peer)
  PROVE  InductiveInv' /\ guess' = {}
  <1>1. peers' \in Seq(PeerBucket) /\ Len(peers') <= MaxPeers
    BY ChargedPeer DEF Public
  <1>2. verdict' \in Verdicts /\ guess' = {} /\ Quiet /\ own' = own
    BY DEF Public, Verdicts, Quiet
  <1> QED
    BY <1>1, <1>2, QuietStep DEF InductiveInv, BucketsAreBuckets, OwnBucket

(* A guess is refused for its stamp or its signature.                       *)
LEMMA RefusalOfAGuess ==
  ASSUME NEW r \in Request, ~Verifies(r)
  PROVE  Refusal(r) = {IF StaleStamp(r.ts) THEN "AUTH_STALE" ELSE "AUTH_SIGNATURE"}
  BY DEF Refusal, Stale

(* A guess's stamp is one.                                                  *)
LEMMA StampsAreStamps ==
  ASSUME WindowAssumption, NEW r \in Request
  PROVE  r.ts # Unstamped /\ [peer |-> r.peer, ts |-> r.ts] \in Guesses
  <1>1. MaxClock \div Second \in Nat
    BY Widths, Seconds
  <1>2. r.ts \in Stamps /\ r.peer \in Peer
    BY DEF Request
  <1>3. r.ts # Unstamped
    BY <1>1, <1>2 DEF Stamps, Unstamped
  <1> QED
    BY <1>2, <1>3 DEF Guesses

LEMMA PeerRefusesStep ==
  ASSUME WindowAssumption, InductiveInv, NEW r \in Request, PeerRefuses(r) \/ Refuses(r)
  PROVE  InductiveInv' /\ GuessStep
  <1>1. peers' \in Seq(PeerBucket) /\ Len(peers') <= MaxPeers
    BY ChargedPeer DEF PeerRefuses, Refuses, Asked, Request
  <1>2. verdict' \in Verdicts
    BY DEF PeerRefuses, Refuses, Refusal, Verdicts
  <1>3. /\ Quiet /\ seen' = seen /\ own' = own
        /\ guess' = IF Verifies(r) THEN {} ELSE {[peer |-> r.peer, ts |-> r.ts]}
    BY DEF PeerRefuses, Refuses, Asked, Quiet
  <1>4. ASSUME ~Verifies(r)
        PROVE  verdict' = Told([peer |-> r.peer, ts |-> r.ts])
    <2>1. CASE PeerRefuses(r)
      BY <2>1 DEF PeerRefuses, Told
    <2>2. CASE Refuses(r)
      <3>1. verdict' = IF StaleStamp(r.ts) THEN "AUTH_STALE" ELSE "AUTH_SIGNATURE"
        BY <1>4, <2>2, RefusalOfAGuess DEF Refuses
      <3>2. PeerAllows(r.peer) /\ r.ts # Unstamped
        BY <2>2, StampsAreStamps DEF Refuses
      <3> QED
        BY <3>1, <3>2 DEF Told
    <2> QED
      BY <2>1, <2>2
  <1>5. GuessStep
    BY <1>3, <1>4 DEF GuessStep
  <1>6. guess' \in SUBSET Guesses
    BY <1>3, StampsAreStamps
  <1> QED
    BY <1>1, <1>2, <1>3, <1>5, <1>6, QuietStep DEF InductiveInv, BucketsAreBuckets, OwnBucket

LEMMA BearerRefusesStep ==
  ASSUME WindowAssumption, InductiveInv, NEW peer \in Peer, NEW c \in Cred \cup {Stranger},
         NEW route \in {"granted", "denied"}, BearerRefuses(peer, c, route)
  PROVE  InductiveInv' /\ GuessStep
  <1>1. peers' \in Seq(PeerBucket) /\ Len(peers') <= MaxPeers
    BY ChargedPeer DEF BearerRefuses
  <1>2. verdict' \in Verdicts
    BY DEF BearerRefuses, Verdicts
  <1>3. /\ Quiet /\ seen' = seen /\ own' = own
        /\ guess' = IF c \in Bearer THEN {} ELSE {[peer |-> peer, ts |-> Unstamped]}
    BY DEF BearerRefuses, Quiet
  <1>4. ASSUME c \notin Bearer
        PROVE  verdict' = Told([peer |-> peer, ts |-> Unstamped])
    BY <1>4 DEF BearerRefuses, Told
  <1>5. GuessStep
    BY <1>3, <1>4 DEF GuessStep
  <1>6. guess' \in SUBSET Guesses
    BY <1>3 DEF Guesses
  <1> QED
    BY <1>1, <1>2, <1>3, <1>5, <1>6, QuietStep DEF InductiveInv, BucketsAreBuckets, OwnBucket

LEMMA BearerChargeStep ==
  ASSUME WindowAssumption, InductiveInv, NEW peer \in Peer, NEW c \in Cred \cup {Stranger},
         BearerCharge(peer, c)
  PROVE  InductiveInv' /\ guess' = {}
  <1>1. peers' \in Seq(PeerBucket) /\ Len(peers') <= MaxPeers
    BY ChargedPeer DEF BearerCharge
  <1>2. verdict' \in Verdicts /\ guess' = {} /\ Quiet
    BY DEF BearerCharge, Verdicts, Quiet
  <1>3. c \in Cred
    BY DEF BearerCharge, WindowAssumption
  <1>4. own' \in Seq(OwnBucket)
    BY <1>3, OwnTaken DEF BearerCharge, InductiveInv
  <1> QED
    BY <1>1, <1>2, <1>4, QuietStep

(* The clock moving says nothing to anyone.                                 *)
LEMMA StepStep ==
  ASSUME WindowAssumption, InductiveInv, Step
  PROVE  InductiveInv' /\ guess' = {}
  <1>1. TypeOK'
    BY DEF InductiveInv, Step, TypeOK, Peers!Keys, Own!Keys
  <1>2. BucketsAreBuckets' /\ EntryOutlastsItsStamps'
    BY DEF InductiveInv, Step, BucketsAreBuckets, EntryOutlastsItsStamps
  <1> QED
    BY <1>1, <1>2 DEF InductiveInv, Step

-----------------------------------------------------------------------------
(* A request that passes the replay check.                                  *)

LEMMA SumBounds ==
  ASSUME NEW c \in Int, NEW d \in Int, NEW n \in Int, NEW x \in Int, NEW y \in Int,
         x <= y, y = n + d, n <= c
  PROVE  c + d >= x
  OBVIOUS

LEMMA AheadOfItsStamp ==
  ASSUME NEW c \in Nat, NEW s \in Nat \ {0}, NEW ts \in Nat, NEW tol \in Nat, NEW w \in Nat,
         NEW now \in Nat, now * s <= c, w >= 2 * tol + 1, ~(ts - now > tol)
  PROVE  c + w * s >= (ts + tol + 1) * s
  <1> DEFINE a == ts + tol + 1
             b == now + w
             lhs == a * s
             rhs == b * s
             ns == now * s
             ws == w * s
  <1>1. a \in Nat /\ b \in Nat /\ a <= b
    OBVIOUS
  <1>2. rhs = ns + ws
    OBVIOUS
  <1> HIDE DEF a, b
  <1>3. lhs \in Nat /\ rhs \in Nat /\ lhs <= rhs
    BY <1>1
  <1>4. ns \in Nat /\ ws \in Nat /\ ns <= c
    OBVIOUS
  <1> HIDE DEF lhs, rhs, ns, ws
  <1>5. c + ws >= lhs
    <2>1. lhs \in Int /\ rhs \in Int /\ ns \in Int /\ ws \in Int /\ c \in Int
      BY <1>3, <1>4
    <2> QED
      BY <1>2, <1>3, <1>4, <2>1, SumBounds
  <1> QED
    BY <1>5 DEF lhs, ws, a

(* The entry a passing request leaves outlasts its stamp, and outlasts every *)
(* earlier stamp the pair passed under, since the entry they left expired.  *)
LEMMA FreshEntryLasts ==
  ASSUME WindowAssumption, InductiveInv, NEW r \in Request, Passes(r)
  PROVE  /\ PairOf(r) \in Pair
         /\ \A ts \in recent[PairOf(r)] \cup {r.ts} :
               clock + Remembered >= (ts + Tolerance + 1) * Second
  <1> DEFINE pair == PairOf(r)
             now == clock \div Second
  <1>1. ~Stale(r) /\ Verifies(r) /\ ~Replayed(pair)
    BY DEF Passes, Refusal
  <1>2. r.cred \in Cred /\ r.nonce \in Nonce /\ r.ts \in Stamps
    BY <1>1 DEF Verifies, Request
  <1>3. pair \in Pair
    BY <1>2 DEF PairOf, Pair
  <1>4. clock \in Nat /\ Second \in Nat \ {0} /\ MaxClock \in Nat
    BY Widths DEF InductiveInv, TypeOK
  <1>5. now \in Nat /\ now * Second <= clock
    BY <1>4, Seconds
  <1>6. Stamps \subseteq Nat
    <2>1. MaxClock \div Second \in Nat
      BY <1>4, Seconds
    <2> QED
      BY <2>1 DEF Stamps
  <1>7. clock + Remembered >= (r.ts + Tolerance + 1) * Second
    <2>1. ~(r.ts - now > Tolerance)
      BY <1>1 DEF Stale, StaleStamp
    <2>2. r.ts \in Nat
      BY <1>2, <1>6
    <2> HIDE DEF now
    <2>3. clock + Window * Second >= (r.ts + Tolerance + 1) * Second
      BY <1>4, <1>5, <2>1, <2>2, Widths, AheadOfItsStamp
    <2> QED
      BY <2>3 DEF Remembered
  <1>8. ASSUME NEW ts \in recent[pair]
        PROVE  clock + Remembered >= (ts + Tolerance + 1) * Second
    <2>1. PICK i \in DOMAIN seen : seen[i].pair = pair
      BY <1>3 DEF InductiveInv, EntryOutlastsItsStamps
    <2>2. seen[i].expiry >= (ts + Tolerance + 1) * Second
      BY <2>1 DEF InductiveInv, EntryOutlastsItsStamps
    <2>3. ~(seen[i].expiry > clock)
      BY <1>1, <2>1 DEF Replayed
    <2>4. seen[i].expiry \in Nat
      <3>1. i \in 1..Len(seen)
        BY <2>1, SeenProperties, LenProperties DEF InductiveInv
      <3> QED
        BY <3>1, SeenProperties DEF InductiveInv, AnyEntry
    <2>5. ts \in Nat
      BY <1>3, <1>6 DEF InductiveInv, TypeOK
    <2> DEFINE x == (ts + Tolerance + 1) * Second
    <2>6. x \in Nat
      BY <1>4, <2>5, Widths
    <2>7. seen[i].expiry >= x
      BY <2>2
    <2> HIDE DEF x
    <2>8. clock + Remembered >= x
      BY <1>4, <2>3, <2>4, <2>6, <2>7, Widths
    <2> QED
      BY <2>8 DEF x
  <1> QED
    BY <1>3, <1>7, <1>8

LEMMA PassesStamps ==
  ASSUME WindowAssumption, InductiveInv, NEW r \in Request, Passes(r)
  PROVE  EntryOutlastsItsStamps'
  <1> DEFINE pair == PairOf(r)
             n == Len(seen)
             l == Len(seen')
             e == [pair |-> pair, expiry |-> clock + Remembered]
  <1>1. /\ pair \in Pair
        /\ \A ts \in recent[pair] \cup {r.ts} : clock + Remembered >= (ts + Tolerance + 1) * Second
    BY FreshEntryLasts
  <1>2. /\ seen' \in Seq(AnyEntry) /\ l \in Nat /\ 1 <= l /\ l <= MaxEntries
        /\ seen'[l] = e
        /\ \A j \in 1..l : j # l =>
              /\ seen'[j].pair # pair
              /\ \E i \in 1..n : seen'[j] = seen[i] /\ l - j <= n - i + 1
        /\ \A i \in 1..n : \/ seen[i].pair = pair
                           \/ n - i + 1 >= MaxEntries
                           \/ \E j \in 1..l : seen'[j] = seen[i]
    <2>1. seen' = Recorded(pair) /\ pair \in Pair /\ TypeOK
      BY <1>1 DEF Passes, InductiveInv
    <2> HIDE DEF pair
    <2> QED
      BY <2>1, RecordedProperties
  <1>3. n \in Nat /\ MaxEntries \in Nat \ {0} /\ \A i \in 1..n : seen[i] \in AnyEntry
    BY SeenProperties, Widths DEF InductiveInv
  <1>4. /\ \A p \in Pair : recent[p] # {} => /\ later[p] < MaxEntries
                                              /\ \E i \in 1..n : seen[i].pair = p
        /\ \A i \in 1..n :
              /\ n - i <= later[seen[i].pair]
              /\ \A ts \in recent[seen[i].pair] : seen[i].expiry >= (ts + Tolerance + 1) * Second
    <2>1. DOMAIN seen = 1..n
      BY SeenProperties, LenProperties DEF InductiveInv
    <2> QED
      BY <2>1 DEF InductiveInv, EntryOutlastsItsStamps
  <1>5. DOMAIN seen' = 1..l
    BY <1>2, LenProperties
  <1>6. /\ later'[pair] = 0
        /\ recent'[pair] = recent[pair] \cup {r.ts}
        /\ \A p \in Pair \ {pair} :
              /\ later[p] \in 0..MaxEntries
              /\ later[p] < MaxEntries => later'[p] = later[p] + 1
              /\ ~(later[p] < MaxEntries) => later'[p] = MaxEntries
              /\ later'[p] < MaxEntries => recent'[p] = recent[p]
              /\ ~(later'[p] < MaxEntries) => recent'[p] = {}
    BY <1>1 DEF Passes, InductiveInv, TypeOK
  <1>7. e.pair = pair /\ e.expiry = clock + Remembered
    OBVIOUS
  <1> HIDE DEF pair, n, l, e
  <1>8. ASSUME NEW p \in Pair, recent'[p] # {}
        PROVE  later'[p] < MaxEntries /\ \E i \in 1..l : seen'[i].pair = p
    <2>1. CASE p = pair
      <3>1. l \in 1..l
        BY <1>2
      <3> QED
        BY <1>2, <1>3, <1>6, <1>7, <2>1, <3>1
    <2>2. CASE p # pair
      <3>1. later'[p] < MaxEntries /\ recent'[p] = recent[p]
        BY <1>6, <1>8, <2>2
      <3>2. PICK i \in 1..n : seen[i].pair = p
        BY <1>4, <1>8, <3>1
      <3>3. later[p] < MaxEntries /\ later'[p] = later[p] + 1
        BY <1>4, <1>6, <1>8, <2>2, <3>1
      <3>4. n - i <= later[p]
        BY <1>4, <3>2
      <3>5. ~(n - i + 1 >= MaxEntries)
        <4>1. later[p] \in Int /\ later'[p] \in Int
          BY <1>6, <2>2, <3>3
        <4> QED
          BY <1>3, <3>1, <3>3, <3>4, <4>1
      <3> QED
        BY <1>2, <2>2, <3>1, <3>2, <3>5
    <2> QED
      BY <2>1, <2>2
  <1>9. ASSUME NEW j \in 1..l
        PROVE  /\ l - j <= later'[seen'[j].pair]
               /\ \A ts \in recent'[seen'[j].pair] : seen'[j].expiry >= (ts + Tolerance + 1) * Second
    <2>1. CASE j = l
      <3>1. seen'[j].pair = pair /\ seen'[j].expiry = clock + Remembered
        BY <1>2, <1>7, <2>1
      <3>2. l - j = 0
        BY <1>2, <2>1
      <3>3. 0 <= later'[pair]
        BY <1>6
      <3> QED
        BY <1>1, <1>6, <3>1, <3>2, <3>3
    <2>2. CASE j # l
      <3> DEFINE p == seen'[j].pair
      <3>1. PICK i \in 1..n : seen'[j] = seen[i] /\ l - j <= n - i + 1
        BY <1>2, <2>2
      <3>2. p = seen[i].pair /\ p # pair /\ p \in Pair /\ seen'[j].expiry = seen[i].expiry
        BY <1>2, <1>3, <2>2, <3>1 DEF AnyEntry
      <3>3. n - i <= later[p] /\ l - j <= MaxEntries - 1
        BY <1>2, <1>3, <1>4, <3>2
      <3> HIDE DEF p
      <3>4. l - j <= later'[p]
        <4>1. later[p] \in Int
          BY <1>6, <3>2
        <4>2. CASE later[p] < MaxEntries
          <5>1. later'[p] = later[p] + 1
            BY <1>6, <3>2, <4>2
          <5> QED
            BY <1>2, <1>3, <3>1, <3>3, <4>1, <5>1
        <4>3. CASE ~(later[p] < MaxEntries)
          <5>1. later'[p] = MaxEntries
            BY <1>6, <3>2, <4>3
          <5> QED
            BY <1>2, <1>3, <3>3, <5>1
        <4> QED
          BY <4>2, <4>3
      <3>5. \A ts \in recent'[p] : ts \in recent[p]
        BY <1>6, <3>2
      <3> QED
        BY <1>4, <3>2, <3>4, <3>5 DEF p
    <2> QED
      BY <2>1, <2>2
  <1> QED
    BY <1>5, <1>8, <1>9 DEF EntryOutlastsItsStamps, l

LEMMA PassesTypes ==
  ASSUME WindowAssumption, InductiveInv, NEW r \in Request, Passes(r),
         verdict' \in Verdicts, own' \in Seq(OwnBucket)
  PROVE  TypeOK' /\ BucketsAreBuckets' /\ guess' = {}
  <1> DEFINE pair == PairOf(r)
             l == Len(seen')
  <1>1. Verifies(r)
    BY DEF Passes, Refusal
  <1>2. guess' = {}
    BY <1>1 DEF Passes, Asked
  <1>3. pair \in Pair
    BY FreshEntryLasts
  <1>4. peers' \in Seq(PeerBucket) /\ Len(peers') <= MaxPeers
    BY ChargedPeer DEF Passes, Asked, Request
  <1>5. BucketsAreBuckets'
    BY <1>4 DEF BucketsAreBuckets, PeerBucket, OwnBucket
  <1>6. Peers!Keys(peers') \subseteq Peer
    <2>1. ASSUME NEW i \in DOMAIN peers'
          PROVE  peers'[i].key \in Peer
      <3>1. i \in 1..Len(peers')
        BY <1>4, LenProperties
      <3>2. peers'[i] \in PeerBucket
        BY <1>4, <3>1, ElementOfSeq
      <3> QED
        BY <3>2 DEF PeerBucket
    <2> QED
      BY <2>1 DEF Peers!Keys
  <1>7. Own!Keys(own') \subseteq Cred
    <2>1. ASSUME NEW i \in DOMAIN own'
          PROVE  own'[i].key \in Cred
      <3>1. i \in 1..Len(own')
        BY LenProperties
      <3>2. own'[i] \in OwnBucket
        BY <3>1, ElementOfSeq
      <3> QED
        BY <3>2 DEF OwnBucket
    <2> QED
      BY <2>1 DEF Own!Keys
  <1>8. /\ seen' \in Seq(AnyEntry) /\ l <= MaxEntries
        /\ \A j, k \in 1..l : seen'[j].pair = seen'[k].pair => j = k
    BY <1>3, RecordedProperties DEF Passes, InductiveInv
  <1>9. DOMAIN seen' = 1..l
    BY <1>8, LenProperties
  <1>10. later' \in [Pair -> 0..MaxEntries]
    <2>1. MaxEntries \in Nat \ {0}
      BY Widths
    <2>2. \A p \in Pair : later[p] \in 0..MaxEntries
      BY DEF InductiveInv, TypeOK
    <2>3. \A p \in Pair : (IF p = pair THEN 0 ELSE IF later[p] < MaxEntries THEN later[p] + 1
                            ELSE MaxEntries) \in 0..MaxEntries
      BY <2>1, <2>2
    <2> QED
      BY <2>3 DEF Passes
  <1>11. recent' \in [Pair -> SUBSET Stamps]
    <2>1. r.ts \in Stamps
      BY DEF Request
    <2> QED
      BY <2>1 DEF Passes, InductiveInv, TypeOK
  <1>12. clock' = clock /\ clock \in 0..MaxClock
    BY DEF Passes, InductiveInv, TypeOK
  <1>13. TypeOK'
    BY <1>2, <1>4, <1>6, <1>7, <1>8, <1>9, <1>10, <1>11, <1>12 DEF TypeOK, AnyEntry
  <1> QED
    BY <1>2, <1>5, <1>13

LEMMA PassesStep ==
  ASSUME WindowAssumption, InductiveInv, NEW r \in Request, ScopeDenies(r) \/ Charge(r)
  PROVE  InductiveInv' /\ guess' = {}
  <1>1. Passes(r) /\ verdict' \in Verdicts
    BY DEF ScopeDenies, Charge, Verdicts
  <1>2. r.cred \in Cred
    BY <1>1 DEF Passes, Refusal, Verifies
  <1>3. own' \in Seq(OwnBucket)
    BY <1>2, OwnTaken DEF ScopeDenies, Charge, InductiveInv, BucketsAreBuckets, OwnBucket
  <1>4. TypeOK' /\ BucketsAreBuckets' /\ guess' = {}
    BY <1>1, <1>3, PassesTypes
  <1>5. EntryOutlastsItsStamps'
    BY <1>1, PassesStamps
  <1> QED
    BY <1>4, <1>5 DEF InductiveInv

-----------------------------------------------------------------------------

LEMMA InitInductive ==
  ASSUME WindowAssumption, Init
  PROVE  InductiveInv
  <1> USE DEF Init
  <1>1. MaxClock \in Nat /\ MaxEntries \in Nat \ {0} /\ MaxPeers \in Nat \ {0}
    BY Widths
  <1>2. peers \in Seq(PeerBucket) /\ own \in Seq(OwnBucket) /\ seen \in Seq(AnyEntry)
    BY EmptySeq
  <1>3. DOMAIN peers = {} /\ DOMAIN own = {} /\ DOMAIN seen = {} /\ Len(peers) = 0 /\ Len(seen) = 0
    OBVIOUS
  <1>4. TypeOK
    <2>1. Peers!Keys(peers) = {} /\ Own!Keys(own) = {}
      BY <1>3 DEF Peers!Keys, Own!Keys
    <2>2. later \in [Pair -> 0..MaxEntries] /\ recent \in [Pair -> SUBSET Stamps]
      BY <1>1
    <2>3. clock \in 0..MaxClock /\ Len(peers) <= MaxPeers /\ Len(seen) <= MaxEntries
      BY <1>1, <1>3
    <2>4. verdict \in Verdicts /\ guess \in SUBSET Guesses
      BY DEF Verdicts
    <2> HIDE DEF Init
    <2> QED
      BY <1>2, <1>3, <2>1, <2>2, <2>3, <2>4 DEF TypeOK, AnyEntry
  <1>5. BucketsAreBuckets
    BY <1>2 DEF BucketsAreBuckets, PeerBucket, OwnBucket
  <1>6. EntryOutlastsItsStamps
    BY <1>3 DEF EntryOutlastsItsStamps
  <1> QED
    BY <1>4, <1>5, <1>6 DEF InductiveInv

LEMMA NextInductive ==
  ASSUME WindowAssumption, InductiveInv, [Next]_vars
  PROVE  InductiveInv' /\ [GuessStep]_vars
  <1> USE DEF GuessStep
  <1>1. CASE Step
    BY <1>1, StepStep
  <1>2. CASE \E r \in Request : PeerRefuses(r) \/ Refuses(r)
    BY <1>2, PeerRefusesStep
  <1>3. CASE \E r \in Request : ScopeDenies(r) \/ Charge(r)
    BY <1>3, PassesStep
  <1>4. CASE \E peer \in Peer : Public(peer)
    BY <1>4, PublicStep
  <1>5. CASE \E peer \in Peer : \E c \in Cred \cup {Stranger} :
               \E route \in {"granted", "denied"} : BearerRefuses(peer, c, route)
    BY <1>5, BearerRefusesStep
  <1>6. CASE \E peer \in Peer : \E c \in Cred \cup {Stranger} : BearerCharge(peer, c)
    BY <1>6, BearerChargeStep
  <1>7. CASE UNCHANGED vars
    <2>1. TypeOK'
      BY <1>7 DEF InductiveInv, vars, TypeOK, Peers!Keys, Own!Keys
    <2>2. BucketsAreBuckets' /\ EntryOutlastsItsStamps'
      BY <1>7 DEF InductiveInv, vars, BucketsAreBuckets, EntryOutlastsItsStamps
    <2> QED
      BY <1>7, <2>1, <2>2 DEF InductiveInv
  <1> QED
    BY <1>1, <1>2, <1>3, <1>4, <1>5, <1>6, <1>7 DEF Next

(* The replay set, the buckets and the history of what passed stand in the  *)
(* relation SpentOnce rests on, whatever the order requests arrive in and   *)
(* wherever the clock steps between them.            *)
THEOREM AdmissionInductive ==
  ASSUME WindowAssumption
  PROVE  Spec => []InductiveInv
  <1>1. Init => InductiveInv
    BY InitInductive
  <1>2. InductiveInv /\ [Next]_vars => InductiveInv'
    BY NextInductive
  <1> QED
    BY <1>1, <1>2, PTL DEF Spec

LEMMA InductiveImpliesSpent ==
  ASSUME WindowAssumption, InductiveInv
  PROVE  SpentOnce
  <1> SUFFICES ASSUME NEW p \in Pair, NEW ts \in recent[p], ~Replayed(p)
               PROVE  StaleStamp(ts)
    BY DEF SpentOnce
  <1> DEFINE now == clock \div Second
  <1>1. PICK i \in DOMAIN seen : seen[i].pair = p
    BY DEF InductiveInv, EntryOutlastsItsStamps
  <1>2. seen[i].expiry >= (ts + Tolerance + 1) * Second
    BY <1>1 DEF InductiveInv, EntryOutlastsItsStamps
  <1>3. ~(seen[i].expiry > clock)
    BY <1>1 DEF Replayed
  <1>4. seen[i].expiry \in Nat
    <2>1. i \in 1..Len(seen)
      BY <1>1, SeenProperties, LenProperties DEF InductiveInv
    <2> QED
      BY <2>1, SeenProperties DEF InductiveInv, AnyEntry
  <1>5. clock \in Nat /\ Second \in Nat \ {0} /\ Tolerance \in Nat
    BY Widths DEF InductiveInv, TypeOK
  <1>6. ts \in Nat
    <2>1. MaxClock \div Second \in Nat
      BY <1>5, Widths, Seconds
    <2>2. Stamps \subseteq Nat
      BY <2>1 DEF Stamps
    <2> QED
      BY <2>2 DEF InductiveInv, TypeOK
  <1> DEFINE a == ts + Tolerance + 1
             x == a * Second
  <1>7. a \in Nat
    BY <1>5, <1>6
  <1>8. x \in Nat /\ seen[i].expiry >= x
    <2> HIDE DEF a
    <2>1. x \in Nat
      BY <1>5, <1>7
    <2> QED
      BY <1>2, <2>1 DEF a
  <1>9. x <= clock
    <2> HIDE DEF x
    <2> QED
      BY <1>3, <1>4, <1>5, <1>8
  <1>10. now \in Nat /\ a <= now
    <2> HIDE DEF a
    <2> QED
      BY <1>5, <1>7, <1>9, Seconds
  <1>11. now - ts > Tolerance
    <2> HIDE DEF now
    <2> QED
      BY <1>5, <1>6, <1>10
  <1> QED
    BY <1>11 DEF StaleStamp

(* A signature passes the replay check once: a stamp a pair passed under is *)
(* stale, or the pair is still remembered.                                  *)
THEOREM PassesOnce ==
  ASSUME WindowAssumption
  PROVE  Spec => []SpentOnce
  BY AdmissionInductive, InductiveImpliesSpent, PTL

(* CredentialStore.admit (gateway/src/access.ts): a request that does not    *)
(* verify leaves the replay set and the credentials' buckets alone, and its  *)
(* answer is Told, in which the name it gives does not appear.               *)
THEOREM GuessesLearnNothing ==
  ASSUME WindowAssumption
  PROVE  Spec => GuessesTouchNothing
  <1>1. InductiveInv /\ [Next]_vars =>
          [\A g \in guess' : seen' = seen /\ own' = own /\ verdict' = Told(g)]_vars
    BY NextInductive DEF GuessStep
  <1> QED
    BY <1>1, AdmissionInductive, PTL DEF Spec, GuessesTouchNothing
=============================================================================
