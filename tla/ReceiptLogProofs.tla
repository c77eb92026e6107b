-------------------------- MODULE ReceiptLogProofs --------------------------
(***************************************************************************)
(* ReceiptLog for every bound, policy and window, while no rollback and no *)
(* rescan is refused.  InductiveInv holds, and with it that what was       *)
(* acknowledged stays on file and that every file left behind reads.       *)
(* OrderInv holds on top of it, and with both that records stay in the     *)
(* order of their puts, that the index finds them, that no step drops what *)
(* the policy keeps, and that the store implements ReceiptLedger.  At the  *)
(* end, the walk beside it in MCStore (RangeWalk), for every limit, chunk  *)
(* and number of receipts, while no id is filed twice.                     *)
(***************************************************************************)
EXTENDS MCReceiptLog, MCStore, FiniteSetTheorems, SequenceTheorems, WellFoundedInduction, TLAPS

(* The least-element principle, from the well-foundedness of inclusion on  *)
(* the finite set 1..top.                                                  *)
LEMMA LeastElement ==
  ASSUME NEW S \in SUBSET Nat, S # {}
  PROVE  \E x \in S : \A y \in S : x <= y
  <1> PICK top \in S : TRUE
    OBVIOUS
  <1> DEFINE T == {1..x : x \in {z \in S : z <= top}}
             U == 1..top
  <1>1. IsFiniteSet(U)
    BY FS_Interval
  <1>2. IsWellFoundedOn(StrictSubsetOrdering(U), FiniteSubsetsOf(U))
    BY <1>1, FS_StrictSubsetOrderingWellFounded
  <1>3. T \subseteq FiniteSubsetsOf(U) /\ T # {}
    <2>1. FiniteSubsetsOf(U) = SUBSET U
      BY <1>1, FS_FiniteSubsetsOfFinite
    <2>2. \A z \in S : z <= top => 1..z \subseteq 1..top
      OBVIOUS
    <2>3. 1..top \in T
      OBVIOUS
    <2> QED BY <2>1, <2>2, <2>3
  <1>4. PICK t \in T : \A u \in T : ~(<<u, t>> \in StrictSubsetOrdering(U))
    BY <1>2, <1>3, WFMin
  <1>5. PICK x \in S : x <= top /\ t = 1..x
    BY <1>4
  <1>6. ASSUME NEW y \in S, y < x PROVE FALSE
    <2>1. 1..y \in T
      BY <1>5, <1>6
    <2>2. 1..y \subseteq 1..x /\ x \in 1..x /\ x \notin 1..y /\ 1..x \subseteq U
      BY <1>5, <1>6
    <2>3. <<1..y, 1..x>> \in StrictSubsetOrdering(U)
      BY <2>2 DEF StrictSubsetOrdering
    <2> QED BY <2>1, <2>3, <1>4, <1>5
  <1> QED BY <1>6

-----------------------------------------------------------------------------
(* What an opening reads off a file. *)

Kinds == {"receipt", "trim", "torn", "zeros"}

(* A unit of the file is of one of four kinds. *)
LEMMA UnitKinds ==
  ASSUME NEW unit \in AnyUnit
  PROVE  /\ unit.kind \in Kinds
         /\ IsReceipt(unit) => unit.id \in Nat /\ unit.iat \in Nat /\ unit.prev \in Nat
         /\ IsTrim(unit) => unit.seam \in Nat
         /\ unit = Torn => ~IsReceipt(unit) /\ ~IsTrim(unit)
  BY DEF AnyUnit, Kinds, IsReceipt, IsTrim, Torn, Zeros

(* The trim run is there for every file: the CHOOSE has a witness.         *)
LEMMA TrimRunIsThere ==
  ASSUME NEW file \in Seq(AnyUnit)
  PROVE  /\ TrimRun(file) \in 0..Len(file)
         /\ \A i \in 1..TrimRun(file) : IsTrim(file[i])
         /\ TrimRun(file) < Len(file) => ~IsTrim(file[TrimRun(file) + 1])
  <1> DEFINE S == {n \in 0..Len(file) : n < Len(file) => ~IsTrim(file[n + 1])}
  <1>1. S \in SUBSET Nat /\ Len(file) \in S
    OBVIOUS
  <1>2. PICK m \in S : \A y \in S : m <= y
    BY <1>1, LeastElement
  <1>3. \A i \in 1..m : IsTrim(file[i])
    <2> SUFFICES ASSUME NEW i \in 1..m PROVE IsTrim(file[i])
      OBVIOUS
    <2>1. m \in 0..Len(file) /\ Len(file) \in Nat
      OBVIOUS
    <2>2. i - 1 \in 0..Len(file) /\ i - 1 < m /\ (i - 1) + 1 = i
      BY <2>1
    <2>3. ASSUME i - 1 \in S PROVE FALSE
      <3>1. m <= i - 1
        BY <1>2, <2>3
      <3> QED BY <2>1, <2>2, <3>1
    <2> QED BY <2>2, <2>3
  <1> QED BY <1>2, <1>3 DEF TrimRun

(* Behind the trim run of a chained file there are only receipts.          *)
LEMMA ReceiptsBehindTheRun ==
  ASSUME NEW file \in Seq(AnyUnit), Chained(file)
  PROVE  \A i \in TrimRun(file) + 1 .. Len(file) : IsReceipt(file[i])
  <1> DEFINE r == TrimRun(file)
             S == {i \in r + 1 .. Len(file) : ~IsReceipt(file[i])}
  <1>1. /\ r \in 0..Len(file)
        /\ r < Len(file) => ~IsTrim(file[r + 1])
    BY TrimRunIsThere
  <1>2. SUFFICES ASSUME S # {} PROVE FALSE
    OBVIOUS
  <1> HIDE DEF r
  <1>3. S \in SUBSET Nat
    BY <1>1
  <1>4. PICK m \in S : \A y \in S : m <= y
    BY <1>2, <1>3, LeastElement
  <1>5. IsTrim(file[m]) /\ (m = 1 \/ IsTrim(file[m - 1]))
    BY <1>1, <1>4 DEF Chained
  <1>6. m # r + 1
    BY <1>1, <1>4, <1>5
  <1>7. m - 1 \notin S /\ m - 1 \in r + 1 .. Len(file)
    BY <1>1, <1>3, <1>4, <1>6
  <1> QED BY <1>1, <1>4, <1>5, <1>6, <1>7 DEF IsReceipt, IsTrim

(* The receipts of a file are in its chain.                                *)
LEMMA ChainHoldsTheReceipts ==
  ASSUME NEW file \in Seq(AnyUnit)
  PROVE  /\ ChainOf(file) \in Seq(Nat)
         /\ ReceiptsIn(file) \subseteq SetOf(ChainOf(file))
  <1> DEFINE r == TrimRun(file)
  <1>1. /\ r \in 0..Len(file)
        /\ \A i \in 1..r : IsTrim(file[i])
    BY TrimRunIsThere
  <1>2. ChainOf(file) = [k \in 1 .. Len(file) - r |-> UnitId(file[r + k])]
    BY DEF ChainOf
  <1> HIDE DEF r
  <1>3. \A k \in 1 .. Len(file) - r : UnitId(file[r + k]) \in Nat
    <2> TAKE k \in 1 .. Len(file) - r
    <2>1. file[r + k] \in AnyUnit
      BY <1>1
    <2> QED BY <2>1, UnitKinds DEF UnitId, Origin
  <1>4. ChainOf(file) \in Seq(Nat) /\ DOMAIN ChainOf(file) = 1 .. Len(file) - r
    BY <1>1, <1>2, <1>3
  <1>5. ASSUME NEW j \in DOMAIN file, IsReceipt(file[j])
        PROVE  file[j].id \in SetOf(ChainOf(file))
    <2>1. j \in r + 1 .. Len(file)
      BY <1>1, <1>5 DEF IsReceipt, IsTrim
    <2>2. j - r \in 1 .. Len(file) - r /\ r + (j - r) = j
      BY <1>1, <2>1
    <2>3. ChainOf(file)[j - r] = file[j].id
      BY <1>2, <1>5, <2>2 DEF UnitId
    <2> QED BY <1>4, <2>2, <2>3 DEF SetOf
  <1> QED BY <1>4, <1>5 DEF ReceiptsIn

(* What retire retires is a number of the records it was given, and each of *)
(* them is past one of the two bounds.                                      *)
LEMMA RetiresAtMostAll ==
  ASSUME NEW seq, seq \in Seq([id : Nat, iat : Nat, at : Nat]), NEW now
  PROVE  /\ retire(seq, now) \in [byAge : Int, byCount : Int]
         /\ retire(seq, now).byAge \in Nat /\ retire(seq, now).byCount \in Nat
         /\ Total(retire(seq, now)) \in 0..Len(seq)
         /\ \A i \in 1..Total(retire(seq, now)) :
               seq[i].iat < now - MaxAge \/ i <= Len(seq) - MaxCount
  <1> DEFINE surplus == IF Len(seq) > MaxCount THEN Len(seq) - MaxCount ELSE 0
             Doomed(i) == seq[i].iat < now - MaxAge \/ i <= surplus
             S == {n \in 0..Len(seq) : n < Len(seq) => ~Doomed(n + 1)}
             stop == CHOOSE n \in 0..Len(seq) :
                        /\ \A i \in 1..n : Doomed(i)
                        /\ n < Len(seq) => ~Doomed(n + 1)
             aged == Cardinality({i \in 1..stop : seq[i].iat < now - MaxAge})
  <1>1. S \in SUBSET Nat /\ Len(seq) \in S
    OBVIOUS
  <1>2. PICK m \in S : \A y \in S : m <= y
    BY <1>1, LeastElement
  <1>3. ASSUME NEW i \in 1..m PROVE Doomed(i)
    <2>1. m \in 0..Len(seq) /\ Len(seq) \in Nat
      OBVIOUS
    <2>2. i - 1 \in 0..Len(seq) /\ i - 1 < m /\ (i - 1) + 1 = i
      BY <2>1
    <2>3. ASSUME i - 1 \in S PROVE FALSE
      <3>1. m <= i - 1
        BY <1>2, <2>3
      <3> QED BY <2>1, <2>2, <3>1
    <2> HIDE DEF Doomed
    <2> QED BY <2>2, <2>3
  <1>4. stop \in 0..Len(seq) /\ \A i \in 1..stop : Doomed(i)
    <2> HIDE DEF Doomed
    <2> QED BY <1>2, <1>3
  <1>5. retire(seq, now) = Dropped(aged, stop - aged)
    BY DEF retire
  <1> HIDE DEF stop
  <1>6. aged \in Nat /\ aged <= stop
    <2> DEFINE old == {i \in 1..stop : seq[i].iat < now - MaxAge}
    <2>1. IsFiniteSet(1..stop) /\ Cardinality(1..stop) = stop
      BY <1>4, FS_Interval
    <2>2. old \in SUBSET (1..stop)
      OBVIOUS
    <2> HIDE DEF old
    <2>3. IsFiniteSet(old) /\ Cardinality(old) <= Cardinality(1..stop)
      BY <2>1, <2>2, FS_Subset
    <2>4. Cardinality(old) \in Nat
      BY <2>3, FS_CardinalityType
    <2> QED BY <2>1, <2>3, <2>4 DEF old
  <1> HIDE DEF aged
  <1>7. \A i \in 1..stop : seq[i].iat < now - MaxAge \/ i <= Len(seq) - MaxCount
    BY <1>4, BoundsAssumption
  <1> HIDE DEF Doomed, surplus
  <1>8. Total(retire(seq, now)) = stop
    BY <1>4, <1>5, <1>6 DEF Dropped, Total
  <1> QED BY <1>4, <1>5, <1>6, <1>7, <1>8 DEF Dropped

-----------------------------------------------------------------------------
(* Chained files, cut and extended. *)

(* The first n units of a file, and what is behind them.                   *)
LEMMA FirstUnits ==
  ASSUME NEW S, NEW s \in Seq(S), NEW n \in 0..Len(s)
  PROVE  /\ SubSeq(s, 1, n) \in Seq(S)
         /\ Len(SubSeq(s, 1, n)) = n
         /\ \A i \in 1..n : SubSeq(s, 1, n)[i] = s[i]
  OBVIOUS

(* The places of two sequences joined.                                      *)
LEMMA BothPlaces ==
  ASSUME NEW S, NEW a \in Seq(S), NEW b \in Seq(S)
  PROVE  /\ a \o b \in Seq(S)
         /\ Len(a \o b) = Len(a) + Len(b)
         /\ \A i \in 1..Len(a) : (a \o b)[i] = a[i]
         /\ \A i \in 1..Len(b) : (a \o b)[Len(a) + i] = b[i]
  OBVIOUS

(* And what they hold.                                                      *)
LEMMA SetOfBoth ==
  ASSUME NEW S, NEW a \in Seq(S), NEW b \in Seq(S)
  PROVE  a \o b \in Seq(S) /\ SetOf(a \o b) = SetOf(a) \cup SetOf(b)
  <1> DEFINE both == a \o b
  <1>1. /\ both \in Seq(S)
        /\ Len(both) = Len(a) + Len(b)
        /\ \A i \in 1..Len(a) : both[i] = a[i]
        /\ \A i \in 1..Len(b) : both[Len(a) + i] = b[i]
    BY BothPlaces
  <1> HIDE DEF both
  <1>2. ASSUME NEW i \in DOMAIN a PROVE a[i] \in SetOf(both)
    <2>1. i \in DOMAIN both /\ both[i] = a[i]
      BY <1>1
    <2> QED BY <2>1 DEF SetOf
  <1>3. ASSUME NEW i \in DOMAIN b PROVE b[i] \in SetOf(both)
    <2>1. Len(a) + i \in DOMAIN both /\ both[Len(a) + i] = b[i]
      <3>1. i \in 1..Len(b) /\ Len(a) \in Nat /\ Len(b) \in Nat
        OBVIOUS
      <3>2. both[Len(a) + i] = b[i]
        BY <1>1, <3>1, Zenon
      <3>3. Len(a) + i \in 1..Len(both) /\ DOMAIN both = 1..Len(both)
        BY <1>1, <3>1
      <3> QED BY <3>2, <3>3, Zenon
    <2> QED BY <2>1 DEF SetOf
  <1>4. ASSUME NEW i \in DOMAIN both PROVE both[i] \in SetOf(a) \cup SetOf(b)
    <2>1. CASE i \in 1..Len(a)
      BY <1>1, <2>1 DEF SetOf
    <2>2. CASE i \notin 1..Len(a)
      <3>1. i - Len(a) \in 1..Len(b) /\ Len(a) + (i - Len(a)) = i
        BY <1>1, <2>2
      <3>2. both[i] = b[i - Len(a)] /\ i - Len(a) \in DOMAIN b
        BY <1>1, <3>1
      <3> QED BY <3>2 DEF SetOf
    <2> QED BY <2>1, <2>2
  <1>5. SetOf(a) \subseteq SetOf(both) /\ SetOf(b) \subseteq SetOf(both)
    BY <1>2, <1>3 DEF SetOf
  <1>6. SetOf(both) \subseteq SetOf(a) \cup SetOf(b)
    BY <1>4 DEF SetOf
  <1> QED BY <1>1, <1>5, <1>6 DEF both

(* A function on 1..n is a sequence.                                        *)
LEMMA TupleIsASeq ==
  ASSUME NEW S, NEW n \in Nat, NEW f \in [1..n -> S]
  PROVE  f \in Seq(S) /\ DOMAIN f = 1..n /\ Len(f) = n
  OBVIOUS

(* What is behind the first n units of a file.                              *)
LEMMA LastUnits ==
  ASSUME NEW S, NEW s \in Seq(S), NEW n \in 0..Len(s)
  PROVE  /\ SubSeq(s, n + 1, Len(s)) \in Seq(S)
         /\ Len(SubSeq(s, n + 1, Len(s))) = Len(s) - n
         /\ \A i \in 1 .. Len(s) - n : SubSeq(s, n + 1, Len(s))[i] = s[n + i]
  OBVIOUS

(* A chained file has nothing to cut off.                                   *)
LEMMA ChainedHasNoLeftover ==
  ASSUME NEW file \in Seq(AnyUnit), Chained(file)
  PROVE  /\ \A i \in DOMAIN file : file[i] # Torn
         /\ Whole(file) = file
         /\ Readings(file) = {file}
  <1>1. \A i \in DOMAIN file : file[i] # Torn
    BY UnitKinds DEF Chained
  <1>2. Whole(file) = file
    BY <1>1 DEF Whole
  <1>3. {i \in DOMAIN file : file[i] = Torn} = {}
    BY <1>1
  <1> QED BY <1>1, <1>2, <1>3 DEF Readings

(* What an opening walks is a prefix of the file, at most one unit shorter. *)
LEMMA WholeIsAPrefix ==
  ASSUME NEW file \in Seq(AnyUnit)
  PROVE  /\ Whole(file) \in Seq(AnyUnit)
         /\ Len(Whole(file)) <= Len(file) /\ Len(file) <= Len(Whole(file)) + 1
         /\ \A i \in 1..Len(Whole(file)) : Whole(file)[i] = file[i]
         /\ Len(Whole(file)) < Len(file) => file[Len(file)] = Torn
         /\ ReceiptsIn(Whole(file)) = ReceiptsIn(file)
  <1>1. CASE file # <<>> /\ file[Len(file)] = Torn
    <2>1. Whole(file) = SubSeq(file, 1, Len(file) - 1)
      BY <1>1 DEF Whole
    <2>2. Len(file) \in Nat \ {0}
      BY <1>1
    <2>3. /\ Whole(file) \in Seq(AnyUnit)
          /\ Len(Whole(file)) = Len(file) - 1
          /\ \A i \in 1 .. Len(file) - 1 : Whole(file)[i] = file[i]
      <3> DEFINE n == Len(file) - 1
      <3>1. n \in 0..Len(file)
        BY <2>2
      <3> HIDE DEF n
      <3>2. /\ SubSeq(file, 1, n) \in Seq(AnyUnit)
            /\ Len(SubSeq(file, 1, n)) = n
            /\ \A i \in 1..n : SubSeq(file, 1, n)[i] = file[i]
        BY <3>1, FirstUnits, Zenon
      <3>3. Whole(file) = SubSeq(file, 1, n)
        BY <2>1 DEF n
      <3>4. /\ Whole(file) \in Seq(AnyUnit)
            /\ Len(Whole(file)) = n
            /\ \A i \in 1..n : Whole(file)[i] = file[i]
        BY <3>2, <3>3, Zenon
      <3> QED BY <3>4, Zenon DEF n
    <2>4. \A j \in DOMAIN file : IsReceipt(file[j]) => j \in 1 .. Len(file) - 1
      BY <1>1, UnitKinds
    <2>5. ReceiptsIn(Whole(file)) = ReceiptsIn(file)
      BY <2>2, <2>3, <2>4 DEF ReceiptsIn
    <2> QED BY <1>1, <2>2, <2>3, <2>5
  <1>2. CASE ~(file # <<>> /\ file[Len(file)] = Torn)
    BY <1>2 DEF Whole
  <1> QED BY <1>1, <1>2

(* A file that agrees with a chained one up to its own length is chained.  *)
LEMMA ChainedPrefix ==
  ASSUME NEW file \in Seq(AnyUnit), Chained(file),
         NEW part \in Seq(AnyUnit), Len(part) <= Len(file),
         \A i \in 1..Len(part) : part[i] = file[i]
  PROVE  Chained(part)
  <1> SUFFICES ASSUME NEW i \in DOMAIN part
               PROVE  \/ IsTrim(part[i]) /\ (i = 1 \/ IsTrim(part[i - 1]))
                      \/ IsReceipt(part[i]) /\ part[i].prev = ExpectedPrev(part, i)
    BY DEF Chained
  <1>1. i \in DOMAIN file /\ part[i] = file[i] /\ i \in Nat
    OBVIOUS
  <1>2. i # 1 => i - 1 \in 1..Len(part) /\ part[i - 1] = file[i - 1]
    BY <1>1
  <1>3. ExpectedPrev(part, i) = ExpectedPrev(file, i)
    BY <1>2 DEF ExpectedPrev
  <1> QED BY <1>1, <1>2, <1>3 DEF Chained

(* A chained file followed by receipts that name each other is chained.    *)
LEMMA ChainedAppend ==
  ASSUME NEW file \in Seq(AnyUnit), Chained(file),
         NEW more \in Seq(AnyUnit),
         \A i \in 1..Len(more) :
            /\ IsReceipt(more[i])
            /\ more[i].prev = IF i = 1 THEN HeadOf(file) ELSE more[i - 1].id
  PROVE  Chained(file \o more)
  <1> DEFINE both == file \o more
  <1>1. /\ both \in Seq(AnyUnit)
        /\ Len(both) = Len(file) + Len(more)
        /\ \A i \in 1..Len(file) : both[i] = file[i]
        /\ \A i \in 1..Len(more) : both[Len(file) + i] = more[i]
    OBVIOUS
  <1> SUFFICES Chained(both)
    OBVIOUS
  <1> HIDE DEF both
  <1> SUFFICES ASSUME NEW i \in 1..Len(both)
               PROVE  \/ IsTrim(both[i]) /\ (i = 1 \/ IsTrim(both[i - 1]))
                      \/ IsReceipt(both[i]) /\ both[i].prev = ExpectedPrev(both, i)
    BY <1>1 DEF Chained
  <1>2. CASE i <= Len(file)
    <2>1. both[i] = file[i] /\ (i # 1 => both[i - 1] = file[i - 1])
      BY <1>1, <1>2
    <2>2. ExpectedPrev(both, i) = ExpectedPrev(file, i)
      BY <2>1 DEF ExpectedPrev
    <2> QED BY <1>2, <2>1, <2>2 DEF Chained
  <1>3. CASE i > Len(file)
    <2> DEFINE k == i - Len(file)
    <2>1. k \in 1..Len(more) /\ i = Len(file) + k /\ both[i] = more[k]
      BY <1>1, <1>3
    <2>2. CASE k = 1
      <3>1. i - 1 = Len(file) /\ (i # 1 => both[i - 1] = file[i - 1])
        <4>0. Len(file) \in Nat /\ i \in Int
          BY <1>1
        <4>1. i - 1 = Len(file) /\ Len(file) \in Nat
          BY <2>2, <4>0
        <4>2. i # 1 => i - 1 \in 1..Len(file)
          BY <4>1
        <4> QED BY <1>1, <4>1, <4>2
      <3>2. ExpectedPrev(both, i) = HeadOf(file)
        BY <2>1, <2>2, <3>1 DEF ExpectedPrev, HeadOf
      <3> QED BY <2>1, <2>2, <3>2
    <2>3. CASE k # 1
      <3>1. k - 1 \in 1..Len(more) /\ both[i - 1] = more[k - 1] /\ i # 1
        <4>1. k - 1 \in 1..Len(more) /\ i - 1 = Len(file) + (k - 1)
          BY <2>1, <2>3
        <4> QED BY <1>1, <4>1
      <3>2. ExpectedPrev(both, i) = more[k - 1].id
        BY <3>1 DEF ExpectedPrev, UnitId, IsReceipt, IsTrim
      <3> QED BY <2>1, <2>3, <3>2
    <2> QED BY <2>2, <2>3
  <1> QED BY <1>2, <1>3


(* The receipts of two files joined.                                        *)
LEMMA ReceiptsInBoth ==
  ASSUME NEW a \in Seq(AnyUnit), NEW b \in Seq(AnyUnit)
  PROVE  /\ a \o b \in Seq(AnyUnit)
         /\ ReceiptsIn(a \o b) = ReceiptsIn(a) \cup ReceiptsIn(b)
  <1>1. /\ a \o b \in Seq(AnyUnit)
        /\ Len(a \o b) = Len(a) + Len(b)
        /\ \A i \in 1..Len(a) : (a \o b)[i] = a[i]
        /\ \A i \in 1..Len(b) : (a \o b)[Len(a) + i] = b[i]
    OBVIOUS
  <1>2. ASSUME NEW j \in DOMAIN (a \o b), IsReceipt((a \o b)[j])
        PROVE  (a \o b)[j].id \in ReceiptsIn(a) \cup ReceiptsIn(b)
    <2> DEFINE unit == (a \o b)[j]
    <2>1. IsReceipt(unit)
      BY <1>2
    <2>2. CASE j \in 1..Len(a)
      <3>1. unit = a[j] /\ j \in DOMAIN a
        BY <1>1, <2>2
      <3> HIDE DEF unit
      <3> QED BY <2>1, <3>1 DEF ReceiptsIn
    <2>3. CASE j \notin 1..Len(a)
      <3>1. j - Len(a) \in 1..Len(b) /\ Len(a) + (j - Len(a)) = j
        BY <1>1, <2>3
      <3>2. unit = b[j - Len(a)] /\ j - Len(a) \in DOMAIN b
        BY <1>1, <3>1
      <3> HIDE DEF unit
      <3> QED BY <2>1, <3>2 DEF ReceiptsIn
    <2> QED BY <2>2, <2>3
  <1>3. ReceiptsIn(a) \subseteq ReceiptsIn(a \o b)
    BY <1>1 DEF ReceiptsIn
  <1>4. ReceiptsIn(b) \subseteq ReceiptsIn(a \o b)
    <2> SUFFICES ASSUME NEW j \in DOMAIN b, IsReceipt(b[j])
                 PROVE  b[j].id \in ReceiptsIn(a \o b)
      BY DEF ReceiptsIn
    <2>1. Len(a) + j \in DOMAIN (a \o b) /\ (a \o b)[Len(a) + j] = b[j]
      BY <1>1
    <2> QED BY <2>1 DEF ReceiptsIn
  <1>5. ReceiptsIn(a \o b) \subseteq ReceiptsIn(a) \cup ReceiptsIn(b)
    BY <1>2 DEF ReceiptsIn
  <1> QED BY <1>1, <1>3, <1>4, <1>5

(* What a scan of a chained file puts into the index spans the file.       *)
LEMMA IndexOfSpans ==
  ASSUME NEW file \in Seq(AnyUnit), Chained(file)
  PROVE  /\ IndexOf(file) \in Seq([id : Nat, iat : Nat, at : Nat])
         /\ \A i \in DOMAIN IndexOf(file) : IndexOf(file)[i].at \in TrimRun(file) + 1 .. Len(file)
         /\ HeadOf(file) \in Nat
         /\ TrimRun(file) \in 0..Len(file)
         /\ \A i \in 1..TrimRun(file) : IsTrim(file[i])
         /\ \A i \in TrimRun(file) + 1 .. Len(file) : IsReceipt(file[i])
  <1> DEFINE r == TrimRun(file)
  <1>1. /\ r \in 0..Len(file)
        /\ \A i \in 1..r : IsTrim(file[i])
        /\ \A i \in r + 1 .. Len(file) : IsReceipt(file[i])
    BY TrimRunIsThere, ReceiptsBehindTheRun
  <1>2. IndexOf(file) = [k \in 1 .. Len(file) - r |->
                            [id |-> file[r + k].id, iat |-> file[r + k].iat, at |-> r + k]]
    BY DEF IndexOf
  <1> HIDE DEF r
  <1>3. ASSUME NEW k \in 1 .. Len(file) - r
        PROVE  /\ [id |-> file[r + k].id, iat |-> file[r + k].iat, at |-> r + k]
                     \in [id : Nat, iat : Nat, at : Nat]
               /\ r + k \in r + 1 .. Len(file)
    <2>1. r + k \in r + 1 .. Len(file) /\ r + k \in Nat /\ file[r + k] \in AnyUnit
      BY <1>1
    <2> QED BY <1>1, <2>1, UnitKinds
  <1>4. /\ IndexOf(file) \in Seq([id : Nat, iat : Nat, at : Nat])
        /\ DOMAIN IndexOf(file) = 1 .. Len(file) - r
    <2>1. Len(file) - r \in Nat
      BY <1>1
    <2>2. IndexOf(file) \in [1 .. Len(file) - r -> [id : Nat, iat : Nat, at : Nat]]
      BY <1>2, <1>3
    <2> QED BY <2>1, <2>2, TupleIsASeq
  <1>5. \A i \in DOMAIN IndexOf(file) : IndexOf(file)[i].at \in r + 1 .. Len(file)
    BY <1>2, <1>3, <1>4
  <1>6. HeadOf(file) \in Nat
    <2>1. CASE Len(file) = 0
      BY <2>1 DEF HeadOf, ExpectedPrev, Origin
    <2>2. CASE Len(file) # 0
      <3>1. file[Len(file)] \in AnyUnit /\ Len(file) + 1 # 1 /\ (Len(file) + 1) - 1 = Len(file)
        BY <2>2
      <3> QED BY <3>1, UnitKinds DEF HeadOf, ExpectedPrev, UnitId, Origin
    <2> QED BY <2>1, <2>2
  <1> QED BY <1>1, <1>4, <1>5, <1>6 DEF r

(* The records of a window, all of them or the first of them.              *)
LEMMA FramesShape ==
  ASSUME batch \in Seq(Appends), head \in Nat
  PROVE  /\ Frames \in Seq(AnyUnit)
         /\ Len(Frames) = Len(batch)
         /\ \A i \in 1..Len(Frames) :
              /\ IsReceipt(Frames[i])
              /\ Frames[i].id = batch[i].id
              /\ Frames[i].prev = IF i = 1 THEN head ELSE Frames[i - 1].id
         /\ ReceiptsIn(Frames) = IdsOf(batch)
  <1>1. DOMAIN batch = 1..Len(batch) /\ DOMAIN Frames = 1..Len(batch)
    BY DEF Frames
  <1>2. ASSUME NEW i \in 1..Len(batch)
        PROVE  /\ Frames[i] = Receipt(batch[i].id, batch[i].iat,
                                      IF i = 1 THEN head ELSE batch[i - 1].id)
               /\ batch[i] \in Appends
               /\ i # 1 => i - 1 \in 1..Len(batch) /\ batch[i - 1] \in Appends
    BY <1>1 DEF Frames
  <1>3. \A i \in 1..Len(batch) : Frames[i] \in AnyUnit /\ IsReceipt(Frames[i])
    <2> TAKE i \in 1..Len(batch)
    <2>1. Appends \subseteq [id : Nat, iat : Nat]
      BY BoundsAssumption DEF Appends
    <2>2. (IF i = 1 THEN head ELSE batch[i - 1].id) \in Nat
      BY <1>2, <2>1
    <2> DEFINE prev == IF i = 1 THEN head ELSE batch[i - 1].id
    <2>3. batch[i].id \in Nat /\ batch[i].iat \in Nat /\ prev \in Nat
      BY <1>2, <2>1, <2>2
    <2>4. Frames[i] = [kind |-> "receipt", id |-> batch[i].id, iat |-> batch[i].iat, prev |-> prev]
      BY <1>2 DEF Receipt
    <2> HIDE DEF prev
    <2> QED BY <2>3, <2>4 DEF AnyUnit, IsReceipt
  <1>4. Frames \in Seq(AnyUnit) /\ Len(Frames) = Len(batch)
    <2>1. Frames = [i \in 1..Len(batch) |-> Frames[i]]
      BY <1>1 DEF Frames
    <2> QED BY <1>3, <2>1
  <1>5. ASSUME NEW i \in 1..Len(batch)
        PROVE  /\ Frames[i].id = batch[i].id
               /\ Frames[i].prev = IF i = 1 THEN head ELSE Frames[i - 1].id
    BY <1>2 DEF Receipt, Frames
  <1>6. ReceiptsIn(Frames) = IdsOf(batch)
    BY <1>1, <1>3, <1>5 DEF ReceiptsIn, IdsOf
  <1> QED BY <1>3, <1>4, <1>5, <1>6


(* A run of trim records is chained, and the last of them seams onto what  *)
(* follows.                                                                *)
LEMMA RunIsChained ==
  ASSUME NEW run \in Seq(AnyUnit), \A i \in 1..Len(run) : IsTrim(run[i]),
         NEW seam \in Nat, NEW byAge \in Int, NEW byCount \in Int
  PROVE  LET longer == run \o <<Trim(seam, byAge, byCount)>> IN
         /\ longer \in Seq(AnyUnit)
         /\ Chained(longer)
         /\ HeadOf(longer) = seam
         /\ Len(longer) = Len(run) + 1
         /\ \A i \in 1..Len(longer) : IsTrim(longer[i])
  <1> DEFINE trim == Trim(seam, byAge, byCount)
             longer == run \o <<trim>>
  <1>1. trim \in AnyUnit /\ IsTrim(trim) /\ trim.seam = seam
    BY DEF Trim, AnyUnit, IsTrim
  <1> HIDE DEF trim
  <1>2. /\ longer \in Seq(AnyUnit)
        /\ Len(longer) = Len(run) + 1
        /\ \A i \in 1..Len(run) : longer[i] = run[i]
        /\ longer[Len(run) + 1] = trim
    BY <1>1
  <1> HIDE DEF longer
  <1>3. \A i \in 1..Len(longer) : IsTrim(longer[i])
    <2> TAKE i \in 1..Len(longer)
    <2>1. i \in 1..Len(run) \/ i = Len(run) + 1
      BY <1>2
    <2> QED BY <1>1, <1>2, <2>1
  <1>4. Chained(longer)
    <2> SUFFICES ASSUME NEW i \in DOMAIN longer
                 PROVE  IsTrim(longer[i]) /\ (i = 1 \/ IsTrim(longer[i - 1]))
      BY DEF Chained
    <2>1. i \in 1..Len(longer) /\ (i # 1 => i - 1 \in 1..Len(longer))
      BY <1>2
    <2> QED BY <1>3, <2>1
  <1>5. HeadOf(longer) = seam
    <2>1. Len(longer) + 1 # 1 /\ (Len(longer) + 1) - 1 = Len(run) + 1
      BY <1>2
    <2> QED BY <1>1, <1>2, <2>1 DEF HeadOf, ExpectedPrev
  <1> QED BY <1>2, <1>3, <1>4, <1>5 DEF longer, trim

(* What a compaction writes reads as one chain, and every record of the    *)
(* file is in it or among the ones it takes away.                          *)
LEMMA CompactedKeepsTheRest ==
  ASSUME log \in Seq(AnyUnit), Chained(log), size = Len(log),
         runEnd \in 0..size,
         \A i \in 1..runEnd : IsTrim(log[i]),
         \A i \in runEnd + 1 .. size : IsReceipt(log[i]),
         index \in Seq([id : Nat, iat : Nat, at : Nat]),
         \A i \in DOMAIN index : index[i].at \in runEnd + 1 .. size,
         head \in Nat, dropped \in [byAge : Int, byCount : Int]
  PROVE  /\ Compacted \in Seq(AnyUnit)
         /\ Chained(Compacted)
         /\ Compacted # <<>>
         /\ ChainOf(SubSeq(log, 1, Dead(index))) \in Seq(Nat)
         /\ ReceiptsIn(log) \subseteq SetOf(ChainOf(SubSeq(log, 1, Dead(index)))) \cup ReceiptsIn(Compacted)
         /\ Dead(index) \in runEnd..size
         /\ LET tail == SubSeq(log, Dead(index) + 1, size) IN
            /\ tail \in Seq(AnyUnit) /\ \A i \in 1..Len(tail) : IsReceipt(tail[i])
            /\ \E run \in Seq(AnyUnit) : /\ Chained(run) /\ (\A i \in 1..Len(run) : IsTrim(run[i]))
                                         /\ Compacted = run \o tail
  <1> DEFINE d == Dead(index)
             run == SubSeq(log, 1, runEnd)
             tail == SubSeq(log, d + 1, size)
             seam == IF tail = <<>> THEN head ELSE IF IsReceipt(tail[1]) THEN tail[1].prev ELSE Origin
             longer == run \o <<Trim(seam, dropped.byAge, dropped.byCount)>>
  <1>1. d \in runEnd..size /\ d \in 0..Len(log)
    <2>1. CASE index = <<>>
      BY <2>1 DEF Dead
    <2>2. CASE index # <<>>
      <3>1. 1 \in DOMAIN index
        BY <2>2
      <3>2. index[1].at \in runEnd + 1 .. size
        BY <3>1
      <3> QED BY <2>2, <3>2 DEF Dead
    <2> QED BY <2>1, <2>2
  <1>2. Compacted = longer \o tail
    BY DEF Compacted
  <1> HIDE DEF d
  <1>3. /\ run \in Seq(AnyUnit)
        /\ Len(run) = runEnd
        /\ \A i \in 1..runEnd : run[i] = log[i]
    BY FirstUnits
  <1>4. /\ tail \in Seq(AnyUnit)
        /\ Len(tail) = size - d
        /\ \A i \in 1 .. size - d : tail[i] = log[d + i]
    BY <1>1, LastUnits
  <1> HIDE DEF run, tail
  <1>5. ASSUME NEW i \in 1..Len(tail)
        PROVE  /\ IsReceipt(tail[i]) /\ tail[i].prev \in Nat
               /\ i # 1 => tail[i].prev = tail[i - 1].id
    <2>1. d + i \in runEnd + 1 .. size /\ d + i \in DOMAIN log /\ tail[i] = log[d + i] /\ d + i \in Nat
      <3>1. i \in 1 .. size - d /\ d \in Nat /\ size \in Nat
        BY <1>1, <1>4
      <3>2. d + i \in runEnd + 1 .. size /\ d + i \in 1..Len(log)
        BY <1>1, <3>1
      <3> QED BY <1>4, <3>1, <3>2
    <2>2. IsReceipt(log[d + i]) /\ log[d + i] \in AnyUnit
      BY <2>1
    <2>3. log[d + i].prev = ExpectedPrev(log, d + i)
      BY <2>1, <2>2 DEF Chained, IsTrim, IsReceipt
    <2>4. ASSUME i # 1 PROVE tail[i].prev = tail[i - 1].id
      <3>1. /\ i - 1 \in 1 .. size - d
            /\ d + (i - 1) = (d + i) - 1
            /\ (d + i) - 1 \in runEnd + 1 .. size
            /\ d + i # 1
        <4>1. i \in 2 .. size - d /\ d \in Nat /\ size \in Nat /\ runEnd \in Nat /\ runEnd <= d
          BY <1>1, <1>4, <2>4
        <4> QED BY <4>1, SMTT(30)
      <3>2. IsReceipt(log[(d + i) - 1]) /\ tail[i - 1] = log[(d + i) - 1]
        BY <1>4, <3>1
      <3> QED BY <2>1, <2>3, <3>1, <3>2 DEF ExpectedPrev, UnitId, IsReceipt, IsTrim
    <2> QED BY <2>1, <2>2, <2>4, UnitKinds
  <1>6. seam \in Nat /\ (tail # <<>> => tail[1].prev = seam)
    <2>1. CASE tail = <<>>
      BY <2>1
    <2>2. CASE tail # <<>>
      <3>1. 1 \in 1..Len(tail)
        BY <1>4, <2>2
      <3>2. IsReceipt(tail[1]) /\ tail[1].prev \in Nat
        BY <1>5, <3>1
      <3> QED BY <2>2, <3>2
    <2> QED BY <2>1, <2>2
  <1> HIDE DEF seam
  <1>7. /\ longer \in Seq(AnyUnit)
        /\ Chained(longer)
        /\ HeadOf(longer) = seam
        /\ Len(longer) = Len(run) + 1
        /\ \A i \in 1..Len(longer) : IsTrim(longer[i])
    BY <1>3, <1>6, RunIsChained
  <1> HIDE DEF longer
  <1>8. Chained(longer \o tail)
    <2>1. \A i \in 1..Len(tail) :
             /\ IsReceipt(tail[i])
             /\ tail[i].prev = IF i = 1 THEN HeadOf(longer) ELSE tail[i - 1].id
      <3> TAKE i \in 1..Len(tail)
      <3>1. tail # <<>>
        BY <1>4
      <3> QED BY <1>5, <1>6, <1>7, <3>1
    <2> QED BY <1>4, <1>7, <2>1, ChainedAppend
  <1>9. /\ longer \o tail \in Seq(AnyUnit)
        /\ ReceiptsIn(tail) \subseteq ReceiptsIn(longer \o tail)
        /\ longer \o tail # <<>>
    BY <1>3, <1>4, <1>7, ReceiptsInBoth
  <1>10. /\ SubSeq(log, 1, d) \in Seq(AnyUnit)
         /\ Len(SubSeq(log, 1, d)) = d
         /\ \A i \in 1..d : SubSeq(log, 1, d)[i] = log[i]
    BY <1>1, FirstUnits
  <1>11. ASSUME NEW j \in DOMAIN log, IsReceipt(log[j])
         PROVE  log[j].id \in ReceiptsIn(SubSeq(log, 1, d)) \cup ReceiptsIn(tail)
    <2>1. CASE j <= d
      <3>1. j \in 1..d /\ j \in DOMAIN SubSeq(log, 1, d)
        BY <1>1, <1>10, <2>1
      <3> QED BY <1>10, <1>11, <3>1 DEF ReceiptsIn
    <2>2. CASE j > d
      <3>1. j - d \in 1 .. size - d /\ j - d \in DOMAIN tail /\ d + (j - d) = j
        BY <1>1, <1>4, <2>2
      <3> QED BY <1>4, <1>11, <3>1 DEF ReceiptsIn
    <2> QED BY <1>1, <2>1, <2>2
  <1>12. /\ ChainOf(SubSeq(log, 1, d)) \in Seq(Nat)
         /\ ReceiptsIn(SubSeq(log, 1, d)) \subseteq SetOf(ChainOf(SubSeq(log, 1, d)))
    BY <1>10, ChainHoldsTheReceipts
  <1>13. ReceiptsIn(log) \subseteq ReceiptsIn(SubSeq(log, 1, d)) \cup ReceiptsIn(tail)
    BY <1>11 DEF ReceiptsIn
  <1>14. /\ tail \in Seq(AnyUnit) /\ \A i \in 1..Len(tail) : IsReceipt(tail[i])
         /\ \E begin \in Seq(AnyUnit) : /\ Chained(begin) /\ (\A i \in 1..Len(begin) : IsTrim(begin[i]))
                                        /\ Compacted = begin \o tail
    BY <1>2, <1>4, <1>5, <1>7
  <1> QED BY <1>1, <1>2, <1>8, <1>9, <1>12, <1>13, <1>14 DEF d, tail


-----------------------------------------------------------------------------
(* Every step keeps the invariant. *)

(* The invariant holds at first.                                            *)
LEMMA InitInductive == Init => InductiveInv
  <1> SUFFICES ASSUME Init PROVE InductiveInv
    OBVIOUS
  <1> USE DEF Init
  <1>1. Shapes
    BY BoundsAssumption DEF Shapes, Stages, Dropped, Origin
  <1>2. DiskShape
    <2>1. Chained(<<>>) /\ Whole(<<>>) = <<>>
      BY DEF Chained, Whole
    <2> QED BY <2>1 DEF DiskShape, ChainWhole
  <1>3. IndexSpan /\ WindowPlace
    BY DEF IndexSpan, WindowPlace
  <1>4. OnVolume
    BY DEF OnVolume, Kept
  <1> QED BY <1>1, <1>2, <1>3, <1>4 DEF InductiveInv

(* Steps that touch neither the file, nor the index, nor the window.       *)
LEMMA QueueStep ==
  ASSUME InductiveInv,
         Tick \/ (\E iat \in {clock - 1, clock} \cap Nat : Put(iat)) \/ UNCHANGED vars
  PROVE  InductiveInv'
  <1> USE DEF InductiveInv
  <1>1. UNCHANGED <<disk, stage, batch, store, acked, gone, goneBefore>>
    BY DEF Tick, Put, vars, outside
  <1> USE <1>1 DEF disk, store
  <1>2. Shapes'
    <2>1. CASE Tick
      BY <2>1, BoundsAssumption DEF Tick, Shapes
    <2>2. ASSUME NEW iat \in {clock - 1, clock} \cap Nat, Put(iat) PROVE Shapes'
      <3>1. nextId \in 1..MaxId /\ iat \in 0..MaxClock
        BY <2>2, BoundsAssumption DEF Put, Shapes
      <3>2. [id |-> nextId, iat |-> iat] \in Appends
        BY <3>1 DEF Appends
      <3>3. pending' \in Seq(Appends)
        BY <2>2, <3>2 DEF Put, Shapes
      <3> QED BY <2>2, <3>1, <3>3, BoundsAssumption DEF Put, Shapes
    <2>3. CASE UNCHANGED vars
      BY <2>3 DEF vars, outside, Shapes
    <2> QED BY <2>1, <2>2, <2>3
  <1>3. DiskShape'
    BY DEF DiskShape, ChainWhole
  <1>4. IndexSpan'
    BY DEF IndexSpan
  <1>5. WindowPlace'
    BY DEF WindowPlace, Frames
  <1>6. OnVolume'
    BY DEF OnVolume
  <1> QED BY <1>2, <1>3, <1>4, <1>5, <1>6

(* A window is taken off the queue.                                         *)
LEMMA TakeWindowStep ==
  ASSUME InductiveInv, TakeWindow
  PROVE  InductiveInv'
  <1> USE DEF InductiveInv
  <1> DEFINE n == IF Len(pending) < Window THEN Len(pending) ELSE Window
  <1>1. n \in 1..Len(pending)
    BY BoundsAssumption DEF TakeWindow, Shapes
  <1>2. /\ batch' = SubSeq(pending, 1, n)
        /\ pending' = SubSeq(pending, n + 1, Len(pending))
        /\ stage = "idle" /\ stage' = "write"
        /\ UNCHANGED <<disk, store, acked, nextId, clock, gone, goneBefore>>
    BY DEF TakeWindow, Rest, outside
  <1> HIDE DEF n
  <1>3. /\ batch' \in Seq(Appends) /\ Len(batch') = n /\ batch' # <<>>
        /\ pending' \in Seq(Appends)
    <2>1. pending \in Seq(Appends) /\ n \in 0..Len(pending) /\ n # 0
      BY <1>1 DEF Shapes
    <2>2. batch' \in Seq(Appends) /\ Len(batch') = n
      BY <1>2, <2>1, FirstUnits
    <2>3. pending' \in Seq(Appends)
      BY <1>2, <2>1, LastUnits
    <2> QED BY <2>1, <2>2, <2>3
  <1> USE <1>2 DEF disk, store
  <1>4. Shapes'
    BY <1>3 DEF Shapes, Stages
  <1>5. DiskShape'
    BY DEF DiskShape, ChainWhole
  <1>6. IndexSpan'
    BY DEF IndexSpan
  <1>7. WindowPlace'
    <2>1. Len(synced) <= size
      BY DEF DiskShape, WindowPlace, Shapes
    <2> QED BY <1>3, <2>1 DEF WindowPlace
  <1>8. OnVolume'
    BY DEF OnVolume
  <1> QED BY <1>4, <1>5, <1>6, <1>7, <1>8


(* The index goes on speaking for a file that only changed behind it.      *)
LEMMA SpanStays ==
  ASSUME InductiveInv, stage \notin {"down", "rescan"}, UNCHANGED store,
         log' \in Seq(AnyUnit), size <= Len(log'), \A i \in 1..size : log'[i] = log[i]
  PROVE  IndexSpan'
  <1>1. /\ runEnd <= size /\ runEnd \in Nat /\ size \in Nat
        /\ \A i \in 1..runEnd : IsTrim(log[i])
        /\ \A i \in runEnd + 1 .. size : IsReceipt(log[i])
        /\ head = ExpectedPrev(log, size + 1)
        /\ \A i \in DOMAIN index : index[i].at \in runEnd + 1 .. size
    BY DEF InductiveInv, IndexSpan, Shapes
  <1>2. size + 1 = 1 \/ (size + 1) - 1 \in 1..size
    BY <1>1
  <1>3. ExpectedPrev(log', size + 1) = ExpectedPrev(log, size + 1)
    BY <1>2 DEF ExpectedPrev
  <1>4. /\ \A i \in 1..runEnd : i \in 1..size
        /\ \A i \in runEnd + 1 .. size : i \in 1..size
    BY <1>1
  <1>5. /\ \A i \in 1..runEnd : IsTrim(log'[i])
        /\ \A i \in runEnd + 1 .. size : IsReceipt(log'[i])
    BY <1>1, <1>4
  <1> QED BY <1>1, <1>3, <1>5 DEF IndexSpan, store

(* The write of a window lands behind the file, whole or in part.          *)
LEMMA WriteWindowStep ==
  ASSUME InductiveInv, WriteWindow
  PROVE  InductiveInv'
  <1> USE DEF InductiveInv
  <1>1. /\ stage = "write" /\ stage' = "sync"
        /\ log' = log \o Frames /\ loose' = loose \o Frames
        /\ UNCHANGED <<synced, shadow, pending, batch, store, acked, nextId, clock, gone, goneBefore>>
    BY DEF WriteWindow, outside
  <1>2. /\ Frames \in Seq(AnyUnit)
        /\ Len(Frames) = Len(batch)
        /\ \A i \in 1..Len(Frames) :
              /\ IsReceipt(Frames[i])
              /\ Frames[i].prev = IF i = 1 THEN head ELSE Frames[i - 1].id
    BY FramesShape DEF Shapes
  <1>3. Frames' = Frames
    BY <1>1 DEF Frames, store
  <1>4. /\ Chained(log) /\ size = Len(log) /\ head = HeadOf(log)
        /\ log \in Seq(AnyUnit) /\ size \in Nat
    BY <1>1 DEF DiskShape, IndexSpan, WindowPlace, HeadOf, Shapes
  <1>5. /\ Chained(log \o Frames)
        /\ log \o Frames \in Seq(AnyUnit)
    BY <1>2, <1>4, ChainedAppend, ReceiptsInBoth
  <1>6. /\ Len(log') = size + Len(batch)
        /\ \A i \in 1..size : log'[i] = log[i]
        /\ \A i \in DOMAIN batch : log'[size + i] = Frames[i]
    <2>1. Len(log) = size /\ DOMAIN batch = 1..Len(Frames) /\ log' = log \o Frames
      BY <1>1, <1>2, <1>4 DEF Shapes
    <2>2. /\ Len(log \o Frames) = Len(log) + Len(Frames)
          /\ \A i \in 1..Len(log) : (log \o Frames)[i] = log[i]
          /\ \A i \in 1..Len(Frames) : (log \o Frames)[Len(log) + i] = Frames[i]
      <3>1. log \in Seq(AnyUnit) /\ Frames \in Seq(AnyUnit)
        BY <1>2, <1>4
      <3> QED BY <3>1, BothPlaces
    <2> QED BY <1>2, <2>1, <2>2
  <1>7. Shapes'
    BY <1>1, <1>2, <1>5 DEF Shapes, Stages, store
  <1>8. DiskShape'
    <2>1. (synced \o loose) \o Frames = synced \o (loose \o Frames)
      <3>1. synced \in Seq(AnyUnit) /\ loose \in Seq(AnyUnit)
        BY DEF Shapes
      <3> QED BY <1>2, <3>1, ConcatAssociative
    <2>2. Whole(log') = log'
      BY <1>1, <1>5, ChainedHasNoLeftover
    <2> QED BY <1>1, <1>5, <2>1, <2>2 DEF DiskShape, ChainWhole
  <1>9. IndexSpan'
    <2>1. log' \in Seq(AnyUnit) /\ size <= Len(log')
      BY <1>1, <1>4, <1>5, <1>6 DEF Shapes
    <2> QED BY <1>1, <1>6, <2>1, SpanStays
  <1>10. WindowPlace'
    BY <1>1, <1>3, <1>6 DEF WindowPlace, store
  <1>11. OnVolume'
    BY <1>1 DEF OnVolume
  <1> QED BY <1>7, <1>8, <1>9, <1>10, <1>11


(* A file the volume took only part of a window into.                      *)
LEMMA PartWritten ==
  ASSUME InductiveInv, stage = "write",
         NEW k \in Nat, NEW torn \in BOOLEAN,
         k < Len(Frames) \/ (k = Len(Frames) /\ ~torn)
  PROVE  LET part == PartOf(Frames, k, torn) IN
         /\ part \in Seq(AnyUnit)
         /\ log \o part = synced \o (loose \o part)
         /\ loose \o part \in Seq(AnyUnit) /\ log \o part \in Seq(AnyUnit)
         /\ Whole(log \o part) = log \o SubSeq(Frames, 1, k)
         /\ Chained(Whole(log \o part))
         /\ Len(log \o part) >= size
         /\ \A i \in 1..size : (log \o part)[i] = log[i]
  <1> USE DEF InductiveInv
  <1> DEFINE some == SubSeq(Frames, 1, k)
             part == PartOf(Frames, k, torn)
  <1>1. /\ Frames \in Seq(AnyUnit)
        /\ \A i \in 1..Len(Frames) :
              /\ IsReceipt(Frames[i])
              /\ Frames[i].prev = IF i = 1 THEN head ELSE Frames[i - 1].id
        /\ Len(Frames) \in Nat
    BY FramesShape DEF Shapes
  <1>2. /\ Chained(log) /\ size = Len(log) /\ head = HeadOf(log)
        /\ log \in Seq(AnyUnit) /\ size \in Nat
    BY DEF DiskShape, IndexSpan, WindowPlace, HeadOf, Shapes
  <1>3. /\ some \in Seq(AnyUnit)
        /\ Len(some) = k
        /\ \A i \in 1..k : some[i] = Frames[i]
    <2>1. k \in 0..Len(Frames)
      BY <1>1
    <2> QED BY <1>1, <2>1, FirstUnits
  <1> HIDE DEF some
  <1>4. Chained(log \o some)
    <2>1. \A i \in 1..Len(some) :
              /\ IsReceipt(some[i])
              /\ some[i].prev = IF i = 1 THEN HeadOf(log) ELSE some[i - 1].id
      <3> TAKE i \in 1..Len(some)
      <3>1. i \in 1..Len(Frames) /\ some[i] = Frames[i]
        BY <1>1, <1>3
      <3>2. i # 1 => i - 1 \in 1..k
        BY <1>3
      <3> QED BY <1>1, <1>2, <1>3, <3>1, <3>2
    <2> QED BY <1>2, <1>3, <2>1, ChainedAppend
  <1>5. Leftover(torn) \in Seq(AnyUnit) /\ Leftover(torn) \in {<<>>, <<Torn>>}
    <2>1. Torn \in AnyUnit
      BY DEF AnyUnit
    <2> QED BY <2>1 DEF Leftover
  <1>6. part = some \o Leftover(torn) /\ part \in Seq(AnyUnit)
    <2>1. part = some \o Leftover(torn)
      BY DEF PartOf, some
    <2> QED BY <1>3, <1>5, <2>1, BothPlaces
  <1>7. log \o part = (log \o some) \o Leftover(torn)
    <2>1. log \in Seq(AnyUnit) /\ some \in Seq(AnyUnit) /\ Leftover(torn) \in Seq(AnyUnit)
      BY <1>2, <1>3, <1>5
    <2>2. (log \o some) \o Leftover(torn) = log \o (some \o Leftover(torn))
      BY <2>1, ConcatAssociative, SMTT(30)
    <2> QED BY <1>6, <2>2, Zenon
  <1>8. log \o some \in Seq(AnyUnit)
    BY <1>2, <1>3, BothPlaces
  <1> HIDE DEF part
  <1>9. /\ log \o part \in Seq(AnyUnit)
        /\ Len(log \o part) >= size
        /\ \A i \in 1..size : (log \o part)[i] = log[i]
    BY <1>2, <1>6, BothPlaces
  <1>10. Whole(log \o part) = log \o some /\ Chained(Whole(log \o part))
    <2>1. CASE Leftover(torn) = <<>>
      <3>1. log \o part = log \o some
        BY <1>7, <1>8, <2>1
      <3> QED BY <1>4, <1>8, <3>1, ChainedHasNoLeftover
    <2>2. CASE Leftover(torn) = <<Torn>>
      <3>1. Whole((log \o some) \o <<Torn>>) = log \o some
        BY <1>8 DEF Whole
      <3> QED BY <1>4, <1>7, <2>2, <3>1
    <2> QED BY <1>5, <2>1, <2>2
  <1>11. synced \in Seq(AnyUnit) /\ loose \in Seq(AnyUnit) /\ log = synced \o loose
    BY DEF Shapes, DiskShape
  <1>12. /\ log \o part = synced \o (loose \o part)
         /\ loose \o part \in Seq(AnyUnit)
    <2>1. loose \o part \in Seq(AnyUnit)
      BY <1>6, <1>11, BothPlaces
    <2>2. (synced \o loose) \o part = synced \o (loose \o part)
      <3>1. synced \in Seq(AnyUnit) /\ loose \in Seq(AnyUnit) /\ part \in Seq(AnyUnit)
        BY <1>6, <1>11
      <3> QED BY <3>1, ConcatAssociative, SMTT(30)
    <2> QED BY <1>11, <2>1, <2>2
  <1> QED BY <1>6, <1>9, <1>10, <1>12 DEF part, some

(* A write that the volume cut short.                                       *)
LEMMA WriteFallsShortStep ==
  ASSUME InductiveInv, NEW k \in 0..Window, NEW torn \in BOOLEAN, WriteFallsShort(k, torn)
  PROVE  InductiveInv'
  <1> USE DEF InductiveInv
  <1> DEFINE part == PartOf(Frames, k, torn)
  <1>1. /\ stage = "write" /\ stage' = "rollback"
        /\ log' = log \o part /\ loose' = loose \o part
        /\ k \in Nat /\ k < Len(Frames)
        /\ UNCHANGED <<synced, shadow, pending, batch, store, acked, nextId, clock, gone, goneBefore>>
    BY BoundsAssumption DEF WriteFallsShort, outside
  <1>2. /\ part \in Seq(AnyUnit)
        /\ log \o part = synced \o (loose \o part)
        /\ loose \o part \in Seq(AnyUnit) /\ log \o part \in Seq(AnyUnit)
        /\ Chained(Whole(log \o part))
        /\ Len(log \o part) >= size
        /\ \A i \in 1..size : (log \o part)[i] = log[i]
    BY <1>1, PartWritten
  <1> HIDE DEF part
  <1>3. Shapes'
    BY <1>1, <1>2 DEF Shapes, Stages, store
  <1>4. DiskShape'
    BY <1>1, <1>2 DEF DiskShape, ChainWhole
  <1>5. IndexSpan'
    BY <1>1, <1>2, SpanStays
  <1>6. WindowPlace'
    BY <1>1 DEF WindowPlace, store
  <1>7. OnVolume'
    BY <1>1 DEF OnVolume
  <1> QED BY <1>3, <1>4, <1>5, <1>6, <1>7


(* The one sync of a window: everything the file holds is on the volume.   *)
LEMMA SyncWindowStep ==
  ASSUME InductiveInv, SyncWindow
  PROVE  InductiveInv'
  <1> USE DEF InductiveInv
  <1>1. /\ stage = "sync" /\ stage' = "file"
        /\ synced' = log /\ loose' = <<>> /\ shadow' = <<>>
        /\ UNCHANGED <<log, pending, batch, store, acked, nextId, clock, gone, goneBefore>>
    BY DEF SyncWindow, outside
  <1>2. Shapes'
    BY <1>1 DEF Shapes, Stages, store
  <1>3. DiskShape'
    <2>1. log \o <<>> = log
      BY DEF Shapes
    <2> QED BY <1>1, <2>1 DEF DiskShape, ChainWhole
  <1>4. IndexSpan'
    BY <1>1 DEF IndexSpan, store
  <1>5. Frames' = Frames
    BY <1>1 DEF Frames, store
  <1>6. WindowPlace'
    BY <1>1, <1>5 DEF WindowPlace, store
  <1>7. IdsOf(batch) \subseteq ReceiptsIn(log)
    <2> SUFFICES ASSUME NEW i \in DOMAIN batch PROVE batch[i].id \in ReceiptsIn(log)
      BY DEF IdsOf
    <2>1. size \in Nat /\ batch \in Seq(Appends) /\ head \in Nat /\ log \in Seq(AnyUnit)
      BY DEF Shapes
    <2>2. Len(log) = size + Len(batch) /\ log[size + i] = Frames[i]
      BY <1>1 DEF WindowPlace
    <2>3. size + i \in DOMAIN log /\ i \in 1..Len(batch)
      BY <2>1, <2>2
    <2>4. IsReceipt(Frames[i]) /\ Frames[i].id = batch[i].id
      BY <2>1, <2>3, FramesShape
    <2> QED BY <2>2, <2>3, <2>4 DEF ReceiptsIn
  <1>8. Kept(acked, gone, log)
    <2>1. ReceiptsIn(log) = ReceiptsIn(synced) \cup ReceiptsIn(loose)
      BY ReceiptsInBoth DEF Shapes, DiskShape
    <2> QED BY <2>1 DEF OnVolume, Kept
  <1>9. OnVolume'
    BY <1>1, <1>7, <1>8 DEF OnVolume, Kept
  <1> QED BY <1>2, <1>3, <1>4, <1>6, <1>9

(* A sync the volume refused.                                               *)
LEMMA SyncRefusedStep ==
  ASSUME InductiveInv, SyncRefused
  PROVE  InductiveInv'
  <1> USE DEF InductiveInv
  <1>1. /\ stage = "sync" /\ stage' = "rollback"
        /\ UNCHANGED <<disk, pending, batch, store, acked, nextId, clock, gone, goneBefore>>
    BY DEF SyncRefused, outside
  <1> USE <1>1 DEF disk, store
  <1>2. Shapes'
    BY DEF Shapes, Stages
  <1>3. DiskShape'
    BY DEF DiskShape, ChainWhole
  <1>4. IndexSpan'
    BY DEF IndexSpan
  <1>5. WindowPlace'
    BY DEF WindowPlace
  <1>6. OnVolume'
    BY DEF OnVolume
  <1> QED BY <1>2, <1>3, <1>4, <1>5, <1>6

(* What the index speaks for is in front of any unfinished record.         *)
LEMMA SpanIsWhole ==
  ASSUME InductiveInv, stage \notin {"down", "rescan"}
  PROVE  LET span == SubSeq(log, 1, size) IN
         /\ span \in Seq(AnyUnit) /\ Len(span) = size /\ size \in 0..Len(log)
         /\ \A i \in 1..size : span[i] = log[i]
         /\ size <= Len(Whole(log)) /\ \A i \in 1..size : span[i] = Whole(log)[i]
         /\ Chained(span)
  <1> USE DEF InductiveInv
  <1> DEFINE span == SubSeq(log, 1, size)
  <1>1. /\ log \in Seq(AnyUnit) /\ size \in 0..Len(log) /\ runEnd \in 0..size
        /\ \A i \in 1..runEnd : IsTrim(log[i])
        /\ \A i \in runEnd + 1 .. size : IsReceipt(log[i])
    <2>1. log \in Seq(AnyUnit) /\ size \in Nat /\ runEnd \in Nat
      BY DEF Shapes
    <2>2. /\ runEnd <= size /\ size <= Len(log)
          /\ \A i \in 1..runEnd : IsTrim(log[i])
          /\ \A i \in runEnd + 1 .. size : IsReceipt(log[i])
      BY DEF IndexSpan
    <2>3. size \in 0..Len(log) /\ runEnd \in 0..size
      BY <2>1, <2>2
    <2> QED BY <2>1, <2>2, <2>3
  <1>2. /\ span \in Seq(AnyUnit)
        /\ Len(span) = size
        /\ \A i \in 1..size : span[i] = log[i]
    BY <1>1, FirstUnits
  <1> HIDE DEF span
  <1>3. /\ Whole(log) \in Seq(AnyUnit)
        /\ Len(log) <= Len(Whole(log)) + 1
        /\ \A i \in 1..Len(Whole(log)) : Whole(log)[i] = log[i]
        /\ Len(Whole(log)) < Len(log) => log[Len(log)] = Torn
        /\ Chained(Whole(log))
    BY <1>1, WholeIsAPrefix DEF DiskShape, ChainWhole
  <1>4. size <= Len(Whole(log))
    <2> SUFFICES ASSUME size > Len(Whole(log)) PROVE FALSE
      BY <1>1, <1>3
    <2>1. size = Len(log) /\ size \in 1..Len(log) /\ log[size] = Torn
      BY <1>1, <1>3
    <2>2. IsTrim(log[size]) \/ IsReceipt(log[size])
      BY <1>1, <2>1
    <2> QED BY <2>1, <2>2 DEF Torn, IsTrim, IsReceipt
  <1>5. \A i \in 1..size : span[i] = Whole(log)[i]
    <2>1. \A i \in 1..size : i \in 1..Len(Whole(log))
      BY <1>1, <1>3, <1>4
    <2> QED BY <1>2, <1>3, <2>1
  <1>6. Chained(span)
    BY <1>2, <1>3, <1>4, <1>5, ChainedPrefix
  <1> QED BY <1>1, <1>2, <1>4, <1>5, <1>6 DEF span

(* The cut takes back what the refused window wrote and nothing else.      *)
LEMMA RollbackStep ==
  ASSUME InductiveInv, Rollback
  PROVE  InductiveInv'
  <1> USE DEF InductiveInv
  <1>1. /\ stage = "rollback" /\ stage' = "idle" /\ batch' = <<>>
        /\ log' = CutTo(size)
        /\ synced' = log' /\ loose' = <<>> /\ shadow' = <<>>
        /\ UNCHANGED <<pending, store, acked, nextId, clock, gone, goneBefore>>
    BY DEF Rollback, Refuses
  <1>2. /\ log \in Seq(AnyUnit) /\ size \in 0..Len(log) /\ runEnd \in 0..size
        /\ \A i \in 1..runEnd : IsTrim(log[i])
        /\ \A i \in runEnd + 1 .. size : IsReceipt(log[i])
    BY <1>1 DEF Shapes, IndexSpan
  <1>3. log' = SubSeq(log, 1, size)
    BY <1>1, <1>2 DEF CutTo
  <1>4. /\ log' \in Seq(AnyUnit)
        /\ Len(log') = size
        /\ \A i \in 1..size : log'[i] = log[i]
    BY <1>2, <1>3, FirstUnits
  <1>5. Chained(log')
    BY <1>1, <1>3, SpanIsWhole
  <1>6. Shapes'
    BY <1>1, <1>4 DEF Shapes, Stages, store
  <1>7. DiskShape'
    <2>1. log' \o <<>> = log' /\ Whole(log') = log'
      BY <1>4, <1>5, ChainedHasNoLeftover
    <2> QED BY <1>1, <1>5, <2>1 DEF DiskShape, ChainWhole
  <1>8. IndexSpan'
    BY <1>1, <1>2, <1>4, SpanStays
  <1>9. WindowPlace'
    BY <1>1, <1>2, <1>4 DEF WindowPlace, store
  <1>10. ReceiptsIn(synced) \subseteq ReceiptsIn(log')
    <2> SUFFICES ASSUME NEW j \in DOMAIN synced, IsReceipt(synced[j])
                 PROVE  synced[j].id \in ReceiptsIn(log')
      BY DEF ReceiptsIn
    <2>1. /\ synced \in Seq(AnyUnit) /\ loose \in Seq(AnyUnit) /\ log = synced \o loose
          /\ Len(synced) <= size
      BY <1>1 DEF Shapes, DiskShape, WindowPlace
    <2>2. j \in 1..size /\ log[j] = synced[j]
      BY <1>2, <2>1
    <2>3. log'[j] = synced[j] /\ j \in DOMAIN log'
      BY <1>4, <2>2
    <2> QED BY <2>3 DEF ReceiptsIn
  <1>11. OnVolume'
    BY <1>1, <1>10 DEF OnVolume, Kept
  <1> QED BY <1>6, <1>7, <1>8, <1>9, <1>11

(* The synced records join the index.                                      *)
LEMMA FileWindowStep ==
  ASSUME InductiveInv, FileWindow
  PROVE  InductiveInv'
  <1> USE DEF InductiveInv
  <1> DEFINE filed == [i \in DOMAIN batch |->
                          [id |-> batch[i].id, iat |-> batch[i].iat, at |-> size + i]]
  <1>1. /\ stage = "file" /\ stage' = "retire"
        /\ index' = index \o filed
        /\ head' = batch[Len(batch)].id
        /\ size' = size + Len(batch)
        /\ UNCHANGED <<disk, pending, batch, runEnd, dropped, acked, nextId, clock, gone, goneBefore>>
    BY DEF FileWindow, outside
  <1>2. /\ size \in Nat /\ runEnd \in 0..size /\ log \in Seq(AnyUnit)
        /\ batch \in Seq(Appends) /\ head \in Nat
        /\ index \in Seq([id : Nat, iat : Nat, at : Nat])
    BY <1>1 DEF Shapes, IndexSpan
  <1>3. Len(batch) \in Nat \ {0} /\ DOMAIN batch = 1..Len(batch)
    BY <1>1, <1>2 DEF WindowPlace
  <1>4. Appends \subseteq [id : Nat, iat : Nat]
    BY BoundsAssumption DEF Appends
  <1>5. /\ filed \in Seq([id : Nat, iat : Nat, at : Nat])
        /\ Len(filed) = Len(batch)
        /\ \A i \in 1..Len(batch) : filed[i].at = size + i
    <2>1. filed \in [1..Len(batch) -> [id : Nat, iat : Nat, at : Nat]]
      BY <1>2, <1>3, <1>4
    <2> QED BY <1>3, <2>1, TupleIsASeq
  <1> HIDE DEF filed
  <1>6. /\ index' \in Seq([id : Nat, iat : Nat, at : Nat])
        /\ Len(index') = Len(index) + Len(batch)
        /\ \A i \in 1..Len(index) : index'[i] = index[i]
        /\ \A i \in 1..Len(batch) : index'[Len(index) + i] = filed[i]
    <2>1. /\ index \o filed \in Seq([id : Nat, iat : Nat, at : Nat])
          /\ Len(index \o filed) = Len(index) + Len(filed)
          /\ \A i \in 1..Len(index) : (index \o filed)[i] = index[i]
          /\ \A i \in 1..Len(filed) : (index \o filed)[Len(index) + i] = filed[i]
      <3> DEFINE E == [id : Nat, iat : Nat, at : Nat]
      <3>1. index \in Seq(E) /\ filed \in Seq(E)
        BY <1>2, <1>5
      <3> HIDE DEF E
      <3>2. /\ index \o filed \in Seq(E)
            /\ Len(index \o filed) = Len(index) + Len(filed)
            /\ \A i \in 1..Len(index) : (index \o filed)[i] = index[i]
            /\ \A i \in 1..Len(filed) : (index \o filed)[Len(index) + i] = filed[i]
        BY <3>1, BothPlaces
      <3> QED BY <3>2 DEF E
    <2> QED BY <1>1, <1>5, <2>1
  <1>7. head' \in Nat /\ size' \in Nat
    BY <1>1, <1>2, <1>3, <1>4
  <1>8. Shapes'
    BY <1>1, <1>6, <1>7 DEF Shapes, Stages, disk
  <1>9. DiskShape'
    BY <1>1 DEF DiskShape, ChainWhole, disk
  <1>10. /\ Len(log) = size + Len(batch)
         /\ \A i \in 1..Len(batch) : log[size + i] = Frames[i]
    BY <1>1, <1>3 DEF WindowPlace
  <1>11. \A i \in 1..Len(batch) : IsReceipt(Frames[i]) /\ Frames[i].id = batch[i].id
    BY <1>2, FramesShape
  <1>12. IndexSpan'
    <2>1. /\ \A i \in 1..runEnd : IsTrim(log[i])
          /\ \A i \in runEnd + 1 .. size : IsReceipt(log[i])
          /\ \A i \in DOMAIN index : index[i].at \in runEnd + 1 .. size
      BY <1>1 DEF IndexSpan
    <2>2. ASSUME NEW j \in runEnd + 1 .. size + Len(batch) PROVE IsReceipt(log[j])
      <3>1. CASE j \in runEnd + 1 .. size
        BY <2>1, <3>1
      <3>2. CASE j \notin runEnd + 1 .. size
        <4>1. j - size \in 1..Len(batch) /\ size + (j - size) = j
          BY <1>2, <1>3, <3>2
        <4>2. log[j] = Frames[j - size]
          BY <1>10, <4>1
        <4> QED BY <1>11, <4>1, <4>2
      <3> QED BY <3>1, <3>2
    <2>3. head' = ExpectedPrev(log, size' + 1)
      <3>1. Len(batch) \in 1..Len(batch) /\ size' + 1 # 1 /\ (size' + 1) - 1 = size + Len(batch)
        BY <1>1, <1>2, <1>3
      <3>2. log[(size' + 1) - 1] = Frames[Len(batch)]
        BY <1>10, <3>1
      <3>3. IsReceipt(log[(size' + 1) - 1]) /\ log[(size' + 1) - 1].id = head'
        BY <1>1, <1>11, <3>1, <3>2
      <3> QED BY <3>1, <3>3 DEF ExpectedPrev, UnitId, IsReceipt, IsTrim
    <2>4. ASSUME NEW i \in DOMAIN index' PROVE index'[i].at \in runEnd + 1 .. size + Len(batch)
      <3>1. CASE i \in 1..Len(index)
        <4>1. index'[i] = index[i] /\ index[i].at \in runEnd + 1 .. size
          <5>1. i \in DOMAIN index
            BY <1>2, <3>1
          <5> QED BY <1>6, <2>1, <3>1, <5>1
        <4> QED BY <1>2, <1>3, <4>1, SMTT(30)
      <3>2. CASE i \notin 1..Len(index)
        <4>1. i - Len(index) \in 1..Len(batch) /\ Len(index) + (i - Len(index)) = i
          BY <1>2, <1>3, <1>6, <3>2, SMTT(30)
        <4>2. index'[i].at = size + (i - Len(index))
          BY <1>5, <1>6, <4>1
        <4> QED BY <1>2, <1>3, <4>1, <4>2
      <3> QED BY <3>1, <3>2
    <2>5. log' = log /\ runEnd' = runEnd /\ size' = size + Len(batch) /\ size + Len(batch) \in Nat
      BY <1>1, <1>2, <1>3 DEF disk
    <2>6. runEnd <= size' /\ size' <= Len(log)
      BY <1>2, <1>3, <1>10, <2>5
    <2> QED BY <2>1, <2>2, <2>3, <2>4, <2>5, <2>6 DEF IndexSpan
  <1>13. WindowPlace'
    BY <1>1, <1>10 DEF WindowPlace, disk
  <1>14. OnVolume'
    BY <1>1 DEF OnVolume, disk
  <1> QED BY <1>8, <1>9, <1>12, <1>13, <1>14


(* What a prune leaves is entries of the index it began with.              *)
LEMMA RestOfAnIndex ==
  ASSUME NEW E, NEW idx \in Seq(E), NEW n \in 0..Len(idx)
  PROVE  /\ Rest(idx, n) \in Seq(E)
         /\ \A i \in DOMAIN Rest(idx, n) : \E j \in DOMAIN idx : Rest(idx, n)[i] = idx[j]
  <1>1. /\ Rest(idx, n) \in Seq(E)
        /\ Len(Rest(idx, n)) = Len(idx) - n
        /\ \A i \in 1 .. Len(idx) - n : Rest(idx, n)[i] = idx[n + i]
    BY LastUnits DEF Rest
  <1>2. ASSUME NEW i \in DOMAIN Rest(idx, n)
        PROVE  \E j \in DOMAIN idx : Rest(idx, n)[i] = idx[j]
    <2>1. i \in 1 .. Len(idx) - n /\ n + i \in DOMAIN idx
      BY <1>1
    <2> QED BY <1>1, <2>1
  <1> QED BY <1>1, <1>2

(* Tallies add up to a tally.                                               *)
LEMMA PlusIsTyped ==
  ASSUME NEW c \in [byAge : Int, byCount : Int], NEW d \in [byAge : Int, byCount : Int]
  PROVE  Plus(c, d) \in [byAge : Int, byCount : Int]
  BY DEF Plus, Dropped

(* Once the records of a window are synced and filed, nothing up to its    *)
(* answer but the compaction touches the file: prunes, a clock that throws *)
(* and a compaction that is held all leave it as it is.                    *)
LEMMA IndexOnlyStep ==
  ASSUME InductiveInv,
         stage \in {"retire", "compact", "answer"},
         UNCHANGED <<disk, pending, head, size, runEnd, nextId, clock, gone, goneBefore>>,
         UNCHANGED <<index, dropped>> \/ Prune(retire(index, clock)),
         \/ stage' \in {"compact", "answer"} /\ UNCHANGED <<batch, acked>> /\ stage = "retire"
         \/ stage' = "idle" /\ batch' = <<>> /\ acked' \subseteq acked \cup IdsOf(batch)
  PROVE  InductiveInv'
  <1> USE DEF InductiveInv
  <1>1. /\ index \in Seq([id : Nat, iat : Nat, at : Nat])
        /\ \A i \in DOMAIN index : index[i].at \in runEnd + 1 .. size
        /\ dropped \in [byAge : Int, byCount : Int]
    BY DEF Shapes, IndexSpan
  <1>2. /\ index' \in Seq([id : Nat, iat : Nat, at : Nat])
        /\ \A i \in DOMAIN index' : index'[i].at \in runEnd + 1 .. size
        /\ dropped' \in [byAge : Int, byCount : Int]
    <2>1. CASE UNCHANGED <<index, dropped>>
      BY <1>1, <2>1
    <2>2. CASE Prune(retire(index, clock))
      <3> DEFINE doomed == retire(index, clock)
      <3>1. /\ doomed \in [byAge : Int, byCount : Int]
            /\ Total(doomed) \in 0..Len(index)
        BY <1>1, RetiresAtMostAll
      <3>2. index' = Rest(index, Total(doomed)) /\ dropped' = Plus(dropped, doomed)
        BY <2>2 DEF Prune
      <3> HIDE DEF doomed
      <3>3. /\ index' \in Seq([id : Nat, iat : Nat, at : Nat])
            /\ \A i \in DOMAIN index' : \E j \in DOMAIN index : index'[i] = index[j]
        BY <1>1, <3>1, <3>2, RestOfAnIndex
      <3>4. dropped' \in [byAge : Int, byCount : Int]
        BY <1>1, <3>1, <3>2, PlusIsTyped
      <3> QED BY <1>1, <3>3, <3>4
    <2> QED BY <2>1, <2>2
  <1>3. Shapes'
    <2>1. batch' \in Seq(Appends)
      <3>1. batch \in Seq(Appends) /\ <<>> \in Seq(Appends)
        BY DEF Shapes
      <3>2. batch' = batch \/ batch' = <<>>
        OBVIOUS
      <3> QED BY <3>1, <3>2
    <2>2. stage' \in Stages
      <3>1. stage' \in {"compact", "answer", "idle"}
        OBVIOUS
      <3> QED BY <3>1 DEF Stages
    <2> QED BY <1>2, <2>1, <2>2 DEF Shapes, disk
  <1>4. DiskShape'
    BY DEF DiskShape, ChainWhole, disk
  <1>5. IndexSpan'
    BY <1>2 DEF IndexSpan, disk
  <1>6. WindowPlace'
    BY DEF WindowPlace, disk
  <1>7. OnVolume'
    <2>1. IdsOf(<<>>) = {}
      BY DEF IdsOf
    <2> QED BY <2>1 DEF OnVolume, DiskShape, Kept, disk
  <1> QED BY <1>3, <1>4, <1>5, <1>6, <1>7

(* The steps that leave the file, at the end of a window.                   *)
LEMMA AnsweredOrRefusedStep ==
  ASSUME InductiveInv,
         RetireWindow \/ NoInstant \/ CompactHeld \/ CompactReadsShort \/ AnswerWindow
  PROVE  InductiveInv'
  <1>1. CASE RetireWindow
    BY <1>1, IndexOnlyStep DEF RetireWindow, outside
  <1>2. CASE NoInstant
    BY <1>2, IndexOnlyStep DEF NoInstant, RefusesFiled, outside
  <1>3. CASE CompactHeld
    BY <1>3, IndexOnlyStep DEF CompactHeld, RefusesFiled, outside, store
  <1>4. CASE CompactReadsShort
    BY <1>4, IndexOnlyStep DEF CompactReadsShort, RefusesFiled, outside, store
  <1>5. CASE AnswerWindow
    BY <1>5, IndexOnlyStep DEF AnswerWindow, Answered, store
  <1> QED BY <1>1, <1>2, <1>3, <1>4, <1>5

(* The rename: the file that was compacted is what a power loss may still  *)
(* put back, and nothing is in neither.                                    *)
LEMMA CompactRenameStep ==
  ASSUME InductiveInv, CompactRename
  PROVE  InductiveInv'
  <1> USE DEF InductiveInv
  <1> DEFINE taken == ChainOf(SubSeq(log, 1, Dead(index)))
  <1>1. /\ stage = "compact" /\ stage' = "rescan"
        /\ shadow' = log /\ log' = Compacted /\ synced' = Compacted /\ loose' = <<>>
        /\ gone' = gone \o taken /\ goneBefore' = gone
        /\ UNCHANGED <<pending, batch, store, acked, nextId, clock>>
    BY DEF CompactRename
  <1>2. /\ Chained(log) /\ log = synced /\ log \in Seq(AnyUnit)
        /\ size = Len(log) /\ gone \in Seq(Nat)
    BY <1>1 DEF Shapes, DiskShape, WindowPlace
  <1>3. /\ Compacted \in Seq(AnyUnit)
        /\ Chained(Compacted)
        /\ taken \in Seq(Nat)
        /\ ReceiptsIn(log) \subseteq SetOf(taken) \cup ReceiptsIn(Compacted)
    <2>1. /\ runEnd \in 0..size
          /\ \A i \in 1..runEnd : IsTrim(log[i])
          /\ \A i \in runEnd + 1 .. size : IsReceipt(log[i])
          /\ index \in Seq([id : Nat, iat : Nat, at : Nat])
          /\ \A i \in DOMAIN index : index[i].at \in runEnd + 1 .. size
          /\ head \in Nat /\ dropped \in [byAge : Int, byCount : Int]
      BY <1>1 DEF Shapes, IndexSpan
    <2> QED BY <1>2, <2>1, CompactedKeepsTheRest
  <1> HIDE DEF taken
  <1>4. gone' \in Seq(Nat) /\ SetOf(gone') = SetOf(gone) \cup SetOf(taken)
    BY <1>1, <1>2, <1>3, SetOfBoth
  <1>5. Shapes'
    BY <1>1, <1>2, <1>3, <1>4 DEF Shapes, Stages, store
  <1>6. DiskShape'
    <2>1. Compacted \o <<>> = Compacted /\ Whole(Compacted) = Compacted
      BY <1>3, ChainedHasNoLeftover
    <2> QED BY <1>1, <1>3, <2>1 DEF DiskShape, ChainWhole
  <1>7. IndexSpan' /\ WindowPlace'
    BY <1>1 DEF IndexSpan, WindowPlace
  <1>8. OnVolume'
    <2>1. Kept(acked, gone, log) /\ Kept(IdsOf(batch), gone, log)
      BY <1>1, <1>2 DEF OnVolume
    <2>2. Kept(acked, gone', Compacted) /\ Kept(IdsOf(batch), gone', Compacted)
      BY <1>3, <1>4, <2>1 DEF Kept
    <2> QED BY <1>1, <1>2, <2>1, <2>2 DEF OnVolume
  <1> QED BY <1>5, <1>6, <1>7, <1>8


(* The rescan reads the compacted file back whole.                         *)
LEMMA CompactRescanStep ==
  ASSUME InductiveInv, CompactRescan
  PROVE  InductiveInv'
  <1> USE DEF InductiveInv
  <1>1. /\ stage = "rescan" /\ stage' = "answer"
        /\ UNCHANGED <<loose, shadow, pending, batch, acked, nextId, clock, gone, goneBefore>>
        /\ dropped' = Dropped(0, 0)
    BY DEF CompactRescan, outside
  <1>2. Chained(log) /\ log \in Seq(AnyUnit) /\ loose = <<>> /\ synced \in Seq(AnyUnit)
    BY <1>1 DEF DiskShape, Shapes
  <1>3. synced = log
    BY <1>2 DEF DiskShape
  <1>4. Readings(log) = {log}
    BY <1>2, ChainedHasNoLeftover
  <1>5. ReadsAs(log) /\ log' = log /\ synced' = log
    BY <1>4 DEF CompactRescan
  <1>6. /\ IndexOf(log) \in Seq([id : Nat, iat : Nat, at : Nat])
        /\ \A i \in DOMAIN IndexOf(log) : IndexOf(log)[i].at \in TrimRun(log) + 1 .. Len(log)
        /\ HeadOf(log) \in Nat
        /\ TrimRun(log) \in 0..Len(log)
        /\ \A i \in 1..TrimRun(log) : IsTrim(log[i])
        /\ \A i \in TrimRun(log) + 1 .. Len(log) : IsReceipt(log[i])
    BY <1>2, IndexOfSpans
  <1>7. /\ index' = IndexOf(log) /\ head' = HeadOf(log)
        /\ size' = Len(log) /\ runEnd' = TrimRun(log)
    BY <1>5 DEF ReadsAs
  <1>8. Shapes'
    BY <1>1, <1>2, <1>5, <1>6, <1>7 DEF Shapes, Stages, Dropped
  <1>9. DiskShape'
    BY <1>1, <1>2, <1>3, <1>5 DEF DiskShape, ChainWhole
  <1>10. IndexSpan'
    BY <1>1, <1>5, <1>6, <1>7 DEF IndexSpan, HeadOf
  <1>11. WindowPlace'
    BY <1>1, <1>5, <1>7 DEF WindowPlace
  <1>12. OnVolume'
    BY <1>1, <1>3, <1>5 DEF OnVolume
  <1> QED BY <1>8, <1>9, <1>10, <1>11, <1>12

(* The process dies, inside a write or not.                                 *)
LEMMA KillStep ==
  ASSUME InductiveInv, NEW k \in 0..MaxId, NEW torn \in BOOLEAN, Kill(k, torn)
  PROVE  InductiveInv'
  <1> USE DEF InductiveInv
  <1> DEFINE part == IF stage = "write" THEN PartOf(Frames, k, torn) ELSE <<>>
  <1>1. /\ stage # "down" /\ stage' = "down" /\ pending' = <<>> /\ batch' = <<>>
        /\ log' = log \o part /\ loose' = loose \o part
        /\ UNCHANGED <<synced, shadow, store, acked, nextId, clock, gone, goneBefore>>
    BY DEF Kill, Serving, outside
  <1>2. /\ log' \in Seq(AnyUnit) /\ loose' \in Seq(AnyUnit)
        /\ log' = synced \o loose'
        /\ Chained(Whole(log'))
    <2>1. CASE stage = "write"
      <3>1. k \in Nat /\ (k < Len(Frames) \/ (k = Len(Frames) /\ ~torn))
        BY <2>1, BoundsAssumption DEF Kill
      <3> QED BY <1>1, <2>1, <3>1, PartWritten
    <2>2. CASE stage # "write"
      <3>1. log' = log /\ loose' = loose
        BY <1>1, <2>2 DEF Shapes
      <3> QED BY <3>1 DEF Shapes, DiskShape, ChainWhole
    <2> QED BY <2>1, <2>2
  <1> HIDE DEF part
  <1>3. Shapes'
    BY <1>1, <1>2 DEF Shapes, Stages, store
  <1>4. DiskShape'
    BY <1>1, <1>2 DEF DiskShape, ChainWhole
  <1>5. IndexSpan' /\ WindowPlace'
    BY <1>1 DEF IndexSpan, WindowPlace
  <1>6. OnVolume'
    BY <1>1 DEF OnVolume
  <1> QED BY <1>3, <1>4, <1>5, <1>6

(* What a power loss leaves of the file that has the name: the synced bytes  *)
(* and the front of the rest, which read as the front of what was there.     *)
LEMMA WhatSurvives ==
  ASSUME InductiveInv, NEW k \in Nat, NEW torn \in BOOLEAN,
         k < Len(loose) \/ (k = Len(loose) /\ ~torn)
  PROVE  LET left == synced \o PartOf(loose, k, torn) IN
         /\ left \in Seq(AnyUnit) /\ Chained(Whole(left))
         /\ ReceiptsIn(synced) \subseteq ReceiptsIn(left)
         /\ Len(Whole(left)) <= Len(Whole(log))
         /\ \A i \in 1..Len(Whole(left)) : Whole(left)[i] = Whole(log)[i]
  <1> DEFINE left == synced \o PartOf(loose, k, torn)
  <1>1. k \in Nat /\ (k < Len(loose) \/ (k = Len(loose) /\ ~torn))
    OBVIOUS
  <1>2. /\ synced \in Seq(AnyUnit) /\ loose \in Seq(AnyUnit)
        /\ log \in Seq(AnyUnit) /\ log = synced \o loose /\ Chained(Whole(log))
    BY DEF InductiveInv, Shapes, DiskShape, ChainWhole
  <1> DEFINE some == SubSeq(loose, 1, k)
             front == synced \o some
  <1>3. /\ some \in Seq(AnyUnit)
        /\ Len(some) = k
        /\ \A i \in 1..k : some[i] = loose[i]
    <2>1. k \in 0..Len(loose)
      BY <1>1, <1>2
    <2> QED BY <1>2, <2>1, FirstUnits
  <1>4. Leftover(torn) \in Seq(AnyUnit) /\ Leftover(torn) \in {<<>>, <<Torn>>}
    <2>1. Torn \in AnyUnit
      BY DEF AnyUnit
    <2> QED BY <2>1 DEF Leftover
  <1>5. PartOf(loose, k, torn) = some \o Leftover(torn)
    BY DEF PartOf
  <1> HIDE DEF some
  <1>6. /\ front \in Seq(AnyUnit)
        /\ Len(front) = Len(synced) + k
        /\ \A i \in 1..Len(synced) : front[i] = synced[i]
        /\ \A i \in 1..k : front[Len(synced) + i] = some[i]
    <2>1. synced \in Seq(AnyUnit) /\ some \in Seq(AnyUnit)
      BY <1>2, <1>3
    <2>2. /\ front \in Seq(AnyUnit)
          /\ Len(front) = Len(synced) + Len(some)
          /\ \A i \in 1..Len(synced) : front[i] = synced[i]
          /\ \A i \in 1..Len(some) : front[Len(synced) + i] = some[i]
      BY <2>1, BothPlaces
    <2> QED BY <1>3, <2>2
  <1>7. left = front \o Leftover(torn)
    <2>1. synced \in Seq(AnyUnit) /\ some \in Seq(AnyUnit) /\ Leftover(torn) \in Seq(AnyUnit)
      BY <1>2, <1>3, <1>4
    <2>2. (synced \o some) \o Leftover(torn) = synced \o (some \o Leftover(torn))
      BY <2>1, ConcatAssociative
    <2> QED BY <1>5, <2>2
  <1> HIDE DEF front, left
  <1>8. Len(front) <= Len(log) /\ \A i \in 1..Len(front) : front[i] = log[i]
    <2>1. /\ Len(log) = Len(synced) + Len(loose)
          /\ \A i \in 1..Len(synced) : log[i] = synced[i]
          /\ \A i \in 1..Len(loose) : log[Len(synced) + i] = loose[i]
      BY <1>2, BothPlaces
    <2>2. Len(front) <= Len(log)
      BY <1>1, <1>2, <1>6, <2>1
    <2>3. ASSUME NEW i \in 1..Len(front) PROVE front[i] = log[i]
      <3>1. CASE i \in 1..Len(synced)
        BY <1>6, <2>1, <3>1
      <3>2. CASE i \notin 1..Len(synced)
        <4>1. i - Len(synced) \in 1..k /\ Len(synced) + (i - Len(synced)) = i
          BY <1>1, <1>2, <1>6, <3>2
        <4>2. i - Len(synced) \in 1..Len(loose)
          BY <1>1, <1>2, <4>1
        <4> DEFINE j == i - Len(synced)
        <4>3. j \in 1..k /\ j \in 1..Len(loose) /\ Len(synced) + j = i
          BY <4>1, <4>2
        <4> HIDE DEF j
        <4>4. front[Len(synced) + j] = some[j]
          BY <1>6, <4>3, Zenon
        <4>5. some[j] = loose[j]
          BY <1>3, <4>3
        <4>6. log[Len(synced) + j] = loose[j]
          BY <2>1, <4>3, Zenon
        <4> QED BY <4>3, <4>4, <4>5, <4>6, Zenon
      <3> QED BY <3>1, <3>2
    <2> QED BY <2>2, <2>3
  <1>9. /\ Whole(log) \in Seq(AnyUnit)
        /\ Len(log) <= Len(Whole(log)) + 1
        /\ \A i \in 1..Len(Whole(log)) : Whole(log)[i] = log[i]
    BY <1>2, WholeIsAPrefix
  <1>10. ASSUME Len(front) <= Len(Whole(log))
        PROVE  /\ left \in Seq(AnyUnit) /\ Chained(Whole(left))
               /\ ReceiptsIn(synced) \subseteq ReceiptsIn(left)
               /\ Len(Whole(left)) <= Len(Whole(log))
               /\ \A i \in 1..Len(Whole(left)) : Whole(left)[i] = Whole(log)[i]
    <2>1. \A i \in 1..Len(front) : front[i] = Whole(log)[i]
      <3>1. Len(front) \in Nat /\ Len(Whole(log)) \in Nat
        BY <1>6, <1>9
      <3>2. \A i \in 1..Len(front) : i \in 1..Len(Whole(log))
        BY <1>10, <3>1
      <3> QED BY <1>8, <1>9, <3>2
    <2>2. Chained(front)
      BY <1>2, <1>6, <1>9, <1>10, <2>1, ChainedPrefix
    <2>3. Whole(left) = front
      <3>1. CASE Leftover(torn) = <<>>
        <4>1. left = front
          BY <1>6, <1>7, <3>1
        <4> QED BY <1>6, <2>2, <4>1, ChainedHasNoLeftover
      <3>2. CASE Leftover(torn) = <<Torn>>
        <4>1. Whole(front \o <<Torn>>) = front
          BY <1>6 DEF Whole
        <4> QED BY <1>7, <3>2, <4>1
      <3> QED BY <1>4, <3>1, <3>2
    <2>4. ReceiptsIn(left) = ReceiptsIn(synced) \cup ReceiptsIn(some) \cup ReceiptsIn(Leftover(torn))
      <3>1. ReceiptsIn(front \o Leftover(torn)) = ReceiptsIn(front) \cup ReceiptsIn(Leftover(torn))
        BY <1>4, <1>6, ReceiptsInBoth
      <3>2. ReceiptsIn(front) = ReceiptsIn(synced) \cup ReceiptsIn(some)
        BY <1>2, <1>3, ReceiptsInBoth DEF front
      <3> QED BY <1>7, <3>1, <3>2
    <2>5. left \in Seq(AnyUnit)
      BY <1>4, <1>6, <1>7, BothPlaces
    <2>6. /\ Chained(Whole(left)) /\ Len(Whole(left)) <= Len(Whole(log))
          /\ \A i \in 1..Len(Whole(left)) : Whole(left)[i] = Whole(log)[i]
      BY <1>10, <2>1, <2>2, <2>3, Zenon
    <2>7. ReceiptsIn(synced) \subseteq ReceiptsIn(left)
      BY <2>4
    <2> QED BY <2>5, <2>6, <2>7, Zenon
  <1>11. ASSUME Len(front) > Len(Whole(log))
        PROVE  /\ left \in Seq(AnyUnit) /\ Chained(Whole(left))
               /\ ReceiptsIn(synced) \subseteq ReceiptsIn(left)
               /\ Len(Whole(left)) <= Len(Whole(log))
               /\ \A i \in 1..Len(Whole(left)) : Whole(left)[i] = Whole(log)[i]
    <2>1. Len(front) = Len(log) /\ k = Len(loose) /\ ~torn
      <3>1. Len(Whole(log)) \in Nat /\ Len(log) \in Nat /\ Len(front) \in Nat
        BY <1>2, <1>6, <1>9
      <3>2. Len(front) = Len(log)
        BY <1>8, <1>9, <1>11, <3>1
      <3>3. Len(log) = Len(synced) + Len(loose)
        BY <1>2, BothPlaces
      <3>4. Len(synced) \in Nat /\ Len(loose) \in Nat
        BY <1>2
      <3>5. k = Len(loose)
        BY <1>1, <1>6, <3>2, <3>3, <3>4
      <3> QED BY <1>1, <3>2, <3>4, <3>5
    <2>2. Leftover(torn) = <<>>
      BY <2>1 DEF Leftover
    <2>3. left = front
      BY <1>6, <1>7, <2>2
    <2>4. front = log
      BY <1>2, <1>6, <1>8, <2>1, SeqEqual
    <2>5. ReceiptsIn(synced) \subseteq ReceiptsIn(log)
      BY <1>2, ReceiptsInBoth
    <2>6. Len(Whole(log)) <= Len(Whole(log))
      BY <1>9
    <2>7. left = log
      BY <2>3, <2>4
    <2> QED BY <1>2, <2>5, <2>6, <2>7, Zenon
  <1>12. Len(front) \in Nat /\ Len(Whole(log)) \in Nat
    BY <1>6, <1>9
  <1> QED BY <1>10, <1>11, <1>12 DEF left

(* The synced bytes and any prefix of the rest, or the file the unsettled  *)
(* rename replaced: either reads, and has what was acknowledged.           *)
LEMMA PowerLossStep ==
  ASSUME InductiveInv, NEW k \in 0..MaxId, NEW torn \in BOOLEAN, PowerLoss(k, torn)
  PROVE  InductiveInv'
  <1> USE DEF InductiveInv
  <1>1. /\ stage = "down" /\ stage' = "down"
        /\ synced' = log' /\ loose' = <<>> /\ shadow' = <<>>
        /\ k \in Nat
        /\ k < Len(loose) \/ (k = Len(loose) /\ ~torn)
        /\ UNCHANGED <<pending, batch, store, acked, nextId, clock, goneBefore>>
    BY BoundsAssumption DEF PowerLoss
  <1>2. /\ synced \in Seq(AnyUnit) /\ loose \in Seq(AnyUnit) /\ shadow \in Seq(AnyUnit)
        /\ log \in Seq(AnyUnit) /\ log = synced \o loose /\ Chained(Whole(log))
    BY DEF Shapes, DiskShape, ChainWhole
  <1>3. /\ log' \in Seq(AnyUnit) /\ gone' \in Seq(Nat)
        /\ Chained(Whole(log'))
        /\ Kept(acked, gone', log')
    <2>1. CASE log' = synced \o PartOf(loose, k, torn) /\ gone' = gone
      <3> DEFINE left == synced \o PartOf(loose, k, torn)
      <3>1. left \in Seq(AnyUnit) /\ Chained(Whole(left)) /\ ReceiptsIn(synced) \subseteq ReceiptsIn(left)
        BY <1>1, WhatSurvives
      <3> HIDE DEF left
      <3>2. log' = left
        BY <2>1 DEF left
      <3>3. Kept(acked, gone, synced)
        BY DEF OnVolume
      <3> QED BY <1>2, <2>1, <3>1, <3>2, <3>3 DEF Kept, Shapes
    <2>2. CASE shadow # <<>> /\ log' = shadow /\ gone' = goneBefore
      <3>1. Chained(shadow) /\ Kept(acked, goneBefore, shadow)
        BY <2>2 DEF OnVolume
      <3>2. Whole(shadow) = shadow
        BY <1>2, <3>1, ChainedHasNoLeftover
      <3> QED BY <1>2, <2>2, <3>1, <3>2 DEF Shapes
    <2> QED BY <2>1, <2>2 DEF PowerLoss
  <1>4. Shapes'
    BY <1>1, <1>3 DEF Shapes, store
  <1>5. DiskShape'
    <2>1. log' \o <<>> = log'
      BY <1>3
    <2> QED BY <1>1, <1>3, <2>1 DEF DiskShape, ChainWhole
  <1>6. IndexSpan' /\ WindowPlace'
    BY <1>1 DEF IndexSpan, WindowPlace
  <1>7. OnVolume'
    BY <1>1, <1>3 DEF OnVolume
  <1> QED BY <1>4, <1>5, <1>6, <1>7


(* A file that only has an unfinished record at its end has one reading.   *)
LEMMA OneReading ==
  ASSUME NEW file \in Seq(AnyUnit), Chained(Whole(file))
  PROVE  Readings(file) = {Whole(file)}
  <1>1. Whole(file) \in Seq(AnyUnit)
    BY WholeIsAPrefix
  <1>2. {i \in DOMAIN Whole(file) : Whole(file)[i] = Torn} = {}
    BY <1>1, ChainedHasNoLeftover
  <1> QED BY <1>2 DEF Readings

(* The unfinished record is at the end of what was never synced, or at the *)
(* end of a file all of which was.                                         *)
LEMMA WholeOfBoth ==
  ASSUME NEW a \in Seq(AnyUnit), NEW b \in Seq(AnyUnit), Chained(Whole(a \o b))
  PROVE  Whole(a \o b) = Whole(a) \o Whole(b)
  <1> DEFINE both == a \o b
  <1>1. /\ both \in Seq(AnyUnit)
        /\ Len(both) = Len(a) + Len(b)
        /\ \A i \in 1..Len(a) : both[i] = a[i]
        /\ \A i \in 1..Len(b) : both[Len(a) + i] = b[i]
    BY BothPlaces
  <1>2. CASE b = <<>>
    <2>1. both = a /\ Whole(b) = <<>>
      BY <1>2 DEF Whole
    <2>2. Whole(a) \in Seq(AnyUnit)
      BY WholeIsAPrefix
    <2>3. Whole(a) \o <<>> = Whole(a)
      BY <2>2, ConcatEmptySeq
    <2> QED BY <2>1, <2>3
  <1>3. CASE b # <<>>
    <2>1. Len(b) \in Nat \ {0} /\ Len(a) \in Nat
      BY <1>3
    <2> HIDE DEF both
    <2>2. both[Len(both)] = b[Len(b)] /\ both # <<>>
      <3>1. Len(b) \in 1..Len(b)
        BY <2>1
      <3> QED BY <1>1, <2>1, <3>1
    <2>3. /\ Whole(both) \in Seq(AnyUnit)
          /\ Len(both) <= Len(Whole(both)) + 1
          /\ \A i \in 1..Len(Whole(both)) : Whole(both)[i] = both[i]
      BY <1>1, WholeIsAPrefix
    <2>4. Chained(Whole(both))
      BY DEF both
    <2>5. Whole(a) = a
      <3> SUFFICES ASSUME a # <<>>, a[Len(a)] = Torn PROVE FALSE
        BY DEF Whole
      <3>1. Len(a) \in 1..Len(a) /\ Len(a) \in 1..Len(Whole(both))
        BY <1>1, <2>1, <2>3
      <3>2. Whole(both)[Len(a)] = Torn /\ Len(a) \in DOMAIN Whole(both)
        BY <1>1, <2>3, <3>1
      <3> QED BY <2>3, <2>4, <3>2, ChainedHasNoLeftover
    <2>6. CASE b[Len(b)] = Torn
      <3>1. Whole(both) = SubSeq(both, 1, Len(both) - 1) /\ Whole(b) = SubSeq(b, 1, Len(b) - 1)
        BY <1>3, <2>2, <2>6 DEF Whole
      <3>2. Len(both) - 1 \in 0..Len(both) /\ Len(b) - 1 \in 0..Len(b)
        BY <1>1, <2>1
      <3>3. /\ Whole(b) \in Seq(AnyUnit)
            /\ Len(Whole(b)) = Len(b) - 1
            /\ \A i \in 1 .. Len(b) - 1 : Whole(b)[i] = b[i]
        <4> DEFINE n == Len(b) - 1
        <4>1. n \in 0..Len(b) /\ Whole(b) = SubSeq(b, 1, n)
          BY <3>1, <3>2
        <4> HIDE DEF n
        <4>2. /\ SubSeq(b, 1, n) \in Seq(AnyUnit)
              /\ Len(SubSeq(b, 1, n)) = n
              /\ \A i \in 1..n : SubSeq(b, 1, n)[i] = b[i]
          BY <4>1, FirstUnits, Zenon
        <4>3. Whole(b) \in Seq(AnyUnit) /\ Len(Whole(b)) = n /\ \A i \in 1..n : Whole(b)[i] = b[i]
          BY <4>1, <4>2, Zenon
        <4> QED BY <4>3, Zenon DEF n
      <3>4. /\ Len(Whole(both)) = Len(both) - 1
            /\ \A i \in 1 .. Len(both) - 1 : Whole(both)[i] = both[i]
        <4> DEFINE n == Len(both) - 1
        <4>1. n \in 0..Len(both) /\ Whole(both) = SubSeq(both, 1, n) /\ both \in Seq(AnyUnit)
          BY <1>1, <3>1, <3>2
        <4> HIDE DEF n
        <4>2. /\ Len(SubSeq(both, 1, n)) = n
              /\ \A i \in 1..n : SubSeq(both, 1, n)[i] = both[i]
          BY <4>1, FirstUnits, Zenon
        <4>3. Len(Whole(both)) = n /\ \A i \in 1..n : Whole(both)[i] = both[i]
          BY <4>1, <4>2, Zenon
        <4> QED BY <4>3, Zenon DEF n
      <3>5. /\ a \o Whole(b) \in Seq(AnyUnit)
            /\ Len(a \o Whole(b)) = Len(a) + Len(Whole(b))
            /\ \A i \in 1..Len(a) : (a \o Whole(b))[i] = a[i]
            /\ \A i \in 1..Len(Whole(b)) : (a \o Whole(b))[Len(a) + i] = Whole(b)[i]
        <4>1. a \in Seq(AnyUnit) /\ Whole(b) \in Seq(AnyUnit)
          BY <3>3
        <4> QED BY <4>1, BothPlaces
      <3> DEFINE cut == a \o Whole(b)
      <3> HIDE DEF cut
      <3>6. cut \in Seq(AnyUnit) /\ Len(cut) = Len(both) - 1
        BY <1>1, <2>1, <3>3, <3>5 DEF cut
      <3>7. ASSUME NEW i \in 1 .. Len(both) - 1 PROVE Whole(both)[i] = cut[i]
        <4>1. CASE i \in 1..Len(a)
          <5>1. cut[i] = a[i]
            BY <3>5, <4>1 DEF cut
          <5>2. both[i] = a[i]
            BY <1>1, <4>1
          <5> QED BY <3>4, <5>1, <5>2
        <4>2. CASE i \notin 1..Len(a)
          <5>1. /\ i - Len(a) \in 1..Len(Whole(b)) /\ i - Len(a) \in 1..Len(b)
                /\ i - Len(a) \in 1 .. Len(b) - 1 /\ Len(a) + (i - Len(a)) = i
            BY <1>1, <2>1, <3>3, <4>2
          <5>2. cut[i] = Whole(b)[i - Len(a)]
            BY <3>5, <5>1 DEF cut
          <5>3. both[i] = b[i - Len(a)]
            BY <1>1, <5>1
          <5>4. Whole(b)[i - Len(a)] = b[i - Len(a)]
            BY <3>3, <5>1
          <5> QED BY <3>4, <5>2, <5>3, <5>4
        <4> QED BY <4>1, <4>2
      <3>8. Whole(both) = cut
        BY <2>3, <3>4, <3>6, <3>7, SeqEqual
      <3> QED BY <2>5, <3>8 DEF cut, both
    <2>7. CASE b[Len(b)] # Torn
      BY <2>2, <2>5, <2>7 DEF Whole, both
    <2> QED BY <2>6, <2>7
  <1> QED BY <1>2, <1>3

(* An opening.                                                              *)
LEMMA OpenStoreStep ==
  ASSUME InductiveInv, OpenStore
  PROVE  InductiveInv'
  <1> USE DEF InductiveInv
  <1> DEFINE file == Whole(log)
             all == IndexOf(file)
             doomed == retire(all, clock)
  <1>1. /\ log \in Seq(AnyUnit) /\ synced \in Seq(AnyUnit) /\ loose \in Seq(AnyUnit)
        /\ log = synced \o loose /\ Chained(file)
    BY DEF Shapes, DiskShape, ChainWhole
  <1>2. Readings(log) = {file}
    BY <1>1, OneReading
  <1>3. /\ stage = "down" /\ stage' = "idle"
        /\ log' = file /\ synced' = Whole(synced) /\ loose' = Whole(loose)
        /\ index' = Rest(all, Total(doomed)) /\ dropped' = doomed
        /\ head' = HeadOf(file) /\ size' = Len(file) /\ runEnd' = TrimRun(file)
        /\ UNCHANGED <<shadow, pending, batch, acked, nextId, clock, gone, goneBefore>>
    BY <1>2 DEF OpenStore, outside
  <1>4. file \in Seq(AnyUnit)
    BY <1>1, WholeIsAPrefix
  <1>5. /\ all \in Seq([id : Nat, iat : Nat, at : Nat])
        /\ \A i \in DOMAIN all : all[i].at \in TrimRun(file) + 1 .. Len(file)
        /\ HeadOf(file) \in Nat
        /\ TrimRun(file) \in 0..Len(file)
        /\ \A i \in 1..TrimRun(file) : IsTrim(file[i])
        /\ \A i \in TrimRun(file) + 1 .. Len(file) : IsReceipt(file[i])
    BY <1>1, <1>4, IndexOfSpans
  <1> HIDE DEF file, all
  <1>6. doomed \in [byAge : Int, byCount : Int] /\ Total(doomed) \in 0..Len(all)
    BY <1>5, RetiresAtMostAll
  <1> HIDE DEF doomed
  <1>7. /\ index' \in Seq([id : Nat, iat : Nat, at : Nat])
        /\ \A i \in DOMAIN index' : \E j \in DOMAIN all : index'[i] = all[j]
    BY <1>3, <1>5, <1>6, RestOfAnIndex
  <1>8. Whole(synced) \in Seq(AnyUnit) /\ Whole(loose) \in Seq(AnyUnit)
    BY <1>1, WholeIsAPrefix
  <1>9. Shapes'
    BY <1>3, <1>4, <1>5, <1>6, <1>7, <1>8 DEF Shapes, Stages
  <1>10. DiskShape'
    <2>1. file = Whole(synced) \o Whole(loose)
      BY <1>1, WholeOfBoth DEF file
    <2>2. Whole(file) = file
      BY <1>1, <1>4, ChainedHasNoLeftover
    <2> QED BY <1>1, <1>3, <2>1, <2>2 DEF DiskShape, ChainWhole
  <1>11. IndexSpan'
    <2>1. \A i \in DOMAIN index' : index'[i].at \in TrimRun(file) + 1 .. Len(file)
      BY <1>5, <1>7
    <2>2. TrimRun(file) <= Len(file)
      BY <1>4, <1>5
    <2>3. head' = ExpectedPrev(file, Len(file) + 1)
      BY <1>3 DEF HeadOf
    <2>4. /\ \A i \in 1..runEnd' : IsTrim(log'[i])
          /\ \A i \in runEnd' + 1 .. size' : IsReceipt(log'[i])
          /\ runEnd' <= size' /\ size' <= Len(log')
          /\ head' = ExpectedPrev(log', size' + 1)
          /\ \A i \in DOMAIN index' : index'[i].at \in runEnd' + 1 .. size'
      BY <1>3, <1>4, <1>5, <2>1, <2>2, <2>3
    <2> QED BY <2>4 DEF IndexSpan
  <1>12. WindowPlace'
    BY <1>3 DEF WindowPlace
  <1>13. OnVolume'
    <2>1. ReceiptsIn(Whole(synced)) = ReceiptsIn(synced)
      BY <1>1, WholeIsAPrefix
    <2> QED BY <1>3, <2>1 DEF OnVolume, Kept
  <1> QED BY <1>9, <1>10, <1>11, <1>12, <1>13

(* A rescan of a chained file cannot find it broken.                       *)
LEMMA RescanReads ==
  ASSUME InductiveInv, RescanFails
  PROVE  "rescan" \in Faults
  <1>1. log \in Seq(AnyUnit) /\ Chained(log)
    BY DEF InductiveInv, Shapes, DiskShape, RescanFails
  <1>2. Readings(log) = {log}
    BY <1>1, ChainedHasNoLeftover
  <1> QED BY <1>2 DEF RescanFails, Fault

(* And every step keeps it, where no rollback and no rescan is refused.     *)
LEMMA NextInductive ==
  ASSUME Faults \cap {"cut", "rescan"} = {}, InductiveInv, [Next]_vars
  PROVE  InductiveInv'
  <1>1. CASE Tick \/ (\E iat \in {clock - 1, clock} \cap Nat : Put(iat)) \/ UNCHANGED vars
    BY <1>1, QueueStep
  <1>2. CASE Pump
    BY <1>2, TakeWindowStep, WriteWindowStep, SyncWindowStep, RollbackStep, FileWindowStep,
       AnsweredOrRefusedStep, CompactRenameStep, CompactRescanStep, RescanReads DEF Pump
  <1>3. CASE Refusal
    <2>1. ~RollbackRefused
      BY DEF RollbackRefused, Fault
    <2> QED BY <1>3, <2>1, WriteFallsShortStep, SyncRefusedStep, AnsweredOrRefusedStep DEF Refusal
  <1>4. CASE Restart
    BY <1>4, KillStep, PowerLossStep, OpenStoreStep DEF Restart
  <1> QED BY <1>1, <1>2, <1>3, <1>4 DEF Next

(* The inductive invariant holds of every run in which no rollback and no  *)
(* rescan is refused (answerWindow, compact, openFileReceiptStore).        *)
THEOREM StoreConsistent ==
  ASSUME Faults \cap {"cut", "rescan"} = {}
  PROVE  Spec => []InductiveInv
  <1>1. InductiveInv /\ [Next]_vars => InductiveInv'
    BY NextInductive
  <1> QED BY InitInductive, <1>1, PTL DEF Spec

(* What the one sync of a window promises: a receipt whose put resolved is *)
(* on file, through every refused write or sync, kill, power loss and      *)
(* compaction, until a compaction takes it (store.ts, writeWindow).        *)
THEOREM AcknowledgedStays ==
  ASSUME Faults \cap {"cut", "rescan"} = {}
  PROVE  Spec => []AckedOnFile
  <1>1. InductiveInv => AckedOnFile
    <2> SUFFICES ASSUME InductiveInv PROVE AckedOnFile
      OBVIOUS
    <2>1. ReceiptsIn(log) = ReceiptsIn(synced) \cup ReceiptsIn(loose)
      BY ReceiptsInBoth DEF InductiveInv, Shapes, DiskShape
    <2> QED BY <2>1 DEF InductiveInv, OnVolume, Kept, SetOf, AckedOnFile
  <1> QED BY StoreConsistent, <1>1, PTL

(* Every file the store leaves behind reads as one chain at the next       *)
(* opening (store.ts, parseRecords and compact).                           *)
THEOREM FileAlwaysReads ==
  ASSUME Faults \cap {"cut", "rescan"} = {}
  PROVE  Spec => []ChainWhole
  <1>1. InductiveInv => ChainWhole
    BY DEF InductiveInv, DiskShape
  <1> QED BY StoreConsistent, <1>1, PTL

-----------------------------------------------------------------------------
(* Chains of ids: what they hold, and what stays in order.                  *)

(* A prefix agrees place by place.                                          *)
LEMMA PrefixPlaces ==
  ASSUME NEW S, NEW c \in Seq(S), NEW d \in Seq(S)
  PROVE  IsPrefix(c, d) <=> Len(c) <= Len(d) /\ \A i \in 1..Len(c) : c[i] = d[i]
  <1>1. SubSeq(c, 1, Len(c)) = c
    OBVIOUS
  <1>2. ASSUME Len(c) <= Len(d)
        PROVE  SubSeq(d, 1, Len(c)) = c <=> \A i \in 1..Len(c) : c[i] = d[i]
    <2>1. Len(c) \in 0..Len(d)
      BY <1>2
    <2>2. /\ SubSeq(d, 1, Len(c)) \in Seq(S)
          /\ Len(SubSeq(d, 1, Len(c))) = Len(c)
          /\ \A i \in 1..Len(c) : SubSeq(d, 1, Len(c))[i] = d[i]
      BY <2>1, FirstUnits
    <2>3. (\A i \in 1..Len(c) : c[i] = d[i]) => SubSeq(d, 1, Len(c)) = c
      BY <2>2, SeqEqual
    <2> QED BY <2>2, <2>3
  <1> QED BY <1>1, <1>2 DEF IsPrefix

(* What a prefix holds, and that it ascends when the whole does.            *)
LEMMA PrefixKeeps ==
  ASSUME NEW c \in Seq(Nat), NEW d \in Seq(Nat), IsPrefix(c, d)
  PROVE  SetOf(c) \subseteq SetOf(d) /\ (Ascends(d) => Ascends(c))
  <1>1. /\ DOMAIN c = 1..Len(c) /\ DOMAIN d = 1..Len(d)
        /\ \A i \in DOMAIN c : i \in DOMAIN d /\ c[i] = d[i]
    BY PrefixPlaces
  <1> QED BY <1>1 DEF SetOf, Ascends

(* Prefixes behind a common front, and of prefixes.                         *)
LEMMA PrefixOfBoth ==
  ASSUME NEW S, NEW a \in Seq(S), NEW b \in Seq(S), NEW c \in Seq(S)
  PROVE  /\ IsPrefix(a, a \o b)
         /\ IsPrefix(b, c) => IsPrefix(a \o b, a \o c)
         /\ IsPrefix(a, b) /\ IsPrefix(b, c) => IsPrefix(a, c)
         /\ IsPrefix(a, a)
  <1> DEFINE ab == a \o b
             ac == a \o c
  <1>1. /\ ab \in Seq(S) /\ Len(ab) = Len(a) + Len(b)
        /\ \A i \in 1..Len(a) : ab[i] = a[i]
        /\ \A i \in 1..Len(b) : ab[Len(a) + i] = b[i]
    BY BothPlaces
  <1>2. /\ ac \in Seq(S) /\ Len(ac) = Len(a) + Len(c)
        /\ \A i \in 1..Len(a) : ac[i] = a[i]
        /\ \A i \in 1..Len(c) : ac[Len(a) + i] = c[i]
    BY BothPlaces
  <1> HIDE DEF ab, ac
  <1>3. Len(a) \in Nat /\ Len(b) \in Nat /\ Len(c) \in Nat
    OBVIOUS
  <1>4. IsPrefix(a, ab)
    <2>1. Len(a) <= Len(ab)
      BY <1>1, <1>3
    <2> QED BY <1>1, <2>1, PrefixPlaces
  <1>5. ASSUME IsPrefix(b, c) PROVE IsPrefix(ab, ac)
    <2>1. Len(b) <= Len(c) /\ \A i \in 1..Len(b) : b[i] = c[i]
      BY <1>5, PrefixPlaces
    <2>2. ASSUME NEW i \in 1..Len(ab) PROVE ab[i] = ac[i]
      <3>1. CASE i \in 1..Len(a)
        BY <1>1, <1>2, <3>1
      <3>2. CASE i \notin 1..Len(a)
        <4> DEFINE j == i - Len(a)
        <4>1. j \in 1..Len(b) /\ j \in 1..Len(c) /\ Len(a) + j = i
          BY <1>1, <1>3, <2>1, <3>2
        <4> HIDE DEF j
        <4>2. ab[Len(a) + j] = b[j] /\ ac[Len(a) + j] = c[j]
          BY <1>1, <1>2, <4>1, Zenon
        <4> QED BY <2>1, <4>1, <4>2, Zenon
      <3> QED BY <3>1, <3>2
    <2>3. Len(ab) <= Len(ac)
      BY <1>1, <1>2, <1>3, <2>1
    <2> QED BY <1>1, <1>2, <2>2, <2>3, PrefixPlaces
  <1>6. ASSUME IsPrefix(a, b), IsPrefix(b, c) PROVE IsPrefix(a, c)
    <2>1. /\ Len(a) <= Len(b) /\ \A i \in 1..Len(a) : a[i] = b[i]
          /\ Len(b) <= Len(c) /\ \A i \in 1..Len(b) : b[i] = c[i]
      BY <1>6, PrefixPlaces
    <2>2. Len(a) <= Len(c) /\ \A i \in 1..Len(a) : a[i] = c[i]
      BY <1>3, <2>1
    <2> QED BY <2>2, PrefixPlaces
  <1>7. IsPrefix(a, a)
    BY PrefixPlaces
  <1> QED BY <1>4, <1>5, <1>6, <1>7 DEF ab, ac

(* Two ascending sequences, the second above the first, ascend as one.      *)
LEMMA AscendsOver ==
  ASSUME NEW a \in Seq(Nat), NEW b \in Seq(Nat), Ascends(a), Ascends(b),
         Before(SetOf(a), SetOf(b))
  PROVE  Ascends(a \o b)
  <1> DEFINE ab == a \o b
  <1>1. /\ ab \in Seq(Nat) /\ Len(ab) = Len(a) + Len(b)
        /\ \A i \in 1..Len(a) : ab[i] = a[i]
        /\ \A i \in 1..Len(b) : ab[Len(a) + i] = b[i]
        /\ Len(a) \in Nat /\ Len(b) \in Nat
    BY BothPlaces
  <1> HIDE DEF ab
  <1>2. \A i \in 1..Len(ab) : \/ i \in 1..Len(a) /\ ab[i] = a[i]
                              \/ \E j \in 1..Len(b) : i = Len(a) + j /\ ab[i] = b[j]
    <2> TAKE i \in 1..Len(ab)
    <2>1. CASE i \in 1..Len(a)
      BY <1>1, <2>1
    <2>2. CASE i \notin 1..Len(a)
      <3> DEFINE j == i - Len(a)
      <3>1. j \in 1..Len(b) /\ Len(a) + j = i
        BY <1>1, <2>2
      <3> HIDE DEF j
      <3> QED BY <1>1, <3>1, Zenon
    <2> QED BY <2>1, <2>2
  <1>3. ASSUME NEW i \in 1..Len(ab), NEW j \in 1..Len(ab), i < j PROVE ab[i] < ab[j]
    <2>1. CASE j \in 1..Len(a)
      <3>1. i \in 1..Len(a)
        BY <1>1, <1>3, <2>1
      <3>2. i \in DOMAIN a /\ j \in DOMAIN a
        BY <2>1, <3>1
      <3>3. a[i] < a[j]
        BY <1>3, <3>2 DEF Ascends
      <3> QED BY <1>1, <2>1, <3>1, <3>3
    <2>2. CASE j \notin 1..Len(a)
      <3>1. PICK l \in 1..Len(b) : j = Len(a) + l /\ ab[j] = b[l]
        BY <1>2, <2>2
      <3>2. l \in DOMAIN b /\ b[l] \in SetOf(b)
        BY DEF SetOf
      <3>3. CASE i \in 1..Len(a)
        <4>1. ab[i] = a[i] /\ i \in DOMAIN a
          <5>1. ab[i] = a[i]
            BY <1>1, <3>3
          <5>2. i \in DOMAIN a
            BY <3>3
          <5> QED BY <5>1, <5>2
        <4>2. a[i] \in SetOf(a)
          BY <4>1 DEF SetOf
        <4> QED BY <3>1, <3>2, <4>1, <4>2 DEF Before
      <3>4. CASE i \notin 1..Len(a)
        <4>1. PICK k \in 1..Len(b) : i = Len(a) + k /\ ab[i] = b[k]
          BY <1>2, <3>4
        <4>2. k < l /\ k \in DOMAIN b
          BY <1>1, <1>3, <3>1, <4>1
        <4> QED BY <3>1, <3>2, <4>1, <4>2 DEF Ascends
      <3> QED BY <3>3, <3>4
    <2> QED BY <2>1, <2>2
  <1>4. DOMAIN ab = 1..Len(ab)
    BY <1>1
  <1> QED BY <1>3, <1>4 DEF Ascends, ab

(* The ids of records, in their order.                                      *)
LEMMA IdsShape ==
  ASSUME NEW seq, NEW n \in Nat, DOMAIN seq = 1..n, \A i \in 1..n : seq[i].id \in Nat
  PROVE  /\ Ids(seq) \in Seq(Nat) /\ Len(Ids(seq)) = n
         /\ \A i \in 1..n : Ids(seq)[i] = seq[i].id
         /\ SetOf(Ids(seq)) = IdsOf(seq)
  <1>1. Ids(seq) \in [1..n -> Nat]
    BY DEF Ids
  <1>2. Ids(seq) \in Seq(Nat) /\ Len(Ids(seq)) = n /\ DOMAIN Ids(seq) = 1..n
    BY <1>1, TupleIsASeq
  <1>3. \A i \in 1..n : Ids(seq)[i] = seq[i].id
    BY DEF Ids
  <1>4. SetOf(Ids(seq)) = IdsOf(seq)
    BY <1>2, <1>3 DEF SetOf, IdsOf
  <1> QED BY <1>2, <1>3, <1>4

-----------------------------------------------------------------------------
(* The chain of a file: its trim run, and what stands behind it.            *)

(* The trim run is the only run of that kind.                               *)
LEMMA TrimRunIs ==
  ASSUME NEW file \in Seq(AnyUnit), NEW n \in 0..Len(file),
         \A i \in 1..n : IsTrim(file[i]), n < Len(file) => ~IsTrim(file[n + 1])
  PROVE  TrimRun(file) = n
  <1> DEFINE r == TrimRun(file)
  <1>1. /\ r \in 0..Len(file) /\ Len(file) \in Nat
        /\ \A i \in 1..r : IsTrim(file[i])
        /\ r < Len(file) => ~IsTrim(file[r + 1])
    BY TrimRunIsThere
  <1> HIDE DEF r
  <1>2. ~(r < n)
    <2> SUFFICES ASSUME r < n PROVE FALSE
      OBVIOUS
    <2>1. r + 1 \in 1..n /\ r < Len(file)
      BY <1>1
    <2> QED BY <1>1, <2>1
  <1>3. ~(n < r)
    <2> SUFFICES ASSUME n < r PROVE FALSE
      OBVIOUS
    <2>1. n + 1 \in 1..r /\ n < Len(file)
      BY <1>1
    <2> QED BY <1>1, <2>1
  <1> QED BY <1>1, <1>2, <1>3 DEF r

(* The ids behind the trim run, place by place.                             *)
LEMMA ChainPlaces ==
  ASSUME NEW file \in Seq(AnyUnit)
  PROVE  /\ ChainOf(file) \in Seq(Nat)
         /\ TrimRun(file) \in 0..Len(file)
         /\ Len(ChainOf(file)) = Len(file) - TrimRun(file)
         /\ \A k \in 1 .. Len(file) - TrimRun(file) :
               ChainOf(file)[k] = UnitId(file[TrimRun(file) + k])
  <1> DEFINE r == TrimRun(file)
  <1>1. r \in 0..Len(file) /\ Len(file) \in Nat
    BY TrimRunIsThere
  <1>2. ChainOf(file) = [k \in 1 .. Len(file) - r |-> UnitId(file[r + k])]
    BY DEF ChainOf
  <1> HIDE DEF r
  <1>3. \A k \in 1 .. Len(file) - r : UnitId(file[r + k]) \in Nat
    <2> TAKE k \in 1 .. Len(file) - r
    <2>1. file[r + k] \in AnyUnit
      BY <1>1
    <2> QED BY <2>1, UnitKinds DEF UnitId, Origin
  <1>4. ChainOf(file) \in [1 .. Len(file) - r -> Nat] /\ Len(file) - r \in Nat
    <2>1. Len(file) - r \in Nat
      BY <1>1
    <2>2. ChainOf(file) \in [1 .. Len(file) - r -> Nat]
      BY <1>2, <1>3, Zenon
    <2> QED BY <2>1, <2>2
  <1>5. ChainOf(file) \in Seq(Nat) /\ Len(ChainOf(file)) = Len(file) - r
    BY <1>4, TupleIsASeq
  <1> QED BY <1>1, <1>2, <1>5 DEF r

(* Records written behind a chained file are at the end of its chain.       *)
LEMMA ChainOfBoth ==
  ASSUME NEW a \in Seq(AnyUnit), Chained(a),
         NEW b \in Seq(AnyUnit), \A i \in 1..Len(b) : IsReceipt(b[i])
  PROVE  ChainOf(a \o b) = ChainOf(a) \o Ids(b)
  <1> DEFINE ab == a \o b
             r == TrimRun(a)
             left == ChainOf(ab)
             right == ChainOf(a) \o Ids(b)
  <1>1. /\ ab \in Seq(AnyUnit) /\ Len(ab) = Len(a) + Len(b)
        /\ \A i \in 1..Len(a) : ab[i] = a[i]
        /\ \A i \in 1..Len(b) : ab[Len(a) + i] = b[i]
    BY BothPlaces
  <1>2. /\ r \in 0..Len(a) /\ Len(a) \in Nat /\ Len(b) \in Nat
        /\ \A i \in 1..r : IsTrim(a[i])
        /\ r < Len(a) => ~IsTrim(a[r + 1])
    BY TrimRunIsThere
  <1>3. /\ ChainOf(a) \in Seq(Nat) /\ Len(ChainOf(a)) = Len(a) - r
        /\ \A k \in 1 .. Len(a) - r : ChainOf(a)[k] = UnitId(a[r + k])
    BY ChainPlaces
  <1>4. \A i \in 1..Len(b) : b[i].id \in Nat /\ UnitId(b[i]) = b[i].id
    <2> TAKE i \in 1..Len(b)
    <2>1. b[i] \in AnyUnit /\ IsReceipt(b[i])
      OBVIOUS
    <2> QED BY <2>1, UnitKinds DEF UnitId
  <1>5. /\ Ids(b) \in Seq(Nat) /\ Len(Ids(b)) = Len(b)
        /\ \A i \in 1..Len(b) : Ids(b)[i] = b[i].id
    <2>1. DOMAIN b = 1..Len(b)
      OBVIOUS
    <2> QED BY <1>2, <1>4, <2>1, IdsShape
  <1> HIDE DEF ab, r
  <1>6. TrimRun(ab) = r
    <2>1. r \in 0..Len(ab)
      BY <1>1, <1>2
    <2>2. \A i \in 1..r : IsTrim(ab[i])
      BY <1>1, <1>2
    <2>3. ASSUME r < Len(ab) PROVE ~IsTrim(ab[r + 1])
      <3>1. CASE r < Len(a)
        <4>1. r + 1 \in 1..Len(a)
          BY <1>2, <3>1
        <4> QED BY <1>1, <1>2, <3>1, <4>1
      <3>2. CASE r = Len(a)
        <4>1. 1 \in 1..Len(b)
          BY <1>1, <1>2, <2>3, <3>2
        <4>2. ab[r + 1] = b[1] /\ IsReceipt(b[1])
          BY <1>1, <3>2, <4>1
        <4> QED BY <4>2 DEF IsReceipt, IsTrim
      <3> QED BY <1>2, <3>1, <3>2
    <2> QED BY <1>1, <2>1, <2>2, <2>3, TrimRunIs
  <1>7. /\ left \in Seq(Nat) /\ Len(left) = Len(ab) - r
        /\ \A k \in 1 .. Len(ab) - r : left[k] = UnitId(ab[r + k])
    BY <1>1, <1>6, ChainPlaces
  <1>8. /\ right \in Seq(Nat) /\ Len(right) = Len(ChainOf(a)) + Len(Ids(b))
        /\ \A i \in 1..Len(ChainOf(a)) : right[i] = ChainOf(a)[i]
        /\ \A i \in 1..Len(Ids(b)) : right[Len(ChainOf(a)) + i] = Ids(b)[i]
    <2>1. ChainOf(a) \in Seq(Nat) /\ Ids(b) \in Seq(Nat)
      BY <1>3, <1>5
    <2> QED BY <2>1, BothPlaces
  <1> HIDE DEF left, right
  <1>9. Len(left) = Len(right)
    BY <1>1, <1>2, <1>3, <1>5, <1>7, <1>8
  <1>10. ASSUME NEW k \in 1..Len(left) PROVE left[k] = right[k]
    <2>1. left[k] = UnitId(ab[r + k])
      BY <1>7
    <2>2. CASE k <= Len(a) - r
      <3>1. k \in 1 .. Len(a) - r /\ r + k \in 1..Len(a)
        BY <1>2, <1>7, <2>2
      <3>2. ab[r + k] = a[r + k] /\ right[k] = UnitId(a[r + k])
        BY <1>1, <1>3, <1>8, <3>1
      <3> QED BY <2>1, <3>2
    <2>3. CASE k > Len(a) - r
      <3> DEFINE j == k - (Len(a) - r)
      <3>1. j \in 1..Len(b) /\ r + k = Len(a) + j /\ k = Len(ChainOf(a)) + j
        BY <1>1, <1>2, <1>3, <1>7, <2>3
      <3> HIDE DEF j
      <3>2. ab[Len(a) + j] = b[j]
        BY <1>1, <3>1
      <3>3. right[Len(ChainOf(a)) + j] = Ids(b)[j]
        BY <1>5, <1>8, <3>1
      <3>4. Ids(b)[j] = b[j].id /\ UnitId(b[j]) = b[j].id
        BY <1>4, <1>5, <3>1
      <3> QED BY <2>1, <3>1, <3>2, <3>3, <3>4
    <2> QED BY <1>2, <1>7, <2>2, <2>3
  <1>11. left = right
    BY <1>7, <1>8, <1>9, <1>10, SeqEqual
  <1> QED BY <1>11 DEF left, right, ab

(* A file that agrees with a chained one up to its own length holds the     *)
(* front of its chain.                                                      *)
LEMMA ChainOfPrefix ==
  ASSUME NEW file \in Seq(AnyUnit), Chained(file),
         NEW part \in Seq(AnyUnit), Len(part) <= Len(file),
         \A i \in 1..Len(part) : part[i] = file[i]
  PROVE  IsPrefix(ChainOf(part), ChainOf(file))
  <1> DEFINE r == TrimRun(file)
             q == TrimRun(part)
             c == ChainOf(part)
             d == ChainOf(file)
  <1>1. /\ r \in 0..Len(file) /\ Len(file) \in Nat /\ Len(part) \in Nat
        /\ \A i \in 1..r : IsTrim(file[i])
        /\ r < Len(file) => ~IsTrim(file[r + 1])
    BY TrimRunIsThere
  <1>2. /\ c \in Seq(Nat) /\ Len(c) = Len(part) - q /\ q \in 0..Len(part)
        /\ \A k \in 1 .. Len(part) - q : c[k] = UnitId(part[q + k])
    BY ChainPlaces
  <1>3. /\ d \in Seq(Nat) /\ Len(d) = Len(file) - r
        /\ \A k \in 1 .. Len(file) - r : d[k] = UnitId(file[r + k])
    BY ChainPlaces
  <1>4. CASE Len(part) <= r
    <2>1. q = Len(part)
      <3>1. \A i \in 1..Len(part) : IsTrim(part[i])
        BY <1>1, <1>4
      <3>2. Len(part) \in 0..Len(part)
        BY <1>1
      <3> HIDE DEF r, c, d
      <3> QED BY <1>1, <3>1, <3>2, TrimRunIs
    <2> HIDE DEF q, r, c, d
    <2>2. Len(c) = 0 /\ Len(c) <= Len(d)
      BY <1>1, <1>2, <1>3, <2>1
    <2>3. \A i \in 1..Len(c) : c[i] = d[i]
      BY <2>2
    <2>4. IsPrefix(c, d)
      BY <1>2, <1>3, <2>2, <2>3, PrefixPlaces
    <2> QED BY <2>4 DEF c, d
  <1>5. CASE Len(part) > r
    <2>1. q = r
      <3>1. r \in 0..Len(part) /\ r + 1 \in 1..Len(part) /\ r < Len(file)
        BY <1>1, <1>5
      <3>2. (\A i \in 1..r : IsTrim(part[i])) /\ ~IsTrim(part[r + 1])
        <4>1. \A i \in 1..r : i \in 1..Len(part)
          BY <1>1, <3>1
        <4>2. \A i \in 1..r : IsTrim(part[i])
          BY <1>1, <4>1
        <4>3. part[r + 1] = file[r + 1] /\ ~IsTrim(file[r + 1])
          BY <1>1, <3>1
        <4> HIDE DEF r
        <4> QED BY <4>2, <4>3
      <3> HIDE DEF r, c, d
      <3> QED BY <3>1, <3>2, TrimRunIs
    <2> HIDE DEF q, r, c, d
    <2>2. Len(c) <= Len(d) /\ Len(c) = Len(part) - r
      BY <1>1, <1>2, <1>3, <2>1
    <2>3. ASSUME NEW k \in 1..Len(c) PROVE c[k] = d[k]
      <3>1. /\ k \in 1 .. Len(part) - q /\ k \in 1 .. Len(file) - r
            /\ r + k \in 1..Len(part) /\ q + k = r + k
        BY <1>1, <1>2, <2>1, <2>2
      <3> QED BY <1>2, <1>3, <3>1
    <2>4. IsPrefix(c, d)
      BY <1>2, <1>3, <2>2, <2>3, PrefixPlaces
    <2> QED BY <2>4 DEF c, d
  <1> QED BY <1>1, <1>4, <1>5

(* A chain holds the receipts of its file and nothing else.                 *)
LEMMA ChainIsTheReceipts ==
  ASSUME NEW file \in Seq(AnyUnit), Chained(file)
  PROVE  SetOf(ChainOf(file)) = ReceiptsIn(file)
  <1> DEFINE r == TrimRun(file)
  <1>1. /\ ChainOf(file) \in Seq(Nat) /\ r \in 0..Len(file) /\ Len(file) \in Nat
        /\ Len(ChainOf(file)) = Len(file) - r
        /\ \A k \in 1 .. Len(file) - r : ChainOf(file)[k] = UnitId(file[r + k])
        /\ \A i \in r + 1 .. Len(file) : IsReceipt(file[i])
    BY ChainPlaces, ReceiptsBehindTheRun
  <1> HIDE DEF r
  <1>2. ASSUME NEW k \in DOMAIN ChainOf(file) PROVE ChainOf(file)[k] \in ReceiptsIn(file)
    <2>1. k \in 1 .. Len(file) - r /\ r + k \in r + 1 .. Len(file) /\ r + k \in DOMAIN file
      BY <1>1
    <2>2. ChainOf(file)[k] = file[r + k].id /\ IsReceipt(file[r + k])
      BY <1>1, <2>1 DEF UnitId
    <2> QED BY <2>1, <2>2 DEF ReceiptsIn
  <1>3. SetOf(ChainOf(file)) \subseteq ReceiptsIn(file)
    BY <1>2 DEF SetOf
  <1> QED BY <1>3, ChainHoldsTheReceipts

-----------------------------------------------------------------------------
(* The store's chain from one step to the next.                             *)

(* The chain of a file behind what compactions took.                        *)
LEMMA WholeChain ==
  ASSUME NEW file \in Seq(AnyUnit), Chained(Whole(file)), NEW taken \in Seq(Nat)
  PROVE  /\ Whole(file) \in Seq(AnyUnit) /\ ChainOf(Whole(file)) \in Seq(Nat)
         /\ taken \o ChainOf(Whole(file)) \in Seq(Nat)
         /\ SetOf(taken \o ChainOf(Whole(file))) = SetOf(taken) \cup ReceiptsIn(file)
         /\ Len(taken \o ChainOf(Whole(file))) = Len(taken) + Len(ChainOf(Whole(file)))
  <1> DEFINE whole == Whole(file)
             chain == ChainOf(whole)
  <1>1. whole \in Seq(AnyUnit) /\ ReceiptsIn(whole) = ReceiptsIn(file)
    BY WholeIsAPrefix
  <1>2. chain \in Seq(Nat) /\ SetOf(chain) = ReceiptsIn(whole)
    <2>1. Chained(whole)
      OBVIOUS
    <2> HIDE DEF whole
    <2> QED BY <1>1, <2>1, ChainPlaces, ChainIsTheReceipts
  <1> HIDE DEF chain
  <1>3. taken \o chain \in Seq(Nat) /\ Len(taken \o chain) = Len(taken) + Len(chain)
    BY <1>2, BothPlaces
  <1>4. SetOf(taken \o chain) = SetOf(taken) \cup SetOf(chain)
    BY <1>2, SetOfBoth
  <1> QED BY <1>1, <1>2, <1>3, <1>4 DEF chain

(* What the invariants say of the chain, in one place.                     *)
LEMMA ChainNow ==
  ASSUME InductiveInv
  PROVE  /\ log \in Seq(AnyUnit) /\ Chained(Whole(log)) /\ Whole(log) \in Seq(AnyUnit)
         /\ gone \in Seq(Nat) /\ goneBefore \in Seq(Nat) /\ shadow \in Seq(AnyUnit)
         /\ ChainOf(Whole(log)) \in Seq(Nat) /\ Chain \in Seq(Nat)
         /\ SetOf(Chain) = SetOf(gone) \cup ReceiptsIn(log)
         /\ Len(Chain) = Len(gone) + Len(ChainOf(Whole(log)))
         /\ stage \notin {"down", "rollback"} => Whole(log) = log /\ Chained(log)
         /\ batch \in Seq(Appends) /\ pending \in Seq(Appends)
  <1>1. /\ log \in Seq(AnyUnit) /\ Chained(Whole(log)) /\ gone \in Seq(Nat)
        /\ goneBefore \in Seq(Nat) /\ shadow \in Seq(AnyUnit)
        /\ batch \in Seq(Appends) /\ pending \in Seq(Appends)
        /\ stage \notin {"down", "rollback"} => Chained(log)
    BY DEF InductiveInv, Shapes, DiskShape, ChainWhole
  <1>2. stage \notin {"down", "rollback"} => Whole(log) = log
    BY <1>1, ChainedHasNoLeftover
  <1> QED BY <1>1, <1>2, WholeChain DEF Chain

(* The ids of appends, in their order.                                      *)
LEMMA IdsOfAppends ==
  ASSUME NEW seq \in Seq(Appends)
  PROVE  /\ Ids(seq) \in Seq(Nat) /\ Len(Ids(seq)) = Len(seq)
         /\ \A i \in 1..Len(seq) : Ids(seq)[i] = seq[i].id
         /\ SetOf(Ids(seq)) = IdsOf(seq)
         /\ IdsOf(seq) \subseteq 1..MaxId
  <1>1. DOMAIN seq = 1..Len(seq) /\ Len(seq) \in Nat
    OBVIOUS
  <1>2. \A i \in 1..Len(seq) : seq[i].id \in 1..MaxId
    <2> TAKE i \in 1..Len(seq)
    <2>1. seq[i] \in Appends
      OBVIOUS
    <2> QED BY <2>1 DEF Appends
  <1>3. \A i \in 1..Len(seq) : seq[i].id \in Nat
    BY <1>2, BoundsAssumption
  <1>4. IdsOf(seq) \subseteq 1..MaxId
    BY <1>1, <1>2 DEF IdsOf
  <1> QED BY <1>1, <1>3, <1>4, IdsShape

(* Nothing is in line of itself.                                            *)
LEMMA NoIds == IdsOf(<<>>) = {} /\ SetOf(<<>>) = {} /\ Ascends(<<>>) /\ Ids(<<>>) = <<>>
  BY DEF IdsOf, SetOf, Ascends, Ids

(* The file as it is, or one whose end was lost: ids stay in line, whether  *)
(* or not the window and what waits are let go.                            *)
LEMMA LineStays ==
  ASSUME InductiveInv, InLine, Chain' \in Seq(Nat), IsPrefix(Chain', Chain),
         nextId' = nextId, pending' \in {pending, <<>>}, batch' \in {batch, <<>>},
         \/ refused' = refused
         \/ /\ refused' = refused \cup IdsOf(batch) /\ batch' = <<>>
            /\ Before(SetOf(Chain'), IdsOf(batch)),
         stage' \in {"write", "sync", "rollback"} =>
            /\ stage \in {"write", "sync", "rollback"} /\ size' = size /\ gone' = gone
            /\ SubSeq(log', 1, size) = SubSeq(log, 1, size)
  PROVE  InLine'
  <1>1. Chain \in Seq(Nat)
    BY ChainNow
  <1>2. SetOf(Chain') \subseteq SetOf(Chain) /\ Ascends(Chain')
    BY <1>1, PrefixKeeps DEF InLine, ArrivalOrder
  <1>3. IdsOf(batch') \subseteq IdsOf(batch) /\ IdsOf(pending') \subseteq IdsOf(pending)
    BY NoIds
  <1>4. Ascends(Ids(batch')) /\ Ascends(Ids(pending'))
    BY NoIds DEF InLine
  <1>5. SetOf(Chain') \cup IdsOf(batch') \cup IdsOf(pending') \cup refused' \subseteq 1 .. nextId' - 1
    BY <1>2, <1>3 DEF InLine
  <1>6. Before(SetOf(Chain') \cup IdsOf(batch'), IdsOf(pending'))
    BY <1>2, <1>3 DEF InLine, Before
  <1>7. stage' \in {"write", "sync", "rollback"} =>
           Before(SetOf(gone' \o ChainOf(SubSeq(log', 1, size'))), IdsOf(batch'))
    BY <1>3 DEF InLine, Before
  <1>8. refused' \cap (SetOf(Chain') \cup IdsOf(batch') \cup IdsOf(pending')) = {}
    <2>1. refused \cap (SetOf(Chain') \cup IdsOf(batch') \cup IdsOf(pending')) = {}
      BY <1>2, <1>3 DEF InLine
    <2>2. CASE refused' = refused
      BY <2>1, <2>2
    <2>3. CASE /\ refused' = refused \cup IdsOf(batch) /\ batch' = <<>>
               /\ Before(SetOf(Chain'), IdsOf(batch))
      <3>1. \A a \in IdsOf(batch) : ~(a < a)
        <4>1. IdsOf(batch) \subseteq 1 .. nextId - 1
          BY DEF InLine
        <4>2. \A a \in 1 .. nextId - 1 : ~(a < a)
          OBVIOUS
        <4> QED BY <4>1, <4>2
      <3>2. Before(IdsOf(batch), IdsOf(pending'))
        BY <1>3 DEF InLine, Before
      <3>3. IdsOf(batch) \cap (SetOf(Chain') \cup IdsOf(pending')) = {}
        BY <2>3, <3>1, <3>2 DEF Before
      <3> QED BY <2>1, <2>3, <3>3, NoIds
    <2> QED BY <2>2, <2>3
  <1> QED BY <1>2, <1>4, <1>5, <1>6, <1>7, <1>8 DEF InLine, ArrivalOrder, Ascends, Ids, Before, IdsOf, SetOf

(* An id above all the others goes to the end.                              *)
LEMMA AscendsAppend ==
  ASSUME NEW ids \in Seq(Nat), Ascends(ids), NEW n \in Nat, Before(SetOf(ids), {n})
  PROVE  Ascends(Append(ids, n))
  <1> DEFINE longer == Append(ids, n)
  <1>1. /\ DOMAIN longer = 1 .. Len(ids) + 1 /\ Len(ids) \in Nat
        /\ \A i \in 1..Len(ids) : longer[i] = ids[i]
        /\ longer[Len(ids) + 1] = n
        /\ DOMAIN ids = 1..Len(ids)
    BY AppendProperties
  <1> HIDE DEF longer
  <1>2. ASSUME NEW i \in 1 .. Len(ids) + 1, NEW j \in 1 .. Len(ids) + 1, i < j
        PROVE  longer[i] < longer[j]
    <2>1. i \in 1..Len(ids) /\ (j \in 1..Len(ids) \/ j = Len(ids) + 1)
      BY <1>1, <1>2
    <2>2. CASE j \in 1..Len(ids)
      <3>1. ids[i] < ids[j]
        BY <1>1, <1>2, <2>1, <2>2 DEF Ascends
      <3> QED BY <1>1, <2>1, <2>2, <3>1
    <2>3. CASE j = Len(ids) + 1
      <3>1. ids[i] \in SetOf(ids)
        BY <1>1, <2>1 DEF SetOf
      <3> QED BY <1>1, <2>1, <2>3, <3>1 DEF Before
    <2> QED BY <2>1, <2>2, <2>3
  <1> QED BY <1>1, <1>2 DEF Ascends, longer

(* A put queues behind every id there is.                                   *)
LEMMA PutInLine ==
  ASSUME InductiveInv, InLine, NEW iat \in {clock - 1, clock} \cap Nat, Put(iat)
  PROVE  InLine'
  <1> DEFINE new == [id |-> nextId, iat |-> iat]
  <1>1. /\ pending' = Append(pending, new) /\ nextId' = nextId + 1 /\ nextId \in Nat
        /\ UNCHANGED <<log, stage, batch, size, refused, gone>>
    BY DEF Put, disk, store, InductiveInv, Shapes
  <1>2. Chain' = Chain
    BY <1>1 DEF Chain
  <1>3. pending \in Seq(Appends) /\ new \in Appends /\ Len(pending) \in Nat
    <2>1. nextId \in 1..MaxId /\ iat \in 0..MaxClock
      BY BoundsAssumption DEF Put, InductiveInv, Shapes
    <2> QED BY <2>1, ChainNow DEF Appends
  <1>4. /\ Len(pending') = Len(pending) + 1 /\ DOMAIN pending' = 1 .. Len(pending) + 1
        /\ \A i \in 1..Len(pending) : pending'[i] = pending[i]
        /\ pending'[Len(pending) + 1] = new
    <2> HIDE DEF new
    <2> QED BY <1>1, <1>3
  <1>5. /\ Ids(pending) \in Seq(Nat) /\ Len(Ids(pending)) = Len(pending)
        /\ \A i \in 1..Len(pending) : Ids(pending)[i] = pending[i].id
        /\ SetOf(Ids(pending)) = IdsOf(pending)
    BY <1>3, IdsOfAppends
  <1>6. IdsOf(pending') = IdsOf(pending) \cup {nextId}
    <2>1. DOMAIN pending = 1..Len(pending)
      BY <1>3
    <2>2. pending'[Len(pending) + 1].id = nextId
      BY <1>4
    <2>3. DOMAIN pending' = DOMAIN pending \cup {Len(pending) + 1}
      BY <1>4, <2>1
    <2> QED BY <1>4, <2>1, <2>2, <2>3 DEF IdsOf
  <1>7. IdsOf(pending) \subseteq 1 .. nextId - 1
    BY DEF InLine
  <1>8. Ascends(Ids(pending'))
    <2>1. Ids(pending') = Append(Ids(pending), nextId)
      <3>1. /\ Ids(pending') \in Seq(Nat) /\ Len(Ids(pending')) = Len(pending) + 1
            /\ \A i \in 1 .. Len(pending) + 1 : Ids(pending')[i] = pending'[i].id
        <4>1. ASSUME NEW i \in 1 .. Len(pending) + 1 PROVE pending'[i].id \in Nat
          <5>1. pending'[i].id \in IdsOf(pending')
            BY <1>4 DEF IdsOf
          <5> QED BY <1>1, <1>6, <1>7, <5>1
        <4>2. Len(pending) + 1 \in Nat
          BY <1>4
        <4> QED BY <1>4, <4>1, <4>2, IdsShape
      <3>2. /\ Append(Ids(pending), nextId) \in Seq(Nat)
            /\ Len(Append(Ids(pending), nextId)) = Len(pending) + 1
            /\ \A i \in 1..Len(pending) : Append(Ids(pending), nextId)[i] = Ids(pending)[i]
            /\ Append(Ids(pending), nextId)[Len(pending) + 1] = nextId
        BY <1>1, <1>5, AppendProperties
      <3>3. \A i \in 1 .. Len(pending) + 1 : Ids(pending')[i] = Append(Ids(pending), nextId)[i]
        <4> TAKE i \in 1 .. Len(pending) + 1
        <4>1. CASE i \in 1..Len(pending)
          BY <1>4, <1>5, <3>1, <3>2, <4>1
        <4>2. CASE i = Len(pending) + 1
          BY <1>4, <3>1, <3>2, <4>2
        <4>3. i \in 1..Len(pending) \/ i = Len(pending) + 1
          BY <1>3
        <4> QED BY <4>1, <4>2, <4>3
      <3> QED BY <3>1, <3>2, <3>3, SeqEqual
    <2>2. Before(SetOf(Ids(pending)), {nextId})
      BY <1>1, <1>5, <1>7 DEF Before
    <2> QED BY <1>1, <1>5, <2>1, <2>2, AscendsAppend DEF InLine
  <1>9. SetOf(Chain) \cup IdsOf(batch) \cup refused \subseteq 1 .. nextId - 1
    BY DEF InLine
  <1>10. SetOf(Chain) \cup IdsOf(batch) \cup IdsOf(pending') \cup refused \subseteq 1 .. nextId' - 1
    <2>1. 1 .. nextId - 1 \subseteq 1 .. nextId' - 1 /\ nextId \in 1 .. nextId' - 1
      <3>1. nextId \in Nat \ {0}
        BY DEF InductiveInv, Shapes
      <3> QED BY <1>1, <3>1
    <2> QED BY <1>6, <1>7, <1>9, <2>1
  <1>11. Before(SetOf(Chain) \cup IdsOf(batch), IdsOf(pending'))
    BY <1>1, <1>6, <1>9 DEF InLine, Before
  <1>12. refused \cap (SetOf(Chain) \cup IdsOf(batch) \cup IdsOf(pending')) = {}
    <2>1. nextId \notin refused
      BY <1>1, <1>9
    <2> QED BY <1>6, <2>1 DEF InLine
  <1>13. SetOf(Chain') \cup IdsOf(batch') \cup IdsOf(pending') \cup refused' \subseteq 1 .. nextId' - 1
    BY <1>1, <1>2, <1>10
  <1>14. refused' \cap (SetOf(Chain') \cup IdsOf(batch') \cup IdsOf(pending')) = {}
    BY <1>1, <1>2, <1>12
  <1>15. Before(SetOf(Chain') \cup IdsOf(batch'), IdsOf(pending')) /\ Ascends(Chain') /\ Ascends(Ids(batch'))
    BY <1>1, <1>2, <1>11 DEF InLine, ArrivalOrder
  <1>16. stage' \in {"write", "sync", "rollback"} =>
            Before(SetOf(gone' \o ChainOf(SubSeq(log', 1, size'))), IdsOf(batch'))
    BY <1>1 DEF InLine
  <1> QED BY <1>8, <1>13, <1>14, <1>15, <1>16
          DEF InLine, ArrivalOrder, Ascends, Ids, Before, IdsOf, SetOf

(* The window comes off the front of what waits.                            *)
LEMMA TakeWindowInLine ==
  ASSUME InductiveInv, InLine, TakeWindow
  PROVE  InLine'
  <1> DEFINE n == IF Len(pending) < Window THEN Len(pending) ELSE Window
  <1>1. n \in 1..Len(pending)
    BY BoundsAssumption, ChainNow DEF TakeWindow
  <1>2. /\ batch' = SubSeq(pending, 1, n)
        /\ pending' = SubSeq(pending, n + 1, Len(pending))
        /\ stage = "idle" /\ stage' = "write"
        /\ UNCHANGED <<log, size, refused, nextId, gone>>
    BY DEF TakeWindow, Rest, outside, disk, store
  <1> HIDE DEF n
  <1>3. /\ pending \in Seq(Appends) /\ Len(pending) \in Nat /\ n \in 0..Len(pending)
        /\ DOMAIN pending = 1..Len(pending)
    BY <1>1, ChainNow
  <1>4. /\ batch' \in Seq(Appends) /\ Len(batch') = n
        /\ \A i \in 1..n : batch'[i] = pending[i]
    BY <1>2, <1>3, FirstUnits
  <1>5. /\ pending' \in Seq(Appends) /\ Len(pending') = Len(pending) - n
        /\ \A i \in 1 .. Len(pending) - n : pending'[i] = pending[n + i]
    BY <1>2, <1>3, LastUnits
  <1>6. /\ Ids(pending) \in Seq(Nat) /\ Len(Ids(pending)) = Len(pending)
        /\ \A i \in 1..Len(pending) : Ids(pending)[i] = pending[i].id
        /\ SetOf(Ids(pending)) = IdsOf(pending)
    BY <1>3, IdsOfAppends
  <1>7. /\ Ids(batch') \in Seq(Nat) /\ Len(Ids(batch')) = n
        /\ \A i \in 1..n : Ids(batch')[i] = batch'[i].id
        /\ SetOf(Ids(batch')) = IdsOf(batch')
    BY <1>4, IdsOfAppends
  <1>8. /\ Ids(pending') \in Seq(Nat) /\ Len(Ids(pending')) = Len(pending) - n
        /\ \A i \in 1 .. Len(pending) - n : Ids(pending')[i] = pending'[i].id
        /\ SetOf(Ids(pending')) = IdsOf(pending')
    BY <1>5, IdsOfAppends
  <1>9. \A i, j \in 1..Len(pending) : i < j => pending[i].id < pending[j].id
    <2>1. DOMAIN Ids(pending) = 1..Len(pending)
      BY <1>6
    <2>2. \A i, j \in DOMAIN Ids(pending) : i < j => Ids(pending)[i] < Ids(pending)[j]
      BY DEF InLine, Ascends
    <2> QED BY <1>6, <2>1, <2>2
  <1>10. Ascends(Ids(batch'))
    <2>1. ASSUME NEW i \in 1..n, NEW j \in 1..n, i < j PROVE Ids(batch')[i] < Ids(batch')[j]
      <3>1. i \in 1..Len(pending) /\ j \in 1..Len(pending)
        BY <1>3
      <3> QED BY <1>4, <1>7, <1>9, <2>1, <3>1
    <2>2. DOMAIN Ids(batch') = 1..n
      BY <1>7
    <2> QED BY <2>1, <2>2 DEF Ascends
  <1>11. Ascends(Ids(pending'))
    <2>1. ASSUME NEW i \in 1 .. Len(pending) - n, NEW j \in 1 .. Len(pending) - n, i < j
          PROVE  Ids(pending')[i] < Ids(pending')[j]
      <3>1. n + i \in 1..Len(pending) /\ n + j \in 1..Len(pending) /\ n + i < n + j
        BY <1>3, <2>1
      <3>2. pending[n + i].id < pending[n + j].id
        BY <1>9, <3>1
      <3> QED BY <1>5, <1>8, <3>2
    <2>2. DOMAIN Ids(pending') = 1 .. Len(pending) - n
      BY <1>8
    <2> QED BY <2>1, <2>2 DEF Ascends
  <1>12. \A a \in IdsOf(batch') : \E i \in 1..n : a = pending[i].id /\ i \in 1..Len(pending)
    <2>1. DOMAIN batch' = 1..n /\ 1..n \subseteq 1..Len(pending)
      BY <1>3, <1>4
    <2> QED BY <1>4, <2>1 DEF IdsOf
  <1>13. \A a \in IdsOf(pending') : \E j \in n + 1 .. Len(pending) : a = pending[j].id /\ j \in 1..Len(pending)
    <2> TAKE a \in IdsOf(pending')
    <2>1. DOMAIN pending' = 1 .. Len(pending) - n
      BY <1>5
    <2>2. PICK i \in 1 .. Len(pending) - n : a = pending'[i].id
      BY <2>1 DEF IdsOf
    <2>3. n + i \in n + 1 .. Len(pending) /\ n + i \in 1..Len(pending)
      BY <1>3
    <2>4. a = pending[n + i].id
      BY <1>5, <2>2
    <2> QED BY <2>3, <2>4
  <1>14. IdsOf(batch') \subseteq IdsOf(pending) /\ IdsOf(pending') \subseteq IdsOf(pending)
    BY <1>3, <1>12, <1>13 DEF IdsOf
  <1>15. Before(IdsOf(batch'), IdsOf(pending'))
    <2> SUFFICES ASSUME NEW a \in IdsOf(batch'), NEW b \in IdsOf(pending') PROVE a < b
      BY DEF Before
    <2>1. PICK i \in 1..n : a = pending[i].id /\ i \in 1..Len(pending)
      BY <1>12
    <2>2. PICK j \in n + 1 .. Len(pending) : b = pending[j].id /\ j \in 1..Len(pending)
      BY <1>13
    <2>3. i < j
      BY <1>3
    <2> QED BY <1>9, <2>1, <2>2, <2>3
  <1>16. Chain' = Chain
    BY <1>2 DEF Chain
  <1>17. gone \o ChainOf(SubSeq(log, 1, size)) = Chain
    <2>1. size = Len(log) /\ log \in Seq(AnyUnit) /\ Whole(log) = log
      BY <1>2, ChainNow DEF InductiveInv, WindowPlace
    <2>2. SubSeq(log, 1, size) = log
      BY <2>1
    <2> QED BY <2>1, <2>2 DEF Chain
  <1>18. Before(SetOf(Chain), IdsOf(batch'))
    BY <1>14 DEF InLine, Before
  <1>19. Before(SetOf(Chain) \cup IdsOf(batch'), IdsOf(pending'))
    BY <1>14, <1>15 DEF InLine, Before
  <1>20. Before(SetOf(gone' \o ChainOf(SubSeq(log', 1, size'))), IdsOf(batch'))
    BY <1>2, <1>17, <1>18
  <1>21. SetOf(Chain') \cup IdsOf(batch') \cup IdsOf(pending') \cup refused' \subseteq 1 .. nextId' - 1
    BY <1>2, <1>14, <1>16 DEF InLine
  <1>22. refused' \cap (SetOf(Chain') \cup IdsOf(batch') \cup IdsOf(pending')) = {}
    BY <1>2, <1>14, <1>16 DEF InLine
  <1>23. Before(SetOf(Chain') \cup IdsOf(batch'), IdsOf(pending')) /\ Ascends(Chain')
    BY <1>16, <1>19 DEF InLine, ArrivalOrder
  <1> QED BY <1>10, <1>11, <1>20, <1>21, <1>22, <1>23
          DEF InLine, ArrivalOrder, Ascends, Ids, Before, IdsOf, SetOf

(* The records of the window that reached the file are the chain's new end. *)
LEMMA Grown ==
  ASSUME InductiveInv, InLine, stage = "write", NEW k \in 0..Len(batch)
  PROVE  LET some == SubSeq(Frames, 1, k) IN
         /\ gone \o ChainOf(log \o some) = Chain \o Ids(some)
         /\ Ids(some) \in Seq(Nat) /\ Len(Ids(some)) = k
         /\ SetOf(Ids(some)) \subseteq IdsOf(batch)
         /\ Ascends(Chain \o Ids(some))
  <1> DEFINE some == SubSeq(Frames, 1, k)
  <1>1. /\ Frames \in Seq(AnyUnit) /\ Len(Frames) = Len(batch)
        /\ \A i \in 1..Len(Frames) : IsReceipt(Frames[i]) /\ Frames[i].id = batch[i].id
    BY FramesShape DEF InductiveInv, Shapes
  <1>2. /\ log \in Seq(AnyUnit) /\ Chained(log) /\ Whole(log) = log /\ gone \in Seq(Nat)
        /\ Chain \in Seq(Nat) /\ batch \in Seq(Appends) /\ ChainOf(log) \in Seq(Nat)
    <2>1. stage \notin {"down", "rollback"}
      OBVIOUS
    <2> QED BY <2>1, ChainNow
  <1>3. k \in 0..Len(Frames)
    BY <1>1
  <1>4. /\ some \in Seq(AnyUnit) /\ Len(some) = k
        /\ \A i \in 1..k : some[i] = Frames[i]
    BY <1>1, <1>3, FirstUnits
  <1> HIDE DEF some
  <1>5. \A i \in 1..k : i \in 1..Len(batch) /\ some[i].id = batch[i].id /\ IsReceipt(some[i])
    <2> TAKE i \in 1..k
    <2>1. i \in 1..Len(Frames)
      BY <1>3
    <2> QED BY <1>1, <1>4, <2>1
  <1>6. /\ Ids(batch) \in Seq(Nat) /\ Len(Ids(batch)) = Len(batch)
        /\ \A i \in 1..Len(batch) : Ids(batch)[i] = batch[i].id
        /\ SetOf(Ids(batch)) = IdsOf(batch)
    BY <1>2, IdsOfAppends
  <1>7. /\ Ids(some) \in Seq(Nat) /\ Len(Ids(some)) = k
        /\ \A i \in 1..k : Ids(some)[i] = some[i].id
    <2>1. k \in Nat /\ DOMAIN some = 1..k
      BY <1>4
    <2>2. \A i \in 1..k : some[i].id \in Nat
      <3> TAKE i \in 1..k
      <3>1. some[i] \in AnyUnit /\ IsReceipt(some[i])
        BY <1>4, <1>5
      <3> QED BY <3>1, UnitKinds
    <2> QED BY <2>1, <2>2, IdsShape
  <1>8. IsPrefix(Ids(some), Ids(batch))
    <2>1. Len(Ids(some)) <= Len(Ids(batch))
      BY <1>6, <1>7
    <2>2. \A i \in 1..Len(Ids(some)) : Ids(some)[i] = Ids(batch)[i]
      BY <1>5, <1>6, <1>7
    <2> QED BY <1>6, <1>7, <2>1, <2>2, PrefixPlaces
  <1>9. SetOf(Ids(some)) \subseteq IdsOf(batch) /\ Ascends(Ids(some))
    BY <1>6, <1>7, <1>8, PrefixKeeps DEF InLine
  <1>10. Before(SetOf(Chain), IdsOf(batch))
    <2>1. size = Len(log)
      BY DEF InductiveInv, WindowPlace
    <2>2. SubSeq(log, 1, size) = log
      BY <1>2, <2>1
    <2>3. Before(SetOf(gone \o ChainOf(SubSeq(log, 1, size))), IdsOf(batch))
      BY DEF InLine
    <2>4. gone \o ChainOf(SubSeq(log, 1, size)) = Chain
      BY <1>2, <2>2 DEF Chain
    <2> QED BY <2>3, <2>4
  <1>11. Ascends(Chain \o Ids(some))
    <2>1. Before(SetOf(Chain), SetOf(Ids(some))) /\ Ascends(Chain)
      BY <1>9, <1>10 DEF Before, InLine, ArrivalOrder
    <2> QED BY <1>2, <1>7, <1>9, <2>1, AscendsOver
  <1>12. gone \o ChainOf(log \o some) = Chain \o Ids(some)
    <2>1. ChainOf(log \o some) = ChainOf(log) \o Ids(some)
      BY <1>2, <1>4, <1>5, ChainOfBoth
    <2>2. gone \o (ChainOf(log) \o Ids(some)) = (gone \o ChainOf(log)) \o Ids(some)
      <3>1. gone \in Seq(Nat) /\ ChainOf(log) \in Seq(Nat) /\ Ids(some) \in Seq(Nat)
        BY <1>2, <1>7
      <3> QED BY <3>1, ConcatAssociative, SMTT(30)
    <2> QED BY <1>2, <2>1, <2>2 DEF Chain
  <1> QED BY <1>7, <1>9, <1>11, <1>12 DEF some

(* What a step adds to the chain is the front of the window in the air, the *)
(* window waiting for its sync, for its rollback or dead with its process.  *)
Grows(k) ==
    /\ stage = "write" /\ Whole(log') = log \o SubSeq(Frames, 1, k)
    /\ UNCHANGED <<gone, nextId, refused, shadow, goneBefore, acked>>
    /\ \/ /\ UNCHANGED <<pending, batch, size>>
          /\ SubSeq(log', 1, size) = log
       \/ pending' = <<>> /\ batch' = <<>> /\ stage' = "down"

(* A window that reaches the file stays in line.                            *)
LEMMA GrowthInLine ==
  ASSUME InductiveInv, InLine, NEW k \in 0..Len(batch), Grows(k)
  PROVE  /\ Chain' \in Seq(Nat) /\ IsPrefix(Chain, Chain') /\ Len(Chain') = Len(Chain) + k
         /\ InLine'
  <1> DEFINE some == SubSeq(Frames, 1, k)
  <1>1. /\ gone \o ChainOf(log \o some) = Chain \o Ids(some)
        /\ Ids(some) \in Seq(Nat) /\ Len(Ids(some)) = k
        /\ SetOf(Ids(some)) \subseteq IdsOf(batch)
        /\ Ascends(Chain \o Ids(some))
    BY Grown DEF Grows
  <1>2. Chain' = Chain \o Ids(some)
    BY <1>1 DEF Chain, Grows
  <1> HIDE DEF some
  <1>3. Chain \in Seq(Nat)
    BY ChainNow
  <1>4. /\ Chain' \in Seq(Nat) /\ IsPrefix(Chain, Chain')
        /\ Len(Chain') = Len(Chain) + k
        /\ SetOf(Chain') \subseteq SetOf(Chain) \cup IdsOf(batch)
    <2>1. Chain \o Ids(some) \in Seq(Nat) /\ Len(Chain \o Ids(some)) = Len(Chain) + Len(Ids(some))
      BY <1>1, <1>3, BothPlaces
    <2>2. IsPrefix(Chain, Chain \o Ids(some))
      BY <1>1, <1>3, PrefixOfBoth
    <2>3. SetOf(Chain \o Ids(some)) = SetOf(Chain) \cup SetOf(Ids(some))
      BY <1>1, <1>3, SetOfBoth
    <2> QED BY <1>1, <1>2, <2>1, <2>2, <2>3
  <1>5. Ascends(Chain')
    BY <1>1, <1>2
  <1>6. /\ IdsOf(batch') \subseteq IdsOf(batch) /\ IdsOf(pending') \subseteq IdsOf(pending)
        /\ Ascends(Ids(batch')) /\ Ascends(Ids(pending'))
    BY NoIds DEF InLine, Grows
  <1>7. SetOf(Chain') \cup IdsOf(batch') \cup IdsOf(pending') \cup refused' \subseteq 1 .. nextId' - 1
    BY <1>4, <1>6 DEF InLine, Grows
  <1>8. Before(SetOf(Chain') \cup IdsOf(batch'), IdsOf(pending'))
    BY <1>4, <1>6 DEF InLine, Before
  <1>9. stage' \in {"write", "sync", "rollback"} =>
           Before(SetOf(gone' \o ChainOf(SubSeq(log', 1, size'))), IdsOf(batch'))
    <2> SUFFICES ASSUME stage' \in {"write", "sync", "rollback"}
                 PROVE  Before(SetOf(gone' \o ChainOf(SubSeq(log', 1, size'))), IdsOf(batch'))
      OBVIOUS
    <2>1. SubSeq(log', 1, size') = log /\ batch' = batch /\ gone' = gone
      BY DEF Grows
    <2>2. SubSeq(log, 1, size) = log
      BY ChainNow DEF InductiveInv, WindowPlace, Grows
    <2>3. Before(SetOf(gone \o ChainOf(SubSeq(log, 1, size))), IdsOf(batch))
      BY DEF InLine, Grows
    <2> QED BY <2>1, <2>2, <2>3
  <1>10. refused' \cap (SetOf(Chain') \cup IdsOf(batch') \cup IdsOf(pending')) = {}
    BY <1>4, <1>6 DEF InLine, Grows
  <1>11. InLine'
    BY <1>5, <1>6, <1>7, <1>8, <1>9, <1>10 DEF InLine, ArrivalOrder, Ascends, Ids, Before, IdsOf, SetOf
  <1> QED BY <1>4, <1>11

(* The three ways a window's records reach the file.                        *)
LEMMA WindowGrows ==
  ASSUME InductiveInv,
         \/ WriteWindow
         \/ \E k \in 0..Window, torn \in BOOLEAN : WriteFallsShort(k, torn)
         \/ stage = "write" /\ \E k \in 0..MaxId, torn \in BOOLEAN : Kill(k, torn)
  PROVE  \E k \in 0..Len(batch) : Grows(k)
  <1>1. /\ Frames \in Seq(AnyUnit) /\ Len(Frames) = Len(batch) /\ Len(batch) \in Nat
        /\ log \in Seq(AnyUnit) /\ size \in Nat
    BY FramesShape DEF InductiveInv, Shapes
  <1>2. ASSUME stage = "write", NEW part \in Seq(AnyUnit) PROVE SubSeq(log \o part, 1, size) = log
    <2>1. Len(log) = size
      BY <1>2 DEF InductiveInv, WindowPlace
    <2>2. /\ log \o part \in Seq(AnyUnit) /\ Len(log \o part) = Len(log) + Len(part)
          /\ \A i \in 1..Len(log) : (log \o part)[i] = log[i]
      BY <1>1, BothPlaces
    <2>3. size \in 0..Len(log \o part)
      BY <1>1, <2>1, <2>2
    <2>4. /\ SubSeq(log \o part, 1, size) \in Seq(AnyUnit)
          /\ Len(SubSeq(log \o part, 1, size)) = size
          /\ \A i \in 1..size : SubSeq(log \o part, 1, size)[i] = (log \o part)[i]
      BY <2>2, <2>3, FirstUnits
    <2>5. \A i \in 1..Len(log) : SubSeq(log \o part, 1, size)[i] = log[i]
      BY <2>1, <2>2, <2>4
    <2> QED BY <1>1, <2>1, <2>4, <2>5, SeqEqual
  <1>3. ASSUME WriteWindow PROVE Grows(Len(batch))
    <2>1. /\ stage = "write" /\ stage' = "sync" /\ log' = log \o Frames
          /\ UNCHANGED <<gone, nextId, refused, shadow, goneBefore, acked, pending, batch, size>>
      BY <1>3 DEF WriteWindow, outside, store
    <2>2. SubSeq(Frames, 1, Len(batch)) = Frames
      BY <1>1
    <2>3. Whole(log') = log'
      <3>1. InductiveInv'
        BY <1>3, WriteWindowStep
      <3>2. log' \in Seq(AnyUnit) /\ Chained(log')
        BY <2>1, <3>1 DEF InductiveInv, Shapes, DiskShape
      <3> QED BY <3>2, ChainedHasNoLeftover
    <2>4. SubSeq(log', 1, size) = log
      BY <1>1, <1>2, <2>1
    <2> QED BY <2>1, <2>2, <2>3, <2>4 DEF Grows
  <1>4. ASSUME NEW k \in 0..Window, NEW torn \in BOOLEAN, WriteFallsShort(k, torn)
        PROVE  k \in 0..Len(batch) /\ Grows(k)
    <2> DEFINE part == PartOf(Frames, k, torn)
    <2>1. /\ stage = "write" /\ log' = log \o part /\ k \in Nat /\ k < Len(Frames)
          /\ UNCHANGED <<gone, nextId, refused, shadow, goneBefore, acked, pending, batch, size>>
      BY <1>4, BoundsAssumption DEF WriteFallsShort, outside, store
    <2>2. part \in Seq(AnyUnit) /\ Whole(log \o part) = log \o SubSeq(Frames, 1, k)
      BY <2>1, PartWritten
    <2> HIDE DEF part
    <2>3. SubSeq(log', 1, size) = log
      BY <1>2, <2>1, <2>2
    <2>4. k \in 0..Len(batch)
      BY <1>1, <2>1
    <2> QED BY <2>1, <2>2, <2>3, <2>4 DEF Grows
  <1>5. ASSUME stage = "write", NEW k \in 0..MaxId, NEW torn \in BOOLEAN, Kill(k, torn)
        PROVE  k \in 0..Len(batch) /\ Grows(k)
    <2> DEFINE part == PartOf(Frames, k, torn)
    <2>1. /\ log' = log \o part /\ k \in Nat /\ (k < Len(Frames) \/ (k = Len(Frames) /\ ~torn))
          /\ stage' = "down" /\ pending' = <<>> /\ batch' = <<>>
          /\ UNCHANGED <<gone, nextId, refused, shadow, goneBefore, acked>>
      BY <1>5, BoundsAssumption DEF Kill, outside, store
    <2>2. Whole(log \o part) = log \o SubSeq(Frames, 1, k)
      BY <1>5, <2>1, PartWritten
    <2> HIDE DEF part
    <2>3. k \in 0..Len(batch)
      BY <1>1, <2>1
    <2> QED BY <1>5, <2>1, <2>2, <2>3 DEF Grows
  <1>6. Len(batch) \in 0..Len(batch)
    BY <1>1
  <1> QED BY <1>3, <1>4, <1>5, <1>6

-----------------------------------------------------------------------------
(* What each step does to the chain.                                        *)

(* A compaction moves ids from the file to what it took, and no further.    *)
LEMMA CompactionMovesIds ==
  ASSUME InductiveInv, Dead(index) > runEnd, stage = "compact", CompactRename
  PROVE  /\ Chain' = Chain /\ gone' \in Seq(Nat)
         /\ Len(gone) < Len(gone') /\ Len(gone') <= Len(Chain)
         /\ Chain = gone \o ChainOf(log)
  <1> DEFINE d == Dead(index)
             front == SubSeq(log, 1, d)
             tail == SubSeq(log, d + 1, size)
             taken == ChainOf(front)
  <1>1. /\ log \in Seq(AnyUnit) /\ Chained(log) /\ Whole(log) = log /\ gone \in Seq(Nat)
        /\ size = Len(log) /\ size \in Nat
    BY ChainNow DEF InductiveInv, WindowPlace
  <1>2. /\ runEnd \in 0..size
        /\ \A i \in 1..runEnd : IsTrim(log[i])
        /\ \A i \in runEnd + 1 .. size : IsReceipt(log[i])
        /\ index \in Seq([id : Nat, iat : Nat, at : Nat])
        /\ \A i \in DOMAIN index : index[i].at \in runEnd + 1 .. size
        /\ head \in Nat /\ dropped \in [byAge : Int, byCount : Int]
    BY DEF InductiveInv, Shapes, IndexSpan
  <1>3. /\ Compacted \in Seq(AnyUnit) /\ Chained(Compacted)
        /\ d \in runEnd..size
        /\ tail \in Seq(AnyUnit) /\ \A i \in 1..Len(tail) : IsReceipt(tail[i])
        /\ \E run \in Seq(AnyUnit) : /\ Chained(run) /\ (\A i \in 1..Len(run) : IsTrim(run[i]))
                                     /\ Compacted = run \o tail
    BY <1>1, <1>2, CompactedKeepsTheRest
  <1>4. d \in 0..Len(log) /\ runEnd < d
    BY <1>1, <1>2, <1>3
  <1> HIDE DEF d
  <1>5. /\ front \in Seq(AnyUnit) /\ Len(front) = d
        /\ \A i \in 1..d : front[i] = log[i]
    BY <1>1, <1>4, FirstUnits
  <1>6. Chained(front)
    <2>1. Len(front) <= Len(log) /\ \A i \in 1..Len(front) : front[i] = log[i]
      BY <1>1, <1>4, <1>5
    <2> HIDE DEF front
    <2> QED BY <1>1, <1>5, <2>1, ChainedPrefix
  <1>7. log = front \o tail
    <2>1. 1 \in 1 .. Len(log) + 1 /\ d \in 1 - 1 .. Len(log) /\ Len(log) \in d .. Len(log)
      BY <1>1, <1>4
    <2>2. SubSeq(log, 1, d) \o SubSeq(log, d + 1, Len(log)) = SubSeq(log, 1, Len(log))
      BY <1>1, <2>1, ConcatAdjacentSubSeq, Zenon
    <2>3. SubSeq(log, 1, Len(log)) = log
      BY <1>1
    <2> QED BY <1>1, <2>2, <2>3
  <1> HIDE DEF front, tail
  <1>8. ChainOf(log) = taken \o Ids(tail)
    BY <1>3, <1>5, <1>6, <1>7, ChainOfBoth
  <1>9. TrimRun(front) = runEnd
    <2>1. runEnd \in 0..Len(front)
      BY <1>2, <1>4, <1>5
    <2>2. \A i \in 1..runEnd : IsTrim(front[i])
      <3>1. \A i \in 1..runEnd : i \in 1..d
        BY <1>2, <1>4
      <3> QED BY <1>2, <1>5, <3>1
    <2>3. ~IsTrim(front[runEnd + 1])
      <3>1. runEnd + 1 \in 1..d /\ runEnd + 1 \in runEnd + 1 .. size
        BY <1>1, <1>2, <1>4
      <3>2. front[runEnd + 1] = log[runEnd + 1] /\ IsReceipt(log[runEnd + 1])
        BY <1>2, <1>5, <3>1
      <3> QED BY <3>2 DEF IsTrim, IsReceipt
    <2> QED BY <1>5, <2>1, <2>2, <2>3, TrimRunIs
  <1>10. taken \in Seq(Nat) /\ Len(taken) = d - runEnd /\ Len(taken) \in Nat \ {0}
    <2>1. taken \in Seq(Nat) /\ Len(taken) = Len(front) - TrimRun(front)
      BY <1>5, ChainPlaces
    <2> QED BY <1>2, <1>4, <1>5, <1>9, <2>1
  <1> HIDE DEF taken
  <1>11. Ids(tail) \in Seq(Nat)
    <2>1. DOMAIN tail = 1..Len(tail) /\ Len(tail) \in Nat
      BY <1>3
    <2>2. \A i \in 1..Len(tail) : tail[i].id \in Nat
      <3> TAKE i \in 1..Len(tail)
      <3>1. tail[i] \in AnyUnit /\ IsReceipt(tail[i])
        BY <1>3
      <3> QED BY <3>1, UnitKinds
    <2> QED BY <2>1, <2>2, IdsShape
  <1>12. ChainOf(Compacted) = Ids(tail)
    <2>1. PICK run \in Seq(AnyUnit) : /\ Chained(run) /\ (\A i \in 1..Len(run) : IsTrim(run[i]))
                                      /\ Compacted = run \o tail
      BY <1>3
    <2>2. ChainOf(Compacted) = ChainOf(run) \o Ids(tail)
      BY <1>3, <2>1, ChainOfBoth
    <2>3. TrimRun(run) = Len(run)
      <3>1. Len(run) \in 0..Len(run)
        OBVIOUS
      <3> QED BY <2>1, <3>1, TrimRunIs
    <2>4. ChainOf(run) \in Seq(Nat) /\ Len(ChainOf(run)) = 0
      <3>1. ChainOf(run) \in Seq(Nat) /\ Len(ChainOf(run)) = Len(run) - TrimRun(run)
        BY ChainPlaces
      <3> QED BY <2>3, <3>1
    <2>5. ChainOf(run) = <<>>
      BY <2>4
    <2> QED BY <1>11, <2>2, <2>5, ConcatEmptySeq
  <1>13. log' = Compacted /\ gone' = gone \o taken
    BY DEF CompactRename, taken, front, d
  <1>14. Whole(Compacted) = Compacted
    BY <1>3, ChainedHasNoLeftover
  <1>15. Chain' = (gone \o taken) \o Ids(tail)
    BY <1>12, <1>13, <1>14 DEF Chain
  <1>16. Chain = gone \o ChainOf(log)
    BY <1>1 DEF Chain
  <1>17. (gone \o taken) \o Ids(tail) = gone \o (taken \o Ids(tail))
    BY <1>1, <1>10, <1>11, ConcatAssociative
  <1>18. Chain' = Chain
    BY <1>8, <1>15, <1>16, <1>17
  <1>19. gone \o taken \in Seq(Nat) /\ Len(gone \o taken) = Len(gone) + Len(taken)
    BY <1>1, <1>10, BothPlaces
  <1>20. Len((gone \o taken) \o Ids(tail)) = Len(gone \o taken) + Len(Ids(tail))
    BY <1>11, <1>19, BothPlaces
  <1>21. Len(gone) \in Nat /\ Len(Ids(tail)) \in Nat
    BY <1>1, <1>11
  <1>22. Len(gone) < Len(gone') /\ Len(gone') <= Len(Chain)
    BY <1>10, <1>13, <1>15, <1>18, <1>19, <1>20, <1>21
  <1> QED BY <1>13, <1>16, <1>18, <1>19, <1>22

(* The steps that touch neither the chain nor where it begins: of the file *)
(* they change nothing but an unfinished record at its end.                *)
Quiet ==
    \/ Tick \/ UNCHANGED vars \/ SyncWindow \/ SyncRefused \/ FileWindow \/ RetireWindow \/ NoInstant
    \/ CompactHeld \/ CompactReadsShort \/ CompactRescan \/ AnswerWindow \/ OpenStore
    \/ stage # "write" /\ \E k \in 0..MaxId, torn \in BOOLEAN : Kill(k, torn)

(* A quiet step leaves the chain, and takes the queue away whole or not.    *)
LEMMA QuietChain ==
  ASSUME InductiveInv, Quiet
  PROVE  /\ Chain' = Chain
         /\ UNCHANGED <<gone, goneBefore, nextId, refused>> /\ shadow' \in {shadow, <<>>}
         /\ pending' \in {pending, <<>>} /\ batch' \in {batch, <<>>}
         /\ stage' \in {"write", "sync", "rollback"} =>
               /\ stage \in {"write", "sync", "rollback"} /\ size' = size /\ log' = log
         /\ acked' = acked \/ AnswerWindow
  <1>1. \/ log' = log
        \/ OpenStore /\ log' = Whole(log)
    <2>1. CASE CompactRescan
      <3>1. Readings(log) = {log}
        BY <2>1, ChainNow, ChainedHasNoLeftover DEF CompactRescan
      <3> QED BY <2>1, <3>1 DEF CompactRescan
    <2>2. CASE OpenStore
      <3>1. Readings(log) = {Whole(log)}
        BY ChainNow, OneReading
      <3> QED BY <2>2, <3>1 DEF OpenStore
    <2>3. CASE stage # "write" /\ \E k \in 0..MaxId, torn \in BOOLEAN : Kill(k, torn)
      BY <2>3, ChainNow DEF Kill
    <2> QED BY <2>1, <2>2, <2>3 DEF Quiet, Tick, vars, SyncWindow, SyncRefused, FileWindow, RetireWindow,
               NoInstant, CompactHeld, CompactReadsShort, AnswerWindow, disk
  <1>2. /\ UNCHANGED <<gone, goneBefore, nextId, refused>> /\ shadow' \in {shadow, <<>>}
        /\ pending' \in {pending, <<>>} /\ batch' \in {batch, <<>>}
        /\ acked' = acked \/ AnswerWindow
    BY DEF Quiet, Tick, vars, SyncWindow, SyncRefused, FileWindow, RetireWindow, NoInstant, CompactHeld,
           CompactReadsShort, CompactRescan, AnswerWindow, Answered, RefusesFiled, OpenStore, Kill, disk, outside
  <1>3. Whole(Whole(log)) = Whole(log)
    BY ChainNow, ChainedHasNoLeftover
  <1>4. Chain' = Chain
    BY <1>1, <1>2, <1>3 DEF Chain
  <1>5. stage' \in {"write", "sync", "rollback"} =>
               /\ stage \in {"write", "sync", "rollback"} /\ size' = size /\ log' = log
    BY DEF Quiet, Tick, vars, SyncWindow, SyncRefused, FileWindow, RetireWindow, NoInstant, CompactHeld,
           CompactReadsShort, CompactRescan, AnswerWindow, Answered, RefusesFiled, OpenStore, Kill, disk, store
  <1> QED BY <1>2, <1>4, <1>5

(* Every step is one of these.                                              *)
LEMMA EveryStep ==
  ASSUME Faults \cap {"cut", "rescan"} = {}, InductiveInv, [Next]_vars
  PROVE  \/ Quiet \/ (\E iat \in {clock - 1, clock} \cap Nat : Put(iat)) \/ TakeWindow
         \/ WriteWindow
         \/ (\E k \in 0..Window, torn \in BOOLEAN : WriteFallsShort(k, torn))
         \/ (stage = "write" /\ \E k \in 0..MaxId, torn \in BOOLEAN : Kill(k, torn))
         \/ Rollback \/ CompactRename \/ (\E k \in 0..MaxId, torn \in BOOLEAN : PowerLoss(k, torn))
  <1>1. ~RescanFails
    BY RescanReads
  <1>2. ~RollbackRefused
    BY DEF RollbackRefused, Fault
  <1> QED BY <1>1, <1>2 DEF Next, Pump, Refusal, Restart, Quiet

(* A refused window is taken back to where the index ends, in front of it.  *)
LEMMA RollbackShrinks ==
  ASSUME InductiveInv, InductiveInv', InLine, Rollback
  PROVE  /\ Chain' \in Seq(Nat) /\ IsPrefix(Chain', Chain) /\ gone' = gone
         /\ Before(SetOf(Chain'), IdsOf(batch))
  <1> DEFINE span == SubSeq(log, 1, size)
  <1>1. /\ stage = "rollback" /\ stage' = "idle" /\ log' = CutTo(size) /\ gone' = gone
    BY DEF Rollback, Refuses
  <1>2. /\ span \in Seq(AnyUnit) /\ Len(span) = size /\ size \in 0..Len(log)
        /\ size <= Len(Whole(log)) /\ \A i \in 1..size : span[i] = Whole(log)[i]
        /\ Chained(span)
    BY <1>1, SpanIsWhole
  <1>3. log' = span
    BY <1>1, <1>2 DEF CutTo
  <1> HIDE DEF span
  <1>4. Whole(span) = span
    BY <1>2, ChainedHasNoLeftover
  <1>5. Chain' = gone \o ChainOf(span)
    BY <1>1, <1>3, <1>4 DEF Chain
  <1>6. /\ Chained(Whole(log)) /\ Whole(log) \in Seq(AnyUnit) /\ gone \in Seq(Nat)
        /\ ChainOf(Whole(log)) \in Seq(Nat)
    BY ChainNow
  <1>7. IsPrefix(ChainOf(span), ChainOf(Whole(log)))
    BY <1>2, <1>6, ChainOfPrefix
  <1>8. ChainOf(span) \in Seq(Nat)
    BY <1>2, ChainPlaces
  <1>9. IsPrefix(Chain', Chain)
    BY <1>5, <1>6, <1>7, <1>8, PrefixOfBoth DEF Chain
  <1>10. Chain' \in Seq(Nat)
    BY <1>5, <1>6, <1>8, BothPlaces
  <1>11. Before(SetOf(Chain'), IdsOf(batch))
    BY <1>1, <1>5 DEF InLine, span
  <1> QED BY <1>1, <1>9, <1>10, <1>11

(* A power loss leaves the front of the chain, or puts back the file whose  *)
(* chain was the front of what followed it.                                 *)
LEMMA PowerLossShrinks ==
  ASSUME InductiveInv, RenameUndone, NEW k \in 0..MaxId, NEW torn \in BOOLEAN, PowerLoss(k, torn)
  PROVE  /\ Chain' \in Seq(Nat) /\ IsPrefix(Chain', Chain)
         /\ gone' = gone \/ Len(gone') < Len(gone)
  <1>1. /\ log \in Seq(AnyUnit) /\ Chained(Whole(log)) /\ Whole(log) \in Seq(AnyUnit)
        /\ gone \in Seq(Nat) /\ goneBefore \in Seq(Nat) /\ shadow \in Seq(AnyUnit)
        /\ ChainOf(Whole(log)) \in Seq(Nat)
    BY ChainNow
  <1>2. CASE log' = synced \o PartOf(loose, k, torn) /\ gone' = gone
    <2> DEFINE left == synced \o PartOf(loose, k, torn)
    <2>1. k \in Nat /\ (k < Len(loose) \/ (k = Len(loose) /\ ~torn))
      BY BoundsAssumption DEF PowerLoss
    <2>2. /\ left \in Seq(AnyUnit) /\ Chained(Whole(left))
          /\ Len(Whole(left)) <= Len(Whole(log))
          /\ \A i \in 1..Len(Whole(left)) : Whole(left)[i] = Whole(log)[i]
      BY <2>1, WhatSurvives
    <2>3. log' = left
      BY <1>2
    <2> HIDE DEF left
    <2>4. Whole(left) \in Seq(AnyUnit)
      BY <2>2, WholeIsAPrefix
    <2>5. IsPrefix(ChainOf(Whole(left)), ChainOf(Whole(log)))
      BY <1>1, <2>2, <2>4, ChainOfPrefix
    <2>6. ChainOf(Whole(left)) \in Seq(Nat)
      BY <2>4, ChainPlaces
    <2>7. Chain' = gone \o ChainOf(Whole(left))
      BY <1>2, <2>3 DEF Chain
    <2>8. IsPrefix(Chain', Chain)
      BY <1>1, <2>5, <2>6, <2>7, PrefixOfBoth DEF Chain
    <2>9. Chain' \in Seq(Nat)
      BY <1>1, <2>6, <2>7, BothPlaces
    <2> QED BY <1>2, <2>8, <2>9
  <1>3. CASE shadow # <<>> /\ log' = shadow /\ gone' = goneBefore
    <2>1. Chained(shadow)
      BY <1>3 DEF InductiveInv, OnVolume
    <2>2. Whole(shadow) = shadow
      BY <1>1, <2>1, ChainedHasNoLeftover
    <2>3. Chain' = goneBefore \o ChainOf(shadow)
      BY <1>3, <2>2 DEF Chain
    <2>4. IsPrefix(goneBefore \o ChainOf(shadow), Chain) /\ Len(goneBefore) < Len(gone)
      BY <1>3 DEF RenameUndone
    <2>5. ChainOf(shadow) \in Seq(Nat)
      BY <1>1, ChainPlaces
    <2>6. goneBefore \o ChainOf(shadow) \in Seq(Nat)
      BY <1>1, <2>5, BothPlaces
    <2> QED BY <1>3, <2>3, <2>4, <2>6
  <1> QED BY <1>2, <1>3 DEF PowerLoss

(* What a step does to the chain, and that ids stay in line.                *)
LEMMA LineStep ==
  ASSUME Faults \cap {"cut", "rescan"} = {}, InductiveInv, OrderInv, [Next]_vars
  PROVE  InLine' /\ RenameUndone'
  <1>1. InductiveInv'
    BY NextInductive
  <1>2. Chain \in Seq(Nat)
    BY ChainNow
  <1>3. IsPrefix(Chain, Chain)
    BY <1>2, PrefixOfBoth
  <1> USE DEF OrderInv
  <1>4. CASE Quiet
    <2>1. /\ Chain' = Chain
          /\ UNCHANGED <<gone, goneBefore, nextId, refused>> /\ shadow' \in {shadow, <<>>}
          /\ pending' \in {pending, <<>>} /\ batch' \in {batch, <<>>}
          /\ stage' \in {"write", "sync", "rollback"} =>
                /\ stage \in {"write", "sync", "rollback"} /\ size' = size /\ log' = log
      BY <1>4, QuietChain
    <2>2. InLine'
      BY <1>2, <1>3, <2>1, LineStays
    <2>3. RenameUndone'
      BY <2>1 DEF RenameUndone
    <2> QED BY <2>2, <2>3
  <1>5. CASE \E iat \in {clock - 1, clock} \cap Nat : Put(iat)
    <2>1. InLine'
      BY <1>5, PutInLine
    <2>2. Chain' = Chain /\ UNCHANGED <<shadow, goneBefore, gone>>
      BY <1>5 DEF Put, disk, Chain
    <2>3. RenameUndone'
      BY <2>2 DEF RenameUndone
    <2> QED BY <2>1, <2>3
  <1>6. CASE TakeWindow
    <2>1. InLine'
      BY <1>6, TakeWindowInLine
    <2>2. Chain' = Chain /\ UNCHANGED <<shadow, goneBefore, gone>>
      BY <1>6 DEF TakeWindow, disk, outside, Chain
    <2>3. RenameUndone'
      BY <2>2 DEF RenameUndone
    <2> QED BY <2>1, <2>3
  <1>7. CASE \/ WriteWindow
             \/ \E k \in 0..Window, torn \in BOOLEAN : WriteFallsShort(k, torn)
             \/ stage = "write" /\ \E k \in 0..MaxId, torn \in BOOLEAN : Kill(k, torn)
    <2>1. PICK k \in 0..Len(batch) : Grows(k)
      BY <1>7, WindowGrows
    <2>2. Chain' \in Seq(Nat) /\ IsPrefix(Chain, Chain') /\ InLine'
      BY <2>1, GrowthInLine
    <2>3. RenameUndone'
      <3> SUFFICES ASSUME shadow # <<>>
                   PROVE  /\ IsPrefix(goneBefore \o ChainOf(shadow), Chain')
                          /\ Len(goneBefore) < Len(gone)
        BY <2>1 DEF RenameUndone, Grows
      <3>1. goneBefore \o ChainOf(shadow) \in Seq(Nat)
        <4>1. goneBefore \in Seq(Nat) /\ shadow \in Seq(AnyUnit)
          BY ChainNow
        <4>2. ChainOf(shadow) \in Seq(Nat)
          BY <4>1, ChainPlaces
        <4> QED BY <4>1, <4>2, BothPlaces
      <3>2. IsPrefix(goneBefore \o ChainOf(shadow), Chain) /\ Len(goneBefore) < Len(gone)
        BY DEF RenameUndone
      <3> QED BY <1>2, <2>2, <3>1, <3>2, PrefixOfBoth
    <2> QED BY <2>2, <2>3
  <1>8. CASE Rollback
    <2>1. /\ Chain' \in Seq(Nat) /\ IsPrefix(Chain', Chain)
          /\ Before(SetOf(Chain'), IdsOf(batch))
      BY <1>1, <1>8, RollbackShrinks
    <2>2. /\ nextId' = nextId /\ pending' = pending /\ batch' = <<>> /\ stage' = "idle"
          /\ refused' = refused \cup IdsOf(batch) /\ shadow' = <<>>
      BY <1>8 DEF Rollback, Refuses
    <2>3. InLine'
      BY <2>1, <2>2, LineStays
    <2> QED BY <2>2, <2>3 DEF RenameUndone
  <1>9. CASE CompactRename
    <2>1. /\ Chain' = Chain /\ Len(gone) < Len(gone') /\ Chain = gone \o ChainOf(log)
      BY <1>9, CompactionMovesIds DEF IndexIsTheEnd, CompactRename
    <2>2. /\ nextId' = nextId /\ pending' = pending /\ batch' = batch /\ stage' = "rescan"
          /\ refused' = refused /\ shadow' = log /\ goneBefore' = gone
      BY <1>9 DEF CompactRename
    <2>3. InLine'
      BY <1>2, <1>3, <2>1, <2>2, LineStays
    <2>4. RenameUndone'
      BY <1>3, <2>1, <2>2 DEF RenameUndone
    <2> QED BY <2>3, <2>4
  <1>10. CASE \E k \in 0..MaxId, torn \in BOOLEAN : PowerLoss(k, torn)
    <2>1. Chain' \in Seq(Nat) /\ IsPrefix(Chain', Chain)
      BY <1>10, PowerLossShrinks
    <2>2. /\ nextId' = nextId /\ pending' = pending /\ batch' = batch /\ stage' = "down"
          /\ refused' = refused /\ shadow' = <<>>
      BY <1>10 DEF PowerLoss
    <2>3. InLine'
      BY <2>1, <2>2, LineStays
    <2> QED BY <2>2, <2>3 DEF RenameUndone
  <1>11. \/ Quiet \/ (\E iat \in {clock - 1, clock} \cap Nat : Put(iat)) \/ TakeWindow
         \/ WriteWindow
         \/ (\E k \in 0..Window, torn \in BOOLEAN : WriteFallsShort(k, torn))
         \/ (stage = "write" /\ \E k \in 0..MaxId, torn \in BOOLEAN : Kill(k, torn))
         \/ Rollback \/ CompactRename \/ (\E k \in 0..MaxId, torn \in BOOLEAN : PowerLoss(k, torn))
    BY EveryStep
  <1> QED BY <1>4, <1>5, <1>6, <1>7, <1>8, <1>9, <1>10, <1>11

-----------------------------------------------------------------------------
(* The index is the end of the chain.                                       *)

Entry == [id : Nat, iat : Nat, at : Nat]

(* IndexIsTheEnd of an index, a tally and a file that are handed to it.     *)
AtTheEnd(idx, tally, end, run, file) ==
    /\ \A i \in 1..Len(idx) :
          /\ idx[i].at = end - Len(idx) + i
          /\ file[idx[i].at].id = idx[i].id
    /\ tally.byAge \in Nat /\ tally.byCount \in Nat
    /\ Total(tally) = end - run - Len(idx)

(* A prune leaves the end of what was the end, and tallies the rest.        *)
LEMMA RestAtTheEnd ==
  ASSUME NEW idx \in Seq(Entry), NEW doomed, NEW tally, NEW next, NEW end \in Nat, NEW run \in Nat,
         NEW file, AtTheEnd(idx, tally, end, run, file),
         doomed.byAge \in Nat, doomed.byCount \in Nat, Total(doomed) \in 0..Len(idx),
         next = Plus(tally, doomed)
  PROVE  AtTheEnd(Rest(idx, Total(doomed)), next, end, run, file)
  <1> DEFINE n == Total(doomed)
             rest == Rest(idx, n)
             len == Len(idx)
  <1>1. n \in 0..len /\ len \in Nat /\ n \in Nat
    OBVIOUS
  <1>2. /\ rest \in Seq(Entry) /\ Len(rest) = len - n
        /\ \A i \in 1 .. len - n : rest[i] = idx[n + i]
    <2>1. n \in 0..Len(idx)
      OBVIOUS
    <2> HIDE DEF n
    <2> QED BY <2>1, LastUnits DEF Rest
  <1>3. /\ next.byAge = tally.byAge + doomed.byAge
        /\ next.byCount = tally.byCount + doomed.byCount
    BY DEF Plus, Dropped
  <1>4. /\ tally.byAge \in Nat /\ tally.byCount \in Nat
        /\ tally.byAge + tally.byCount = end - run - len
        /\ n = doomed.byAge + doomed.byCount
    BY DEF AtTheEnd, Total
  <1>5. /\ next.byAge \in Nat /\ next.byCount \in Nat
        /\ next.byAge + next.byCount = end - run - (len - n)
    <2> DEFINE a == tally.byAge
               b == tally.byCount
               c == doomed.byAge
               d == doomed.byCount
    <2>1. /\ a \in Nat /\ b \in Nat /\ c \in Nat /\ d \in Nat
          /\ a + b = end - run - len /\ n = c + d
      BY <1>4
    <2>2. next.byAge = a + c /\ next.byCount = b + d
      BY <1>3
    <2> HIDE DEF a, b, c, d, n, len
    <2>3. a + c \in Nat /\ b + d \in Nat /\ (a + c) + (b + d) = end - run - (len - n)
      BY <1>1, <2>1
    <2> QED BY <2>2, <2>3
  <1>6. Total(next) = end - run - Len(rest)
    <2> HIDE DEF n, rest, len
    <2> QED BY <1>2, <1>5 DEF Total
  <1>7. ASSUME NEW i \in 1..Len(rest)
        PROVE  rest[i].at = end - Len(rest) + i /\ file[rest[i].at].id = rest[i].id
    <2> HIDE DEF n, rest
    <2>1. i \in 1 .. len - n /\ n + i \in 1..len /\ i \in Nat
      BY <1>1, <1>2
    <2>2. rest[i] = idx[n + i]
      BY <1>2, <2>1
    <2>3. idx[n + i].at = end - len + (n + i) /\ file[idx[n + i].at].id = idx[n + i].id
      BY <2>1 DEF AtTheEnd
    <2>4. end - len + (n + i) = end - Len(rest) + i
      BY <1>1, <1>2, <2>1
    <2> QED BY <2>2, <2>3, <2>4
  <1> QED BY <1>5, <1>6, <1>7 DEF AtTheEnd

(* What a scan reads off a chained file is its end.                         *)
LEMMA ScanAtTheEnd ==
  ASSUME NEW file \in Seq(AnyUnit), Chained(file)
  PROVE  /\ AtTheEnd(IndexOf(file), Dropped(0, 0), Len(file), TrimRun(file), file)
         /\ IndexOf(file) \in Seq(Entry)
         /\ IdsOf(IndexOf(file)) = ReceiptsIn(file)
  <1> DEFINE r == TrimRun(file)
             all == IndexOf(file)
  <1>1. /\ r \in 0..Len(file) /\ all \in Seq(Entry)
        /\ \A i \in 1..r : IsTrim(file[i])
        /\ \A i \in r + 1 .. Len(file) : IsReceipt(file[i])
    BY IndexOfSpans DEF Entry
  <1>2. all = [k \in 1 .. Len(file) - r |-> [id |-> file[r + k].id, iat |-> file[r + k].iat, at |-> r + k]]
    BY DEF IndexOf
  <1> HIDE DEF r, all
  <1>3. Len(all) = Len(file) - r /\ DOMAIN all = 1 .. Len(file) - r
    BY <1>1, <1>2
  <1>4. \A k \in 1 .. Len(file) - r : all[k].at = r + k /\ all[k].id = file[r + k].id
    BY <1>2
  <1>5. ASSUME NEW k \in 1..Len(all)
        PROVE  all[k].at = Len(file) - Len(all) + k /\ file[all[k].at].id = all[k].id
    <2>1. k \in 1 .. Len(file) - r
      BY <1>1, <1>3
    <2>2. Len(file) - Len(all) + k = r + k
      BY <1>1, <1>3
    <2> QED BY <1>4, <2>1, <2>2
  <1>6. AtTheEnd(all, Dropped(0, 0), Len(file), r, file)
    <2>1. Dropped(0, 0).byAge = 0 /\ Dropped(0, 0).byCount = 0
      BY DEF Dropped
    <2>2. Total(Dropped(0, 0)) = 0 /\ Len(file) - r - Len(all) = 0
      BY <1>1, <1>3, <2>1 DEF Total
    <2> QED BY <1>5, <2>1, <2>2 DEF AtTheEnd
  <1>7. IdsOf(all) = ReceiptsIn(file)
    <2>1. ASSUME NEW k \in DOMAIN all PROVE all[k].id \in ReceiptsIn(file)
      <3>1. r + k \in r + 1 .. Len(file) /\ r + k \in DOMAIN file /\ k \in 1 .. Len(file) - r
        BY <1>1, <1>3
      <3> QED BY <1>1, <1>4, <3>1 DEF ReceiptsIn
    <2>2. ASSUME NEW j \in DOMAIN file, IsReceipt(file[j]) PROVE file[j].id \in IdsOf(all)
      <3>1. j \notin 1..r
        BY <1>1, <2>2 DEF IsTrim, IsReceipt
      <3>2. j \in 1..Len(file)
        OBVIOUS
      <3>3. j - r \in 1 .. Len(file) - r /\ r + (j - r) = j
        BY <1>1, <3>1, <3>2
      <3>4. all[j - r].id = file[j].id
        BY <1>4, <3>3
      <3> QED BY <1>3, <3>3, <3>4 DEF IdsOf
    <2>3. IdsOf(all) \subseteq ReceiptsIn(file)
      BY <2>1 DEF IdsOf
    <2>4. ReceiptsIn(file) \subseteq IdsOf(all)
      BY <2>2 DEF ReceiptsIn
    <2> QED BY <2>3, <2>4
  <1> QED BY <1>1, <1>6, <1>7 DEF r, all

(* IndexIsTheEnd in these words.                                            *)
LEMMA TheEnd ==
  ASSUME InductiveInv
  PROVE  IndexIsTheEnd <=>
            /\ stage \notin {"down", "rescan"} => AtTheEnd(index, dropped, size, runEnd, log)
            /\ stage = "compact" => Dead(index) > runEnd
            /\ stage = "rescan" => IdsOf(index) \subseteq ReceiptsIn(log)
  <1>1. DOMAIN index = 1..Len(index)
    BY DEF InductiveInv, Shapes
  <1> QED BY <1>1 DEF IndexIsTheEnd, AtTheEnd

(* A window's records are filed behind the ones the index has.              *)
LEMMA FiledAtTheEnd ==
  ASSUME InductiveInv, IndexIsTheEnd, FileWindow
  PROVE  AtTheEnd(index', dropped', size', runEnd', log')
  <1> DEFINE filed == [i \in DOMAIN batch |->
                          [id |-> batch[i].id, iat |-> batch[i].iat, at |-> size + i]]
             m == Len(batch)
             n == Len(index)
  <1>1. /\ stage = "file" /\ index' = index \o filed /\ size' = size + m
        /\ log' = log /\ runEnd' = runEnd /\ dropped' = dropped
    BY DEF FileWindow, disk
  <1>2. /\ size \in Nat /\ runEnd \in 0..size /\ log \in Seq(AnyUnit)
        /\ batch \in Seq(Appends) /\ head \in Nat /\ index \in Seq(Entry)
        /\ \A i \in DOMAIN batch : log[size + i] = Frames[i]
    BY <1>1 DEF InductiveInv, Shapes, IndexSpan, WindowPlace, Entry
  <1>3. m \in Nat /\ DOMAIN batch = 1..m /\ n \in Nat
    BY <1>2
  <1>4. Appends \subseteq [id : Nat, iat : Nat]
    BY BoundsAssumption DEF Appends
  <1>5. filed \in Seq(Entry) /\ Len(filed) = m
        /\ \A i \in 1..m : filed[i].at = size + i /\ filed[i].id = batch[i].id
    <2>1. filed \in [1..m -> Entry]
      BY <1>2, <1>3, <1>4 DEF Entry
    <2> QED BY <1>3, <2>1, TupleIsASeq
  <1> HIDE DEF filed
  <1>6. /\ Len(index') = n + m
        /\ \A i \in 1..n : index'[i] = index[i]
        /\ \A i \in 1..m : index'[n + i] = filed[i]
    BY <1>1, <1>2, <1>5, BothPlaces
  <1>7. AtTheEnd(index, dropped, size, runEnd, log)
    BY <1>1, TheEnd
  <1>8. ASSUME NEW i \in 1 .. n + m
        PROVE  index'[i].at = size' - Len(index') + i /\ log[index'[i].at].id = index'[i].id
    <2>1. CASE i \in 1..n
      <3>1. index[i].at = size - n + i /\ log[index[i].at].id = index[i].id
        BY <1>7, <2>1 DEF AtTheEnd
      <3>2. size - n + i = size' - Len(index') + i
        BY <1>1, <1>2, <1>3, <1>6
      <3> QED BY <1>6, <2>1, <3>1, <3>2
    <2>2. CASE i \notin 1..n
      <3> DEFINE j == i - n
      <3>1. j \in 1..m /\ n + j = i
        BY <1>3, <2>2
      <3> HIDE DEF j
      <3>2. index'[i].at = size + j /\ index'[i].id = batch[j].id
        BY <1>5, <1>6, <3>1
      <3>3. size' - Len(index') + i = size + j
        <4>1. size' = size + m /\ Len(index') = n + m
          BY <1>1, <1>6
        <4> HIDE DEF n, m
        <4>2. (size + m) - (n + m) + i = size + j
          BY <1>2, <1>3, <3>1
        <4> QED BY <4>1, <4>2
      <3>4. log[size + j] = Frames[j] /\ Frames[j].id = batch[j].id
        BY <1>2, <1>3, <3>1, FramesShape
      <3> QED BY <3>2, <3>3, <3>4
    <2> QED BY <2>1, <2>2
  <1>9. Total(dropped) = size' - runEnd - Len(index')
    <2>1. Total(dropped) = size - runEnd - n
      BY <1>7 DEF AtTheEnd
    <2> QED BY <1>1, <1>2, <1>3, <1>6, <2>1
  <1> QED BY <1>1, <1>6, <1>7, <1>8, <1>9 DEF AtTheEnd

(* IndexIsTheEnd of the state behind a step.                                *)
LEMMA EndAfter ==
  ASSUME InductiveInv',
         stage' \notin {"down", "rescan"} => AtTheEnd(index', dropped', size', runEnd', log'),
         stage' = "compact" => Dead(index)' > runEnd',
         stage' = "rescan" => IdsOf(index)' \subseteq ReceiptsIn(log)'
  PROVE  IndexIsTheEnd'
  <1>1. DOMAIN index' = 1..Len(index')
    BY DEF InductiveInv, Shapes
  <1> QED BY <1>1 DEF IndexIsTheEnd, AtTheEnd

(* Steps that leave the index and the units it speaks for alone.            *)
LEMMA EndStays ==
  ASSUME InductiveInv, InductiveInv', IndexIsTheEnd, stage \notin {"down", "rescan"},
         UNCHANGED <<index, dropped, size, runEnd>>, \A i \in 1..size : log'[i] = log[i],
         stage' \notin {"rescan", "compact"}
  PROVE  IndexIsTheEnd'
  <1>1. AtTheEnd(index, dropped, size, runEnd, log)
    BY TheEnd
  <1>2. /\ DOMAIN index = 1..Len(index) /\ runEnd \in Nat /\ size \in Nat
        /\ \A i \in DOMAIN index : index[i].at \in runEnd + 1 .. size
    BY DEF InductiveInv, Shapes, IndexSpan
  <1>3. \A i \in 1..Len(index) : log'[index[i].at] = log[index[i].at]
    <2> TAKE i \in 1..Len(index)
    <2>1. index[i].at \in runEnd + 1 .. size
      BY <1>2
    <2>2. index[i].at \in 1..size
      BY <1>2, <2>1
    <2> QED BY <2>2
  <1>4. AtTheEnd(index', dropped', size', runEnd', log')
    BY <1>1, <1>3 DEF AtTheEnd
  <1> QED BY <1>4, EndAfter

(* Every step of the pump, or of a refusal, that is one of those.           *)
LEMMA IndexAloneStep ==
  ASSUME InductiveInv, InductiveInv', IndexIsTheEnd,
         \/ TakeWindow \/ WriteWindow \/ SyncWindow \/ SyncRefused \/ Rollback
         \/ \E k \in 0..Window, torn \in BOOLEAN : WriteFallsShort(k, torn)
         \/ CompactHeld \/ CompactReadsShort \/ AnswerWindow
  PROVE  IndexIsTheEnd'
  <1>1. /\ stage \notin {"down", "rescan"} /\ stage' \notin {"rescan", "compact"}
        /\ UNCHANGED <<index, dropped, size, runEnd>>
    BY DEF TakeWindow, WriteWindow, SyncWindow, SyncRefused, Rollback, WriteFallsShort, CompactHeld,
           CompactReadsShort, AnswerWindow, Answered, Refuses, RefusesFiled, store
  <1>2. \A i \in 1..size : log'[i] = log[i]
    <2>1. CASE WriteWindow
      <3>1. log \in Seq(AnyUnit) /\ batch \in Seq(Appends) /\ head \in Nat /\ size = Len(log)
        BY <2>1 DEF WriteWindow, InductiveInv, Shapes, WindowPlace
      <3>2. Frames \in Seq(AnyUnit)
        BY <3>1, FramesShape
      <3>3. log' = log \o Frames
        BY <2>1 DEF WriteWindow
      <3> QED BY <3>1, <3>2, <3>3, BothPlaces
    <2>2. CASE \E k \in 0..Window, torn \in BOOLEAN : WriteFallsShort(k, torn)
      <3>1. PICK k \in 0..Window, torn \in BOOLEAN : WriteFallsShort(k, torn)
        BY <2>2
      <3>2. /\ stage = "write" /\ k \in Nat /\ k < Len(Frames)
            /\ log' = log \o PartOf(Frames, k, torn)
        BY <3>1, BoundsAssumption DEF WriteFallsShort
      <3> QED BY <3>2, PartWritten
    <2>3. CASE Rollback
      <3> DEFINE span == SubSeq(log, 1, size)
      <3>1. size \in 0..Len(log) /\ \A i \in 1..size : span[i] = log[i]
        BY <1>1, SpanIsWhole
      <3>2. log' = span
        BY <2>3, <3>1 DEF Rollback, CutTo
      <3> HIDE DEF span
      <3> QED BY <3>1, <3>2
    <2> QED BY <2>1, <2>2, <2>3 DEF TakeWindow, SyncWindow, SyncRefused, CompactHeld, CompactReadsShort,
               AnswerWindow, disk
  <1> QED BY <1>1, <1>2, EndStays

(* A prune takes its records off the front of the index.                    *)
LEMMA PruneAtTheEnd ==
  ASSUME InductiveInv, IndexIsTheEnd, stage = "retire", Prune(retire(index, clock))
  PROVE  AtTheEnd(index', dropped', size, runEnd, log)
  <1> DEFINE doomed == retire(index, clock)
  <1>1. index \in Seq(Entry) /\ size \in Nat /\ runEnd \in Nat
    BY DEF InductiveInv, Shapes, Entry
  <1>2. /\ doomed.byAge \in Nat /\ doomed.byCount \in Nat
        /\ Total(doomed) \in 0..Len(index)
    BY <1>1, RetiresAtMostAll DEF Entry
  <1>3. index' = Rest(index, Total(doomed)) /\ dropped' = Plus(dropped, doomed)
    BY DEF Prune
  <1>4. AtTheEnd(index, dropped, size, runEnd, log)
    BY TheEnd
  <1> HIDE DEF doomed
  <1>5. AtTheEnd(Rest(index, Total(doomed)), dropped', size, runEnd, log)
    BY <1>1, <1>2, <1>3, <1>4, RestAtTheEnd
  <1> QED BY <1>3, <1>5

(* A prune that leaves more dead than live asks for a compaction.           *)
LEMMA RetireAtTheEnd ==
  ASSUME InductiveInv, InductiveInv', IndexIsTheEnd, RetireWindow
  PROVE  IndexIsTheEnd'
  <1>1. /\ stage = "retire" /\ Prune(retire(index, clock)) /\ stage' \in {"compact", "answer"}
        /\ UNCHANGED <<log, size, runEnd>>
        /\ stage' = "compact" => WorthCompacting(index')
    BY DEF RetireWindow, disk
  <1>2. AtTheEnd(index', dropped', size', runEnd', log')
    BY <1>1, PruneAtTheEnd
  <1>3. ASSUME stage' = "compact" PROVE Dead(index)' > runEnd'
    <2>1. Dead(index') # runEnd
      BY <1>1, <1>3 DEF WorthCompacting
    <2>2. Dead(index)' = Dead(index')
      BY <1>1 DEF Dead
    <2>3. /\ runEnd' \in Nat /\ size' \in Nat /\ runEnd' <= size' /\ index' \in Seq(Entry)
          /\ \A i \in DOMAIN index' : index'[i].at \in runEnd' + 1 .. size'
      BY <1>1 DEF InductiveInv, Shapes, IndexSpan, Entry
    <2>4. CASE index' = <<>>
      <3>1. Dead(index)' = size'
        BY <2>4 DEF Dead
      <3> QED BY <1>1, <2>1, <2>2, <2>3, <3>1
    <2>5. CASE index' # <<>>
      <3>1. Dead(index)' = index'[1].at - 1
        BY <2>5 DEF Dead
      <3>2. 1 \in DOMAIN index'
        BY <2>3, <2>5
      <3>3. index'[1].at \in runEnd' + 1 .. size'
        BY <2>3, <3>2
      <3> QED BY <1>1, <2>1, <2>2, <2>3, <3>1, <3>3
    <2> QED BY <2>4, <2>5
  <1> QED BY <1>1, <1>2, <1>3, EndAfter

(* A prune the clock cut short.                                             *)
LEMMA NoInstantAtTheEnd ==
  ASSUME InductiveInv, InductiveInv', IndexIsTheEnd, NoInstant
  PROVE  IndexIsTheEnd'
  <1>1. /\ stage = "retire" /\ stage' = "idle" /\ UNCHANGED <<log, size, runEnd>>
        /\ Prune(retire(index, clock)) \/ UNCHANGED <<index, dropped>>
    BY DEF NoInstant, RefusesFiled, disk
  <1>2. CASE UNCHANGED <<index, dropped>>
    BY <1>1, <1>2, EndStays
  <1>3. CASE Prune(retire(index, clock))
    <2>1. AtTheEnd(index', dropped', size', runEnd', log')
      BY <1>1, <1>3, PruneAtTheEnd
    <2> QED BY <1>1, <2>1, EndAfter
  <1> QED BY <1>1, <1>2, <1>3

(* The index that is not yet rescanned speaks of records that are all in    *)
(* the tail the compaction kept.                                            *)
LEMMA RenameAtTheEnd ==
  ASSUME InductiveInv, InductiveInv', IndexIsTheEnd, CompactRename
  PROVE  IndexIsTheEnd'
  <1> DEFINE d == Dead(index)
             tail == SubSeq(log, d + 1, size)
             n == Len(index)
  <1>1. /\ stage = "compact" /\ stage' = "rescan" /\ log' = Compacted /\ index' = index
    BY DEF CompactRename, store
  <1>2. /\ log \in Seq(AnyUnit) /\ Chained(log) /\ size = Len(log) /\ size \in Nat
        /\ runEnd \in 0..size
        /\ \A i \in 1..runEnd : IsTrim(log[i])
        /\ \A i \in runEnd + 1 .. size : IsReceipt(log[i])
        /\ index \in Seq([id : Nat, iat : Nat, at : Nat])
        /\ \A i \in DOMAIN index : index[i].at \in runEnd + 1 .. size
        /\ head \in Nat /\ dropped \in [byAge : Int, byCount : Int]
    <2>1. /\ log \in Seq(AnyUnit) /\ size \in Nat /\ runEnd \in Nat /\ head \in Nat
          /\ index \in Seq([id : Nat, iat : Nat, at : Nat])
          /\ dropped \in [byAge : Int, byCount : Int]
      BY DEF InductiveInv, Shapes
    <2>2. Chained(log) /\ size = Len(log)
      BY <1>1 DEF InductiveInv, DiskShape, WindowPlace
    <2>3. /\ runEnd <= size
          /\ \A i \in 1..runEnd : IsTrim(log[i])
          /\ \A i \in runEnd + 1 .. size : IsReceipt(log[i])
          /\ \A i \in DOMAIN index : index[i].at \in runEnd + 1 .. size
      BY <1>1 DEF InductiveInv, IndexSpan
    <2>4. runEnd \in 0..size
      BY <2>1, <2>3
    <2> QED BY <2>1, <2>2, <2>3, <2>4
  <1>3. /\ d \in runEnd..size
        /\ tail \in Seq(AnyUnit) /\ \A i \in 1..Len(tail) : IsReceipt(tail[i])
        /\ \E run \in Seq(AnyUnit) : Compacted = run \o tail
    BY <1>2, CompactedKeepsTheRest
  <1>4. AtTheEnd(index, dropped, size, runEnd, log)
    BY <1>1, TheEnd
  <1>5. ASSUME NEW i \in 1..n PROVE index[i].id \in ReceiptsIn(tail)
    <2>1. n \in Nat \ {0} /\ 1 \in 1..n /\ index # <<>>
      BY <1>2
    <2>2. d = index[1].at - 1
      BY <2>1 DEF Dead
    <2>3. index[1].at = size - n + 1
      BY <1>4, <2>1 DEF AtTheEnd
    <2>4. index[i].at = size - n + i /\ log[index[i].at].id = index[i].id
      BY <1>4 DEF AtTheEnd
    <2> HIDE DEF n
    <2>5. d = size - n
      BY <1>2, <2>1, <2>2, <2>3
    <2> HIDE DEF d
    <2>6. d \in 0..Len(log) /\ Len(log) - d = n
      BY <1>2, <1>3, <2>1, <2>5
    <2>7. /\ Len(tail) = n
          /\ \A j \in 1 .. n : tail[j] = log[d + j]
      <3>1. /\ Len(SubSeq(log, d + 1, Len(log))) = Len(log) - d
            /\ \A j \in 1 .. Len(log) - d : SubSeq(log, d + 1, Len(log))[j] = log[d + j]
        BY <1>2, <2>6, LastUnits
      <3> QED BY <1>2, <2>6, <3>1
    <2> HIDE DEF tail
    <2>8. tail[i] = log[index[i].at] /\ i \in DOMAIN tail /\ IsReceipt(tail[i])
      <3>1. tail[i] = log[d + i] /\ IsReceipt(tail[i])
        BY <1>3, <2>7
      <3>2. d + i = index[i].at
        BY <2>1, <2>4, <2>5
      <3>3. DOMAIN tail = 1..n
        BY <1>3, <2>7
      <3> QED BY <3>1, <3>2, <3>3
    <2> QED BY <2>4, <2>8 DEF ReceiptsIn
  <1>6. IdsOf(index) \subseteq ReceiptsIn(tail)
    <2>1. DOMAIN index = 1..n
      BY <1>2
    <2> QED BY <1>5, <2>1 DEF IdsOf
  <1> HIDE DEF tail, d
  <1>7. ReceiptsIn(tail) \subseteq ReceiptsIn(Compacted)
    BY <1>3, ReceiptsInBoth
  <1>8. IdsOf(index)' \subseteq ReceiptsIn(log)'
    BY <1>1, <1>6, <1>7
  <1> QED BY <1>1, <1>8, EndAfter

(* The new file is read from its beginning.                                 *)
LEMMA RescanAtTheEnd ==
  ASSUME InductiveInv, InductiveInv', CompactRescan
  PROVE  IndexIsTheEnd'
  <1>1. /\ log \in Seq(AnyUnit) /\ Chained(log) /\ Readings(log) = {log}
    BY ChainNow, ChainedHasNoLeftover DEF CompactRescan
  <1>2. /\ index' = IndexOf(log) /\ dropped' = Dropped(0, 0) /\ size' = Len(log)
        /\ runEnd' = TrimRun(log) /\ log' = log /\ stage' = "answer"
    BY <1>1 DEF CompactRescan, ReadsAs
  <1>3. AtTheEnd(index', dropped', size', runEnd', log')
    BY <1>1, <1>2, ScanAtTheEnd
  <1> QED BY <1>2, <1>3, EndAfter

(* An opening reads all and retires what came due.                          *)
LEMMA OpenAtTheEnd ==
  ASSUME InductiveInv, InductiveInv', OpenStore
  PROVE  IndexIsTheEnd'
  <1> DEFINE file == Whole(log)
             all == IndexOf(file)
             doomed == retire(all, clock)
  <1>1. file \in Seq(AnyUnit) /\ Chained(file) /\ Readings(log) = {file}
    BY ChainNow, OneReading
  <1>2. /\ index' = Rest(all, Total(doomed)) /\ dropped' = doomed /\ size' = Len(file)
        /\ runEnd' = TrimRun(file) /\ log' = file /\ stage' = "idle"
    BY <1>1 DEF OpenStore
  <1> HIDE DEF file
  <1>3. /\ AtTheEnd(all, Dropped(0, 0), Len(file), TrimRun(file), file) /\ all \in Seq(Entry)
        /\ Len(file) \in Nat /\ TrimRun(file) \in Nat
    BY <1>1, ScanAtTheEnd, IndexOfSpans
  <1> HIDE DEF all
  <1>4. /\ doomed \in [byAge : Int, byCount : Int]
        /\ doomed.byAge \in Nat /\ doomed.byCount \in Nat
        /\ Total(doomed) \in 0..Len(all)
    BY <1>3, RetiresAtMostAll DEF Entry
  <1> HIDE DEF doomed
  <1>5. Plus(Dropped(0, 0), doomed) = doomed
    <2>1. 0 + doomed.byAge = doomed.byAge /\ 0 + doomed.byCount = doomed.byCount
      BY <1>4
    <2> QED BY <1>4, <2>1 DEF Plus, Dropped
  <1>6. AtTheEnd(Rest(all, Total(doomed)), doomed, Len(file), TrimRun(file), file)
    BY <1>3, <1>4, <1>5, RestAtTheEnd
  <1>7. AtTheEnd(index', dropped', size', runEnd', log')
    BY <1>2, <1>6
  <1> QED BY <1>2, <1>7, EndAfter

(* The order is inductive, relative to InductiveInv.                        *)
LEMMA NextOrder ==
  ASSUME Faults \cap {"cut", "rescan"} = {}, InductiveInv, OrderInv, [Next]_vars
  PROVE  OrderInv'
  <1>1. InductiveInv'
    BY NextInductive
  <1>2. InLine' /\ RenameUndone'
    BY LineStep
  <1>3. IndexIsTheEnd
    BY DEF OrderInv
  <1> SUFFICES IndexIsTheEnd'
    BY <1>2 DEF OrderInv
  <1>4. CASE Tick \/ UNCHANGED vars \/ \E iat \in {clock - 1, clock} \cap Nat : Put(iat)
    <2>1. UNCHANGED <<log, stage, index, dropped, size, runEnd>>
      BY <1>4 DEF Tick, Put, vars, disk, store
    <2> QED BY <1>3, <2>1 DEF IndexIsTheEnd, Dead
  <1>5. CASE \/ TakeWindow \/ WriteWindow \/ SyncWindow \/ SyncRefused \/ Rollback
             \/ \E k \in 0..Window, torn \in BOOLEAN : WriteFallsShort(k, torn)
             \/ CompactHeld \/ CompactReadsShort \/ AnswerWindow
    BY <1>1, <1>3, <1>5, IndexAloneStep
  <1>6. CASE FileWindow
    <2>1. AtTheEnd(index', dropped', size', runEnd', log') /\ stage' = "retire"
      BY <1>3, <1>6, FiledAtTheEnd DEF FileWindow
    <2> QED BY <1>1, <2>1, EndAfter
  <1>7. CASE RetireWindow \/ NoInstant
    BY <1>1, <1>3, <1>7, RetireAtTheEnd, NoInstantAtTheEnd
  <1>8. CASE CompactRename \/ CompactRescan
    BY <1>1, <1>3, <1>8, RenameAtTheEnd, RescanAtTheEnd
  <1>9. CASE OpenStore
    BY <1>1, <1>9, OpenAtTheEnd
  <1>10. CASE \E k \in 0..MaxId, torn \in BOOLEAN : Kill(k, torn) \/ PowerLoss(k, torn)
    <2>1. stage' = "down"
      BY <1>10 DEF Kill, PowerLoss
    <2> QED BY <2>1 DEF IndexIsTheEnd
  <1>11. ~RescanFails /\ ~RollbackRefused
    BY RescanReads DEF RollbackRefused, Fault
  <1> QED BY <1>4, <1>5, <1>6, <1>7, <1>8, <1>9, <1>10, <1>11 DEF Next, Pump, Refusal, Restart

(* Nothing is chained at first.                                             *)
LEMMA EmptyChain == Init => Chain = <<>>
  <1> SUFFICES ASSUME Init PROVE Chain = <<>>
    OBVIOUS
  <1>1. Whole(<<>>) = <<>>
    BY DEF Whole
  <1>2. <<>> \in Seq(AnyUnit) /\ Len(<<>>) = 0
    OBVIOUS
  <1>3. TrimRun(<<>>) \in 0..0 /\ ChainOf(<<>>) \in Seq(Nat)
        /\ Len(ChainOf(<<>>)) = 0 - TrimRun(<<>>)
    BY <1>2, ChainPlaces
  <1>4. ChainOf(<<>>) = <<>>
    BY <1>3
  <1> QED BY <1>1, <1>4 DEF Init, Chain

(* The order holds at first.                                                *)
LEMMA InitOrder == Init => OrderInv
  <1> SUFFICES ASSUME Init PROVE OrderInv
    OBVIOUS
  <1>1. IndexIsTheEnd
    BY DEF Init, IndexIsTheEnd
  <1>2. InLine
    BY EmptyChain, NoIds DEF Init, InLine, ArrivalOrder, Before
  <1>3. RenameUndone
    BY DEF Init, RenameUndone
  <1> QED BY <1>1, <1>2, <1>3 DEF OrderInv

(* The index is the end of the file's chain, ids come into the chain in the *)
(* order they were minted in, and a rename a power loss undoes puts back    *)
(* the front of what followed it.                                           *)
THEOREM StoreInOrder ==
  ASSUME Faults \cap {"cut", "rescan"} = {}
  PROVE  Spec => []OrderInv
  <1>1. InductiveInv /\ OrderInv /\ [Next]_vars => OrderInv'
    BY NextOrder
  <1> QED BY InitOrder, StoreConsistent, <1>1, PTL DEF Spec

-----------------------------------------------------------------------------
(* What retention keeps.                                                    *)

(* What a step of a running store leaves in its index.                      *)
LEMMA KeepsStep ==
  ASSUME Faults \cap {"cut", "rescan"} = {}, InductiveInv, OrderInv, [Next]_vars, Serving, Serving',
         NEW i \in DOMAIN index, index[i].iat >= clock - MaxAge, i > Len(index) - MaxCount
  PROVE  index[i].id \in IdsOf(index')
  <1>1. /\ index \in Seq(Entry) /\ i \in 1..Len(index) /\ clock \in Nat
        /\ index[i].iat \in Nat /\ Len(index) \in Nat
    <2>1. index \in Seq(Entry) /\ clock \in 0..MaxClock
      BY DEF InductiveInv, Shapes, Entry
    <2>2. index[i] \in Entry /\ i \in 1..Len(index) /\ Len(index) \in Nat
      BY <2>1
    <2> QED BY <2>1, <2>2, BoundsAssumption DEF Entry
  <1>2. CASE index' = index
    BY <1>2 DEF IdsOf
  <1>3. CASE FileWindow
    <2> DEFINE filed == [j \in DOMAIN batch |->
                            [id |-> batch[j].id, iat |-> batch[j].iat, at |-> size + j]]
    <2>1. index' = index \o filed
      BY <1>3 DEF FileWindow
    <2>2. batch \in Seq(Appends) /\ size \in Nat /\ Appends \subseteq [id : Nat, iat : Nat]
      BY BoundsAssumption DEF InductiveInv, Shapes, Appends
    <2>3. filed \in Seq(Entry)
      <3>1. filed \in [1..Len(batch) -> Entry]
        BY <2>2 DEF Entry
      <3> QED BY <2>2, <3>1, TupleIsASeq
    <2> HIDE DEF filed
    <2>4. index' \in Seq(Entry) /\ Len(index') = Len(index) + Len(filed) /\ index'[i] = index[i]
      BY <1>1, <2>1, <2>3, BothPlaces
    <2>5. i \in DOMAIN index'
      BY <1>1, <2>3, <2>4
    <2> QED BY <2>4, <2>5 DEF IdsOf
  <1>4. CASE Prune(retire(index, clock))
    <2> DEFINE n == Total(retire(index, clock))
    <2>1. /\ n \in 0..Len(index)
          /\ \A j \in 1..n : index[j].iat < clock - MaxAge \/ j <= Len(index) - MaxCount
      BY <1>1, RetiresAtMostAll DEF Entry
    <2>2. index' = Rest(index, n)
      BY <1>4 DEF Prune
    <2> HIDE DEF n
    <2>3. i \notin 1..n
      <3> SUFFICES ASSUME i \in 1..n PROVE FALSE
        OBVIOUS
      <3>1. index[i].iat < clock - MaxAge \/ i <= Len(index) - MaxCount
        BY <2>1
      <3> QED BY <1>1, <3>1, BoundsAssumption
    <2>4. /\ Rest(index, n) \in Seq(Entry) /\ Len(Rest(index, n)) = Len(index) - n
          /\ \A j \in 1 .. Len(index) - n : Rest(index, n)[j] = index[n + j]
      BY <1>1, <2>1, LastUnits DEF Rest
    <2>5. i - n \in 1 .. Len(index) - n /\ n + (i - n) = i
      BY <1>1, <2>1, <2>3
    <2>6. index'[i - n] = index[i] /\ i - n \in DOMAIN index'
      BY <2>2, <2>4, <2>5
    <2> QED BY <2>6 DEF IdsOf
  <1>5. CASE CompactRescan
    <2>1. log \in Seq(AnyUnit) /\ Chained(log) /\ Readings(log) = {log} /\ stage = "rescan"
      BY <1>5, ChainNow, ChainedHasNoLeftover DEF CompactRescan
    <2>2. index' = IndexOf(log)
      BY <1>5, <2>1 DEF CompactRescan, ReadsAs
    <2>3. IdsOf(index) \subseteq ReceiptsIn(log)
      BY <2>1 DEF OrderInv, IndexIsTheEnd
    <2>4. index[i].id \in IdsOf(index)
      BY DEF IdsOf
    <2>5. IdsOf(index') = ReceiptsIn(log)
      BY <2>1, <2>2, ScanAtTheEnd
    <2> QED BY <2>3, <2>4, <2>5
  <1>6. ~RescanFails /\ ~RollbackRefused
    BY RescanReads DEF RollbackRefused, Fault
  <1>7. ~OpenStore /\ \A k \in 0..MaxId, torn \in BOOLEAN : ~Kill(k, torn) /\ ~PowerLoss(k, torn)
    BY DEF OpenStore, Kill, PowerLoss, Serving
  <1>8. index' = index \/ FileWindow \/ Prune(retire(index, clock)) \/ CompactRescan
    <2>1. CASE Tick \/ UNCHANGED vars \/ \E iat \in {clock - 1, clock} \cap Nat : Put(iat)
      BY <2>1 DEF Tick, Put, vars, store
    <2>2. CASE Pump
      BY <1>6, <2>2 DEF Pump, TakeWindow, WriteWindow, SyncWindow, Rollback, RetireWindow, CompactRename,
                        CompactReadsShort, AnswerWindow, store
    <2>3. CASE Refusal
      BY <1>6, <2>3 DEF Refusal, WriteFallsShort, SyncRefused, NoInstant, CompactHeld, store
    <2> QED BY <1>7, <2>1, <2>2, <2>3 DEF Next, Restart
  <1> QED BY <1>2, <1>3, <1>4, <1>5, <1>8

(* store.ts, retire and prune: no step of a running store takes from its    *)
(* index a young record that is among the newest MaxCount.                  *)
THEOREM PolicyIsKept ==
  ASSUME Faults \cap {"cut", "rescan"} = {}
  PROVE  Spec => KeepsWhatThePolicyKeeps
  <1>1. InductiveInv /\ OrderInv /\ [Next]_vars =>
          [Serving /\ Serving' =>
             \A i \in DOMAIN index :
                index[i].iat >= clock - MaxAge /\ i > Len(index) - MaxCount
                   => index[i].id \in IdsOf(index')]_vars
    BY KeepsStep
  <1> QED BY StoreConsistent, StoreInOrder, <1>1, PTL DEF Spec, KeepsWhatThePolicyKeeps

-----------------------------------------------------------------------------
(* The store implements the ledger.                                         *)

(* The ledger's words for a prefix and for what is on a chain.              *)
LEMMA LedgerWords ==
  ASSUME NEW c \in Seq(Nat), NEW d \in Seq(Nat)
  PROVE  (Ledger!Begins(c, d) <=> IsPrefix(c, d)) /\ Ledger!On(c) = SetOf(c)
  <1>1. SubSeq(c, 1, Len(c)) = c
    OBVIOUS
  <1> QED BY <1>1 DEF Ledger!Begins, Ledger!On, SetOf, IsPrefix

(* What is acknowledged is in the chain of a file that holds it.            *)
LEMMA KeptInTheChain ==
  ASSUME NEW file \in Seq(AnyUnit), Chained(Whole(file)), NEW taken \in Seq(Nat),
         NEW ids, Kept(ids, taken, file)
  PROVE  ids \subseteq SetOf(taken \o ChainOf(Whole(file)))
  <1>1. Whole(file) \in Seq(AnyUnit) /\ ReceiptsIn(Whole(file)) = ReceiptsIn(file)
    BY WholeIsAPrefix
  <1>2. /\ ChainOf(Whole(file)) \in Seq(Nat)
        /\ SetOf(ChainOf(Whole(file))) = ReceiptsIn(file)
    BY <1>1, ChainPlaces, ChainIsTheReceipts
  <1> QED BY <1>2, SetOfBoth DEF Kept

(* What is acknowledged behind a step is in the chain behind it.            *)
LEMMA AckedInTheChain ==
  ASSUME InductiveInv'
  PROVE  acked' \subseteq SetOf(Chain')
  <1>1. /\ log' \in Seq(AnyUnit) /\ Chained(Whole(log')) /\ gone' \in Seq(Nat)
        /\ synced' \in Seq(AnyUnit) /\ loose' \in Seq(AnyUnit) /\ log' = synced' \o loose'
        /\ Kept(acked', gone', synced')
    BY DEF InductiveInv, Shapes, DiskShape, ChainWhole, OnVolume
  <1>2. ReceiptsIn(log') = ReceiptsIn(synced') \cup ReceiptsIn(loose')
    BY <1>1, ReceiptsInBoth
  <1>3. Kept(acked', gone', log')
    BY <1>1, <1>2 DEF Kept
  <1> QED BY <1>1, <1>3, KeptInTheChain DEF Chain

(* The end of the chain goes, and nothing acknowledged and nothing sealed.  *)
LEMMA LosesTheEnd ==
  ASSUME Chain \in Seq(Nat), Chain' \in Seq(Nat), IsPrefix(Chain', Chain), InductiveInv',
         UNCHANGED <<gone, acked>>
  PROVE  [Ledger!Next]_(Ledger!vars)
  <1>1. Ledger!Begins(Chain', Chain) /\ Ledger!On(Chain') = SetOf(Chain')
    BY LedgerWords
  <1>2. acked \subseteq SetOf(Chain')
    BY AckedInTheChain
  <1>3. Len(gone) <= Len(Chain')
    <2>1. gone' \in Seq(Nat) /\ Whole(log') \in Seq(AnyUnit)
      BY WholeIsAPrefix DEF InductiveInv, Shapes
    <2>2. ChainOf(Whole(log')) \in Seq(Nat)
      BY <2>1, ChainPlaces
    <2>3. Len(Chain') = Len(gone') + Len(ChainOf(Whole(log')))
      BY <2>1, <2>2, BothPlaces DEF Chain
    <2> QED BY <2>1, <2>2, <2>3
  <1> QED BY <1>1, <1>2, <1>3 DEF Ledger!Next, Ledger!Lose, Ledger!vars

(* Every step of the store is one of the ledger, or a stutter.              *)
LEMMA LedgerStep ==
  ASSUME Faults \cap {"cut", "rescan"} = {}, InductiveInv, OrderInv, [Next]_vars
  PROVE  [Ledger!Next]_(Ledger!vars)
  <1>1. InductiveInv' /\ OrderInv'
    BY NextInductive, NextOrder
  <1>2. Chain \in Seq(Nat)
    BY ChainNow
  <1> USE DEF OrderInv
  <1>3. CASE Quiet
    <2>1. Chain' = Chain /\ gone' = gone /\ (acked' = acked \/ AnswerWindow)
      BY <1>3, QuietChain
    <2>2. acked' \subseteq SetOf(Chain) /\ acked \subseteq acked'
      BY <1>1, <2>1, AckedInTheChain DEF AnswerWindow, Answered
    <2>3. Ledger!On(Chain) = SetOf(Chain)
      BY <1>2, LedgerWords
    <2> QED BY <2>1, <2>2, <2>3 DEF Ledger!Next, Ledger!Acknowledge, Ledger!vars
  <1>4. CASE TakeWindow \/ \E iat \in {clock - 1, clock} \cap Nat : Put(iat)
    <2>1. Chain' = Chain /\ UNCHANGED <<gone, acked>>
      BY <1>4 DEF Put, TakeWindow, disk, outside, Chain
    <2> QED BY <2>1 DEF Ledger!vars
  <1>5. CASE \/ WriteWindow
             \/ \E k \in 0..Window, torn \in BOOLEAN : WriteFallsShort(k, torn)
             \/ stage = "write" /\ \E k \in 0..MaxId, torn \in BOOLEAN : Kill(k, torn)
    <2>1. PICK k \in 0..Len(batch) : Grows(k)
      BY <1>5, WindowGrows
    <2>2. /\ Chain' \in Seq(Nat) /\ IsPrefix(Chain, Chain') /\ Len(Chain') = Len(Chain) + k
      BY <2>1, GrowthInLine
    <2>3. gone' = gone /\ acked' = acked
      BY <2>1 DEF Grows
    <2>4. Ledger!Begins(Chain, Chain') /\ Ledger!On(Chain') = SetOf(Chain')
      BY <1>2, <2>2, LedgerWords
    <2>5. Ascends(Chain') /\ SetOf(Chain') \subseteq 1 .. nextId' - 1 /\ nextId' \in 1 .. MaxId + 1
      BY <1>1 DEF InLine, ArrivalOrder, Ascends, InductiveInv, Shapes
    <2>6. SetOf(Chain') \subseteq 1..MaxId
      <3> DEFINE n == nextId'
      <3>1. n \in 1 .. MaxId + 1 /\ MaxId \in Nat
        BY <2>5, BoundsAssumption
      <3> HIDE DEF n
      <3>2. 1 .. n - 1 \subseteq 1..MaxId
        BY <3>1
      <3>3. 1 .. nextId' - 1 \subseteq 1..MaxId
        BY <3>2 DEF n
      <3> QED BY <2>5, <3>3
    <2>7. \A i, j \in DOMAIN Chain' : Chain'[i] = Chain'[j] => i = j
      <3> SUFFICES ASSUME NEW i \in DOMAIN Chain', NEW j \in DOMAIN Chain', Chain'[i] = Chain'[j], i # j
                   PROVE  FALSE
        OBVIOUS
      <3>1. i \in Nat /\ j \in Nat /\ Chain'[i] \in Nat
        BY <2>2
      <3>2. i < j => Chain'[i] < Chain'[j]
        BY <2>5 DEF Ascends
      <3>3. j < i => Chain'[j] < Chain'[i]
        BY <2>5 DEF Ascends
      <3> QED BY <3>1, <3>2, <3>3
    <2>8. CASE k = 0
      <3>1. Chain' = Chain
        <4>1. Len(Chain') = Len(Chain) /\ \A i \in 1..Len(Chain) : Chain[i] = Chain'[i]
          BY <1>2, <2>2, <2>8, PrefixPlaces
        <4> QED BY <1>2, <2>2, <4>1, SeqEqual
      <3> QED BY <2>3, <3>1 DEF Ledger!vars
    <2>9. CASE k # 0
      <3>1. Len(Chain) < Len(Chain')
        BY <1>2, <2>2, <2>9
      <3> QED BY <2>3, <2>4, <2>6, <2>7, <3>1 DEF Ledger!Next, Ledger!Extend, Ledger!vars
    <2> QED BY <2>8, <2>9
  <1>6. CASE Rollback
    <2>1. Chain' \in Seq(Nat) /\ IsPrefix(Chain', Chain) /\ gone' = gone
      BY <1>1, <1>6, RollbackShrinks
    <2>2. acked' = acked
      BY <1>6 DEF Rollback, Refuses
    <2> QED BY <1>1, <1>2, <2>1, <2>2, LosesTheEnd
  <1>7. CASE CompactRename
    <2>1. /\ Chain' = Chain /\ Len(gone) < Len(gone') /\ Len(gone') <= Len(Chain)
      BY <1>7, CompactionMovesIds DEF IndexIsTheEnd, CompactRename
    <2>2. acked' = acked
      BY <1>7 DEF CompactRename
    <2> QED BY <2>1, <2>2 DEF Ledger!Next, Ledger!Seal, Ledger!vars
  <1>8. CASE \E k \in 0..MaxId, torn \in BOOLEAN : PowerLoss(k, torn)
    <2>1. Chain' \in Seq(Nat) /\ IsPrefix(Chain', Chain) /\ (gone' = gone \/ Len(gone') < Len(gone))
      BY <1>8, PowerLossShrinks
    <2>2. acked' = acked
      BY <1>8 DEF PowerLoss
    <2>3. CASE gone' = gone
      BY <1>1, <1>2, <2>1, <2>2, <2>3, LosesTheEnd
    <2>4. CASE Len(gone') < Len(gone)
      <3>1. Len(gone') \in Nat
        <4>1. gone' \in Seq(Nat)
          BY <1>1 DEF InductiveInv, Shapes
        <4> QED BY <4>1
      <3>2. Ledger!Begins(Chain', Chain) /\ Ledger!On(Chain') = SetOf(Chain')
        BY <1>2, <2>1, LedgerWords
      <3>3. acked \subseteq SetOf(Chain')
        BY <1>1, <2>2, AckedInTheChain
      <3> QED BY <2>2, <2>4, <3>1, <3>2, <3>3 DEF Ledger!Next, Ledger!Unseal
    <2> QED BY <2>1, <2>3, <2>4
  <1> QED BY <1>3, <1>4, <1>5, <1>6, <1>7, <1>8, EveryStep

(* The store implements the ledger: its chain grows at the back alone, a    *)
(* crash or a refusal takes back the end and nothing acknowledged, and a    *)
(* compaction seals a front that only the power loss behind it reopens      *)
(* (ReceiptStore.put and ChainState of gateway/src/store.ts).               *)
THEOREM StoreImplementsLedger ==
  ASSUME Faults \cap {"cut", "rescan"} = {}
  PROVE  Spec => ImplementsLedger
  <1>1. Init => Ledger!Init
    <2>1. Init => Chain = <<>>
      BY EmptyChain
    <2>2. Init => Len(gone) = 0 /\ acked = {}
      BY DEF Init
    <2> QED BY <2>1, <2>2 DEF Ledger!Init
  <1>2. InductiveInv /\ OrderInv /\ [Next]_vars => [Ledger!Next]_(Ledger!vars)
    BY LedgerStep
  <1> QED BY StoreConsistent, StoreInOrder, <1>1, <1>2, PTL DEF Spec, ImplementsLedger, Ledger!Spec

-----------------------------------------------------------------------------
(* What every variable ranges over.                                         *)

(* What a unit says is within the bounds.                                   *)
LEMMA UnitBounds ==
  ASSUME NEW unit \in Units
  PROVE  /\ IsReceipt(unit) => unit.id \in 1..MaxId /\ unit.iat \in 0..MaxClock /\ unit.prev \in 0..MaxId
         /\ IsTrim(unit) => unit.seam \in 0..MaxId
         /\ UnitId(unit) \in 0..MaxId /\ unit \in AnyUnit
  <1>1. CASE unit \in [kind : {"receipt"}, id : 1..MaxId, iat : 0..MaxClock, prev : 0..MaxId]
    <2>1. IsReceipt(unit) /\ ~IsTrim(unit)
      BY <1>1 DEF IsReceipt, IsTrim
    <2>2. UnitId(unit) = unit.id /\ unit.id \in 0..MaxId
      BY <1>1, <2>1, BoundsAssumption DEF UnitId
    <2> QED BY <1>1, <2>1, <2>2, BoundsAssumption DEF AnyUnit
  <1>2. CASE unit \in [kind : {"trim"}, seam : 0..MaxId, byAge : 0..MaxId, byCount : 0..MaxId]
    <2>1. IsTrim(unit) /\ ~IsReceipt(unit)
      BY <1>2 DEF IsReceipt, IsTrim
    <2> QED BY <1>2, <2>1, BoundsAssumption DEF AnyUnit, UnitId, Origin
  <1>3. CASE unit \in {Torn, Zeros}
    BY <1>3, BoundsAssumption DEF AnyUnit, UnitId, Origin, IsReceipt, IsTrim, Torn, Zeros
  <1> QED BY <1>1, <1>2, <1>3 DEF Units

(* Cuts and joins of files of such units.                                   *)
LEMMA CutsOfUnits ==
  ASSUME NEW file \in Seq(Units)
  PROVE  /\ \A n \in 0..Len(file) : SubSeq(file, 1, n) \in Seq(Units)
         /\ \A n \in 0..Len(file) : SubSeq(file, n + 1, Len(file)) \in Seq(Units)
         /\ Whole(file) \in Seq(Units)
         /\ \A k \in 0..Len(file), torn \in BOOLEAN : PartOf(file, k, torn) \in Seq(Units)
         /\ \A more \in Seq(Units) : file \o more \in Seq(Units)
         /\ file \in Seq(AnyUnit)
  <1>1. \A n \in 0..Len(file) : SubSeq(file, 1, n) \in Seq(Units)
    BY FirstUnits
  <1>2. \A n \in 0..Len(file) : SubSeq(file, n + 1, Len(file)) \in Seq(Units)
    BY LastUnits
  <1>3. Whole(file) \in Seq(Units)
    <2>1. CASE file # <<>> /\ file[Len(file)] = Torn
      <3>1. Len(file) - 1 \in 0..Len(file)
        BY <2>1
      <3>2. SubSeq(file, 1, Len(file) - 1) \in Seq(Units)
        BY <1>1, <3>1
      <3> QED BY <2>1, <3>2 DEF Whole
    <2> QED BY <2>1 DEF Whole
  <1>4. \A more \in Seq(Units) : file \o more \in Seq(Units)
    BY BothPlaces
  <1>5. ASSUME NEW k \in 0..Len(file), NEW torn \in BOOLEAN PROVE PartOf(file, k, torn) \in Seq(Units)
    <2>1. SubSeq(file, 1, k) \in Seq(Units)
      BY <1>1
    <2>2. Torn \in Units
      BY DEF Units
    <2>3. Leftover(torn) \in Seq(Units)
      BY <2>2 DEF Leftover
    <2> QED BY <2>1, <2>3, BothPlaces DEF PartOf
  <1>6. file \in Seq(AnyUnit)
    <2>1. Units \subseteq AnyUnit
      BY UnitBounds
    <2> QED BY <2>1
  <1> QED BY <1>1, <1>2, <1>3, <1>4, <1>5, <1>6

(* What a record chained behind any of them names, and what a scan reads.   *)
LEMMA ReadsOfUnits ==
  ASSUME NEW file \in Seq(Units), Chained(file)
  PROVE  /\ HeadOf(file) \in 0..MaxId /\ Seam(file) \in 0..MaxId
         /\ IndexOf(file) \in Seq(Entries)
         /\ SubSeq(file, 1, TrimRun(file)) \in Seq(Units)
  <1>1. file \in Seq(AnyUnit)
    BY CutsOfUnits
  <1>2. /\ TrimRun(file) \in 0..Len(file)
        /\ \A i \in TrimRun(file) + 1 .. Len(file) : IsReceipt(file[i])
    BY <1>1, IndexOfSpans
  <1>3. ASSUME NEW i \in 1 .. Len(file) + 1 PROVE ExpectedPrev(file, i) \in 0..MaxId
    <2>1. CASE i = 1
      BY <2>1, BoundsAssumption DEF ExpectedPrev, Origin
    <2>2. CASE i # 1
      <3>1. file[i - 1] \in Units
        BY <2>2
      <3> QED BY <2>2, <3>1, UnitBounds DEF ExpectedPrev
    <2> QED BY <2>1, <2>2
  <1>4. HeadOf(file) \in 0..MaxId /\ Seam(file) \in 0..MaxId
    <2>1. Len(file) + 1 \in 1 .. Len(file) + 1 /\ TrimRun(file) + 1 \in 1 .. Len(file) + 1
      BY <1>2
    <2> QED BY <1>3, <2>1 DEF HeadOf, Seam
  <1>5. IndexOf(file) \in Seq(Entries)
    <2> DEFINE r == TrimRun(file)
               n == Len(file) - r
    <2>1. IndexOf(file) = [k \in 1..n |-> [id |-> file[r + k].id, iat |-> file[r + k].iat, at |-> r + k]]
      BY DEF IndexOf
    <2>2. n \in Nat
      BY <1>2
    <2>3. ASSUME NEW k \in 1..n
          PROVE  [id |-> file[r + k].id, iat |-> file[r + k].iat, at |-> r + k] \in Entries
      <3>1. r + k \in r + 1 .. Len(file) /\ r + k \in 1..Len(file) /\ r + k \in Nat
        BY <1>2, <2>2
      <3> HIDE DEF r
      <3>2. file[r + k] \in Units /\ IsReceipt(file[r + k])
        BY <1>2, <3>1 DEF r
      <3> QED BY <3>1, <3>2, UnitBounds DEF Entries
    <2> HIDE DEF n, r
    <2>4. IndexOf(file) \in [1..n -> Entries]
      BY <2>1, <2>3
    <2> QED BY <2>2, <2>4, TupleIsASeq
  <1> QED BY <1>2, <1>4, <1>5, CutsOfUnits

(* The records of a window.                                                 *)
LEMMA FramesOfUnits ==
  ASSUME batch \in Seq(Appends), head \in 0..MaxId
  PROVE  Frames \in Seq(Units) /\ Len(Frames) = Len(batch)
  <1>1. DOMAIN batch = 1..Len(batch) /\ Len(batch) \in Nat
    OBVIOUS
  <1>2. \A i \in 1..Len(batch) : batch[i].id \in 1..MaxId /\ batch[i].iat \in 0..MaxClock
    <2> TAKE i \in 1..Len(batch)
    <2>1. batch[i] \in Appends
      BY <1>1
    <2> QED BY <2>1 DEF Appends
  <1>3. 1..MaxId \subseteq 0..MaxId
    BY BoundsAssumption
  <1>4. ASSUME NEW i \in 1..Len(batch)
        PROVE  Receipt(batch[i].id, batch[i].iat, IF i = 1 THEN head ELSE batch[i - 1].id) \in Units
    <2>1. (IF i = 1 THEN head ELSE batch[i - 1].id) \in 0..MaxId
      <3>1. CASE i = 1
        BY <3>1
      <3>2. CASE i # 1
        <4>1. i - 1 \in 1..Len(batch)
          BY <1>1, <3>2
        <4> QED BY <1>2, <1>3, <3>2, <4>1
      <3> QED BY <3>1, <3>2
    <2> QED BY <1>2, <2>1 DEF Receipt, Units
  <1>5. Frames \in [1..Len(batch) -> Units]
    BY <1>1, <1>4 DEF Frames
  <1> QED BY <1>1, <1>5, TupleIsASeq

(* What a compaction writes.                                                *)
LEMMA CompactedOfUnits ==
  ASSUME InductiveInv, IndexIsTheEnd, TypeOK, stage = "compact"
  PROVE  Compacted \in Seq(Units)
  <1> DEFINE d == Dead(index)
             tail == SubSeq(log, d + 1, size)
             seam == IF tail = <<>> THEN head ELSE IF IsReceipt(tail[1]) THEN tail[1].prev ELSE Origin
  <1>1. /\ log \in Seq(Units) /\ head \in 0..MaxId /\ dropped \in [byAge : 0..MaxId, byCount : 0..MaxId]
        /\ size = Len(log) /\ runEnd \in 0..size /\ size \in Nat
    <2>1. log \in Seq(Units) /\ head \in 0..MaxId /\ dropped \in [byAge : 0..MaxId, byCount : 0..MaxId]
          /\ runEnd \in Nat /\ size \in Nat
      BY DEF TypeOK
    <2>2. size = Len(log) /\ runEnd <= size
      BY DEF InductiveInv, IndexSpan, WindowPlace
    <2> QED BY <2>1, <2>2
  <1>2. d \in 0..size
    <2>1. \A i \in DOMAIN index : index[i].at \in runEnd + 1 .. size
      BY DEF InductiveInv, IndexSpan
    <2>2. CASE index = <<>>
      BY <1>1, <2>2 DEF Dead
    <2>3. CASE index # <<>>
      <3>1. 1 \in DOMAIN index
        BY <2>3 DEF TypeOK
      <3>2. index[1].at \in runEnd + 1 .. size
        BY <2>1, <3>1
      <3> QED BY <1>1, <2>3, <3>2 DEF Dead
    <2> QED BY <2>2, <2>3
  <1> HIDE DEF d
  <1>3. tail \in Seq(Units)
    BY <1>1, <1>2, CutsOfUnits
  <1> HIDE DEF tail
  <1>4. seam \in 0..MaxId
    <2>1. CASE tail = <<>>
      BY <1>1, <2>1
    <2>2. CASE tail # <<>>
      <3>1. tail[1] \in Units
        BY <1>3, <2>2
      <3>2. IsReceipt(tail[1]) => tail[1].prev \in 0..MaxId
        BY <3>1, UnitBounds
      <3>3. Origin \in 0..MaxId
        BY BoundsAssumption DEF Origin
      <3> QED BY <2>2, <3>2, <3>3
    <2> QED BY <2>1, <2>2
  <1> HIDE DEF seam
  <1>5. Trim(seam, dropped.byAge, dropped.byCount) \in Units
    BY <1>1, <1>4 DEF Trim, Units
  <1>6. <<Trim(seam, dropped.byAge, dropped.byCount)>> \in Seq(Units)
    BY <1>5
  <1>7. SubSeq(log, 1, runEnd) \in Seq(Units)
    BY <1>1, CutsOfUnits
  <1>8. Compacted = SubSeq(log, 1, runEnd) \o <<Trim(seam, dropped.byAge, dropped.byCount)>> \o tail
    BY DEF Compacted, seam, tail, d
  <1>9. SubSeq(log, 1, runEnd) \o <<Trim(seam, dropped.byAge, dropped.byCount)>> \in Seq(Units)
    BY <1>6, <1>7, CutsOfUnits
  <1> QED BY <1>3, <1>8, <1>9, CutsOfUnits

(* The bytes stay within the bounds.                                        *)
LEMMA BytesStayTyped ==
  ASSUME Faults \cap {"cut", "rescan"} = {}, InductiveInv, OrderInv, TypeOK, [Next]_vars
  PROVE  /\ log' \in Seq(Units) /\ synced' \in Seq(Units) /\ loose' \in Seq(Units)
         /\ shadow' \in Seq(Units) /\ trims' \in Seq(Units)
  <1>1. /\ log \in Seq(Units) /\ synced \in Seq(Units) /\ loose \in Seq(Units)
        /\ shadow \in Seq(Units) /\ trims \in Seq(Units) /\ <<>> \in Seq(Units)
        /\ batch \in Seq(Appends) /\ head \in 0..MaxId
    BY DEF TypeOK
  <1>2. Frames \in Seq(Units) /\ Len(Frames) = Len(batch)
    BY <1>1, FramesOfUnits
  <1>3. CASE WriteWindow
    <2>1. log \o Frames \in Seq(Units) /\ loose \o Frames \in Seq(Units)
      BY <1>1, <1>2, CutsOfUnits
    <2> QED BY <1>1, <1>3, <2>1 DEF WriteWindow, store
  <1>4. CASE \/ \E k \in 0..Window, torn \in BOOLEAN : WriteFallsShort(k, torn)
             \/ \E k \in 0..MaxId, torn \in BOOLEAN : Kill(k, torn)
    <2>1. PICK part \in Seq(Units) : log' = log \o part /\ loose' = loose \o part
      <3>1. CASE \E k \in 0..Window, torn \in BOOLEAN : WriteFallsShort(k, torn)
        <4>1. PICK k \in 0..Window, torn \in BOOLEAN : WriteFallsShort(k, torn)
          BY <3>1
        <4>2. k \in 0..Len(Frames)
          BY <1>2, <4>1, BoundsAssumption DEF WriteFallsShort
        <4>3. PartOf(Frames, k, torn) \in Seq(Units)
          BY <1>2, <4>2, CutsOfUnits
        <4> QED BY <4>1, <4>3 DEF WriteFallsShort
      <3>2. CASE \E k \in 0..MaxId, torn \in BOOLEAN : Kill(k, torn)
        <4>1. PICK k \in 0..MaxId, torn \in BOOLEAN : Kill(k, torn)
          BY <3>2
        <4>2. CASE stage = "write"
          <5>1. k \in 0..Len(Frames)
            BY <1>2, <4>1, <4>2, BoundsAssumption DEF Kill
          <5>2. PartOf(Frames, k, torn) \in Seq(Units)
            BY <1>2, <5>1, CutsOfUnits
          <5> QED BY <4>1, <4>2, <5>2 DEF Kill
        <4>3. CASE stage # "write"
          BY <1>1, <4>1, <4>3 DEF Kill
        <4> QED BY <4>2, <4>3
      <3> QED BY <1>4, <3>1, <3>2
    <2>2. log \o part \in Seq(Units) /\ loose \o part \in Seq(Units)
      BY <1>1, <2>1, CutsOfUnits
    <2> QED BY <1>1, <1>4, <2>1, <2>2 DEF WriteFallsShort, Kill, store
  <1>5. CASE SyncWindow
    BY <1>1, <1>5 DEF SyncWindow, store
  <1>6. CASE Rollback
    <2>1. size \in 0..Len(log)
      BY <1>6, SpanIsWhole DEF Rollback
    <2>2. CutTo(size) \in Seq(Units)
      BY <1>1, <2>1, CutsOfUnits DEF CutTo
    <2> QED BY <1>1, <1>6, <2>2 DEF Rollback, store
  <1>7. CASE CompactRename
    <2>1. Compacted \in Seq(Units)
      BY <1>7, CompactedOfUnits DEF CompactRename, OrderInv
    <2> QED BY <1>1, <1>7, <2>1 DEF CompactRename, store
  <1>8. CASE CompactRescan
    <2>1. Chained(log) /\ Readings(log) = {log}
      BY <1>8, ChainNow, ChainedHasNoLeftover DEF CompactRescan
    <2>2. SubSeq(log, 1, TrimRun(log)) \in Seq(Units)
      BY <1>1, <2>1, ReadsOfUnits
    <2> QED BY <1>1, <1>8, <2>1, <2>2 DEF CompactRescan, ReadsAs
  <1>9. CASE \E k \in 0..MaxId, torn \in BOOLEAN : PowerLoss(k, torn)
    <2>1. PICK k \in 0..MaxId, torn \in BOOLEAN : PowerLoss(k, torn)
      BY <1>9
    <2>2. k \in 0..Len(loose)
      BY <1>1, <2>1, BoundsAssumption DEF PowerLoss
    <2>3. PartOf(loose, k, torn) \in Seq(Units)
      BY <1>1, <2>2, CutsOfUnits
    <2>4. synced \o PartOf(loose, k, torn) \in Seq(Units)
      BY <1>1, <2>3, CutsOfUnits
    <2> QED BY <1>1, <2>1, <2>4 DEF PowerLoss, store
  <1>10. CASE OpenStore
    <2> DEFINE file == Whole(log)
    <2>1. Chained(file) /\ Readings(log) = {file} /\ file \in Seq(Units)
      BY <1>1, ChainNow, OneReading, CutsOfUnits
    <2>2. Whole(synced) \in Seq(Units) /\ Whole(loose) \in Seq(Units)
      BY <1>1, CutsOfUnits
    <2>3. /\ log' = file /\ trims' = SubSeq(file, 1, TrimRun(file))
          /\ synced' = Whole(synced) /\ loose' = Whole(loose) /\ shadow' = shadow
      BY <1>10, <2>1 DEF OpenStore
    <2> HIDE DEF file
    <2>4. SubSeq(file, 1, TrimRun(file)) \in Seq(Units)
      BY <2>1, ReadsOfUnits
    <2> QED BY <1>1, <2>1, <2>2, <2>3, <2>4
  <1>11. CASE UNCHANGED <<disk, trims>>
    BY <1>1, <1>11 DEF disk
  <1>12. \/ UNCHANGED <<disk, trims>> \/ WriteWindow \/ SyncWindow \/ Rollback \/ CompactRename
         \/ CompactRescan \/ OpenStore
         \/ \E k \in 0..Window, torn \in BOOLEAN : WriteFallsShort(k, torn)
         \/ \E k \in 0..MaxId, torn \in BOOLEAN : Kill(k, torn) \/ PowerLoss(k, torn)
    <2>1. CASE Tick \/ UNCHANGED vars \/ \E iat \in {clock - 1, clock} \cap Nat : Put(iat)
      BY <2>1 DEF Tick, Put, vars, store
    <2>2. CASE Pump
      <3>1. ~RescanFails
        BY RescanReads
      <3> QED BY <2>2, <3>1 DEF Pump, TakeWindow, FileWindow, RetireWindow, CompactReadsShort, AnswerWindow, store
    <2>3. CASE Refusal
      <3>1. ~RollbackRefused
        BY DEF RollbackRefused, Fault
      <3> QED BY <2>3, <3>1 DEF Refusal, SyncRefused, NoInstant, CompactHeld, store
    <2> QED BY <2>1, <2>2, <2>3 DEF Next, Restart
  <1> QED BY <1>3, <1>4, <1>5, <1>6, <1>7, <1>8, <1>9, <1>10, <1>11, <1>12

(* An ascending sequence of ids is no longer than there are ids.            *)
LEMMA AscendingFits ==
  ASSUME NEW c \in Seq(Nat), Ascends(c), NEW n \in Nat, SetOf(c) \subseteq 1..n
  PROVE  Len(c) <= n
  <1> SUFFICES ASSUME n < Len(c) PROVE FALSE
    OBVIOUS
  <1>1. Len(c) \in Nat
    OBVIOUS
  <1>2. /\ IsFiniteSet(1..n) /\ Cardinality(1..n) = n
        /\ IsFiniteSet(1..Len(c)) /\ Cardinality(1..Len(c)) = Len(c)
    <2>1. \A m \in Nat : IsFiniteSet(1..m) /\ Cardinality(1..m) = m
      <3> TAKE m \in Nat
      <3>1. 1 \in Int /\ m \in Int
        OBVIOUS
      <3>2. IsFiniteSet(1..m) /\ Cardinality(1..m) = IF 1 > m THEN 0 ELSE m - 1 + 1
        BY <3>1, FS_Interval, Zenon
      <3>3. 1 > m => m = 0
        OBVIOUS
      <3>4. m - 1 + 1 = m
        OBVIOUS
      <3> QED BY <3>2, <3>3, <3>4
    <2> QED BY <1>1, <2>1
  <1>3. c \in [1..Len(c) -> 1..n]
    <2>1. \A i \in 1..Len(c) : c[i] \in 1..n
      BY DEF SetOf
    <2> QED BY <2>1
  <1>4. \E x, y \in 1..Len(c) : x # y /\ c[x] = c[y]
    BY <1>2, <1>3, FS_PigeonHole
  <1>5. PICK x \in 1..Len(c), y \in 1..Len(c) : x # y /\ c[x] = c[y]
    BY <1>4
  <1>6. c[x] \in Nat /\ c[y] \in Nat /\ x \in DOMAIN c /\ y \in DOMAIN c /\ x \in Nat /\ y \in Nat
    OBVIOUS
  <1>7. x < y => c[x] < c[y]
    BY <1>6 DEF Ascends
  <1>8. y < x => c[y] < c[x]
    BY <1>6 DEF Ascends
  <1> QED BY <1>5, <1>6, <1>7, <1>8

(* The span an index speaks for holds no more receipts than there are ids.  *)
LEMMA SpanFits ==
  ASSUME NEW file \in Seq(AnyUnit), Chained(file), NEW taken \in Seq(Nat), NEW n \in Nat,
         Ascends(taken \o ChainOf(file)), SetOf(taken \o ChainOf(file)) \subseteq 1..n,
         NEW end \in 0..Len(file), NEW run \in 0..end,
         \A i \in run + 1 .. end : IsReceipt(file[i])
  PROVE  end - run <= n
  <1> DEFINE r == TrimRun(file)
             all == taken \o ChainOf(file)
  <1>1. /\ r \in 0..Len(file) /\ \A i \in 1..r : IsTrim(file[i])
        /\ ChainOf(file) \in Seq(Nat) /\ Len(ChainOf(file)) = Len(file) - r
    BY TrimRunIsThere, ChainPlaces
  <1>2. all \in Seq(Nat) /\ Len(all) = Len(taken) + Len(ChainOf(file))
    BY <1>1, BothPlaces
  <1>3. Len(all) <= n
    BY <1>2, AscendingFits
  <1> HIDE DEF r, all
  <1>4. run < end => r <= run
    <2> SUFFICES ASSUME run < end, run < r PROVE FALSE
      BY <1>1
    <2>1. run + 1 \in 1..r /\ run + 1 \in run + 1 .. end
      BY <1>1
    <2>2. IsTrim(file[run + 1]) /\ IsReceipt(file[run + 1])
      BY <1>1, <2>1
    <2> QED BY <2>2 DEF IsTrim, IsReceipt
  <1>5. Len(taken) \in Nat
    OBVIOUS
  <1> QED BY <1>1, <1>2, <1>3, <1>4, <1>5

(* The index, and what is published of the chain, stay within the bounds.   *)
LEMMA IndexStaysTyped ==
  ASSUME Faults \cap {"cut", "rescan"} = {}, InductiveInv, TypeOK, [Next]_vars
  PROVE  /\ index' \in Seq(Entries) /\ head' \in 0..MaxId /\ anchor' \in 0..MaxId
         /\ syncedThrough' \in Nat
  <1>1. /\ index \in Seq(Entries) /\ head \in 0..MaxId /\ anchor \in 0..MaxId
        /\ syncedThrough \in Nat /\ size \in Nat /\ log \in Seq(Units) /\ batch \in Seq(Appends)
    BY DEF TypeOK
  <1>2. CASE FileWindow
    <2> DEFINE filed == [i \in DOMAIN batch |->
                            [id |-> batch[i].id, iat |-> batch[i].iat, at |-> size + i]]
    <2>1. /\ index' = index \o filed /\ head' = batch[Len(batch)].id
          /\ anchor' \in {head, anchor} /\ syncedThrough' = syncedThrough
          /\ Len(batch) \in 1..Len(batch)
      BY <1>1, <1>2 DEF FileWindow, InductiveInv, WindowPlace
    <2>2. \A i \in 1..Len(batch) : batch[i] \in Appends
      BY <1>1
    <2>3. \A i \in 1..Len(batch) :
             [id |-> batch[i].id, iat |-> batch[i].iat, at |-> size + i] \in Entries
      BY <1>1, <2>2 DEF Appends, Entries
    <2>4. DOMAIN batch = 1..Len(batch) /\ Len(batch) \in Nat
      BY <1>1
    <2>5. filed \in Seq(Entries)
      <3>1. filed \in [1..Len(batch) -> Entries]
        BY <2>3, <2>4
      <3> QED BY <2>4, <3>1, TupleIsASeq
    <2> HIDE DEF filed
    <2>6. index \o filed \in Seq(Entries)
      BY <1>1, <2>5, BothPlaces
    <2>7. head' \in 0..MaxId
      <3>1. batch[Len(batch)] \in Appends
        BY <2>1, <2>2
      <3>2. batch[Len(batch)].id \in 1..MaxId
        BY <3>1 DEF Appends
      <3> QED BY <2>1, <3>2, BoundsAssumption
    <2> QED BY <1>1, <2>1, <2>6, <2>7
  <1>3. CASE RetireWindow \/ NoInstant
    <2>1. /\ UNCHANGED <<head, anchor, syncedThrough>>
          /\ index' = index \/ index' = Rest(index, Total(retire(index, clock)))
      BY <1>3 DEF RetireWindow, NoInstant, Prune
    <2>2. Total(retire(index, clock)) \in 0..Len(index)
      <3>1. index \in Seq([id : Nat, iat : Nat, at : Nat])
        BY DEF InductiveInv, Shapes
      <3> QED BY <3>1, RetiresAtMostAll
    <2>3. Rest(index, Total(retire(index, clock))) \in Seq(Entries)
      BY <1>1, <2>2, LastUnits DEF Rest
    <2> QED BY <1>1, <2>1, <2>3
  <1>4. CASE CompactRescan
    <2>1. Chained(log) /\ Readings(log) = {log}
      BY <1>4, ChainNow, ChainedHasNoLeftover DEF CompactRescan
    <2>2. /\ index' = IndexOf(log) /\ head' = HeadOf(log) /\ anchor' = Seam(log)
          /\ syncedThrough' = syncedThrough
      BY <1>4, <2>1 DEF CompactRescan, ReadsAs
    <2> QED BY <1>1, <2>1, <2>2, ReadsOfUnits
  <1>5. CASE OpenStore
    <2> DEFINE file == Whole(log)
               all == IndexOf(file)
               n == Total(retire(all, clock))
    <2>1. Chained(file) /\ Readings(log) = {file} /\ file \in Seq(Units) /\ file \in Seq(AnyUnit)
      BY <1>1, ChainNow, OneReading, CutsOfUnits
    <2>2. /\ index' = Rest(all, n) /\ head' = HeadOf(file) /\ anchor' = Seam(file)
          /\ syncedThrough' = Len(file)
      BY <1>5, <2>1 DEF OpenStore
    <2> HIDE DEF file
    <2>3. /\ all \in Seq(Entries) /\ HeadOf(file) \in 0..MaxId /\ Seam(file) \in 0..MaxId
          /\ Len(file) \in Nat
      BY <2>1, ReadsOfUnits
    <2>4. n \in 0..Len(all)
      <3>1. all \in Seq([id : Nat, iat : Nat, at : Nat])
        BY <2>1, IndexOfSpans
      <3> QED BY <3>1, RetiresAtMostAll
    <2> HIDE DEF n, all
    <2>5. Rest(all, n) \in Seq(Entries)
      BY <2>3, <2>4, LastUnits DEF Rest
    <2> QED BY <2>2, <2>3, <2>5
  <1>6. CASE SyncWindow \/ Rollback \/ AnswerWindow
    <2>1. /\ UNCHANGED <<index, head, anchor>>
          /\ syncedThrough' \in {syncedThrough, size, size + Len(batch)}
      BY <1>6 DEF SyncWindow, Rollback, AnswerWindow, store
    <2>2. size + Len(batch) \in Nat
      BY <1>1
    <2> QED BY <1>1, <2>1, <2>2
  <1>7. UNCHANGED <<index, head, anchor, syncedThrough>>
        \/ FileWindow \/ RetireWindow \/ NoInstant \/ CompactRescan \/ OpenStore
        \/ SyncWindow \/ Rollback \/ AnswerWindow
    <2>1. CASE Tick \/ UNCHANGED vars \/ \E iat \in {clock - 1, clock} \cap Nat : Put(iat)
      BY <2>1 DEF Tick, Put, vars, store
    <2>2. CASE Pump
      <3>1. ~RescanFails
        BY RescanReads
      <3> QED BY <2>2, <3>1 DEF Pump, TakeWindow, WriteWindow, CompactRename, CompactReadsShort, store
    <2>3. CASE Refusal
      <3>1. ~RollbackRefused
        BY DEF RollbackRefused, Fault
      <3> QED BY <2>3, <3>1 DEF Refusal, WriteFallsShort, SyncRefused, CompactHeld, store
    <2>4. CASE Restart
      BY <2>4 DEF Restart, Kill, PowerLoss, store
    <2> QED BY <2>1, <2>2, <2>3, <2>4 DEF Next
  <1> QED BY <1>1, <1>2, <1>3, <1>4, <1>5, <1>6, <1>7

(* What a store tallies is what left the file it speaks for, so it fits.    *)
LEMMA TallyStaysTyped ==
  ASSUME Faults \cap {"cut", "rescan"} = {}, InductiveInv', OrderInv', TypeOK, [Next]_vars
  PROVE  dropped' \in [byAge : 0..MaxId, byCount : 0..MaxId]
  <1>1. \/ dropped' = dropped \/ stage' \notin {"down", "rescan", "rollback"}
    <2>1. CASE Tick \/ UNCHANGED vars \/ \E iat \in {clock - 1, clock} \cap Nat : Put(iat)
      BY <2>1 DEF Tick, Put, vars, store
    <2>2. CASE Pump
      BY <2>2 DEF Pump, TakeWindow, WriteWindow, SyncWindow, Rollback, FileWindow, RetireWindow, CompactRename,
                  CompactReadsShort, CompactRescan, RescanFails, AnswerWindow, Answered, Refuses, RefusesFiled, store
    <2>3. CASE Refusal
      BY <2>3 DEF Refusal, WriteFallsShort, SyncRefused, RollbackRefused, NoInstant, CompactHeld, Refuses,
                  RefusesFiled, store
    <2>4. CASE Restart
      BY <2>4 DEF Restart, Kill, PowerLoss, OpenStore, store
    <2> QED BY <2>1, <2>2, <2>3, <2>4 DEF Next
  <1>2. CASE dropped' = dropped
    BY <1>2 DEF TypeOK
  <1>3. CASE stage' \notin {"down", "rescan", "rollback"}
    <2>1. /\ log' \in Seq(AnyUnit) /\ Chained(log') /\ gone' \in Seq(Nat)
          /\ dropped' \in [byAge : Int, byCount : Int] /\ size' \in Nat /\ runEnd' \in Nat
          /\ index' \in Seq([id : Nat, iat : Nat, at : Nat]) /\ nextId' \in 1 .. MaxId + 1
      BY <1>3 DEF InductiveInv, Shapes, DiskShape
    <2>2. /\ runEnd' <= size' /\ size' <= Len(log')
          /\ \A i \in runEnd' + 1 .. size' : IsReceipt(log'[i])
      BY <1>3 DEF InductiveInv, IndexSpan
    <2>3. Chain' = gone' \o ChainOf(log')
      <3>1. Whole(log') = log'
        BY <2>1, ChainedHasNoLeftover
      <3> QED BY <3>1 DEF Chain
    <2>4. Ascends(Chain') /\ SetOf(Chain') \subseteq 1 .. nextId' - 1
      BY DEF OrderInv, InLine, ArrivalOrder, Ascends
    <2>5. SetOf(Chain') \subseteq 1..MaxId
      <3> DEFINE n == nextId'
      <3>1. n \in 1 .. MaxId + 1 /\ MaxId \in Nat
        BY <2>1, BoundsAssumption
      <3> HIDE DEF n
      <3>2. 1 .. n - 1 \subseteq 1..MaxId
        BY <3>1
      <3>3. 1 .. nextId' - 1 \subseteq 1..MaxId
        BY <3>2 DEF n
      <3> QED BY <2>4, <3>3
    <2>6. size' \in 0..Len(log') /\ runEnd' \in 0..size'
      BY <2>1, <2>2
    <2>7. size' - runEnd' <= MaxId
      BY <2>1, <2>2, <2>3, <2>4, <2>5, <2>6, SpanFits, BoundsAssumption
    <2>8. /\ dropped'.byAge \in Nat /\ dropped'.byCount \in Nat
          /\ dropped'.byAge + dropped'.byCount = size' - runEnd' - Len(index')
      BY <1>3 DEF OrderInv, IndexIsTheEnd, Total
    <2>9. dropped'.byAge \in 0..MaxId /\ dropped'.byCount \in 0..MaxId
      <3> DEFINE a == dropped'.byAge
                 b == dropped'.byCount
                 c == size' - runEnd'
                 l == Len(index')
      <3>1. a \in Nat /\ b \in Nat /\ c \in Int /\ l \in Nat /\ a + b = c - l /\ c <= MaxId
        BY <2>1, <2>7, <2>8
      <3> HIDE DEF a, b, c, l
      <3>2. a \in 0..MaxId /\ b \in 0..MaxId
        BY <3>1, BoundsAssumption
      <3> QED BY <3>2 DEF a, b
    <2> QED BY <2>1, <2>9
  <1> QED BY <1>1, <1>2, <1>3

(* A sequence ranges over what it holds.                                    *)
LEMMA SeqOver ==
  ASSUME NEW s \in Seq(Nat), NEW T, SetOf(s) \subseteq T
  PROVE  s \in Seq(T)
  <1>1. \A i \in 1..Len(s) : s[i] \in T
    BY DEF SetOf
  <1> QED BY <1>1

(* Ids that were answered, refused or taken away were minted.               *)
LEMMA IdsStayTyped ==
  ASSUME InductiveInv', OrderInv', TypeOK, [Next]_vars
  PROVE  /\ acked' \subseteq 1..MaxId /\ refused' \subseteq 1..MaxId
         /\ gone' \in Seq(1..MaxId) /\ goneBefore' \in Seq(1..MaxId)
         /\ mishaps' \in 0..MaxMishaps
  <1>1. SetOf(Chain') \cup refused' \subseteq 1 .. nextId' - 1 /\ nextId' \in 1 .. MaxId + 1
    BY DEF OrderInv, InLine, InductiveInv, Shapes
  <1>2. 1 .. nextId' - 1 \subseteq 1..MaxId
    <2> DEFINE n == nextId'
    <2>1. n \in 1 .. MaxId + 1 /\ MaxId \in Nat
      BY <1>1, BoundsAssumption
    <2> HIDE DEF n
    <2>2. 1 .. n - 1 \subseteq 1..MaxId
      BY <2>1
    <2> QED BY <2>2 DEF n
  <1>3. acked' \subseteq SetOf(Chain')
    BY AckedInTheChain
  <1>4. gone' \in Seq(1..MaxId)
    <2>1. gone' \in Seq(Nat) /\ Whole(log') \in Seq(AnyUnit)
      BY WholeIsAPrefix DEF InductiveInv, Shapes
    <2>2. ChainOf(Whole(log')) \in Seq(Nat)
      BY <2>1, ChainPlaces
    <2>3. SetOf(gone') \subseteq SetOf(Chain')
      BY <2>1, <2>2, SetOfBoth DEF Chain
    <2>4. SetOf(gone') \subseteq 1..MaxId
      BY <1>1, <1>2, <2>3
    <2> QED BY <2>1, <2>4, SeqOver
  <1>5. goneBefore' \in {goneBefore, gone}
    BY DEF Next, Pump, Refusal, Restart, Tick, Put, vars, outside, TakeWindow, WriteWindow, SyncWindow, Rollback,
           FileWindow, RetireWindow, CompactRename, CompactReadsShort, CompactRescan, RescanFails, AnswerWindow,
           WriteFallsShort, SyncRefused, RollbackRefused, NoInstant, CompactHeld, Kill, PowerLoss, OpenStore,
           Answered, Refuses, RefusesFiled
  <1>6. mishaps' = mishaps \/ Mishap
    BY DEF Next, Pump, Refusal, Restart, Tick, Put, vars, TakeWindow, WriteWindow, SyncWindow, Rollback,
           FileWindow, RetireWindow, CompactRename, CompactReadsShort, CompactRescan, RescanFails, AnswerWindow,
           WriteFallsShort, SyncRefused, RollbackRefused, NoInstant, CompactHeld, Kill, PowerLoss, OpenStore, Fault
  <1>7. mishaps' \in 0..MaxMishaps
    BY <1>6, BoundsAssumption DEF Mishap, TypeOK
  <1> QED BY <1>1, <1>2, <1>3, <1>4, <1>5, <1>7 DEF TypeOK

(* The types are inductive, relative to the two invariants.                 *)
LEMMA NextTyped ==
  ASSUME Faults \cap {"cut", "rescan"} = {}, InductiveInv, OrderInv, TypeOK, [Next]_vars
  PROVE  TypeOK'
  <1>1. InductiveInv' /\ OrderInv'
    BY NextInductive, NextOrder
  <1>2. /\ log' \in Seq(Units) /\ synced' \in Seq(Units) /\ loose' \in Seq(Units)
        /\ shadow' \in Seq(Units) /\ trims' \in Seq(Units)
    BY BytesStayTyped
  <1>3. /\ index' \in Seq(Entries) /\ head' \in 0..MaxId /\ anchor' \in 0..MaxId
        /\ syncedThrough' \in Nat
    BY IndexStaysTyped
  <1>4. dropped' \in [byAge : 0..MaxId, byCount : 0..MaxId]
    BY <1>1, TallyStaysTyped
  <1>5. /\ acked' \subseteq 1..MaxId /\ refused' \subseteq 1..MaxId
        /\ gone' \in Seq(1..MaxId) /\ goneBefore' \in Seq(1..MaxId)
        /\ mishaps' \in 0..MaxMishaps
    BY <1>1, IdsStayTyped
  <1>6. /\ stage' \in Stages /\ pending' \in Seq(Appends) /\ batch' \in Seq(Appends)
        /\ size' \in Nat /\ runEnd' \in Nat
        /\ nextId' \in 1 .. MaxId + 1 /\ clock' \in 0..MaxClock
    BY <1>1 DEF InductiveInv, Shapes
  <1> QED BY <1>2, <1>3, <1>4, <1>5, <1>6 DEF TypeOK

(* The types hold at first.                                                 *)
LEMMA InitTyped == Init => TypeOK
  <1> SUFFICES ASSUME Init PROVE TypeOK
    OBVIOUS
  <1>1. /\ <<>> \in Seq(Units) /\ <<>> \in Seq(Appends) /\ <<>> \in Seq(Entries) /\ <<>> \in Seq(1..MaxId)
        /\ 0 \in 0..MaxId /\ 1 \in 1 .. MaxId + 1 /\ 0 \in 0..MaxClock /\ 0 \in 0..MaxMishaps
    BY BoundsAssumption
  <1> QED BY <1>1 DEF Init, TypeOK, Origin, Dropped, Stages

(* What the state of a store is at every step: within its types, bytes,     *)
(* index and window agreeing and in order, no refused put on file, records  *)
(* in the order their puts arrived, and each entry of the index found in    *)
(* the file where the index has it (gateway/src/store.ts, FileReceiptStore).*)
THEOREM StoreStaysConsistent ==
  ASSUME Faults \cap {"cut", "rescan"} = {}
  PROVE  Spec => []StoreIsConsistent
  <1>1. InductiveInv /\ OrderInv /\ TypeOK /\ [Next]_vars => TypeOK'
    BY NextTyped
  <1>2. InductiveInv /\ OrderInv => RefusedStaysOut /\ ArrivalOrder
    <2> SUFFICES ASSUME InductiveInv, OrderInv PROVE RefusedStaysOut /\ ArrivalOrder
      OBVIOUS
    <2>1. ReceiptsIn(log) \subseteq SetOf(Chain)
      BY ChainNow
    <2> QED BY <2>1 DEF OrderInv, InLine, RefusedStaysOut
  <1>3. InductiveInv /\ OrderInv => IndexFindsItsRecords
    <2> SUFFICES ASSUME InductiveInv, OrderInv, Settled, NEW i \in DOMAIN index
                 PROVE  /\ index[i].at \in DOMAIN log
                        /\ IsReceipt(log[index[i].at]) /\ log[index[i].at].id = index[i].id
      BY DEF IndexFindsItsRecords
    <2>1. /\ runEnd \in Nat /\ size \in Nat /\ size <= Len(log) /\ log \in Seq(AnyUnit)
          /\ index[i].at \in runEnd + 1 .. size
          /\ \A j \in runEnd + 1 .. size : IsReceipt(log[j])
      BY DEF InductiveInv, Shapes, IndexSpan, Settled, Serving
    <2>2. index[i].at \in DOMAIN log
      BY <2>1
    <2>3. log[index[i].at].id = index[i].id
      BY DEF OrderInv, IndexIsTheEnd, Settled, Serving
    <2> QED BY <2>1, <2>2, <2>3
  <1>4. TypeOK /\ InductiveInv /\ OrderInv => StoreIsConsistent
    BY <1>2, <1>3 DEF StoreIsConsistent
  <1> QED BY InitTyped, StoreConsistent, StoreInOrder, <1>1, <1>4, PTL DEF Spec

-----------------------------------------------------------------------------
(* The walk a caller asks for (RangeWalk), over the variables MCStore gives *)
(* it.  What is known of finite sets is restated for RangeWalk's own        *)
(* instance of FiniteSets.                                                  *)

LEMMA SameFinite == \A S : Walked!IsFiniteSet(S) <=> IsFiniteSet(S)
  BY DEF Walked!IsFiniteSet, IsFiniteSet

LEMMA SameCount == \A S : Walked!Cardinality(S) = Cardinality(S)
  BY Zenon DEF Walked!Cardinality, Cardinality

(* Counts of finite sets, in those terms. *)
LEMMA CountIsNat ==
  ASSUME NEW S, Walked!IsFiniteSet(S)
  PROVE  Walked!Cardinality(S) \in Nat
  BY FS_CardinalityType, SameFinite, SameCount

LEMMA NoneCount == Walked!IsFiniteSet({}) /\ Walked!Cardinality({}) = 0
  BY FS_EmptySet, SameFinite, SameCount

LEMMA PartCount ==
  ASSUME NEW S, Walked!IsFiniteSet(S), NEW T \in SUBSET S
  PROVE  Walked!IsFiniteSet(T) /\ Walked!Cardinality(T) <= Walked!Cardinality(S)
  BY FS_Subset, SameFinite, SameCount

LEMMA OneMore ==
  ASSUME NEW S, NEW x, Walked!IsFiniteSet(S)
  PROVE  /\ Walked!IsFiniteSet(S \cup {x})
         /\ x \notin S => Walked!Cardinality(S \cup {x}) = Walked!Cardinality(S) + 1
  BY FS_AddElement, SameFinite, SameCount

LEMMA SpanCount ==
  ASSUME NEW n \in Nat
  PROVE  Walked!IsFiniteSet(1..n) /\ Walked!Cardinality(1..n) = n
  <1>1. IsFiniteSet(1..n) /\ Cardinality(1..n) = n
    BY FS_Interval
  <1> QED BY <1>1, SameFinite, SameCount

LEMMA InjectionCount ==
  ASSUME NEW S, NEW T, NEW f \in Injection(S, T), Walked!IsFiniteSet(T),
         Walked!Cardinality(S) = Walked!Cardinality(T)
  PROVE  f \in Surjection(S, T)
  BY FS_Injection, SameFinite, SameCount

LEMMA SurjectionCount ==
  ASSUME NEW S, NEW T, NEW f \in Surjection(S, T), Walked!IsFiniteSet(S)
  PROVE  Walked!IsFiniteSet(T)
  BY FS_Surjection, SameFinite, SameCount

(* The least and the greatest of a set of naturals. *)
LEMMA LeastIsThere ==
  ASSUME NEW S \in SUBSET Nat, S # {}
  PROVE  Walked!Min(S) \in S /\ \A y \in S : Walked!Min(S) <= y
  BY LeastElement DEF Walked!Min

LEMMA GreatestIsThere ==
  ASSUME NEW S \in SUBSET Nat, S # {}, NEW n \in Nat, \A x \in S : x <= n
  PROVE  Walked!Max(S) \in S /\ \A y \in S : y <= Walked!Max(S)
  <1> DEFINE T == {n - x : x \in S}
  <1>0. \A x \in S : n - x \in Nat
    OBVIOUS
  <1>1. T \in SUBSET Nat /\ T # {}
    BY <1>0
  <1>2. PICK t \in T : \A u \in T : t <= u
    BY <1>1, LeastElement
  <1>3. PICK x \in S : t = n - x
    BY <1>2
  <1>4. \A y \in S : x >= y
    <2> SUFFICES ASSUME NEW y \in S PROVE x >= y
      OBVIOUS
    <2>1. n - y \in T
      OBVIOUS
    <2> QED BY <2>1, <1>2, <1>3
  <1>5. Walked!Max(S) \in S /\ \A y \in S : Walked!Max(S) >= y
    BY <1>4 DEF Walked!Max
  <1> QED BY <1>5

(* Entries in front of one, in an index: fewer than in front of a later one.*)
LEMMA InFront ==
  ASSUME NEW S, Walked!IsIndex(S), NEW d \in S, NEW e \in S
  PROVE  LET front(x) == Walked!Cardinality({y \in S : y.seq < x.seq})
         IN  /\ front(e) \in Nat /\ front(e) < Walked!Cardinality(S)
             /\ d.rec < e.rec => front(d) < front(e)
             /\ d.seq < e.seq <=> d.rec < e.rec
  <1> DEFINE InFrontOf(x) == {y \in S : y.seq < x.seq}
  <1>1. Walked!IsFiniteSet(S) /\ \A x \in S : x \in Walked!Entries
    BY DEF Walked!IsIndex
  <1>2. \A x \in S : Walked!IsFiniteSet(InFrontOf(x)) /\ Walked!Cardinality(InFrontOf(x)) \in Nat
    BY <1>1, PartCount, CountIsNat
  <1>3. \A x \in S : /\ Walked!IsFiniteSet(InFrontOf(x) \cup {x})
                     /\ Walked!Cardinality(InFrontOf(x) \cup {x}) = Walked!Cardinality(InFrontOf(x)) + 1
    <2> SUFFICES ASSUME NEW x \in S
                 PROVE  /\ Walked!IsFiniteSet(InFrontOf(x) \cup {x})
                        /\ Walked!Cardinality(InFrontOf(x) \cup {x}) = Walked!Cardinality(InFrontOf(x)) + 1
      OBVIOUS
    <2>1. x \notin InFrontOf(x)
      BY <1>1 DEF Walked!Entries
    <2> HIDE DEF InFrontOf
    <2> QED BY <1>2, <2>1, OneMore
  <1>4. d.seq < e.seq <=> d.rec < e.rec
    BY <1>1 DEF Walked!IsIndex, Walked!Entries
  <1>5. Walked!Cardinality(InFrontOf(e)) < Walked!Cardinality(S)
    <2>1. InFrontOf(e) \cup {e} \subseteq S
      OBVIOUS
    <2>2. Walked!Cardinality(InFrontOf(e) \cup {e}) <= Walked!Cardinality(S)
      BY <1>1, <2>1, PartCount
    <2>3. Walked!Cardinality(S) \in Nat
      BY <1>1, CountIsNat
    <2> HIDE DEF InFrontOf
    <2> QED BY <1>2, <1>3, <2>2, <2>3
  <1>6. d.rec < e.rec => Walked!Cardinality(InFrontOf(d)) < Walked!Cardinality(InFrontOf(e))
    <2> SUFFICES ASSUME d.rec < e.rec PROVE Walked!Cardinality(InFrontOf(d)) < Walked!Cardinality(InFrontOf(e))
      OBVIOUS
    <2>1. InFrontOf(d) \cup {d} \subseteq InFrontOf(e)
      BY <1>1, <1>4 DEF Walked!Entries
    <2>2. Walked!Cardinality(InFrontOf(d) \cup {d}) <= Walked!Cardinality(InFrontOf(e))
      BY <1>2, <2>1, PartCount
    <2>3. /\ Walked!Cardinality(InFrontOf(d)) \in Nat /\ Walked!Cardinality(InFrontOf(e)) \in Nat
          /\ Walked!Cardinality(InFrontOf(d) \cup {d}) = Walked!Cardinality(InFrontOf(d)) + 1
      BY <1>2, <1>3
    <2> HIDE DEF InFrontOf
    <2> QED BY <2>2, <2>3
  <1> QED BY <1>2, <1>4, <1>5, <1>6

(* What Chained makes of an index: all of it, in the order of its records.  *)
LEMMA ChainedOrder ==
  ASSUME NEW S, Walked!IsIndex(S)
  PROVE  /\ Walked!Chained(S) \in Seq(S)
         /\ \A e \in S : \E i \in DOMAIN Walked!Chained(S) : Walked!Chained(S)[i] = e
         /\ Walked!Climbs(Walked!Chained(S))
  <1> DEFINE front(x) == Walked!Cardinality({y \in S : y.seq < x.seq})
             n == Walked!Cardinality(S)
             f == [e \in S |-> front(e) + 1]
  <1>1. Walked!IsFiniteSet(S) /\ n \in Nat
    BY CountIsNat DEF Walked!IsIndex
  <1>2. \A e \in S : front(e) \in Nat /\ front(e) < n
    BY InFront
  <1>3. \A d, e \in S : d.rec < e.rec => front(d) < front(e)
    BY InFront
  <1>4. \A d, e \in S : front(d) = front(e) => d = e
    <2> SUFFICES ASSUME NEW d \in S, NEW e \in S, front(d) = front(e) PROVE d = e
      OBVIOUS
    <2> HIDE DEF front
    <2>1. ~(d.rec < e.rec) /\ ~(e.rec < d.rec)
      BY <1>2, <1>3
    <2> QED BY <2>1 DEF Walked!IsIndex, Walked!Entries
  <1> HIDE DEF n
  <1>5. f \in Injection(S, 1..n)
    <2> HIDE DEF front
    <2>1. f \in [S -> 1..n]
      BY <1>1, <1>2
    <2>2. \A d, e \in S : f[d] = f[e] => d = e
      BY <1>2, <1>4
    <2> QED BY <2>1, <2>2 DEF Injection, IsInjective
  <1>6. f \in Surjection(S, 1..n)
    <2>1. Walked!IsFiniteSet(1..n) /\ Walked!Cardinality(1..n) = n
      BY <1>1, SpanCount
    <2> HIDE DEF f
    <2> QED BY <1>5, <2>1, InjectionCount DEF n
  <1>7. \A i \in 1..n : \E e \in S : front(e) = i - 1
    <2> SUFFICES ASSUME NEW i \in 1..n PROVE \E e \in S : front(e) = i - 1
      OBVIOUS
    <2>1. PICK e \in S : f[e] = i
      BY <1>6 DEF Surjection
    <2>2. f[e] = front(e) + 1
      OBVIOUS
    <2> HIDE DEF front, f
    <2> QED BY <1>2, <2>1, <2>2
  <1>8. /\ Walked!Chained(S) = [i \in 1..n |-> CHOOSE e \in S : front(e) = i - 1]
    BY DEF Walked!Chained, n
  <1> HIDE DEF front
  <1>9. \A i \in 1..n : Walked!Chained(S)[i] \in S /\ front(Walked!Chained(S)[i]) = i - 1
    BY <1>7, <1>8
  <1>10. DOMAIN Walked!Chained(S) = 1..n
    BY <1>8
  <1>11. Walked!Chained(S) \in Seq(S)
    BY <1>1, <1>8, <1>9
  <1>12. \A e \in S : \E i \in 1..n : Walked!Chained(S)[i] = e
    <2> SUFFICES ASSUME NEW e \in S PROVE \E i \in 1..n : Walked!Chained(S)[i] = e
      OBVIOUS
    <2>1. front(e) + 1 \in 1..n
      BY <1>1, <1>2
    <2> QED BY <2>1, <1>2, <1>4, <1>9
  <1>13. Walked!Climbs(Walked!Chained(S))
    <2> SUFFICES ASSUME NEW i \in 1..n, NEW j \in 1..n, i < j
                 PROVE  Walked!Chained(S)[i].rec < Walked!Chained(S)[j].rec
      BY <1>10 DEF Walked!Climbs
    <2>1. /\ Walked!Chained(S)[i] \in S /\ Walked!Chained(S)[j] \in S
          /\ front(Walked!Chained(S)[i]) < front(Walked!Chained(S)[j])
      BY <1>1, <1>9
    <2>2. Walked!Chained(S)[i].rec \in Nat /\ Walked!Chained(S)[j].rec \in Nat
      BY <2>1 DEF Walked!IsIndex, Walked!Entries
    <2>3. Walked!Chained(S)[i].rec # Walked!Chained(S)[j].rec
      BY <1>2, <2>1 DEF Walked!IsIndex
    <2> QED BY <1>2, <1>3, <2>1, <2>2, <2>3
  <1> QED BY <1>10, <1>11, <1>12, <1>13

(* A part of an index is an index. *)
LEMMA PartOfAnIndex ==
  ASSUME NEW S, Walked!IsIndex(S), NEW T \in SUBSET S
  PROVE  Walked!IsIndex(T)
  BY PartCount DEF Walked!IsIndex

(* The first entries of an index, as many as are asked for: none only when  *)
(* it has none, and every other entry stands behind all of them.            *)
LEMMA FirstSlots ==
  ASSUME NEW S, Walked!IsIndex(S), NEW n \in Nat \ {0}
  PROVE  LET T == {e \in S : Walked!Cardinality({d \in S : d.slot < e.slot}) < n}
         IN  /\ T = {} => S = {}
             /\ \A e \in S \ T : \A t \in T : t.slot < e.slot
  <1> DEFINE InFrontOf(x) == {y \in S : y.slot < x.slot}
             T == {e \in S : Walked!Cardinality(InFrontOf(e)) < n}
  <1>1. Walked!IsFiniteSet(S) /\ \A x \in S : x.slot \in Nat
    BY DEF Walked!IsIndex, Walked!Entries
  <1>2. \A x \in S : Walked!IsFiniteSet(InFrontOf(x)) /\ Walked!Cardinality(InFrontOf(x)) \in Nat
    BY <1>1, PartCount, CountIsNat
  <1>3. ASSUME S # {} PROVE T # {}
    <2> DEFINE slots == {x.slot : x \in S}
    <2>1. slots \in SUBSET Nat /\ slots # {}
      BY <1>1, <1>3
    <2> HIDE DEF slots
    <2>5. PICK s \in slots : \A u \in slots : s <= u
      BY <2>1, LeastElement
    <2>2. PICK x \in S : \A y \in S : x.slot <= y.slot
      BY <2>5 DEF slots
    <2>3. InFrontOf(x) = {}
      BY <1>1, <2>2
    <2>4. Walked!Cardinality(InFrontOf(x)) = 0
      BY <2>3, NoneCount
    <2> QED BY <2>4
  <1>4. ASSUME NEW e \in S \ T, NEW t \in T PROVE t.slot < e.slot
    <2> SUFFICES ASSUME e.slot <= t.slot PROVE FALSE
      BY <1>1
    <2>1. InFrontOf(e) \subseteq InFrontOf(t)
      BY <1>1
    <2>2. Walked!Cardinality(InFrontOf(e)) <= Walked!Cardinality(InFrontOf(t))
      BY <1>2, <2>1, PartCount
    <2>3. Walked!Cardinality(InFrontOf(t)) < n /\ ~(Walked!Cardinality(InFrontOf(e)) < n)
      OBVIOUS
    <2> HIDE DEF InFrontOf
    <2> QED BY <1>2, <2>2, <2>3
  <1> QED BY <1>3, <1>4

(* The same by chain positions: every other record stands behind them. *)
LEMMA FirstPositions ==
  ASSUME NEW S, Walked!IsIndex(S), NEW n \in Nat \ {0}
  PROVE  LET T == {e \in S : Walked!Cardinality({d \in S : d.seq < e.seq}) < n}
         IN  \A e \in S \ T : \A t \in T : t.rec < e.rec
  <1> DEFINE front(x) == Walked!Cardinality({y \in S : y.seq < x.seq})
             T == {e \in S : front(e) < n}
  <1> SUFFICES ASSUME NEW e \in S \ T, NEW t \in T PROVE t.rec < e.rec
    OBVIOUS
  <1>0. e \in S /\ t \in S
    OBVIOUS
  <1>1. front(e) \in Nat /\ front(t) \in Nat /\ (e.rec < t.rec => front(e) < front(t))
    <2> HIDE DEF T
    <2> QED BY <1>0, InFront
  <1>2. front(t) < n /\ ~(front(e) < n)
    OBVIOUS
  <1>3. e.rec \in Nat /\ t.rec \in Nat /\ (e.rec = t.rec => e = t)
    BY DEF Walked!IsIndex, Walked!Entries
  <1>4. e # t
    BY <1>2
  <1> HIDE DEF front, T
  <1> QED BY <1>1, <1>2, <1>3, <1>4

-----------------------------------------------------------------------------
(* The walk, over a store that moves.                                       *)

LEMMA WalkStarts == Walked!Init => Walked!WalkInv
  <1> SUFFICES ASSUME Walked!Init PROVE Walked!WalkInv
    OBVIOUS
  <1>1. Walked!IndexInOrder
    BY NoneCount DEF Walked!Init, Walked!IndexInOrder, Walked!IsIndex
  <1>2. Walked!ServedInOrder
    BY DEF Walked!Init, Walked!ServedInOrder, Walked!ServedWasThere, Walked!Climbs
  <1> QED BY <1>1, <1>2 DEF Walked!Init, Walked!WalkInv, Walked!WalksItsIndex, Walked!BatchInOrder, Walked!NoneLost

(* What was handed out names records by number. *)
LEMMA ServedRecords ==
  ASSUME Walked!WalkInv
  PROVE  \A i \in DOMAIN rServed : rServed[i].rec \in Nat
  <1> DEFINE R == [id : Nat, iat : Int, rec : Nat]
  <1>1. rServed \in Seq(R)
    BY DEF Walked!WalkInv, Walked!ServedInOrder
  <1>2. \A r \in R : r.rec \in Nat
    OBVIOUS
  <1> HIDE DEF R
  <1>3. \A i \in DOMAIN rServed : rServed[i] \in R
    BY <1>1
  <1> QED BY <1>2, <1>3

LEMMA WalkPut ==
  ASSUME Walked!WalkInv, ~Refiling, NEW id \in 1..MaxRecords, NEW k \in 0..MaxRecords, Walked!Put(id, k)
  PROVE  Walked!WalkInv'
  <1>0. PICK iat \in Stamps :
        LET all == Walked!Filed(id, iat)
            doomed == {e \in all : Walked!Cardinality({d \in all : d.slot < e.slot}) < k}
            kept == all \ doomed
            grown == Append(rFile, rNextRec)
            dead == Walked!DeadIn(kept)
            compacts == dead > 0 /\ dead > Len(grown) - dead
            rest == SubSeq(grown, dead + 1, Len(grown))
            moved == {[e EXCEPT !.at = @ - dead, !.seq = e.at - dead - 1] : e \in kept}
        IN  /\ rFile' = IF compacts THEN rest ELSE grown
            /\ rIdentity' = IF compacts THEN rIdentity + 1 ELSE rIdentity
            /\ rPath' = rIdentity'
            /\ rRecords' = IF compacts THEN moved ELSE kept
            /\ rNextSeq' = IF compacts THEN Len(rest) ELSE rNextSeq + 1
            /\ rWalk' = IF compacts /\ rOutcome = "walking"
                        THEN [rWalk EXCEPT !.live = FALSE, !.old = IF rWalk.live THEN kept ELSE @, !.handle = Walked!Closed]
                        ELSE rWalk
    BY DEF Walked!Put
  <1> DEFINE all == Walked!Filed(id, iat)
             doomed == {e \in all : Walked!Cardinality({d \in all : d.slot < e.slot}) < k}
             kept == all \ doomed
             grown == Append(rFile, rNextRec)
             dead == Walked!DeadIn(kept)
             compacts == dead > 0 /\ dead > Len(grown) - dead
             rest == SubSeq(grown, dead + 1, Len(grown))
             moved == {[e EXCEPT !.at = @ - dead, !.seq = e.at - dead - 1] : e \in kept}
             new == [slot |-> rNextSlot, id |-> rNextRec, iat |-> iat, seq |-> rNextSeq,
                     at |-> Len(rFile) + 1, rec |-> rNextRec]
  <1>1. /\ rFile' = IF compacts THEN rest ELSE grown
        /\ rIdentity' = IF compacts THEN rIdentity + 1 ELSE rIdentity
        /\ rPath' = rIdentity'
        /\ rRecords' = IF compacts THEN moved ELSE kept
        /\ rNextSeq' = IF compacts THEN Len(rest) ELSE rNextSeq + 1
        /\ rWalk' = IF compacts /\ rOutcome = "walking"
                    THEN [rWalk EXCEPT !.live = FALSE, !.old = IF rWalk.live THEN kept ELSE @, !.handle = Walked!Closed]
                    ELSE rWalk
    BY <1>0
  <1>2. /\ rNextSlot' = rNextSlot + 1 /\ rNextRec' = rNextRec + 1
        /\ id = rNextRec
        /\ UNCHANGED <<rServed, rFixed, rOutcome, rMishaps>>
    BY DEF Walked!Put
  <1>3. /\ rFile \in Seq(Nat) /\ rIdentity \in Nat /\ rNextRec \in Nat \ {0} /\ rNextSlot = rNextRec - 1
        /\ rNextSeq \in Nat /\ Walked!IsIndex(rRecords)
        /\ \A e \in rRecords : e.rec < rNextRec /\ e.seq < rNextSeq /\ e.at <= Len(rFile)
    BY DEF Walked!WalkInv, Walked!IndexInOrder
  <1>4. all = rRecords \cup {new}
    <2>1. {e \in rRecords : e.id = id} = {}
      BY <1>2, <1>3 DEF Walked!IsIndex, Walked!Entries
    <2> QED BY <1>2, <2>1 DEF Walked!Filed
  <1>5. new \in Walked!Entries
    BY <1>3, WalkAssumption DEF Walked!Entries
  <1> HIDE DEF all, new
  <1>6. /\ Walked!IsIndex(all)
        /\ \A e \in all : e.rec < rNextRec + 1 /\ e.seq < rNextSeq + 1 /\ e.at <= Len(rFile) + 1
    <2>1. /\ new.rec = rNextRec /\ new.id = rNextRec /\ new.slot = rNextSlot
          /\ new.seq = rNextSeq /\ new.at = Len(rFile) + 1
      BY DEF new
    <2>2. Walked!IsFiniteSet(all)
      BY <1>3, <1>4, OneMore DEF Walked!IsIndex
    <2>3. \A e \in rRecords : e \in Walked!Entries
      BY <1>3 DEF Walked!IsIndex
    <2>4. \A e \in all : e \in Walked!Entries /\ e.id = e.rec /\ e.slot = e.rec - 1
      BY <1>3, <1>4, <1>5, <2>1, <2>3 DEF Walked!IsIndex
    <2>5. \A e \in rRecords : e.rec \in Nat /\ e.seq \in Nat /\ e.at \in Nat
      BY <2>3 DEF Walked!Entries
    <2>6. Len(rFile) \in Nat
      BY <1>3
    <2>7. \A e \in all : e.rec < rNextRec + 1 /\ e.seq < rNextSeq + 1 /\ e.at <= Len(rFile) + 1
      BY <1>3, <1>4, <2>1, <2>5, <2>6
    <2>8. ASSUME NEW d \in all, NEW e \in all
          PROVE  /\ d.rec = e.rec => d = e
                 /\ d.rec < e.rec => d.seq < e.seq /\ d.at < e.at
      BY <1>3, <1>4, <2>1, <2>5, <2>6 DEF Walked!IsIndex
    <2> QED BY <2>2, <2>4, <2>7, <2>8 DEF Walked!IsIndex
  <1> HIDE DEF kept
  <1>7. kept \subseteq all /\ Walked!IsIndex(kept)
    BY <1>6, PartOfAnIndex DEF kept
  <1>8. /\ dead \in Nat /\ dead <= Len(rFile) + 1
        /\ \A e \in kept : dead < e.at
    <2> DEFINE places == {e.at : e \in kept}
    <2>0. \A e \in kept : e.at \in Nat \ {0} /\ e.at <= Len(rFile) + 1
      BY <1>6, <1>7 DEF Walked!IsIndex, Walked!Entries
    <2>1. CASE kept = {}
      BY <1>3, <2>1 DEF Walked!DeadIn
    <2>2. CASE kept # {}
      <3>1. places \in SUBSET Nat /\ places # {}
        BY <2>0, <2>2
      <3>2. Walked!Min(places) \in places /\ \A y \in places : Walked!Min(places) <= y
        BY <3>1, LeastIsThere
      <3>3. dead = Walked!Min(places) - 1
        BY <2>2 DEF Walked!DeadIn
      <3>4. PICK e \in kept : Walked!Min(places) = e.at
        BY <3>2
      <3>5. \A y \in kept : Walked!Min(places) <= y.at
        BY <3>2
      <3> HIDE DEF dead, places
      <3> QED BY <1>3, <2>0, <3>3, <3>4, <3>5
    <2> QED BY <2>1, <2>2
  <1> HIDE DEF dead
  <1>9. /\ grown \in Seq(Nat) /\ Len(grown) = Len(rFile) + 1
        /\ rest \in Seq(Nat) /\ Len(rest) = Len(rFile) + 1 - dead
    BY <1>3, <1>8
  <1> HIDE DEF grown, rest
  <1>10. \A m \in moved : \E e \in kept : /\ m.rec = e.rec /\ m.id = e.id /\ m.slot = e.slot /\ m.iat = e.iat
                                          /\ m.at = e.at - dead /\ m.seq = e.at - dead - 1
                                          /\ m \in Walked!Entries
                                          /\ m = [e EXCEPT !.at = e.at - dead, !.seq = e.at - dead - 1]
    <2> SUFFICES ASSUME NEW e \in kept, NEW m, m = [e EXCEPT !.at = @ - dead, !.seq = e.at - dead - 1]
                 PROVE  /\ m.rec = e.rec /\ m.id = e.id /\ m.slot = e.slot /\ m.iat = e.iat
                        /\ m.at = e.at - dead /\ m.seq = e.at - dead - 1 /\ m \in Walked!Entries
      OBVIOUS
    <2>1. e \in Walked!Entries /\ e.at \in Nat /\ dead < e.at
      BY <1>7, <1>8 DEF Walked!IsIndex, Walked!Entries
    <2>2. m = [slot |-> e.slot, id |-> e.id, iat |-> e.iat, seq |-> e.at - dead - 1, at |-> e.at - dead, rec |-> e.rec]
      BY <2>1 DEF Walked!Entries
    <2>3. e.at - dead \in Nat \ {0} /\ e.at - dead - 1 \in Nat
      BY <1>8, <2>1
    <2>4. m \in Walked!Entries
      BY <2>1, <2>2, <2>3 DEF Walked!Entries
    <2> QED BY <2>2, <2>4
  <1>11. Walked!IsIndex(moved)
    <2>1. Walked!IsFiniteSet(moved)
      <3> DEFINE g == [e \in kept |-> [e EXCEPT !.at = @ - dead, !.seq = e.at - dead - 1]]
      <3>1. g \in Surjection(kept, moved)
        BY DEF Surjection
      <3> HIDE DEF g, moved
      <3> QED BY <1>7, <3>1, SurjectionCount DEF Walked!IsIndex
    <2> HIDE DEF moved
    <2>2. \A m \in moved : m \in Walked!Entries /\ m.id = m.rec /\ m.slot = m.rec - 1
      <3> SUFFICES ASSUME NEW m \in moved PROVE m \in Walked!Entries /\ m.id = m.rec /\ m.slot = m.rec - 1
        OBVIOUS
      <3>1. PICK e \in kept : m.rec = e.rec /\ m.id = e.id /\ m.slot = e.slot /\ m \in Walked!Entries
        BY <1>10
      <3> QED BY <1>7, <3>1 DEF Walked!IsIndex
    <2>3. ASSUME NEW a \in moved, NEW b \in moved
          PROVE  /\ a.rec = b.rec => a = b
                 /\ a.rec < b.rec => a.seq < b.seq /\ a.at < b.at
      <3>1. PICK d \in kept : /\ a.rec = d.rec /\ a.at = d.at - dead /\ a.seq = d.at - dead - 1
                              /\ a = [d EXCEPT !.at = d.at - dead, !.seq = d.at - dead - 1]
        BY <1>10
      <3>2. PICK e \in kept : /\ b.rec = e.rec /\ b.at = e.at - dead /\ b.seq = e.at - dead - 1
                              /\ b = [e EXCEPT !.at = e.at - dead, !.seq = e.at - dead - 1]
        BY <1>10
      <3>3. d.at \in Nat /\ e.at \in Nat /\ (d.rec = e.rec => d = e) /\ (d.rec < e.rec => d.at < e.at)
        BY <1>7 DEF Walked!IsIndex, Walked!Entries
      <3>4. a.rec = b.rec => a = b
        BY <3>1, <3>2, <3>3
      <3>5. a.rec < b.rec => a.seq < b.seq /\ a.at < b.at
        <4>1. /\ a.rec = d.rec /\ a.at = d.at - dead /\ a.seq = d.at - dead - 1
              /\ b.rec = e.rec /\ b.at = e.at - dead /\ b.seq = e.at - dead - 1
          BY <3>1, <3>2
        <4> QED BY <1>8, <3>3, <4>1
      <3> QED BY <3>4, <3>5
    <2> QED BY <2>1, <2>2, <2>3 DEF Walked!IsIndex
  <1> HIDE DEF moved
  <1>12. Walked!IndexInOrder'
    <2>1. CASE compacts
      <3>1. \A m \in moved : m.rec < rNextRec + 1 /\ m.seq < Len(rest) /\ m.at <= Len(rest)
        <4> SUFFICES ASSUME NEW m \in moved PROVE m.rec < rNextRec + 1 /\ m.seq < Len(rest) /\ m.at <= Len(rest)
          OBVIOUS
        <4>1. PICK e \in kept : m.rec = e.rec /\ m.at = e.at - dead /\ m.seq = e.at - dead - 1
          BY <1>10
        <4>2. e.at \in Nat /\ e.at <= Len(rFile) + 1 /\ e.rec < rNextRec + 1
          BY <1>6, <1>7 DEF Walked!IsIndex, Walked!Entries
        <4> QED BY <1>3, <1>8, <1>9, <4>1, <4>2
      <3>2. rFile' = rest /\ rIdentity' = rIdentity + 1 /\ rPath' = rIdentity' /\ rRecords' = moved /\ rNextSeq' = Len(rest)
        BY <1>1, <2>1
      <3>3. Len(rest) \in Nat
        BY <1>9
      <3> QED BY <1>2, <1>3, <1>9, <1>11, <3>1, <3>2, <3>3 DEF Walked!IndexInOrder
    <2>2. CASE ~compacts
      <3>1. rFile' = grown /\ rIdentity' = rIdentity /\ rPath' = rIdentity' /\ rRecords' = kept /\ rNextSeq' = rNextSeq + 1
        BY <1>1, <2>2
      <3> QED BY <1>2, <1>3, <1>6, <1>7, <1>9, <3>1 DEF Walked!IndexInOrder
    <2> QED BY <2>1, <2>2
  <1>13. Walked!ServedInOrder'
    BY <1>2, <1>3 DEF Walked!WalkInv, Walked!ServedInOrder, Walked!ServedWasThere, Walked!Climbs, Walked!Entries
  <1>14. ASSUME rOutcome = "walking"
         PROVE  /\ rWalk' \in [live : BOOLEAN, old : SUBSET Walked!Entries, from : Int, to : Int, through : Nat,
                               cursor : Int, batch : SUBSET Walked!Entries, handle : Int]
                /\ rWalk'.from = rWalk.from /\ rWalk'.to = rWalk.to /\ rWalk'.through = rWalk.through
                /\ rWalk'.cursor = rWalk.cursor /\ rWalk'.batch = rWalk.batch
                /\ Walked!WalkedIndex' = IF rWalk.live THEN kept ELSE rWalk.old
                /\ rWalk'.live => rWalk.live /\ rNextSeq' = rNextSeq + 1
    <2>1. /\ rWalk \in [live : BOOLEAN, old : SUBSET Walked!Entries, from : Int, to : Int, through : Nat,
                        cursor : Int, batch : SUBSET Walked!Entries, handle : Int]
      BY <1>14 DEF Walked!WalkInv, Walked!WalksItsIndex
    <2>2. CASE compacts
      <3>1. rWalk' = [rWalk EXCEPT !.live = FALSE, !.old = IF rWalk.live THEN kept ELSE @, !.handle = Walked!Closed]
        BY <1>1, <1>14, <2>2
      <3>2. kept \subseteq Walked!Entries
        BY <1>7 DEF Walked!IsIndex
      <3>3. rWalk' = [live |-> FALSE, old |-> IF rWalk.live THEN kept ELSE rWalk.old, from |-> rWalk.from, to |-> rWalk.to,
                      through |-> rWalk.through, cursor |-> rWalk.cursor, batch |-> rWalk.batch, handle |-> Walked!Closed]
        BY <2>1, <3>1
      <3>4. (IF rWalk.live THEN kept ELSE rWalk.old) \in SUBSET Walked!Entries
        BY <2>1, <3>2
      <3>5. rWalk' \in [live : BOOLEAN, old : SUBSET Walked!Entries, from : Int, to : Int, through : Nat,
                        cursor : Int, batch : SUBSET Walked!Entries, handle : Int]
        BY <2>1, <3>3, <3>4 DEF Walked!Closed
      <3> QED BY <3>3, <3>5 DEF Walked!WalkedIndex
    <2>3. CASE ~compacts
      <3>1. rWalk' = rWalk /\ rRecords' = kept /\ rNextSeq' = rNextSeq + 1
        BY <1>1, <2>3
      <3> QED BY <2>1, <3>1 DEF Walked!WalkedIndex
    <2> QED BY <2>2, <2>3
  <1>15. Walked!WalksItsIndex'
    <2> SUFFICES ASSUME rOutcome = "walking" PROVE Walked!WalksItsIndex'
      BY <1>2 DEF Walked!WalksItsIndex
    <2>1. /\ Walked!IsIndex(Walked!WalkedIndex) /\ \A e \in Walked!WalkedIndex : e.rec < rNextRec
          /\ rWalk.live => rWalk.through <= rNextSeq
          /\ \A e \in Walked!WalkedIndex :
                e.seq < rWalk.through /\ rWalk.from <= e.iat /\ e.iat < rWalk.to => Walked!Matched(e)
          /\ rWalk.through \in Nat
      BY DEF Walked!WalkInv, Walked!WalksItsIndex
    <2>2. Walked!IsIndex(Walked!WalkedIndex')
      BY <1>7, <1>14, <2>1 DEF Walked!WalkedIndex
    <2>3. \A e \in Walked!WalkedIndex' : \/ e \in Walked!WalkedIndex
                                         \/ rWalk.live /\ e = new
      <3>1. Walked!WalkedIndex = IF rWalk.live THEN rRecords ELSE rWalk.old
        BY DEF Walked!WalkedIndex
      <3>2. Walked!WalkedIndex' = IF rWalk.live THEN kept ELSE rWalk.old
        BY <1>14
      <3>3. CASE rWalk.live
        <4>1. Walked!WalkedIndex' = kept /\ Walked!WalkedIndex = rRecords
          BY <3>1, <3>2, <3>3
        <4> QED BY <1>4, <1>7, <3>3, <4>1
      <3>4. CASE ~rWalk.live
        <4>1. Walked!WalkedIndex' = Walked!WalkedIndex
          BY <3>1, <3>2, <3>4
        <4> QED BY <4>1
      <3> QED BY <3>3, <3>4
    <2>4. new.seq = rNextSeq /\ new.rec = rNextRec
      BY DEF new
    <2>5. \A e \in Walked!WalkedIndex' : e.rec \in Nat
      BY <2>2 DEF Walked!IsIndex, Walked!Entries
    <2>6. \A e \in Walked!WalkedIndex' : e.rec < rNextRec + 1
      BY <1>3, <2>1, <2>3, <2>4, <2>5
    <2>7. \A e \in Walked!WalkedIndex' :
            e.seq < rWalk.through /\ rWalk.from <= e.iat /\ e.iat < rWalk.to => Walked!Matched(e)
      BY <1>3, <2>1, <2>3, <2>4
    <2> QED BY <1>2, <1>3, <1>14, <2>1, <2>2, <2>6, <2>7 DEF Walked!WalksItsIndex, Walked!Matched
  <1>16. Walked!BatchInOrder'
    BY <1>2, <1>14 DEF Walked!WalkInv, Walked!BatchInOrder, Walked!Matched
  <1>17. Walked!NoneLost'
    <2> SUFFICES ASSUME rOutcome \in {"walking", "ended"}, NEW e \in rFixed, NEW moving \in rRecords', moving.rec = e.rec
                 PROVE  \/ \E i \in DOMAIN rServed : rServed[i].rec = e.rec
                        \/ rOutcome = "walking" /\ \E d \in (rWalk.batch \cup Walked!Ahead)' : d.rec = e.rec
      BY <1>2 DEF Walked!NoneLost
    <2>1. PICK now \in kept : now.rec = e.rec
      <3>1. CASE compacts
        <4>1. moving \in moved
          BY <1>1, <3>1
        <4>2. PICK c \in kept : moving.rec = c.rec
          BY <1>10, <4>1
        <4> QED BY <4>2
      <3>2. CASE ~compacts
        BY <1>1, <3>2
      <3> QED BY <3>1, <3>2
    <2>2. now \in rRecords
      <3>1. e.rec < rNextRec /\ new.rec = rNextRec
        BY DEF Walked!WalkInv, Walked!ServedInOrder, new
      <3> QED BY <1>3, <1>4, <1>7, <2>1, <3>1
    <2>3. \/ \E i \in DOMAIN rServed : rServed[i].rec = e.rec
          \/ rOutcome = "walking" /\ \E d \in rWalk.batch \cup Walked!Ahead : d.rec = e.rec
      BY <2>1, <2>2 DEF Walked!WalkInv, Walked!NoneLost
    <2>4. ASSUME rOutcome = "walking", NEW d \in Walked!Ahead, d.rec = e.rec PROVE d \in Walked!Ahead'
      <3>1. d \in Walked!WalkedIndex'
        BY <1>3, <1>14, <2>1, <2>2, <2>4 DEF Walked!Ahead, Walked!WalkedIndex, Walked!IsIndex
      <3> QED BY <1>14, <2>4, <3>1 DEF Walked!Ahead
    <2> QED BY <1>14, <2>3, <2>4
  <1> QED BY <1>12, <1>13, <1>15, <1>16, <1>17 DEF Walked!WalkInv

LEMMA WalkMishap ==
  ASSUME Walked!WalkInv, Walked!Replace \/ Walked!Rewrite
  PROVE  Walked!WalkInv'
  <1>1. UNCHANGED <<rIdentity, rRecords, rNextSeq, rNextRec, rNextSlot, rWalk, rServed, rFixed, rOutcome>>
    BY DEF Walked!Replace, Walked!Rewrite
  <1>2. rFile' \in Seq(Nat) /\ Len(rFile') = Len(rFile) /\ rPath' \in Int
    <2>1. CASE Walked!Replace
      BY <2>1 DEF Walked!WalkInv, Walked!IndexInOrder, Walked!Replace, Walked!Elsewhere
    <2>2. CASE Walked!Rewrite
      <3>1. PICK i \in DOMAIN rFile : rFile' = [rFile EXCEPT ![i] = Walked!Foreign]
        BY <2>2 DEF Walked!Rewrite
      <3> QED BY <2>2, <3>1 DEF Walked!WalkInv, Walked!IndexInOrder, Walked!Rewrite, Walked!Foreign
    <2> QED BY <2>1, <2>2
  <1>3. Walked!IndexInOrder'
    BY <1>1, <1>2 DEF Walked!WalkInv, Walked!IndexInOrder
  <1>4. (Walked!ServedInOrder /\ Walked!WalksItsIndex /\ Walked!BatchInOrder /\ Walked!NoneLost)'
    BY <1>1 DEF Walked!WalkInv, Walked!ServedInOrder, Walked!ServedWasThere, Walked!WalksItsIndex,
                Walked!WalkedIndex, Walked!Matched, Walked!BatchInOrder, Walked!NoneLost, Walked!Ahead
  <1> QED BY <1>3, <1>4 DEF Walked!WalkInv

LEMMA WalkAsked ==
  ASSUME Walked!WalkInv, NEW from \in Int, NEW to \in Int, Walked!Ask(from, to)
  PROVE  Walked!WalkInv'
  <1>1. /\ rOutcome = "none" /\ rOutcome' = "walking"
        /\ rWalk' = [live |-> TRUE, old |-> {}, from |-> from, to |-> to, through |-> rNextSeq, cursor |-> -1,
                     batch |-> {}, handle |-> Walked!Closed]
        /\ rFixed' = {e \in rRecords : from <= e.iat /\ e.iat < to}
        /\ UNCHANGED <<rFile, rIdentity, rPath, rRecords, rNextSeq, rNextRec, rNextSlot, rServed, rMishaps>>
    BY DEF Walked!Ask
  <1>2. /\ Walked!IndexInOrder /\ Walked!IsIndex(rRecords) /\ rNextSeq \in Nat
        /\ \A e \in rRecords : e \in Walked!Entries /\ e.rec < rNextRec /\ e.seq < rNextSeq
    BY DEF Walked!WalkInv, Walked!IndexInOrder, Walked!IsIndex
  <1>3. rServed = <<>>
    BY <1>1 DEF Walked!WalkInv, Walked!ServedInOrder
  <1>4. Walked!IndexInOrder'
    BY <1>1, <1>2 DEF Walked!IndexInOrder
  <1>5. Walked!ServedInOrder'
    BY <1>1, <1>2, <1>3 DEF Walked!ServedInOrder, Walked!ServedWasThere, Walked!Climbs
  <1>6. /\ rWalk'.live /\ rWalk'.from = from /\ rWalk'.to = to /\ rWalk'.through = rNextSeq
        /\ rWalk'.cursor = -1 /\ rWalk'.batch = {}
        /\ Walked!WalkedIndex' = rRecords
        /\ rWalk' \in [live : BOOLEAN, old : SUBSET Walked!Entries, from : Int, to : Int, through : Nat,
                        cursor : Int, batch : SUBSET Walked!Entries, handle : Int]
    BY <1>1, <1>2 DEF Walked!WalkedIndex, Walked!Closed
  <1>7. Walked!WalksItsIndex'
    BY <1>1, <1>2, <1>6 DEF Walked!WalksItsIndex, Walked!Matched
  <1>8. Walked!BatchInOrder'
    BY <1>1, <1>3, <1>6, NoneCount DEF Walked!BatchInOrder, Walked!IsIndex
  <1>9. Walked!NoneLost'
    <2>1. \A e \in rFixed' : e \in Walked!Ahead'
      <3> SUFFICES ASSUME NEW e \in rFixed' PROVE e \in Walked!Ahead'
        OBVIOUS
      <3>1. e \in rRecords /\ from <= e.iat /\ e.iat < to /\ e.seq < rNextSeq /\ e.slot \in Nat
        BY <1>1, <1>2 DEF Walked!Entries
      <3> QED BY <1>6, <3>1 DEF Walked!Ahead
    <2> QED BY <1>1, <2>1 DEF Walked!NoneLost
  <1> QED BY <1>4, <1>5, <1>7, <1>8, <1>9 DEF Walked!WalkInv

LEMMA WalkTakes ==
  ASSUME Walked!WalkInv, Walked!TakeBatch
  PROVE  Walked!WalkInv'
  <1>1. /\ rOutcome = "walking" /\ rWalk.batch = {}
        /\ UNCHANGED <<rFile, rIdentity, rPath, rRecords, rNextSeq, rNextRec, rNextSlot, rServed, rFixed, rMishaps>>
    BY DEF Walked!TakeBatch
  <1>2. /\ rWalk \in [live : BOOLEAN, old : SUBSET Walked!Entries, from : Int, to : Int, through : Nat,
                      cursor : Int, batch : SUBSET Walked!Entries, handle : Int]
        /\ Walked!IsIndex(Walked!WalkedIndex) /\ \A e \in Walked!WalkedIndex : e.rec < rNextRec
        /\ rWalk.live => rWalk.through <= rNextSeq
        /\ \A e \in Walked!WalkedIndex :
              e.seq < rWalk.through /\ rWalk.from <= e.iat /\ e.iat < rWalk.to => Walked!Matched(e)
    BY <1>1 DEF Walked!WalkInv, Walked!WalksItsIndex
  <1>3. Walked!IndexInOrder' /\ rNextRec \in Nat
    BY <1>1 DEF Walked!WalkInv, Walked!IndexInOrder
  <1>4. rOutcome' \in {"walking", "ended"}
    BY <1>1 DEF Walked!TakeBatch
  <1>5. Walked!ServedInOrder'
    BY <1>1, <1>4 DEF Walked!WalkInv, Walked!ServedInOrder, Walked!ServedWasThere
  <1>6. Walked!Ahead \subseteq Walked!WalkedIndex /\ Walked!IsIndex(Walked!Ahead)
    BY <1>2, PartOfAnIndex DEF Walked!Ahead
  <1>7. /\ Walked!Taken = {} => Walked!Ahead = {}
        /\ \A e \in Walked!Ahead \ Walked!Taken : \A t \in Walked!Taken : t.slot < e.slot
        /\ Walked!Taken \subseteq Walked!Ahead
    BY <1>6, FirstSlots, WalkAssumption DEF Walked!Taken
  <1>8. CASE Walked!Taken = {}
    <2>1. rOutcome' = "ended"
      BY <1>8 DEF Walked!TakeBatch
    <2>2. Walked!NoneLost'
      BY <1>1, <1>7, <1>8, <2>1 DEF Walked!WalkInv, Walked!NoneLost
    <2> QED BY <1>3, <1>5, <2>1, <2>2 DEF Walked!WalkInv, Walked!WalksItsIndex, Walked!BatchInOrder
  <1>9. CASE Walked!Taken # {}
    <2> DEFINE slots == {e.slot : e \in Walked!Taken}
               top == Walked!Max(slots)
    <2>1. rOutcome' = "walking" /\ rWalk' = [rWalk EXCEPT !.batch = Walked!Taken, !.cursor = top]
      BY <1>1, <1>9 DEF Walked!TakeBatch
    <2>2. \A e \in Walked!Ahead : /\ e \in Walked!Entries /\ e.slot \in Nat /\ e.rec = e.slot + 1
                                 /\ e.rec < rNextRec /\ e.slot > rWalk.cursor
      <3>1. \A e \in Walked!Ahead : e \in Walked!Entries /\ e.slot = e.rec - 1 /\ e.rec < rNextRec
        BY <1>2, <1>6 DEF Walked!IsIndex
      <3> QED BY <3>1 DEF Walked!Entries, Walked!Ahead
    <2>3. top \in slots /\ \A s \in slots : s <= top
      <3>1. slots \in SUBSET Nat /\ slots # {} /\ \A s \in slots : s <= rNextRec
        BY <1>3, <1>7, <1>9, <2>2
      <3> HIDE DEF slots
      <3> QED BY <1>3, <3>1, GreatestIsThere
    <2>4. top \in Nat /\ top > rWalk.cursor /\ \A e \in Walked!Taken : e.slot <= top
      BY <1>7, <2>2, <2>3
    <2>5. \A e \in Walked!Ahead \ Walked!Taken : e.slot > top
      BY <1>7, <2>3
    <2> HIDE DEF top
    <2>6. /\ rWalk' \in [live : BOOLEAN, old : SUBSET Walked!Entries, from : Int, to : Int, through : Nat,
                         cursor : Int, batch : SUBSET Walked!Entries, handle : Int]
          /\ rWalk'.live = rWalk.live /\ rWalk'.old = rWalk.old /\ rWalk'.from = rWalk.from /\ rWalk'.to = rWalk.to
          /\ rWalk'.through = rWalk.through /\ rWalk'.cursor = top /\ rWalk'.batch = Walked!Taken
      <3>1. Walked!Taken \in SUBSET Walked!Entries
        BY <1>7, <2>2
      <3>2. rWalk' = [live |-> rWalk.live, old |-> rWalk.old, from |-> rWalk.from, to |-> rWalk.to,
                      through |-> rWalk.through, cursor |-> top, batch |-> Walked!Taken, handle |-> rWalk.handle]
        BY <1>2, <2>1
      <3> QED BY <1>2, <2>4, <3>1, <3>2
    <2>7. Walked!WalkedIndex' = Walked!WalkedIndex
      BY <1>1, <2>6 DEF Walked!WalkedIndex
    <2>8. \A e : Walked!Matched(e)' <=> Walked!Matched(e)
      BY <1>1 DEF Walked!Matched
    <2>9. Walked!WalksItsIndex'
      BY <1>1, <1>2, <2>6, <2>7, <2>8 DEF Walked!WalksItsIndex
    <2>10. Walked!BatchInOrder'
      <3>1. Walked!IsIndex(Walked!Taken)
        BY <1>6, <1>7, PartOfAnIndex
      <3>2. \A e \in Walked!Taken : Walked!Matched(e)
        BY <1>2, <1>6, <1>7 DEF Walked!Ahead
      <3>3. \A i \in DOMAIN rServed : rServed[i].rec \in Nat /\ rServed[i].rec <= rWalk.cursor + 1
        <4>1. \A i \in DOMAIN rServed : rServed[i].rec \in Nat
          BY ServedRecords
        <4>2. \A i \in DOMAIN rServed : rServed[i].rec <= rWalk.cursor + 1
          BY <1>1 DEF Walked!WalkInv, Walked!BatchInOrder
        <4> QED BY <4>1, <4>2
      <3>4. \A i \in DOMAIN rServed : /\ rServed[i].rec <= top + 1
                                      /\ \A e \in Walked!Taken : rServed[i].rec < e.rec
        BY <1>2, <1>7, <2>2, <2>4, <3>3
      <3> QED BY <1>1, <2>1, <2>4, <2>6, <2>8, <3>1, <3>2, <3>4 DEF Walked!BatchInOrder
    <2>11. Walked!NoneLost'
      <3>1. \A d \in rWalk.batch \cup Walked!Ahead : d \in (rWalk.batch \cup Walked!Ahead)'
        <4> SUFFICES ASSUME NEW d \in Walked!Ahead, d \notin Walked!Taken PROVE d \in Walked!Ahead'
          BY <1>1, <2>6
        <4>1. d.slot > top
          BY <2>5
        <4> QED BY <2>6, <2>7, <4>1 DEF Walked!Ahead
      <3> HIDE DEF slots
      <3> QED BY <1>1, <2>1, <3>1 DEF Walked!WalkInv, Walked!NoneLost
    <2> QED BY <1>3, <1>5, <2>9, <2>10, <2>11 DEF Walked!WalkInv
  <1> QED BY <1>8, <1>9

LEMMA WalkAbandoned ==
  ASSUME Walked!WalkInv, Walked!Abandon
  PROVE  Walked!WalkInv'
  <1>1. /\ rOutcome' = "abandoned"
        /\ UNCHANGED <<rFile, rIdentity, rPath, rRecords, rNextSeq, rNextRec, rNextSlot, rServed, rFixed, rMishaps>>
    BY DEF Walked!Abandon
  <1>2. Walked!IndexInOrder'
    BY <1>1 DEF Walked!WalkInv, Walked!IndexInOrder
  <1>3. Walked!ServedInOrder'
    BY <1>1 DEF Walked!WalkInv, Walked!ServedInOrder, Walked!ServedWasThere
  <1> QED BY <1>1, <1>2, <1>3 DEF Walked!WalkInv, Walked!WalksItsIndex, Walked!BatchInOrder, Walked!NoneLost

(* What a read yields of a part of the batch: each entry still indexed, as  *)
(* it was matched, in the order of the records.                             *)
LEMMA YieldsThePart ==
  ASSUME Walked!WalkInv, NEW part, Walked!IsIndex(part)
  PROVE  LET held == {e \in part : Walked!Still(e.id) # {}}
         IN  /\ Walked!Yields(part) \in Seq([id : Nat, iat : Int, rec : Nat])
             /\ \A i \in DOMAIN Walked!Yields(part) :
                  \E e \in held : /\ Walked!Yields(part)[i].id = e.id /\ Walked!Yields(part)[i].iat = e.iat
                                  /\ Walked!Yields(part)[i].rec = e.rec
             /\ \A e \in held : \E i \in DOMAIN Walked!Yields(part) : Walked!Yields(part)[i].rec = e.rec
             /\ Walked!Climbs(Walked!Yields(part))
  <1> DEFINE held == {e \in part : Walked!Still(e.id) # {}}
             order == Walked!Chained(held)
  <1>1. held \subseteq part /\ Walked!IsIndex(held)
    BY PartOfAnIndex
  <1>2. \A e \in held : /\ Walked!Yielded(e) \in [id : Nat, iat : Int, rec : Nat]
                        /\ Walked!Yielded(e).id = e.id /\ Walked!Yielded(e).iat = e.iat /\ Walked!Yielded(e).rec = e.rec
    <2> SUFFICES ASSUME NEW e \in held
                 PROVE  /\ Walked!Yielded(e) \in [id : Nat, iat : Int, rec : Nat]
                        /\ Walked!Yielded(e).id = e.id /\ Walked!Yielded(e).iat = e.iat /\ Walked!Yielded(e).rec = e.rec
      OBVIOUS
    <2> DEFINE now == CHOOSE d \in Walked!Still(e.id) : TRUE
    <2>1. now \in rRecords /\ now.id = e.id
      BY DEF Walked!Still
    <2>2. now.rec = now.id
      BY <2>1 DEF Walked!WalkInv, Walked!IndexInOrder, Walked!IsIndex
    <2>3. e.id \in Nat /\ e.iat \in Int /\ e.rec = e.id
      BY <1>1 DEF Walked!IsIndex, Walked!Entries
    <2>4. Walked!Yielded(e) = [id |-> e.id, iat |-> e.iat, rec |-> now.rec]
      BY DEF Walked!Yielded
    <2> HIDE DEF now, held
    <2> QED BY <2>1, <2>2, <2>3, <2>4
  <1> HIDE DEF held
  <1>3. /\ order \in Seq(held) /\ Walked!Climbs(order)
        /\ \A e \in held : \E i \in DOMAIN order : order[i] = e
    BY <1>1, ChainedOrder
  <1>4. Walked!Yields(part) = [i \in DOMAIN order |-> Walked!Yielded(order[i])]
    BY DEF Walked!Yields, held
  <1> HIDE DEF order
  <1>5. /\ DOMAIN order = 1..Len(order) /\ Len(order) \in Nat
        /\ \A i \in DOMAIN order : order[i] \in held
    BY <1>3
  <1>6. /\ DOMAIN Walked!Yields(part) = DOMAIN order
        /\ \A i \in DOMAIN order : Walked!Yields(part)[i] = Walked!Yielded(order[i])
    BY <1>4
  <1>7. Walked!Yields(part) \in Seq([id : Nat, iat : Int, rec : Nat])
    <2> DEFINE R == [id : Nat, iat : Int, rec : Nat]
    <2>1. \A e \in held : Walked!Yielded(e) \in R
      BY <1>2
    <2> HIDE DEF R
    <2>2. Walked!Yields(part) \in Seq(R)
      BY <1>4, <1>5, <2>1
    <2> QED BY <2>2 DEF R
  <1>8. \A i \in DOMAIN order : Walked!Yields(part)[i].rec = order[i].rec
    BY <1>2, <1>5, <1>6
  <1>9. Walked!Climbs(Walked!Yields(part))
    BY <1>3, <1>6, <1>8 DEF Walked!Climbs
  <1>10. \A e \in held : \E i \in DOMAIN Walked!Yields(part) : Walked!Yields(part)[i].rec = e.rec
    BY <1>3, <1>6, <1>8
  <1>11. \A i \in DOMAIN Walked!Yields(part) : \E e \in held : /\ Walked!Yields(part)[i].id = e.id
                                                               /\ Walked!Yields(part)[i].iat = e.iat
                                                               /\ Walked!Yields(part)[i].rec = e.rec
    BY <1>2, <1>5, <1>6
  <1> QED BY <1>7, <1>9, <1>10, <1>11 DEF held

LEMMA WalkReads ==
  ASSUME Walked!WalkInv, Walked!ReadChunk
  PROVE  Walked!WalkInv'
  <1> DEFINE asked == \E e \in Walked!Chunk : Walked!Still(e.id) # {}
             proved == Walked!ProvedPart(Walked!Chunk)
             turned == asked /\ (Walked!HandleOn # rIdentity \/ proved # Walked!Chunk)
             held == {e \in proved : Walked!Still(e.id) # {}}
             more == Walked!Yields(proved)
  <1>1. /\ rOutcome = "walking"
        /\ rServed' = IF asked /\ Walked!HandleOn # rIdentity THEN rServed ELSE rServed \o more
        /\ rOutcome' = IF turned THEN "refused" ELSE rOutcome
        /\ rWalk' = IF turned THEN None
                    ELSE [rWalk EXCEPT !.batch = @ \ Walked!Chunk, !.handle = IF asked THEN Walked!HandleOn ELSE @]
        /\ UNCHANGED <<rFile, rIdentity, rPath, rRecords, rNextSeq, rNextRec, rNextSlot, rFixed, rMishaps>>
    BY DEF Walked!ReadChunk
  <1> HIDE DEF asked, proved, more
  <1>2. /\ rWalk \in [live : BOOLEAN, old : SUBSET Walked!Entries, from : Int, to : Int, through : Nat,
                      cursor : Int, batch : SUBSET Walked!Entries, handle : Int]
        /\ Walked!IsIndex(Walked!WalkedIndex) /\ \A e \in Walked!WalkedIndex : e.rec < rNextRec
        /\ rWalk.live => rWalk.through <= rNextSeq
        /\ \A e \in Walked!WalkedIndex :
              e.seq < rWalk.through /\ rWalk.from <= e.iat /\ e.iat < rWalk.to => Walked!Matched(e)
    BY <1>1 DEF Walked!WalkInv, Walked!WalksItsIndex
  <1>3. /\ Walked!IsIndex(rWalk.batch)
        /\ \A e \in rWalk.batch : Walked!Matched(e) /\ e.slot <= rWalk.cursor
        /\ \A i \in DOMAIN rServed :
              /\ rServed[i].rec <= rWalk.cursor + 1
              /\ \A e \in rWalk.batch : rServed[i].rec < e.rec
    BY <1>1 DEF Walked!WalkInv, Walked!BatchInOrder
  <1>4. /\ rServed \in Seq([id : Nat, iat : Int, rec : Nat]) /\ Walked!ServedWasThere /\ Walked!Climbs(rServed)
        /\ rFixed \subseteq Walked!Entries /\ \A e \in rFixed : e.rec < rNextRec
    BY DEF Walked!WalkInv, Walked!ServedInOrder
  <1>5. Walked!IndexInOrder' /\ rIdentity \in Int /\ rPath \in Int
    BY <1>1 DEF Walked!WalkInv, Walked!IndexInOrder
  <1>6. Walked!Chunk \subseteq rWalk.batch /\ proved \subseteq Walked!Chunk /\ held \subseteq proved
    BY DEF Walked!Chunk, Walked!ProvedPart, proved
  <1>7. /\ Walked!IsIndex(proved) /\ Walked!IsIndex(rWalk.batch \ Walked!Chunk)
        /\ \A e \in rWalk.batch \ Walked!Chunk : \A t \in Walked!Chunk : t.rec < e.rec
    BY <1>3, <1>6, PartOfAnIndex, FirstPositions, WalkAssumption DEF Walked!Chunk
  <1> HIDE DEF held
  <1>8. /\ more \in Seq([id : Nat, iat : Int, rec : Nat])
        /\ \A i \in DOMAIN more : \E e \in held : more[i].id = e.id /\ more[i].iat = e.iat /\ more[i].rec = e.rec
        /\ \A e \in held : \E i \in DOMAIN more : more[i].rec = e.rec
        /\ Walked!Climbs(more)
    BY <1>7, YieldsThePart DEF more, held
  <1>9. \A e \in rWalk.batch : e.rec \in Nat /\ e.slot \in Nat /\ e.slot = e.rec - 1
    BY <1>3 DEF Walked!IsIndex, Walked!Entries
  <1>10. \A i \in DOMAIN more : /\ more[i].rec \in Nat /\ more[i].rec <= rWalk.cursor + 1
                                /\ \E f \in rFixed : f.id = more[i].id /\ f.iat = more[i].iat /\ f.rec = more[i].rec
                                /\ \A j \in DOMAIN rServed : rServed[j].rec < more[i].rec
                                /\ \A e \in rWalk.batch \ Walked!Chunk : more[i].rec < e.rec
    <2> SUFFICES ASSUME NEW i \in DOMAIN more
                 PROVE  /\ more[i].rec \in Nat /\ more[i].rec <= rWalk.cursor + 1
                        /\ \E f \in rFixed : f.id = more[i].id /\ f.iat = more[i].iat /\ f.rec = more[i].rec
                        /\ \A j \in DOMAIN rServed : rServed[j].rec < more[i].rec
                        /\ \A e \in rWalk.batch \ Walked!Chunk : more[i].rec < e.rec
      OBVIOUS
    <2>1. PICK e \in held : more[i].id = e.id /\ more[i].iat = e.iat /\ more[i].rec = e.rec
      BY <1>8
    <2>2. e \in Walked!Chunk /\ e \in rWalk.batch
      BY <1>6
    <2>3. e.rec \in Nat /\ e.slot = e.rec - 1 /\ e.slot <= rWalk.cursor /\ Walked!Matched(e)
      BY <1>3, <1>9, <2>2
    <2>4. e.rec <= rWalk.cursor + 1
      BY <1>2, <2>3
    <2> QED BY <1>3, <1>7, <2>1, <2>2, <2>3, <2>4 DEF Walked!Matched
  <1> DEFINE both == rServed \o more
  <1>11. /\ both \in Seq([id : Nat, iat : Int, rec : Nat])
         /\ \A i \in DOMAIN both : \/ i \in DOMAIN rServed /\ both[i] = rServed[i]
                                   \/ i - Len(rServed) \in DOMAIN more /\ both[i] = more[i - Len(rServed)]
         /\ \A i \in DOMAIN rServed : i \in DOMAIN both /\ both[i] = rServed[i]
         /\ \A i \in DOMAIN more : i + Len(rServed) \in DOMAIN both /\ both[i + Len(rServed)] = more[i]
         /\ Len(rServed) \in Nat /\ DOMAIN rServed = 1..Len(rServed) /\ DOMAIN more = 1..Len(more)
         /\ DOMAIN both \subseteq Nat
    <2> DEFINE R == [id : Nat, iat : Int, rec : Nat]
    <2>1. rServed \in Seq(R) /\ more \in Seq(R)
      BY <1>4, <1>8
    <2> HIDE DEF R
    <2>2. both \in Seq(R)
      BY <2>1
    <2>3. /\ Len(rServed) \in Nat /\ Len(more) \in Nat /\ DOMAIN rServed = 1..Len(rServed) /\ DOMAIN more = 1..Len(more)
          /\ DOMAIN both = 1 .. Len(rServed) + Len(more)
          /\ \A i \in DOMAIN both : both[i] = IF i <= Len(rServed) THEN rServed[i] ELSE more[i - Len(rServed)]
      BY <2>1
    <2> HIDE DEF both
    <2>4. ASSUME NEW i \in DOMAIN both
          PROVE  \/ i \in DOMAIN rServed /\ both[i] = rServed[i]
                 \/ i - Len(rServed) \in DOMAIN more /\ both[i] = more[i - Len(rServed)]
      <3>1. CASE i <= Len(rServed)
        BY <2>3, <3>1
      <3>2. CASE ~(i <= Len(rServed))
        <4>1. i \in Nat /\ i <= Len(rServed) + Len(more)
          BY <2>3
        <4>2. i - Len(rServed) \in 1..Len(more)
          BY <2>3, <3>2, <4>1
        <4> QED BY <2>3, <3>2, <4>2
      <3> QED BY <3>1, <3>2
    <2>5. ASSUME NEW i \in DOMAIN rServed PROVE i \in DOMAIN both /\ both[i] = rServed[i]
      BY <2>3
    <2>6. ASSUME NEW i \in DOMAIN more PROVE i + Len(rServed) \in DOMAIN both /\ both[i + Len(rServed)] = more[i]
      <3>1. i \in Nat /\ 1 <= i /\ i <= Len(more)
        BY <2>3
      <3>2. (i + Len(rServed)) - Len(rServed) = i /\ ~(i + Len(rServed) <= Len(rServed))
        BY <2>3, <3>1
      <3>3. i + Len(rServed) \in 1 .. Len(rServed) + Len(more)
        BY <2>3, <3>1
      <3> QED BY <2>3, <3>2, <3>3
    <2>7. DOMAIN both \subseteq Nat
      BY <2>3
    <2> QED BY <2>2, <2>3, <2>4, <2>5, <2>6, <2>7 DEF R
  <1> HIDE DEF both
  <1>12. /\ \A i \in DOMAIN both : /\ \E f \in rFixed : f.id = both[i].id /\ f.iat = both[i].iat /\ f.rec = both[i].rec
                                   /\ both[i].rec <= rWalk.cursor + 1
                                   /\ \A e \in rWalk.batch \ Walked!Chunk : both[i].rec < e.rec
         /\ Walked!Climbs(both)
    <2>1. ASSUME NEW i \in DOMAIN both
          PROVE  /\ \E f \in rFixed : f.id = both[i].id /\ f.iat = both[i].iat /\ f.rec = both[i].rec
                 /\ both[i].rec <= rWalk.cursor + 1
                 /\ \A e \in rWalk.batch \ Walked!Chunk : both[i].rec < e.rec
      <3>1. CASE i \in DOMAIN rServed /\ both[i] = rServed[i]
        BY <1>3, <1>4, <3>1 DEF Walked!ServedWasThere
      <3>2. CASE i - Len(rServed) \in DOMAIN more /\ both[i] = more[i - Len(rServed)]
        BY <1>10, <3>2
      <3> QED BY <1>11, <3>1, <3>2
    <2>2. ASSUME NEW i \in DOMAIN both, NEW j \in DOMAIN both, i < j PROVE both[i].rec < both[j].rec
      <3>1. i \in Nat /\ j \in Nat
        BY <1>11
      <3>2. CASE i \in DOMAIN rServed /\ both[i] = rServed[i] /\ j \in DOMAIN rServed /\ both[j] = rServed[j]
        BY <1>4, <2>2, <3>2 DEF Walked!Climbs
      <3>3. CASE /\ i \in DOMAIN rServed /\ both[i] = rServed[i]
                 /\ j - Len(rServed) \in DOMAIN more /\ both[j] = more[j - Len(rServed)]
        BY <1>10, <3>3
      <3>4. CASE /\ i - Len(rServed) \in DOMAIN more /\ both[i] = more[i - Len(rServed)]
                 /\ j - Len(rServed) \in DOMAIN more /\ both[j] = more[j - Len(rServed)]
        <4>1. i - Len(rServed) < j - Len(rServed)
          BY <1>11, <2>2, <3>1
        <4> QED BY <1>8, <3>4, <4>1 DEF Walked!Climbs
      <3>5. CASE /\ i - Len(rServed) \in DOMAIN more /\ j \in DOMAIN rServed
        BY <1>11, <2>2, <3>1, <3>5
      <3> QED BY <1>11, <3>2, <3>3, <3>4, <3>5
    <2> QED BY <2>1, <2>2 DEF Walked!Climbs
  <1>13. rServed' = rServed \/ rServed' = both
    BY <1>1 DEF both
  <1>14. Walked!ServedInOrder'
    <2>1. rServed' \in Seq([id : Nat, iat : Int, rec : Nat])
      BY <1>4, <1>11, <1>13
    <2>2. Walked!ServedWasThere' /\ Walked!Climbs(rServed)'
      <3>1. CASE rServed' = rServed
        BY <1>1, <1>4, <3>1 DEF Walked!ServedWasThere, Walked!Climbs
      <3>2. CASE rServed' = both
        BY <1>1, <1>12, <3>2 DEF Walked!ServedWasThere, Walked!Climbs
      <3> QED BY <1>13, <3>1, <3>2
    <2>3. rOutcome' \in {"walking", "refused"}
      BY <1>1
    <2> QED BY <1>1, <1>4, <2>1, <2>2, <2>3 DEF Walked!ServedInOrder
  <1>15. CASE turned
    BY <1>1, <1>5, <1>14, <1>15 DEF Walked!WalkInv, Walked!WalksItsIndex, Walked!BatchInOrder, Walked!NoneLost
  <1>16. CASE ~turned
    <2>1. rOutcome' = "walking" /\ rServed' = both
      BY <1>1, <1>16 DEF both
    <2>2. rWalk' = [rWalk EXCEPT !.batch = @ \ Walked!Chunk, !.handle = IF asked THEN Walked!HandleOn ELSE @]
      BY <1>1, <1>16
    <2>3. /\ rWalk' \in [live : BOOLEAN, old : SUBSET Walked!Entries, from : Int, to : Int, through : Nat,
                         cursor : Int, batch : SUBSET Walked!Entries, handle : Int]
          /\ rWalk'.live = rWalk.live /\ rWalk'.old = rWalk.old /\ rWalk'.from = rWalk.from /\ rWalk'.to = rWalk.to
          /\ rWalk'.through = rWalk.through /\ rWalk'.cursor = rWalk.cursor /\ rWalk'.batch = rWalk.batch \ Walked!Chunk
      <3>1. Walked!HandleOn \in Int
        BY <1>5 DEF Walked!HandleOn
      <3>2. rWalk' = [live |-> rWalk.live, old |-> rWalk.old, from |-> rWalk.from, to |-> rWalk.to,
                      through |-> rWalk.through, cursor |-> rWalk.cursor, batch |-> rWalk.batch \ Walked!Chunk,
                      handle |-> IF asked THEN Walked!HandleOn ELSE rWalk.handle]
        BY <1>2, <2>2
      <3>3. rWalk.batch \ Walked!Chunk \in SUBSET Walked!Entries /\ (IF asked THEN Walked!HandleOn ELSE rWalk.handle) \in Int
        BY <1>2, <3>1
      <3> QED BY <1>2, <3>2, <3>3
    <2>4. Walked!WalkedIndex' = Walked!WalkedIndex
      BY <1>1, <2>3 DEF Walked!WalkedIndex
    <2>5. \A e : Walked!Matched(e)' <=> Walked!Matched(e)
      BY <1>1 DEF Walked!Matched
    <2>6. Walked!WalksItsIndex'
      BY <1>1, <1>2, <2>3, <2>4, <2>5 DEF Walked!WalksItsIndex
    <2>7. Walked!BatchInOrder'
      BY <1>3, <1>7, <1>12, <2>1, <2>3, <2>5 DEF Walked!BatchInOrder
    <2>8. Walked!NoneLost'
      <3> SUFFICES ASSUME NEW e \in rFixed', NEW now \in rRecords', now.rec = e.rec
                   PROVE  \/ \E i \in DOMAIN rServed' : rServed'[i].rec = e.rec
                          \/ rOutcome' = "walking" /\ \E d \in (rWalk.batch \cup Walked!Ahead)' : d.rec = e.rec
        BY DEF Walked!NoneLost
      <3>0. e \in rFixed /\ now \in rRecords
        BY <1>1
      <3>1. \/ \E i \in DOMAIN rServed : rServed[i].rec = e.rec
            \/ \E d \in rWalk.batch \cup Walked!Ahead : d.rec = e.rec
        BY <1>1, <3>0 DEF Walked!WalkInv, Walked!NoneLost
      <3>2. CASE \E i \in DOMAIN rServed : rServed[i].rec = e.rec
        BY <1>11, <2>1, <3>2
      <3>3. ASSUME NEW d \in rWalk.batch \ Walked!Chunk, d.rec = e.rec PROVE d \in rWalk'.batch
        BY <2>3, <3>3
      <3>4. ASSUME NEW d \in Walked!Chunk, d.rec = e.rec PROVE \E i \in DOMAIN both : both[i].rec = e.rec
        <4>1. now \in Walked!Still(d.id)
          BY <1>3, <1>6, <3>0, <3>4 DEF Walked!Still, Walked!WalkInv, Walked!IndexInOrder, Walked!IsIndex
        <4>2. asked
          BY <4>1 DEF asked
        <4>3. d \in held
          BY <1>16, <4>1, <4>2 DEF held
        <4>4. PICK i \in DOMAIN more : more[i].rec = d.rec
          BY <1>8, <4>3
        <4> QED BY <1>11, <3>4, <4>4
      <3>5. ASSUME NEW d \in Walked!Ahead PROVE d \in Walked!Ahead'
        BY <2>3, <2>4 DEF Walked!Ahead
      <3> QED BY <2>1, <3>1, <3>2, <3>3, <3>4, <3>5
    <2> QED BY <1>5, <1>14, <2>6, <2>7, <2>8 DEF Walked!WalkInv
  <1> QED BY <1>15, <1>16

LEMMA WalkStep ==
  ASSUME Walked!WalkInv, ~Refiling, Walked!Next \/ UNCHANGED Walked!vars
  PROVE  Walked!WalkInv'
  <1>1. ASSUME NEW id \in 1..MaxRecords, NEW k \in 0..MaxRecords, Walked!Put(id, k) PROVE Walked!WalkInv'
    BY <1>1, WalkPut
  <1>2. ASSUME NEW from \in Stamps, NEW last \in Stamps, Walked!Ask(from, last + 1) PROVE Walked!WalkInv'
    <2>1. from \in Int /\ last + 1 \in Int
      BY WalkAssumption
    <2> QED BY <1>2, <2>1, WalkAsked
  <1>3. CASE UNCHANGED Walked!vars
    BY <1>3 DEF Walked!vars, Walked!WalkInv, Walked!IndexInOrder, Walked!ServedInOrder, Walked!ServedWasThere,
                Walked!WalksItsIndex, Walked!WalkedIndex, Walked!Matched,
                Walked!BatchInOrder, Walked!NoneLost, Walked!Ahead
  <1> QED BY <1>1, <1>2, <1>3, WalkTakes, WalkReads, WalkAbandoned, WalkMishap DEF Walked!Next

LEMMA WalkMeans == Walked!WalkInv => Walked!ServedWasThere /\ Walked!EndedIsWhole
  BY DEF Walked!WalkInv, Walked!ServedInOrder, Walked!NoneLost, Walked!EndedIsWhole, Walked!Climbs

(* ReceiptStore.range (gateway/src/store.ts): a walk hands out receipts that *)
(* were indexed when it was asked for, each once and in the order of the     *)
(* chain, and one that ends has handed out every receipt it was asked about  *)
(* that is still retained, whatever was filed, retired or compacted between  *)
(* its chunks; for every limit, chunk and number of receipts, while no id is *)
(* filed twice.                                                              *)
THEOREM WalkInStore ==
  ASSUME ~Refiling
  PROVE  MCSpec => []WalkIsTheFile
  <1>1. MCInit => Walked!WalkInv
    BY WalkStarts DEF MCInit
  <1>2. Walked!WalkInv /\ [MCNext]_<<machine, vars, sVars, rVars>> => Walked!WalkInv'
    <2>1. [MCNext]_<<machine, vars, sVars, rVars>> => Walked!Next \/ UNCHANGED Walked!vars
      BY DEF MCNext, rVars, Walked!vars
    <2> QED
      BY <2>1, WalkStep
  <1>3. Walked!WalkInv => WalkIsTheFile
    BY WalkMeans DEF WalkIsTheFile
  <1> QED
    BY <1>1, <1>2, <1>3, PTL DEF MCSpec

=============================================================================
