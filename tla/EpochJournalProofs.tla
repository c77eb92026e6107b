-------------------------- MODULE EpochJournalProofs ---------------------------
(***************************************************************************)
(* EpochJournal for every set of processes, epochs and keys and any number *)
(* of edits by a hand: what is published names every epoch a receipt was   *)
(* signed under, every client can read it, and while the source never      *)
(* steps back an earlier receipt verifies under it.                        *)
(***************************************************************************)
EXTENDS EpochJournal, SequenceTheorems, FiniteSetTheorems, TLAPS

-----------------------------------------------------------------------------
(* What the entries of a file say of those before them.                     *)

LEMMA TupleIsASeq ==
  ASSUME NEW S, NEW n \in Nat, NEW f \in [1..n -> S]
  PROVE  f \in Seq(S) /\ Len(f) = n
  OBVIOUS

LEMMA StatedType ==
  ASSUME NEW e \in Entry
  PROVE  Stated(e) \in Statement
  BY DEF Stated, Entry, Statement

LEMMA DigestProperties ==
  ASSUME NEW s \in Seq(Entry)
  PROVE  /\ prefixDigest(s) \in Seq(Statement)
         /\ Len(prefixDigest(s)) = Len(s)
         /\ \A i \in 1..Len(s) : prefixDigest(s)[i] = Stated(s[i])
  <1> DEFINE f == prefixDigest(s)
  <1>1. Len(s) \in Nat /\ DOMAIN s = 1..Len(s)
    BY LenProperties
  <1>2. f \in [1..Len(s) -> Statement]
    BY <1>1, ElementOfSeq, StatedType DEF prefixDigest
  <1>3. f \in Seq(Statement) /\ Len(f) = Len(s)
    BY <1>1, <1>2, TupleIsASeq
  <1> QED
    BY <1>1, <1>3 DEF prefixDigest

LEMMA DigestStates ==
  ASSUME NEW s
  PROVE  /\ DOMAIN prefixDigest(s) = DOMAIN s
         /\ \A i \in DOMAIN s : /\ prefixDigest(s)[i].epk = s[i].epk
                                /\ prefixDigest(s)[i].kid = s[i].kid
                                /\ prefixDigest(s)[i].validFrom = s[i].validFrom
  BY DEF prefixDigest, Stated

LEMMA ToldType ==
  ASSUME NEW s \in Seq(Entry)
  PROVE  Told(s) \in Seq(Statement)
  <1>1. CASE s = <<>>
    BY <1>1, EmptySeq DEF Told
  <1>2. CASE s # <<>>
    <2>1. Len(s) \in 1..Len(s)
      BY <1>2, EmptySeq
    <2>2. s[Len(s)] \in Entry
      BY <2>1, ElementOfSeq
    <2>3. s[Len(s)].prev \in Seq(Statement) /\ Stated(s[Len(s)]) \in Statement
      BY <2>2, StatedType DEF Entry
    <2> QED
      BY <1>2, <2>3, AppendProperties DEF Told
  <1> QED
    BY <1>1, <1>2

(* A history grows by what the entry appended states.                       *)
LEMMA DigestOfAppend ==
  ASSUME NEW s \in Seq(Entry), NEW e \in Entry
  PROVE  prefixDigest(Append(s, e)) = Append(prefixDigest(s), Stated(e))
  <1> DEFINE a == Append(s, e)
             l == prefixDigest(a)
             r == Append(prefixDigest(s), Stated(e))
             n == Len(s)
  <1>1. n \in Nat
    BY LenProperties
  <1>2. a \in Seq(Entry) /\ Len(a) = n + 1 /\ (\A i \in 1..n : a[i] = s[i]) /\ a[n + 1] = e
    BY AppendProperties
  <1>3. l \in Seq(Statement) /\ Len(l) = n + 1 /\ \A i \in 1 .. n + 1 : l[i] = Stated(a[i])
    <2> HIDE DEF a
    <2> QED
      BY <1>2, DigestProperties
  <1>4. prefixDigest(s) \in Seq(Statement) /\ Len(prefixDigest(s)) = n
        /\ \A i \in 1..n : prefixDigest(s)[i] = Stated(s[i])
    BY DigestProperties
  <1>5. r \in Seq(Statement) /\ Len(r) = n + 1
        /\ (\A i \in 1..n : r[i] = prefixDigest(s)[i]) /\ r[n + 1] = Stated(e)
    BY <1>4, StatedType, AppendProperties
  <1> HIDE DEF l, r, a, n
  <1>6. ASSUME NEW i \in 1 .. n + 1
        PROVE  l[i] = r[i]
    <2>1. CASE i = n + 1
      BY <1>2, <1>3, <1>5, <2>1
    <2>2. CASE i # n + 1
      <3>1. i \in 1..n
        BY <1>1, <2>2
      <3> QED
        BY <1>2, <1>3, <1>4, <1>5, <3>1
    <2> QED
      BY <2>1, <2>2
  <1>7. l = r
    BY <1>3, <1>5, <1>6, SeqEqual
  <1> QED
    BY <1>7 DEF l, r, a

LEMMA ToldOfAppend ==
  ASSUME NEW s \in Seq(Entry), NEW e \in Entry, e.prev = prefixDigest(s)
  PROVE  Told(Append(s, e)) = prefixDigest(Append(s, e))
  <1> DEFINE a == Append(s, e)
  <1>1. a # <<>> /\ a[Len(a)] = e
    BY AppendProperties
  <1>2. Told(a) = Append(prefixDigest(s), Stated(e))
    <2> HIDE DEF a
    <2> QED
      BY <1>1 DEF Told
  <1> QED
    BY <1>2, DigestOfAppend

(* A file whose entries name those before them is told whole by its last.   *)
LEMMA ChainsAreTold ==
  ASSUME NEW s \in Seq(Entry), Chains(s)
  PROVE  Told(s) = prefixDigest(s)
  <1>1. CASE s = <<>>
    BY <1>1 DEF Told, prefixDigest
  <1>2. CASE s # <<>>
    <2> DEFINE n == Len(s)
               front == SubSeq(s, 1, n - 1)
               last == s[n]
    <2>1. n \in Nat /\ n >= 1 /\ DOMAIN s = 1..n
      BY <1>2, EmptySeq, LenProperties
    <2>2. last \in Entry
      BY <2>1, ElementOfSeq
    <2>3. last.prev = prefixDigest(front)
      BY <2>1 DEF Chains
    <2>4. front \in Seq(Entry) /\ Len(front) = n - 1 /\ \A i \in 1 .. n - 1 : front[i] = s[i]
      <3>1. \A i \in 1 .. n - 1 : s[i] \in Entry
        BY <2>1, ElementOfSeq
      <3> QED
        BY <2>1, <3>1, SubSeqProperties
    <2>5. s = Append(front, last)
      <3> DEFINE a == Append(front, last)
      <3> HIDE DEF front, last
      <3>1. /\ a \in Seq(Entry) /\ Len(a) = Len(front) + 1
            /\ \A i \in 1..Len(front) : a[i] = front[i]
            /\ a[Len(front) + 1] = last
        BY <2>2, <2>4, AppendProperties
      <3>2. n \in Nat /\ n >= 1 /\ Len(a) = n
        BY <2>1, <2>4, <3>1
      <3>3. a[n] = last /\ \A i \in 1 .. n - 1 : a[i] = s[i]
        <4>1. Len(front) + 1 = n
          BY <2>4, <3>2
        <4> QED
          BY <2>4, <3>1, <4>1
      <3> HIDE DEF a
      <3>4. \A i \in 1..n : a[i] = s[i]
        <4> SUFFICES ASSUME NEW i \in 1..n PROVE a[i] = s[i]
          OBVIOUS
        <4>1. i = n \/ i \in 1 .. n - 1
          BY <3>2
        <4> QED
          BY <3>3, <4>1 DEF last
      <3>5. a = s
        BY <3>1, <3>2, <3>4, SeqEqual
      <3> QED
        BY <3>5 DEF a
    <2> HIDE DEF front, last
    <2> QED
      BY <2>2, <2>3, <2>4, <2>5, ToldOfAppend
  <1> QED
    BY <1>1, <1>2

(* A hand that rewrites or removes an entry another one follows leaves the  *)
(* last one telling what it told.                                           *)
LEMMA EditIsTold ==
  ASSUME JournalAssumption, NEW s \in Seq(Entry), NEW i \in 1 .. Len(s) - 1,
         NEW t \in {RemoveAt(s, i), [s EXCEPT ![i].validFrom = Latest]}
  PROVE  t \in Seq(Entry) /\ Told(t) = Told(s)
  <1> DEFINE n == Len(s)
  <1>1. n \in Nat /\ n >= 2 /\ i \in 1..n /\ i < n /\ s # <<>>
    <2>1. n \in Nat
      BY LenProperties
    <2> QED
      BY <2>1, EmptySeq
  <1>2. t \in Seq(Entry) /\ Len(t) \in Nat /\ Len(t) >= 1 /\ t[Len(t)] = s[n]
    <2>1. CASE t = RemoveAt(s, i)
      <3> DEFINE a == SubSeq(s, 1, i - 1)
                 b == SubSeq(s, i + 1, n)
      <3>1. \A j \in 1..n : s[j] \in Entry
        BY ElementOfSeq
      <3>2. a \in Seq(Entry) /\ Len(a) = i - 1
        <4>1. \A j \in 1 .. i - 1 : s[j] \in Entry
          BY <1>1, <3>1
        <4> QED
          BY <1>1, <4>1, SubSeqProperties
      <3>3. b \in Seq(Entry) /\ Len(b) = n - i /\ b[n - i] = s[n]
        <4>1. \A j \in i + 1 .. n : s[j] \in Entry
          BY <1>1, <3>1
        <4>2. /\ b \in Seq(Entry)
              /\ Len(b) = IF i + 1 <= n THEN n - (i + 1) + 1 ELSE 0
              /\ \A j \in 1 .. n - (i + 1) + 1 : b[j] = s[i + 1 + j - 1]
          BY <1>1, <4>1, SubSeqProperties
        <4>3. n - i \in 1 .. n - (i + 1) + 1 /\ i + 1 + (n - i) - 1 = n /\ i + 1 <= n
              /\ n - (i + 1) + 1 = n - i
          BY <1>1
        <4> HIDE DEF n, b
        <4>4. Len(b) = n - i
          BY <4>2, <4>3
        <4>5. b[n - i] = s[i + 1 + (n - i) - 1]
          BY <4>2, <4>3
        <4> QED
          BY <4>2, <4>3, <4>4, <4>5
      <3>4. t = a \o b
        BY <2>1 DEF RemoveAt
      <3> HIDE DEF a, b, n
      <3>5. /\ a \o b \in Seq(Entry) /\ Len(a \o b) = Len(a) + Len(b)
            /\ \A j \in 1 .. Len(a) + Len(b) : ~(j <= Len(a)) => (a \o b)[j] = b[j - Len(a)]
        <4>1. a \in Seq(Entry) /\ b \in Seq(Entry)
          BY <3>2, <3>3
        <4> QED
          BY <4>1, ConcatProperties
      <3>6. Len(a) + Len(b) = n - 1 /\ n - 1 >= 1 /\ n - 1 \in Nat /\ n - 1 - (i - 1) = n - i
        BY <1>1, <3>2, <3>3
      <3>7. (a \o b)[n - 1] = b[n - i]
        <4>1. n - 1 \in 1 .. Len(a) + Len(b)
          BY <3>6
        <4>2. ~(n - 1 <= Len(a))
          BY <1>1, <3>2
        <4>3. n - 1 - Len(a) = n - i
          BY <3>2, <3>6
        <4> QED
          BY <3>5, <4>1, <4>2, <4>3
      <3> QED
        BY <3>3, <3>4, <3>5, <3>6, <3>7 DEF n
    <2>2. CASE t = [s EXCEPT ![i].validFrom = Latest]
      <3> DEFINE e == [s[i] EXCEPT !.validFrom = Latest]
      <3>1. s[i] \in Entry
        BY <1>1, ElementOfSeq
      <3>2. e \in Entry
        BY <3>1 DEF Entry, JournalAssumption
      <3>3. t = [s EXCEPT ![i] = e]
        BY <2>2
      <3> HIDE DEF e
      <3>4. /\ t \in Seq(Entry) /\ Len(t) = n
            /\ \A j \in 1..n : t[j] = IF j = i THEN e ELSE s[j]
        BY <1>1, <3>2, <3>3, ExceptSeq
      <3>5. n \in 1..n /\ n # i
        BY <1>1
      <3> QED
        BY <1>1, <3>4, <3>5
    <2> QED
      BY <2>1, <2>2
  <1>3. t # <<>>
    BY <1>2, EmptySeq
  <1> QED
    BY <1>1, <1>2, <1>3 DEF Told

-----------------------------------------------------------------------------
(* A whole history, of the deployments, receipts and clock it is read under. *)

WholeIn(h, deployed, receipts, clock, back) ==
  /\ Rising(h)
  /\ \A i \in DOMAIN h : <<h[i].epk, h[i].kid>> \in deployed
  /\ \A r \in receipts : Names(h, r.epk, r.kid)
  /\ ~back => \A i \in DOMAIN h :
        /\ h[i].validFrom <= clock
        /\ \A r \in receipts : /\ h[i].epk <= r.epk => h[i].validFrom <= r.iat
                               /\ h[i].epk > r.epk => r.iat <= h[i].validFrom

(* What a process holds, of the file and the temporary one beside it.       *)
TellsIn(me, beside, file, deployed, receipts, clock, back) ==
  me.at \in {"writing", "renaming", "serving"} =>
    /\ Told(me.entries) = prefixDigest(me.entries)
    /\ WholeIn(prefixDigest(me.entries), deployed, receipts, clock, back)
    /\ Names(me.entries, me.epk, me.kid)
    /\ me.at = "renaming" => beside = me.entries
    /\ me.at = "serving" => Told(file) = prefixDigest(me.entries)

LEMMA ToldNow ==
  HistoryIsTold <=>
    /\ WholeIn(Told(journal), started, issued, now, stepped)
    /\ \A p \in Procs : TellsIn(proc[p], temp, journal, started, issued, now, stepped)
    /\ ~stepped => \A r \in issued : r.iat <= now
  BY DEF HistoryIsTold, Whole, WholeIn, TellsIn, Deployed, Dated

LEMMA ToldNext ==
  HistoryIsTold' <=>
    /\ WholeIn(Told(journal'), started', issued', now', stepped')
    /\ \A p \in Procs : TellsIn(proc'[p], temp', journal', started', issued', now', stepped')
    /\ ~stepped' => \A r \in issued' : r.iat <= now'
  BY DEF HistoryIsTold, Whole, WholeIn, TellsIn, Deployed, Dated

Receipt == [epk : Epochs, kid : Keys, iat : Nat]

LEMMA StatementFacts ==
  ASSUME JournalAssumption, NEW h \in Seq(Statement)
  PROVE  /\ Len(h) \in Nat
         /\ \A i \in 1..Len(h) : /\ h[i] \in Statement
                                 /\ h[i].epk \in Nat /\ h[i].epk \in Epochs
                                 /\ h[i].validFrom \in Nat /\ h[i].kid \in Keys
  <1>1. Len(h) \in Nat
    BY LenProperties
  <1>2. \A i \in 1..Len(h) : h[i] \in Statement
    BY ElementOfSeq
  <1>3. \A s \in Statement : s.epk \in Nat /\ s.epk \in Epochs /\ s.validFrom \in Nat /\ s.kid \in Keys
    BY DEF Statement, JournalAssumption
  <1> QED
    BY <1>1, <1>2, <1>3

(* A start under a deployment above every other adds an entry to a whole    *)
(* history, at an instant past the others, and leaves it whole.             *)
LEMMA WholeGrows ==
  ASSUME JournalAssumption,
         NEW h \in Seq(Statement), NEW e \in Statement, NEW deployed, NEW receipts, NEW clock, NEW back,
         receipts \subseteq Receipt, clock \in Nat,
         WholeIn(h, deployed, receipts, clock, back),
         <<e.epk, e.kid>> \in deployed,
         \A d \in deployed : d = <<e.epk, e.kid>> \/ d[1] < e.epk,
         ~Names(h, e.epk, e.kid),
         e.validFrom = clock, \A i \in DOMAIN h : clock > h[i].validFrom,
         ~back => \A r \in receipts : r.iat <= clock
  PROVE  WholeIn(Append(h, e), deployed, receipts, clock, back)
  <1> DEFINE a == Append(h, e)
             n == Len(h)
  <1>1. /\ n \in Nat
        /\ \A i \in 1..n : h[i].epk \in Nat /\ h[i].validFrom \in Nat
        /\ e.epk \in Nat
    BY StatementFacts DEF Statement, JournalAssumption
  <1>2. /\ a \in Seq(Statement) /\ Len(a) = n + 1
        /\ \A i \in 1..n : a[i] = h[i]
        /\ a[n + 1] = e
    BY AppendProperties
  <1>3. DOMAIN h = 1..n /\ DOMAIN a = 1 .. n + 1
    BY <1>2, LenProperties
  <1>4. \A i \in 1..n : h[i].epk < e.epk /\ h[i].validFrom < clock
    <2> SUFFICES ASSUME NEW i \in 1..n PROVE h[i].epk < e.epk /\ h[i].validFrom < clock
      OBVIOUS
    <2>1. <<h[i].epk, h[i].kid>> \in deployed
      BY <1>3 DEF WholeIn
    <2>2. ~(h[i].epk = e.epk /\ h[i].kid = e.kid)
      BY <1>3 DEF Names
    <2>3. h[i].epk < e.epk
      BY <2>1, <2>2
    <2>4. clock > h[i].validFrom
      BY <1>3
    <2> QED
      BY <1>1, <2>3, <2>4
  <1> HIDE DEF a, n
  <1>5. \A i \in 1 .. n + 1 : i = n + 1 \/ i \in 1..n
    BY <1>1
  <1>6. Rising(a)
    <2> SUFFICES ASSUME NEW i \in 1 .. n + 1, NEW j \in 1 .. n + 1, i < j
                 PROVE  a[i].epk < a[j].epk /\ a[i].validFrom < a[j].validFrom
      BY <1>3 DEF Rising
    <2>1. i \in 1..n
      BY <1>1
    <2>2. CASE j = n + 1
      BY <1>2, <1>4, <2>1, <2>2
    <2>3. CASE j \in 1..n
      <3>1. h[i].epk < h[j].epk /\ h[i].validFrom < h[j].validFrom
        BY <1>3, <2>1, <2>3 DEF WholeIn, Rising
      <3> QED
        BY <1>2, <2>1, <2>3, <3>1
    <2> QED
      BY <1>5, <2>2, <2>3
  <1>7. \A i \in 1 .. n + 1 : <<a[i].epk, a[i].kid>> \in deployed
    BY <1>2, <1>3, <1>5 DEF WholeIn
  <1>8. \A r \in receipts : \E i \in 1..n : h[i].epk = r.epk /\ h[i].kid = r.kid
    BY <1>3 DEF WholeIn, Names
  <1>9. \A i \in 1..n : i \in 1 .. n + 1
    BY <1>1
  <1>10. \A r \in receipts : Names(a, r.epk, r.kid)
    BY <1>2, <1>3, <1>8, <1>9 DEF Names
  <1>11. ASSUME ~back, NEW i \in 1 .. n + 1
         PROVE  /\ a[i].validFrom <= clock
                /\ \A r \in receipts : /\ a[i].epk <= r.epk => a[i].validFrom <= r.iat
                                       /\ a[i].epk > r.epk => r.iat <= a[i].validFrom
    <2>1. CASE i \in 1..n
      BY <1>2, <1>3, <1>11, <2>1 DEF WholeIn
    <2>2. CASE i = n + 1
      <3>1. a[i] = e /\ clock <= clock
        BY <1>2, <2>2
      <3>2. ASSUME NEW r \in receipts
            PROVE  e.epk > r.epk /\ ~(e.epk <= r.epk) /\ r.iat <= clock
        <4>1. PICK k \in 1..n : h[k].epk = r.epk
          BY <1>8
        <4> QED
          BY <1>1, <1>4, <1>11, <4>1
      <3> QED
        BY <3>1, <3>2
    <2> QED
      BY <1>5, <2>1, <2>2
  <1>12. WholeIn(a, deployed, receipts, clock, back)
    BY <1>3, <1>6, <1>7, <1>10, <1>11 DEF WholeIn
  <1> QED
    BY <1>12 DEF a

(* A receipt issued under the newest deployment, at the clock, is missing   *)
(* from no history that names it.                                           *)
LEMMA WholeWithAReceipt ==
  ASSUME JournalAssumption,
         NEW h \in Seq(Statement), NEW r \in Receipt, NEW deployed, NEW receipts, NEW clock, NEW back,
         receipts \subseteq Receipt, clock \in Nat,
         WholeIn(h, deployed, receipts, clock, back),
         \A d \in deployed : d = <<r.epk, r.kid>> \/ d[1] < r.epk,
         Names(h, r.epk, r.kid), r.iat = clock
  PROVE  WholeIn(h, deployed, receipts \cup {r}, clock, back)
  <1> DEFINE n == Len(h)
  <1>1. /\ n \in Nat /\ DOMAIN h = 1..n
        /\ \A i \in 1..n : h[i].epk \in Nat /\ h[i].validFrom \in Nat
        /\ r.epk \in Nat
    BY StatementFacts, LenProperties DEF Receipt, JournalAssumption
  <1>2. \A i \in DOMAIN h : h[i].epk <= r.epk
    <2> SUFFICES ASSUME NEW i \in DOMAIN h PROVE h[i].epk <= r.epk
      OBVIOUS
    <2>1. <<h[i].epk, h[i].kid>> \in deployed
      BY DEF WholeIn
    <2>2. h[i].epk = r.epk \/ h[i].epk < r.epk
      BY <2>1
    <2>3. h[i].epk \in Nat
      BY <1>1
    <2> QED
      BY <1>1, <2>2, <2>3
  <1>3. \A i \in DOMAIN h : ~(h[i].epk > r.epk)
    BY <1>1, <1>2
  <1>4. \A q \in receipts \cup {r} : Names(h, q.epk, q.kid)
    BY DEF WholeIn
  <1>5. ASSUME ~back, NEW i \in DOMAIN h, NEW q \in receipts \cup {r}
        PROVE  /\ h[i].epk <= q.epk => h[i].validFrom <= q.iat
               /\ h[i].epk > q.epk => q.iat <= h[i].validFrom
    <2>1. CASE q \in receipts
      <3>1. \A x \in DOMAIN h : \A y \in receipts :
               /\ h[x].epk <= y.epk => h[x].validFrom <= y.iat
               /\ h[x].epk > y.epk => y.iat <= h[x].validFrom
        BY <1>5, Zenon DEF WholeIn
      <3> QED
        BY <2>1, <3>1, Zenon
    <2>2. CASE q = r
      <3>1. h[i].validFrom <= clock
        BY <1>5 DEF WholeIn
      <3> QED
        BY <1>3, <2>2, <3>1
    <2> QED
      BY <2>1, <2>2
  <1> QED
    BY <1>4, <1>5 DEF WholeIn

(* While it does not step back, the clock moves on from a whole history.    *)
LEMMA WholeLater ==
  ASSUME JournalAssumption,
         NEW h \in Seq(Statement), NEW deployed, NEW receipts, NEW clock, NEW back, NEW after, NEW behind,
         clock \in Nat, after \in Nat, behind = (back \/ after < clock), back \in BOOLEAN,
         WholeIn(h, deployed, receipts, clock, back)
  PROVE  WholeIn(h, deployed, receipts, after, behind)
  <1>1. \A i \in DOMAIN h : h[i].validFrom \in Nat
    BY StatementFacts, LenProperties
  <1>2. ASSUME ~behind
        PROVE  ~back /\ clock <= after
    <2>1. ~back /\ ~(after < clock)
      BY <1>2, Zenon
    <2> QED
      BY <2>1
  <1>3. ASSUME ~behind, NEW i \in DOMAIN h
        PROVE  h[i].validFrom <= after
    <2>1. h[i].validFrom <= clock
      BY <1>2, <1>3 DEF WholeIn
    <2> QED
      BY <1>1, <1>2, <1>3, <2>1
  <1> QED
    BY <1>2, <1>3 DEF WholeIn

LEMMA WholeUnderMore ==
  ASSUME NEW h, NEW deployed, NEW more, NEW receipts, NEW clock, NEW back,
         deployed \subseteq more, WholeIn(h, deployed, receipts, clock, back)
  PROVE  WholeIn(h, more, receipts, clock, back)
  BY DEF WholeIn

-----------------------------------------------------------------------------
(* The steps of a process.                                                  *)

Process == [at : Steps, epk : Epochs \cup {0}, kid : Keys \cup {None}, sealed : BOOLEAN,
            entries : Seq(Entry)]

(* While one process is up, no other is.                                    *)
LEMMA OneUp ==
  ASSUME InductiveInv, NEW p \in Procs, proc[p].at # "down"
  PROVE  /\ holder = p
         /\ \A q \in Procs \ {p} : proc[q].at = "down"
  BY DEF InductiveInv, HolderIsNewest

LEMMA DownIsAProcess == Down \in Process
  <1>1. <<>> \in Seq(Entry)
    BY EmptySeq
  <1> QED
    BY <1>1 DEF Down, Process, Steps

(* A process that goes takes nothing of the file with it.                   *)
LEMMA LeavesStep ==
  ASSUME JournalAssumption, InductiveInv, NEW p \in Procs, proc[p].at # "down", Leaves(p),
         UNCHANGED <<journal, temp, now, issued, started, stepped>>
  PROVE  InductiveInv'
  <1>1. holder' = None /\ proc' = [proc EXCEPT ![p] = Down]
    BY OneUp DEF Leaves, Move
  <1>2. proc \in [Procs -> Process]
    BY DEF InductiveInv, TypeOK, Process
  <1>3. proc' \in [Procs -> Process] /\ \A q \in Procs : proc'[q].at = "down"
    BY <1>1, <1>2, OneUp, DownIsAProcess DEF Down
  <1>4. TypeOK'
    BY <1>1, <1>3 DEF InductiveInv, TypeOK, Process
  <1>5. HolderIsNewest'
    BY <1>3 DEF InductiveInv, HolderIsNewest
  <1>6. HistoryIsTold'
    <2>1. \A q \in Procs : TellsIn(proc'[q], temp', journal', started', issued', now', stepped')
      BY <1>3 DEF TellsIn
    <2> QED
      BY <2>1, ToldNow, ToldNext DEF InductiveInv
  <1> QED
    BY <1>4, <1>5, <1>6 DEF InductiveInv

LEMMA ClaimStep ==
  ASSUME JournalAssumption, InductiveInv, NEW p \in Procs, Claim(p)
  PROVE  InductiveInv'
  <1>1. PICK epk \in Epochs, kid \in Keys, sealed \in BOOLEAN :
          /\ \A d \in started : d = <<epk, kid>> \/ d[1] < epk
          /\ started' = started \cup {<<epk, kid>>}
          /\ Move(p, [Down EXCEPT !.at = "claimed", !.epk = epk, !.kid = kid, !.sealed = sealed])
    BY DEF Claim
  <1> DEFINE me == [Down EXCEPT !.at = "claimed", !.epk = epk, !.kid = kid, !.sealed = sealed]
  <1>2. /\ holder = None /\ holder' = p
        /\ UNCHANGED <<journal, temp, now, issued, stepped>>
        /\ proc' = [proc EXCEPT ![p] = me]
    BY <1>1 DEF Claim, Move
  <1>3. proc \in [Procs -> Process]
    BY DEF InductiveInv, TypeOK, Process
  <1>4. me \in Process /\ me.at = "claimed" /\ me.epk = epk /\ me.kid = kid
    BY DownIsAProcess DEF Process, Down, Steps
  <1>5. \A q \in Procs : proc[q].at = "down"
    BY <1>2 DEF InductiveInv, HolderIsNewest, JournalAssumption
  <1> HIDE DEF me
  <1>6. proc' \in [Procs -> Process] /\ proc'[p] = me /\ \A q \in Procs \ {p} : proc'[q].at = "down"
    BY <1>2, <1>3, <1>4, <1>5
  <1>7. TypeOK'
    <2>1. started' \subseteq Epochs \X Keys
      BY <1>1 DEF InductiveInv, TypeOK
    <2> QED
      BY <1>2, <1>6, <2>1 DEF InductiveInv, TypeOK, Process
  <1>8. HolderIsNewest'
    <2>1. \A d \in started' : d = <<epk, kid>> \/ d[1] < epk
      BY <1>1
    <2>2. \A d, e \in started' : d[1] = e[1] => d = e
      <3> SUFFICES ASSUME NEW d \in started', NEW e \in started', d[1] = e[1]
                   PROVE  d = e
        OBVIOUS
      <3>1. epk \in Nat /\ ~(epk < epk)
        BY DEF JournalAssumption
      <3>2. CASE d \in started /\ e \in started
        BY <3>2 DEF InductiveInv, HolderIsNewest
      <3>3. CASE d = <<epk, kid>>
        BY <2>1, <3>1, <3>3
      <3>4. CASE e = <<epk, kid>>
        BY <2>1, <3>1, <3>4
      <3> QED
        BY <1>1, <3>2, <3>3, <3>4
    <2>3. <<epk, kid>> \in started'
      BY <1>1
    <2> QED
      BY <1>2, <1>4, <1>6, <2>1, <2>2, <2>3 DEF HolderIsNewest
  <1>9. HistoryIsTold'
    <2>1. \A q \in Procs : TellsIn(proc'[q], temp', journal', started', issued', now', stepped')
      BY <1>4, <1>6 DEF TellsIn
    <2>2. WholeIn(Told(journal), started', issued, now, stepped)
      BY <1>1, WholeUnderMore, ToldNow DEF InductiveInv
    <2> QED
      BY <1>2, <2>1, <2>2, ToldNow, ToldNext DEF InductiveInv
  <1> QED
    BY <1>7, <1>8, <1>9 DEF InductiveInv

(* The steps that move one process on, and leave its deployment and the     *)
(* holder be.                                                               *)
LEMMA MovesOn ==
  ASSUME InductiveInv, NEW p \in Procs, NEW me, me \in Process, proc[p].at # "down",
         proc' = [proc EXCEPT ![p] = me], me.epk = proc[p].epk, me.kid = proc[p].kid,
         UNCHANGED <<holder, started>>
  PROVE  /\ proc' \in [Procs -> Process] /\ HolderIsNewest'
         /\ proc'[p] = me /\ \A q \in Procs \ {p} : proc'[q].at = "down"
  <1>1. proc \in [Procs -> Process]
    BY DEF InductiveInv, TypeOK, Process
  <1>2. proc' \in [Procs -> Process] /\ proc'[p] = me /\ \A q \in Procs \ {p} : proc'[q] = proc[q]
    BY <1>1
  <1>3. \A q \in Procs \ {p} : proc'[q].at = "down"
    BY <1>2, OneUp
  <1>4. HolderIsNewest'
    BY <1>2, <1>3, OneUp DEF InductiveInv, HolderIsNewest
  <1> QED
    BY <1>2, <1>3, <1>4

(* What a start writes, or serves without writing.                          *)
LEMMA OpenJournalStep ==
  ASSUME JournalAssumption, InductiveInv, NEW p \in Procs, OpenJournal(p)
  PROVE  InductiveInv'
  <1> DEFINE old == proc[p]
             known == Names(journal, old.epk, old.kid)
             new == NewEntry(old, journal)
             written == Append(journal, new)
             refused == \/ ~Chains(journal)
                        \/ ~known /\ ~Stampable(journal)
                        \/ unsealedHistoryRefusal(IF known THEN journal ELSE written, old.sealed)
  <1>1. /\ old.at = "claimed" /\ UNCHANGED <<journal, temp, now, issued, started, stepped>>
        /\ refused => Leaves(p)
        /\ ~refused =>
              /\ proc' = [proc EXCEPT ![p] = [old EXCEPT !.at = IF known THEN "serving" ELSE "writing",
                                                        !.entries = IF known THEN journal ELSE written]]
              /\ UNCHANGED holder
    BY DEF OpenJournal, Move
  <1>2. CASE refused
    BY <1>1, <1>2, LeavesStep
  <1>3. CASE ~refused
    <2> DEFINE me == [old EXCEPT !.at = IF known THEN "serving" ELSE "writing",
                                 !.entries = IF known THEN journal ELSE written]
    <2>1. old \in Process /\ journal \in Seq(Entry) /\ now \in Nat /\ temp \in Seq(Entry)
      BY DEF InductiveInv, TypeOK, Process
    <2>2. Chains(journal) /\ (~known => Stampable(journal))
      BY <1>3
    <2>3. prefixDigest(journal) \in Seq(Statement) /\ Told(journal) = prefixDigest(journal)
      BY <2>1, <2>2, DigestProperties, ChainsAreTold
    <2>4. <<old.epk, old.kid>> \in started /\ \A d \in started : d = <<old.epk, old.kid>> \/ d[1] < old.epk
      BY <1>1 DEF InductiveInv, HolderIsNewest
    <2>5. old.epk \in Epochs /\ old.kid \in Keys
      BY <2>4 DEF InductiveInv, TypeOK
    <2>6. new \in Entry /\ new.prev = prefixDigest(journal)
      BY <2>1, <2>3, <2>5 DEF NewEntry, Entry
    <2>7. written \in Seq(Entry)
      BY <2>1, <2>6, AppendProperties
    <2>8. /\ me \in Process /\ me.epk = old.epk /\ me.kid = old.kid
          /\ known => me.at = "serving" /\ me.entries = journal
          /\ ~known => me.at = "writing" /\ me.entries = written
      BY <2>1, <2>7 DEF Process, Steps
    <2>9. old.at # "down"
      BY <1>1
    <2> HIDE DEF me, refused
    <2>10. proc' = [proc EXCEPT ![p] = me]
      BY <1>1, <1>3 DEF me
    <2>11. /\ proc' \in [Procs -> Process] /\ HolderIsNewest'
           /\ proc'[p] = me /\ \A q \in Procs \ {p} : proc'[q].at = "down"
      BY <1>1, <1>3, <2>8, <2>9, <2>10, MovesOn
    <2>12. TypeOK'
      BY <1>1, <1>3, <2>11 DEF InductiveInv, TypeOK, Process
    <2>13. WholeIn(prefixDigest(journal), started, issued, now, stepped)
      BY <2>3, ToldNow DEF InductiveInv
    <2>14. TellsIn(me, temp, journal, started, issued, now, stepped)
      <3>1. CASE known
        BY <2>3, <2>8, <2>13, <3>1 DEF TellsIn
      <3>2. CASE ~known
        <4>1. Told(written) = prefixDigest(written) /\ prefixDigest(written) = Append(prefixDigest(journal), Stated(new))
          BY <2>1, <2>6, ToldOfAppend, DigestOfAppend
        <4>2. Stated(new).epk = old.epk /\ Stated(new).kid = old.kid /\ Stated(new).validFrom = now
          BY DEF Stated, NewEntry
        <4>3. Stated(new) \in Statement
          BY <2>6, StatedType
        <4>4. Len(journal) \in Nat
          BY <2>1, LenProperties
        <4>5. ~Names(prefixDigest(journal), old.epk, old.kid)
          BY <3>2, DigestStates DEF Names
        <4>6. \A i \in DOMAIN prefixDigest(journal) : now > prefixDigest(journal)[i].validFrom
          BY <2>2, <3>2, DigestStates DEF Stampable
        <4>7. issued \subseteq Receipt /\ (~stepped => \A r \in issued : r.iat <= now)
          BY ToldNow DEF InductiveInv, TypeOK, Receipt
        <4>8. WholeIn(prefixDigest(written), started, issued, now, stepped)
          <5> DEFINE h == prefixDigest(journal)
                     e == Stated(new)
          <5> HIDE DEF h, e, known
          <5>1. WholeIn(Append(h, e), started, issued, now, stepped)
            BY <2>1, <2>3, <2>4, <2>13, <4>2, <4>3, <4>5, <4>6, <4>7, WholeGrows DEF h, e
          <5> QED
            BY <4>1, <5>1 DEF h, e
        <4>9. Names(written, old.epk, old.kid)
          <5>1. Len(journal) + 1 \in DOMAIN written /\ written[Len(journal) + 1] = new
            BY <2>1, <2>6, <4>4, AppendProperties, LenProperties
          <5> QED
            BY <5>1 DEF Names, NewEntry
        <4> QED
          BY <2>8, <3>2, <4>1, <4>8, <4>9 DEF TellsIn
      <3> QED
        BY <3>1, <3>2
    <2>15. HistoryIsTold'
      <3>1. \A q \in Procs : TellsIn(proc'[q], temp, journal, started, issued, now, stepped)
        BY <2>11, <2>14 DEF TellsIn
      <3> QED
        BY <1>1, <3>1, ToldNow, ToldNext DEF InductiveInv
    <2> QED
      BY <2>11, <2>12, <2>15 DEF InductiveInv
  <1> QED
    BY <1>2, <1>3

LEMMA WriteTempStep ==
  ASSUME JournalAssumption, InductiveInv, NEW p \in Procs, WriteTemp(p)
  PROVE  InductiveInv'
  <1> DEFINE old == proc[p]
             me == [old EXCEPT !.at = "renaming"]
  <1>1. /\ old.at = "writing" /\ temp' = old.entries /\ proc' = [proc EXCEPT ![p] = me]
        /\ UNCHANGED <<journal, holder, now, issued, started, stepped>>
    BY DEF WriteTemp, Move
  <1>2. old \in Process
    BY DEF InductiveInv, TypeOK, Process
  <1>3. /\ me \in Process /\ me.epk = old.epk /\ me.kid = old.kid /\ me.entries = old.entries
        /\ me.at = "renaming" /\ old.at # "down" /\ old.entries \in Seq(Entry)
    BY <1>1, <1>2 DEF Process, Steps
  <1> HIDE DEF me
  <1>4. /\ proc' \in [Procs -> Process] /\ HolderIsNewest'
        /\ proc'[p] = me /\ \A q \in Procs \ {p} : proc'[q].at = "down"
    BY <1>1, <1>3, MovesOn
  <1>5. TypeOK'
    BY <1>1, <1>3, <1>4 DEF InductiveInv, TypeOK, Process
  <1>6. TellsIn(old, temp, journal, started, issued, now, stepped)
    BY ToldNow DEF InductiveInv
  <1>7. TellsIn(me, temp', journal, started, issued, now, stepped)
    BY <1>1, <1>3, <1>6 DEF TellsIn
  <1>8. \A q \in Procs : TellsIn(proc'[q], temp', journal, started, issued, now, stepped)
    BY <1>4, <1>7 DEF TellsIn
  <1>9. HistoryIsTold'
    BY <1>1, <1>8, ToldNow, ToldNext DEF InductiveInv
  <1> QED
    BY <1>4, <1>5, <1>9 DEF InductiveInv

LEMMA RenameTempStep ==
  ASSUME JournalAssumption, InductiveInv, NEW p \in Procs, RenameTemp(p)
  PROVE  InductiveInv'
  <1> DEFINE old == proc[p]
             me == [old EXCEPT !.at = "serving"]
  <1>1. /\ old.at = "renaming" /\ journal' = temp /\ proc' = [proc EXCEPT ![p] = me]
        /\ UNCHANGED <<temp, holder, now, issued, started, stepped>>
    BY DEF RenameTemp, Move
  <1>2. old \in Process
    BY DEF InductiveInv, TypeOK, Process
  <1>3. /\ me \in Process /\ me.epk = old.epk /\ me.kid = old.kid /\ me.entries = old.entries
        /\ me.at = "serving" /\ old.at # "down"
    BY <1>1, <1>2 DEF Process, Steps
  <1> HIDE DEF me
  <1>4. /\ proc' \in [Procs -> Process] /\ HolderIsNewest'
        /\ proc'[p] = me /\ \A q \in Procs \ {p} : proc'[q].at = "down"
    BY <1>1, <1>3, MovesOn
  <1>5. TypeOK'
    BY <1>1, <1>4 DEF InductiveInv, TypeOK, Process
  <1>6. TellsIn(old, temp, journal, started, issued, now, stepped)
    BY ToldNow DEF InductiveInv
  <1>7. /\ temp = old.entries /\ Told(temp) = prefixDigest(old.entries)
        /\ WholeIn(prefixDigest(old.entries), started, issued, now, stepped)
        /\ Names(old.entries, old.epk, old.kid)
    BY <1>1, <1>6 DEF TellsIn
  <1>8. TellsIn(me, temp, journal', started, issued, now, stepped)
    BY <1>1, <1>3, <1>7 DEF TellsIn
  <1>9. \A q \in Procs : TellsIn(proc'[q], temp, journal', started, issued, now, stepped)
    BY <1>4, <1>8 DEF TellsIn
  <1>10. WholeIn(Told(journal'), started, issued, now, stepped)
    BY <1>1, <1>7
  <1>11. HistoryIsTold'
    BY <1>1, <1>9, <1>10, ToldNow, ToldNext DEF InductiveInv
  <1> QED
    BY <1>4, <1>5, <1>11 DEF InductiveInv

LEMMA IssueStep ==
  ASSUME JournalAssumption, InductiveInv, NEW p \in Procs, Issue(p)
  PROVE  InductiveInv'
  <1> DEFINE me == proc[p]
             r == [epk |-> me.epk, kid |-> me.kid, iat |-> now]
             h == prefixDigest(me.entries)
  <1>1. /\ me.at = "serving" /\ issued' = issued \cup {r}
        /\ UNCHANGED <<journal, temp, holder, proc, now, started, stepped>>
    BY DEF Issue
  <1>2. me \in Process /\ now \in Nat /\ issued \subseteq Receipt /\ started \subseteq Epochs \X Keys
    BY DEF InductiveInv, TypeOK, Process, Receipt
  <1>3. /\ <<me.epk, me.kid>> \in started
        /\ \A d \in started : d = <<me.epk, me.kid>> \/ d[1] < me.epk
        /\ \A q \in Procs \ {p} : proc[q].at = "down"
    BY <1>1, OneUp DEF InductiveInv, HolderIsNewest
  <1>4. r \in Receipt /\ r.epk = me.epk /\ r.kid = me.kid /\ r.iat = now
    BY <1>2, <1>3 DEF Receipt
  <1> HIDE DEF r
  <1>5. me.entries \in Seq(Entry) /\ h \in Seq(Statement)
    BY <1>2, DigestProperties DEF Process
  <1>6. TellsIn(me, temp, journal, started, issued, now, stepped)
    BY ToldNow DEF InductiveInv
  <1>7. /\ Told(me.entries) = h /\ WholeIn(h, started, issued, now, stepped)
        /\ Names(me.entries, me.epk, me.kid) /\ Told(journal) = h
    BY <1>1, <1>6 DEF TellsIn
  <1>8. Names(h, r.epk, r.kid)
    <2>1. PICK i \in DOMAIN me.entries : me.entries[i].epk = me.epk /\ me.entries[i].kid = me.kid
      BY <1>7 DEF Names
    <2> QED
      BY <1>4, <2>1, DigestStates DEF Names
  <1>9. WholeIn(h, started, issued', now, stepped)
    <2> HIDE DEF h
    <2>1. WholeIn(h, started, issued \cup {r}, now, stepped)
      BY <1>2, <1>3, <1>4, <1>5, <1>7, <1>8, WholeWithAReceipt
    <2> QED
      BY <1>1, <2>1
  <1>10. TellsIn(me, temp, journal, started, issued', now, stepped)
    BY <1>6, <1>9 DEF TellsIn
  <1>11. HistoryIsTold'
    <2>1. \A q \in Procs : TellsIn(proc'[q], temp', journal', started', issued', now', stepped')
      BY <1>1, <1>3, <1>10 DEF TellsIn
    <2>2. now <= now
      BY <1>2
    <2>3. ~stepped => \A q \in issued' : q.iat <= now
      BY <1>1, <1>4, <2>2, ToldNow DEF InductiveInv
    <2> QED
      BY <1>1, <1>7, <1>9, <2>1, <2>3, ToldNext
  <1>12. TypeOK'
    BY <1>1, <1>2, <1>4 DEF InductiveInv, TypeOK, Receipt
  <1>13. HolderIsNewest'
    BY <1>1 DEF InductiveInv, HolderIsNewest
  <1> QED
    BY <1>11, <1>12, <1>13 DEF InductiveInv

(* The clock moves, and the hand edits: no process does.                    *)
LEMMA TickStep ==
  ASSUME JournalAssumption, InductiveInv, Tick
  PROVE  InductiveInv'
  <1>1. /\ now \in Nat /\ stepped \in BOOLEAN /\ journal \in Seq(Entry)
        /\ \A p \in Procs : proc[p].entries \in Seq(Entry)
    BY DEF InductiveInv, TypeOK
  <1>2. /\ now' \in Nat /\ stepped' = (stepped \/ now' < now)
        /\ UNCHANGED <<journal, temp, holder, proc, issued, started>>
    BY <1>1 DEF Tick, JournalAssumption
  <1>3. stepped' \in BOOLEAN
    BY <1>2
  <1>4. TypeOK'
    BY <1>2, <1>3 DEF InductiveInv, TypeOK
  <1>5. HolderIsNewest'
    BY <1>2 DEF InductiveInv, HolderIsNewest
  <1>6. \A h \in Seq(Statement) :
           WholeIn(h, started, issued, now, stepped) => WholeIn(h, started, issued, now', stepped')
    BY <1>1, <1>2, WholeLater
  <1>7. WholeIn(Told(journal), started, issued, now', stepped')
    BY <1>1, <1>6, ToldType, ToldNow DEF InductiveInv
  <1>8. ASSUME NEW p \in Procs
        PROVE  TellsIn(proc[p], temp, journal, started, issued, now', stepped')
    <2>1. TellsIn(proc[p], temp, journal, started, issued, now, stepped)
      BY ToldNow DEF InductiveInv
    <2>2. prefixDigest(proc[p].entries) \in Seq(Statement)
      BY <1>1, DigestProperties
    <2> QED
      BY <1>6, <2>1, <2>2 DEF TellsIn
  <1>9. ASSUME ~stepped', NEW r \in issued
        PROVE  r.iat <= now'
    <2>1. ~stepped /\ ~(now' < now)
      BY <1>2, <1>9, Zenon
    <2>2. r.iat <= now
      BY <2>1, ToldNow DEF InductiveInv
    <2>3. r.iat \in Nat
      BY DEF InductiveInv, TypeOK
    <2> QED
      BY <1>1, <1>2, <2>1, <2>2, <2>3
  <1>10. HistoryIsTold'
    BY <1>2, <1>7, <1>8, <1>9, ToldNext
  <1> QED
    BY <1>4, <1>5, <1>10 DEF InductiveInv

LEMMA EditStep ==
  ASSUME JournalAssumption, InductiveInv, Edit
  PROVE  InductiveInv'
  <1>1. UNCHANGED <<temp, holder, proc, now, issued, started, stepped>>
    BY DEF Edit
  <1>2. journal' \in Seq(Entry) /\ Told(journal') = Told(journal)
    <2>1. PICK i \in 1..Len(journal) - 1 :
            journal' \in {RemoveAt(journal, i), [journal EXCEPT ![i].validFrom = Latest]}
      BY DEF Edit
    <2>2. journal \in Seq(Entry)
      BY DEF InductiveInv, TypeOK
    <2> QED
      BY <2>1, <2>2, EditIsTold
  <1>3. TypeOK' /\ HolderIsNewest'
    BY <1>1, <1>2 DEF InductiveInv, TypeOK, HolderIsNewest
  <1>4. \A p \in Procs : TellsIn(proc[p], temp, journal', started, issued, now, stepped)
    BY <1>2, ToldNow DEF InductiveInv, TellsIn
  <1>5. HistoryIsTold'
    BY <1>1, <1>2, <1>4, ToldNow, ToldNext DEF InductiveInv
  <1> QED
    BY <1>3, <1>5 DEF InductiveInv

LEMMA NextInductive ==
  ASSUME JournalAssumption, InductiveInv, [Next]_vars
  PROVE  InductiveInv'
  <1>1. ASSUME NEW p \in Procs, Claim(p) PROVE InductiveInv'
    BY <1>1, ClaimStep
  <1>2. ASSUME NEW p \in Procs, OpenJournal(p) PROVE InductiveInv'
    BY <1>2, OpenJournalStep
  <1>3. ASSUME NEW p \in Procs, WriteTemp(p) PROVE InductiveInv'
    BY <1>3, WriteTempStep
  <1>4. ASSUME NEW p \in Procs, RenameTemp(p) PROVE InductiveInv'
    BY <1>4, RenameTempStep
  <1>5. ASSUME NEW p \in Procs, Issue(p) PROVE InductiveInv'
    BY <1>5, IssueStep
  <1>6. ASSUME NEW p \in Procs, Stop(p) PROVE InductiveInv'
    BY <1>6, LeavesStep DEF Stop
  <1>7. CASE Tick
    BY <1>7, TickStep
  <1>8. CASE Edit
    BY <1>8, EditStep
  <1>9. CASE UNCHANGED vars
    <2>1. TypeOK' /\ HolderIsNewest'
      BY <1>9 DEF vars, InductiveInv, TypeOK, HolderIsNewest
    <2>2. HistoryIsTold'
      BY <1>9, ToldNow, ToldNext DEF vars, InductiveInv
    <2> QED
      BY <2>1, <2>2 DEF InductiveInv
  <1> QED
    BY <1>1, <1>2, <1>3, <1>4, <1>5, <1>6, <1>7, <1>8, <1>9 DEF Next

LEMMA InitInductive ==
  ASSUME JournalAssumption, Init
  PROVE  InductiveInv
  <1> USE DEF Init
  <1>1. <<>> \in Seq(Entry) /\ DOMAIN <<>> = {}
    BY EmptySeq
  <1>2. proc \in [Procs -> Process] /\ \A p \in Procs : proc[p].at = "down"
    BY DownIsAProcess DEF Down
  <1>3. TypeOK
    BY <1>1, <1>2 DEF TypeOK, Process
  <1>4. HolderIsNewest
    BY <1>2 DEF HolderIsNewest
  <1>5. WholeIn(Told(journal), started, issued, now, stepped)
    BY DEF Told, WholeIn, Rising
  <1>6. \A p \in Procs : TellsIn(proc[p], temp, journal, started, issued, now, stepped)
    BY <1>2 DEF TellsIn
  <1>7. HistoryIsTold
    BY <1>5, <1>6, ToldNow
  <1> QED
    BY <1>3, <1>4, <1>7 DEF InductiveInv

(* One process holds the directory, what it holds of the file is a whole    *)
(* history, and the last entry of the file tells one, whatever starts were  *)
(* refused or killed half way and whatever a hand edited.                   *)
THEOREM JournalInductive ==
  ASSUME JournalAssumption
  PROVE  Spec => []InductiveInv
  <1>1. Init => InductiveInv
    BY InitInductive
  <1>2. InductiveInv /\ [Next]_vars => InductiveInv'
    BY NextInductive
  <1> QED
    BY <1>1, <1>2, PTL DEF Spec

-----------------------------------------------------------------------------
(* What a client makes of a whole history.                                  *)

(* Where epochs and instants rise, an epoch has the one start its entry     *)
(* states, and the windows are in order.                                    *)
LEMMA RisingParses ==
  ASSUME JournalAssumption, NEW s \in Seq(Entry), Rising(prefixDigest(s))
  PROVE  /\ \A i \in DOMAIN s : /\ s[i].epk \in Nat /\ s[i].validFrom \in Nat
                                /\ Min(Starts(s, s[i].epk)) = s[i].validFrom
         /\ Parses(s)
  <1>1. \A i \in DOMAIN s : i \in Int /\ s[i].epk \in Nat /\ s[i].validFrom \in Nat
    <2>1. DOMAIN s = 1..Len(s) /\ Len(s) \in Nat
      BY LenProperties
    <2>2. \A i \in DOMAIN s : s[i] \in Entry
      BY <2>1, ElementOfSeq
    <2>3. \A i \in DOMAIN s : i \in Int
      BY <2>1
    <2>4. \A e \in Entry : e.epk \in Nat /\ e.validFrom \in Nat
      BY DEF Entry, JournalAssumption
    <2> QED
      BY <2>2, <2>3, <2>4
  <1>2. \A i, j \in DOMAIN s :
           i < j => s[i].epk < s[j].epk /\ s[i].validFrom < s[j].validFrom
    BY DigestStates DEF Rising
  <1>3. \A i, j \in DOMAIN s : s[i].epk = s[j].epk => i = j
    <2> SUFFICES ASSUME NEW i \in DOMAIN s, NEW j \in DOMAIN s, s[i].epk = s[j].epk, i # j
                 PROVE  FALSE
      OBVIOUS
    <2>1. i < j \/ j < i
      BY <1>1
    <2>2. s[i].epk < s[j].epk \/ s[j].epk < s[i].epk
      BY <1>2, <2>1
    <2> QED
      BY <1>1, <2>2
  <1>4. \A i \in DOMAIN s : Starts(s, s[i].epk) = {s[i].validFrom}
    BY <1>3 DEF Starts
  <1>5. \A n \in Nat : Min({n}) = n
    <2> SUFFICES ASSUME NEW n \in Nat PROVE Min({n}) = n
      OBVIOUS
    <2>1. \A y \in {n} : n <= y
      OBVIOUS
    <2>2. Min({n}) \in {n}
      BY <2>1 DEF Min
    <2> QED
      BY <2>2
  <1>6. \A i \in DOMAIN s : Min(Starts(s, s[i].epk)) = s[i].validFrom
    BY <1>1, <1>4, <1>5
  <1>7. \A e \in EpochsOf(s) : Cardinality(Starts(s, e)) = 1
    <2> SUFFICES ASSUME NEW i \in DOMAIN s PROVE Cardinality(Starts(s, s[i].epk)) = 1
      BY DEF EpochsOf
    <2>1. Cardinality({s[i].validFrom}) = 1
      BY FS_Singleton
    <2> QED
      BY <1>4, <2>1
  <1>8. ASSUME NEW i \in DOMAIN s, NEW j \in DOMAIN s, s[i].epk < s[j].epk
        PROVE  s[i].validFrom < s[j].validFrom
    <2>1. i < j \/ i = j \/ j < i
      BY <1>1
    <2>2. ~(j < i) /\ i # j
      BY <1>1, <1>2, <1>8
    <2> QED
      BY <1>2, <2>1, <2>2
  <1>9. \A e, f \in EpochsOf(s) : e < f => Min(Starts(s, e)) < Min(Starts(s, f))
    BY <1>6, <1>8 DEF EpochsOf
  <1> QED
    BY <1>1, <1>6, <1>7, <1>9 DEF Parses

(* A serving process holds a whole history.                                 *)
LEMMA ServingTells ==
  ASSUME JournalAssumption, InductiveInv, NEW p \in Serving
  PROVE  /\ proc[p].entries \in Seq(Entry)
         /\ WholeIn(prefixDigest(proc[p].entries), started, issued, now, stepped)
  <1>1. p \in Procs /\ proc[p].at = "serving"
    BY DEF Serving
  <1>2. proc[p].entries \in Seq(Entry)
    BY <1>1 DEF InductiveInv, TypeOK
  <1> QED
    BY <1>1, <1>2, ToldNow DEF InductiveInv, TellsIn

LEMMA HistoryIsWholeNow ==
  ASSUME JournalAssumption, InductiveInv
  PROVE  HistoryIsWhole
  <1> SUFFICES ASSUME NEW p \in Serving
               PROVE  /\ \A r \in issued : Names(proc[p].entries, r.epk, r.kid)
                      /\ Parses(proc[p].entries)
    BY DEF HistoryIsWhole
  <1>1. /\ proc[p].entries \in Seq(Entry)
        /\ WholeIn(prefixDigest(proc[p].entries), started, issued, now, stepped)
    BY ServingTells
  <1>2. \A r \in issued : Names(proc[p].entries, r.epk, r.kid)
    BY <1>1, DigestStates DEF WholeIn, Names
  <1>3. Parses(proc[p].entries)
    BY <1>1, RisingParses DEF WholeIn
  <1> QED
    BY <1>2, <1>3

LEMMA EarlierReceiptsVerifyNow ==
  ASSUME JournalAssumption, InductiveInv
  PROVE  EarlierReceiptsVerify
  <1> SUFFICES ASSUME ~stepped, NEW p \in Serving, NEW r \in issued,
                      ~AtTheSeam(proc[p].entries, r)
               PROVE  Accepts(proc[p].entries, r)
    BY DEF EarlierReceiptsVerify
  <1> DEFINE s == proc[p].entries
  <1>1. s \in Seq(Entry) /\ WholeIn(prefixDigest(s), started, issued, now, stepped)
    BY ServingTells
  <1>2. r.epk \in Nat /\ r.iat \in Nat
    BY DEF InductiveInv, TypeOK, JournalAssumption
  <1>3. ~AtTheSeam(s, r)
    OBVIOUS
  <1> HIDE DEF s
  <1>4. Parses(s) /\ \A i \in DOMAIN s : /\ s[i].epk \in Nat /\ s[i].validFrom \in Nat
                                         /\ Min(Starts(s, s[i].epk)) = s[i].validFrom
    BY <1>1, RisingParses DEF WholeIn
  <1>5. \A i \in DOMAIN s : /\ s[i].epk <= r.epk => s[i].validFrom <= r.iat
                            /\ s[i].epk > r.epk => r.iat <= s[i].validFrom
    BY <1>1, DigestStates DEF WholeIn
  <1>6. Names(s, r.epk, r.kid)
    BY <1>1, DigestStates DEF WholeIn, Names
  <1>7. Min(Starts(s, r.epk)) <= r.iat
    <2>1. PICK i \in DOMAIN s : s[i].epk = r.epk
      BY <1>6 DEF Names
    <2>2. s[i].validFrom <= r.iat
      BY <1>2, <1>5, <2>1
    <2> QED
      BY <1>4, <2>1, <2>2
  <1>8. ASSUME NEW f \in EpochsOf(s), r.epk < f
        PROVE  r.iat < Min(Starts(s, f))
    <2>1. PICK i \in DOMAIN s : f = s[i].epk
      BY DEF EpochsOf
    <2>2. s[i].epk > r.epk
      BY <1>2, <1>4, <1>8, <2>1
    <2>3. r.iat <= s[i].validFrom
      BY <1>5, <2>2
    <2>4. r.iat # s[i].validFrom
      BY <1>3, <2>2 DEF AtTheSeam
    <2> QED
      BY <1>2, <1>4, <2>1, <2>3, <2>4
  <1>9. Accepts(s, r)
    BY <1>4, <1>6, <1>7, <1>8 DEF Accepts, InWindow
  <1> QED
    BY <1>9 DEF s

-----------------------------------------------------------------------------
(* What a process publishes names every epoch and key a receipt was ever    *)
(* signed under and is a document every client can read, whatever starts    *)
(* were refused or killed half way, whatever a hand edited and however the  *)
(* source stepped (openEpochJournal and parseManifest).                     *)
THEOREM HistoryStaysWhole ==
  ASSUME JournalAssumption
  PROVE  Spec => []HistoryIsWhole
  <1>1. InductiveInv => HistoryIsWhole
    BY HistoryIsWholeNow
  <1>2. Spec => []InductiveInv
    BY JournalInductive
  <1> QED
    BY <1>1, <1>2, PTL

(* While the source never stepped back, a receipt verifies under the        *)
(* manifest of every later process, save one stamped in the second its      *)
(* successor opened (adjudicateReceiptEpoch).                               *)
THEOREM EarlierReceiptsStand ==
  ASSUME JournalAssumption
  PROVE  Spec => []EarlierReceiptsVerify
  <1>1. InductiveInv => EarlierReceiptsVerify
    BY EarlierReceiptsVerifyNow
  <1>2. Spec => []InductiveInv
    BY JournalInductive
  <1> QED
    BY <1>1, <1>2, PTL

=============================================================================
