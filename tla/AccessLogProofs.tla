--------------------------- MODULE AccessLogProofs ---------------------------
(***************************************************************************)
(* AccessLogScrub for every set of credentials, every retention and every  *)
(* bound: the lines the gateway resolved stay on the volume, and a scrub   *)
(* that ends well leaves none of those it set out to erase.                *)
(*                                                                         *)
(* The least-element principle and what Kept computes come first, then     *)
(* what an append makes of a part, then one lemma per step of the writer   *)
(* and of the run, for either invariant.                                   *)
(***************************************************************************)
EXTENDS AccessLogScrub, FiniteSetTheorems, WellFoundedInduction, TLAPS

LEMMA LeastElement ==
  ASSUME NEW S \in SUBSET Nat, S # {}
  PROVE  \E x \in S : \A y \in S : x <= y
  <1> PICK top \in S : TRUE
    OBVIOUS
  <1> DEFINE T == {1..x : x \in {z \in S : z <= top}}
             U == 1..top
  <1>1. IsFiniteSet(U)
    BY FS_Interval
  <1>2. IsWellFoundedOn(StrictSubsetOrdering(U), FiniteSubsetsOf(U))
    BY <1>1, FS_StrictSubsetOrderingWellFounded
  <1>3. T \subseteq FiniteSubsetsOf(U) /\ T # {}
    <2>1. FiniteSubsetsOf(U) = SUBSET U
      BY <1>1, FS_FiniteSubsetsOfFinite
    <2>2. \A z \in S : z <= top => 1..z \subseteq 1..top
      OBVIOUS
    <2>3. 1..top \in T
      OBVIOUS
    <2> QED BY <2>1, <2>2, <2>3
  <1>4. PICK t \in T : \A u \in T : ~(<<u, t>> \in StrictSubsetOrdering(U))
    BY <1>2, <1>3, WFMin
  <1>5. PICK x \in S : x <= top /\ t = 1..x
    BY <1>4
  <1>6. ASSUME NEW y \in S, y < x PROVE FALSE
    <2>1. 1..y \in T
      BY <1>5, <1>6
    <2>2. 1..y \subseteq 1..x /\ x \in 1..x /\ x \notin 1..y /\ 1..x \subseteq U
      BY <1>5, <1>6
    <2>3. <<1..y, 1..x>> \in StrictSubsetOrdering(U)
      BY <2>2 DEF StrictSubsetOrdering
    <2> QED BY <2>1, <2>3, <1>4, <1>5
  <1> QED BY <1>6

LEMMA GreatestElement ==
  ASSUME NEW top \in Nat, NEW S \in SUBSET (0..top), S # {}
  PROVE  \E x \in S : \A y \in S : y <= x
  <1> DEFINE T == {top - x : x \in S}
  <1>1. T \in SUBSET Nat
    OBVIOUS
  <1>0. T # {}
    <2>1. PICK z \in S : TRUE
      OBVIOUS
    <2>2. top - z \in T
      OBVIOUS
    <2> QED BY <2>2
  <1>2. PICK t \in T : \A u \in T : t <= u
    <2> HIDE DEF T
    <2> QED BY <1>0, <1>1, LeastElement
  <1>3. PICK x \in S : t = top - x
    BY <1>2
  <1>4. \A y \in S : top - y \in T
    OBVIOUS
  <1>5. ASSUME NEW y \in S PROVE y <= x
    <2>1. t <= top - y /\ t = top - x /\ x \in 0..top /\ y \in 0..top
      BY <1>2, <1>3, <1>4
    <2> QED
      BY <2>1
  <1> QED
    BY <1>5

Ended(line) == [line EXCEPT !.ended = TRUE]

LEMMA EndedLine == \A line \in Lines : Ended(line) \in Lines
  BY DEF Ended, Lines

LEMMA KeptLines ==
  ASSUME scrub \in Runs
  PROVE  /\ Kept \in Seq(Lines)
         /\ \A line \in Range(scrub.snapshot) : ~Subject(line) => Ended(line) \in Range(Kept)
         /\ \A line \in Range(Kept) :
               \E old \in Range(scrub.snapshot) : ~Subject(old) /\ line = Ended(old)
  <1> DEFINE s == scrub.snapshot
             N == Len(scrub.snapshot)
             Longer(i, prev) == IF Subject(s[i]) THEN prev ELSE Append(prev, Ended(s[i]))
             Solves(g, n) == /\ g \in [0..n -> Seq(Lines)] /\ g[0] = <<>>
                             /\ \A i \in 1..n : g[i] = Longer(i, g[i - 1])
  <1>1. s \in Seq(Lines) /\ N \in Nat /\ DOMAIN s = 1..N
    BY DEF Runs
  <1>2. \A i \in 1..N : s[i] \in Lines /\ Ended(s[i]) \in Lines
    <2>1. \A i \in 1..N : s[i] \in Lines
      BY <1>1
    <2> QED
      BY <2>1, EndedLine
  <1>3. \A i \in 1..N : \A prev \in Seq(Lines) : Longer(i, prev) \in Seq(Lines)
    BY <1>2
  <1> HIDE DEF Longer
  <1>4. \A n \in 0..N : \E g : Solves(g, n)
    <2> SUFFICES ASSUME {n \in 0..N : ~\E g : Solves(g, n)} # {} PROVE FALSE
      OBVIOUS
    <2>1. {n \in 0..N : ~\E g : Solves(g, n)} \in SUBSET Nat
      BY <1>1
    <2>2. PICK n \in 0..N : (~\E g : Solves(g, n)) /\ \A m \in 0..N : (~\E g : Solves(g, m)) => n <= m
      BY <2>1, LeastElement
    <2>3. n # 0
      <3>1. Solves([i \in 0..0 |-> <<>>], 0)
        OBVIOUS
      <3> QED
        BY <2>2, <3>1
    <2>4. n - 1 \in 0..N /\ n \in 1..N
      BY <1>1, <2>2, <2>3
    <2>5. PICK g : Solves(g, n - 1)
      <3> HIDE DEF Solves
      <3>1. (~\E g : Solves(g, n - 1)) => n <= n - 1
        BY <2>2, <2>4
      <3> QED
        BY <2>4, <3>1
    <2>6. Solves([i \in 0..n |-> IF i = n THEN Longer(n, g[n - 1]) ELSE g[i]], n)
      <3> DEFINE h == [i \in 0..n |-> IF i = n THEN Longer(n, g[n - 1]) ELSE g[i]]
      <3>1. g[n - 1] \in Seq(Lines) /\ Longer(n, g[n - 1]) \in Seq(Lines)
        BY <1>3, <2>4, <2>5
      <3>2. h \in [0..n -> Seq(Lines)]
        BY <2>4, <2>5, <3>1
      <3>3. h[0] = <<>>
        BY <2>4, <2>5
      <3>4. ASSUME NEW i \in 1..n PROVE h[i] = Longer(i, h[i - 1])
        <4>1. i - 1 \in 0..n /\ i - 1 # n /\ h[i - 1] = g[i - 1]
          BY <2>4
        <4>2. CASE i = n
          BY <4>1, <4>2
        <4>3. CASE i # n
          <5>1. i \in 1..(n - 1) /\ i \in 0..n
            BY <2>4, <4>3
          <5> QED
            BY <2>5, <4>1, <4>3, <5>1
        <4> QED
          BY <4>2, <4>3
      <3> QED
        BY <3>2, <3>3, <3>4
    <2> QED
      BY <2>2, <2>6
  <1>5. PICK g : Solves(g, N)
    <2> HIDE DEF Solves
    <2>1. N \in 0..N
      BY <1>1
    <2> QED
      BY <1>4, <2>1
  <1> DEFINE Body(h, i) == IF i = 0 THEN <<>> ELSE Longer(i, h[i - 1])
             K == CHOOSE h : h = [i \in 0..N |-> Body(h, i)]
  <1>6. g = [i \in 0..N |-> Body(g, i)]
    <2>1. \A i \in 0..N : g[i] = Body(g, i)
      BY <1>1, <1>5
    <2> QED
      BY <1>5, <2>1
  <1>7. K = [i \in 0..N |-> Body(K, i)]
    BY <1>6
  <1>8. Kept = K[N]
    BY DEF Kept, Longer, Ended
  <1> HIDE DEF K
  <1>9. K[0] = <<>> /\ \A i \in 1..N : K[i] = Longer(i, K[i - 1])
    <2>1. 0 \in 0..N /\ \A i \in 1..N : i \in 0..N /\ i # 0
      BY <1>1
    <2> QED
      BY <1>7, <2>1
  <1> DEFINE Holds(i) ==
               /\ K[i] \in Seq(Lines)
               /\ \A j \in 1..i : ~Subject(s[j]) => \E k \in 1..Len(K[i]) : K[i][k] = Ended(s[j])
               /\ \A k \in 1..Len(K[i]) : \E j \in 1..i : ~Subject(s[j]) /\ K[i][k] = Ended(s[j])
  <1>10. Holds(0)
    BY <1>9
  <1>11. ASSUME NEW i \in 1..N, Holds(i - 1) PROVE Holds(i)
    <2>1. i - 1 \in Nat /\ i \in Nat /\ K[i] = Longer(i, K[i - 1]) /\ \A j \in 1..i : j = i \/ j \in 1..(i - 1)
      BY <1>1, <1>9
    <2>2. CASE Subject(s[i])
      BY <1>11, <2>1, <2>2 DEF Longer
    <2>3. CASE ~Subject(s[i])
      <3> DEFINE q == K[i - 1]
      <3>1. q \in Seq(Lines) /\ Len(q) \in Nat
        BY <1>11
      <3> HIDE DEF q
      <3>2. K[i] = Append(q, Ended(s[i]))
        BY <2>1, <2>3 DEF Longer, q
      <3>3. K[i] \in Seq(Lines) /\ Len(K[i]) = Len(q) + 1 /\ K[i][Len(q) + 1] = Ended(s[i])
            /\ \A k \in 1..Len(q) : K[i][k] = q[k]
        BY <1>2, <3>1, <3>2
      <3>4. \A k \in 1..Len(K[i]) : k \in 1..Len(q) \/ k = Len(q) + 1
        BY <3>1, <3>3
      <3>5. ASSUME NEW j \in 1..i, ~Subject(s[j]) PROVE \E k \in 1..Len(K[i]) : K[i][k] = Ended(s[j])
        <4>1. CASE j = i
          BY <3>1, <3>3, <4>1
        <4>2. CASE j \in 1..(i - 1)
          <5>1. PICK k \in 1..Len(q) : q[k] = Ended(s[j])
            BY <1>11, <3>5, <4>2 DEF q
          <5> QED
            BY <3>1, <3>3, <5>1
        <4> QED
          BY <2>1, <4>1, <4>2
      <3>6. ASSUME NEW k \in 1..Len(K[i]) PROVE \E j \in 1..i : ~Subject(s[j]) /\ K[i][k] = Ended(s[j])
        <4>1. CASE k = Len(q) + 1
          BY <2>1, <2>3, <3>3, <4>1
        <4>2. CASE k \in 1..Len(q)
          <5>1. PICK j \in 1..(i - 1) : ~Subject(s[j]) /\ q[k] = Ended(s[j])
            BY <1>11, <4>2 DEF q
          <5> QED
            BY <2>1, <3>3, <4>2, <5>1
        <4> QED
          BY <3>4, <4>1, <4>2
      <3> QED
        BY <3>3, <3>5, <3>6
    <2> QED
      BY <2>2, <2>3
  <1>12. Holds(N)
    <2> HIDE DEF Holds
    <2> SUFFICES ASSUME {i \in 0..N : ~Holds(i)} # {} PROVE FALSE
      BY <1>1
    <2>1. PICK i \in {i \in 0..N : ~Holds(i)} : \A m \in {m \in 0..N : ~Holds(m)} : i <= m
      <3>1. {i \in 0..N : ~Holds(i)} \in SUBSET Nat
        BY <1>1
      <3> QED
        BY <3>1, LeastElement
    <2>2. i \in 1..N /\ i - 1 \in 0..N
      BY <1>1, <1>10, <2>1
    <2>3. Holds(i - 1)
      BY <1>1, <2>1, <2>2
    <2> QED
      BY <1>11, <2>1, <2>2, <2>3
  <1>13. Kept \in Seq(Lines) /\ DOMAIN Kept = 1..Len(Kept)
    BY <1>8, <1>12
  <1>14. ASSUME NEW line \in Range(s), ~Subject(line) PROVE Ended(line) \in Range(Kept)
    <2>1. PICK j \in 1..N : line = s[j]
      BY <1>1, <1>14 DEF Range
    <2>2. PICK k \in 1..Len(Kept) : Kept[k] = Ended(s[j])
      BY <1>8, <1>12, <1>14, <2>1
    <2> QED
      BY <1>13, <2>1, <2>2 DEF Range
  <1>15. ASSUME NEW line \in Range(Kept) PROVE \E old \in Range(s) : ~Subject(old) /\ line = Ended(old)
    <2>1. PICK k \in 1..Len(Kept) : line = Kept[k]
      BY <1>13, <1>15 DEF Range
    <2>2. PICK j \in 1..N : ~Subject(s[j]) /\ Kept[k] = Ended(s[j])
      BY <1>8, <1>12, <2>1
    <2> QED
      BY <1>1, <2>1, <2>2 DEF Range
  <1> QED
    BY <1>13, <1>14, <1>15

LEMMA LeastName ==
  ASSUME NEW S \in SUBSET Names, S # {}
  PROVE  \E n \in S : \A m \in S : m = n \/ Before(n, m)
  <1>1. \A n \in S : n = <<n[1], n[2]>> /\ n[1] \in Nat /\ n[2] \in Nat
    BY DEF Names
  <1>2. PICK day \in {n[1] : n \in S} : \A other \in {n[1] : n \in S} : day <= other
    <2>1. {n[1] : n \in S} \in SUBSET Nat /\ {n[1] : n \in S} # {}
      BY <1>1
    <2> QED
      BY <2>1, LeastElement
  <1> DEFINE T == {n \in S : n[1] = day}
  <1>3. PICK k \in {n[2] : n \in T} : \A other \in {n[2] : n \in T} : k <= other
    <2>1. {n[2] : n \in T} \in SUBSET Nat /\ {n[2] : n \in T} # {}
      BY <1>1, <1>2
    <2> QED
      BY <2>1, LeastElement
  <1>4. PICK n \in T : n[2] = k
    BY <1>3
  <1>5. ASSUME NEW m \in S, m # n PROVE Before(n, m)
    <2>1. day <= m[1] /\ n[1] = day /\ day \in Nat /\ m[1] \in Nat /\ k \in Nat /\ m[2] \in Nat
      BY <1>1, <1>2, <1>3, <1>4
    <2>2. CASE m[1] = day
      <3>1. k <= m[2] /\ m[2] # n[2]
        BY <1>1, <1>3, <1>4, <1>5, <2>2
      <3> QED
        BY <1>4, <2>1, <2>2, <3>1 DEF Before
    <2>3. CASE m[1] # day
      BY <2>1, <2>3 DEF Before
    <2> QED
      BY <2>2, <2>3
  <1> QED
    BY <1>4, <1>5

LEMMA GreatestName ==
  ASSUME NEW top \in Nat, NEW last \in Nat, NEW S \in SUBSET ((0..last) \X (0..top)), S # {}
  PROVE  \E n \in S : \A m \in S : m = n \/ Before(m, n)
  <1>1. \A n \in S : n = <<n[1], n[2]>> /\ n[1] \in 0..last /\ n[2] \in 0..top
    OBVIOUS
  <1>2. PICK day \in {n[1] : n \in S} : \A other \in {n[1] : n \in S} : other <= day
    <2>1. {n[1] : n \in S} \in SUBSET (0..last) /\ {n[1] : n \in S} # {}
      BY <1>1
    <2> QED
      BY <2>1, GreatestElement
  <1> DEFINE T == {n \in S : n[1] = day}
  <1>3. PICK k \in {n[2] : n \in T} : \A other \in {n[2] : n \in T} : other <= k
    <2>1. {n[2] : n \in T} \in SUBSET (0..top) /\ {n[2] : n \in T} # {}
      BY <1>1, <1>2
    <2> QED
      BY <2>1, GreatestElement
  <1>4. PICK n \in T : n[2] = k
    BY <1>3
  <1>5. ASSUME NEW m \in S, m # n PROVE Before(m, n)
    <2>1. m[1] <= day /\ n[1] = day /\ day \in Nat /\ m[1] \in Nat /\ k \in Nat /\ m[2] \in Nat
      BY <1>1, <1>2, <1>3, <1>4
    <2>2. CASE m[1] = day
      <3>1. m[2] <= k /\ m[2] # n[2]
        BY <1>1, <1>3, <1>4, <1>5, <2>2
      <3> QED
        BY <1>4, <2>1, <2>2, <3>1 DEF Before
    <2>3. CASE m[1] # day
      BY <2>1, <2>3 DEF Before
    <2> QED
      BY <2>2, <2>3
  <1> QED
    BY <1>4, <1>5

LEMMA AppendedLines ==
  ASSUME NEW lines \in Seq(Lines), NEW line \in Lines
  PROVE  /\ Appended(lines, line) \in Seq(Lines)
         /\ \/ \A one \in Range(Appended(lines, line)) : one \in Range(lines) \/ one = line
            \/ \E last \in Range(lines) :
                  ~last.ended /\ \A one \in Range(Appended(lines, line)) :
                     one \in Range(lines) \/ (one.reqs = last.reqs \cup line.reqs /\ one.reads = FALSE)
         /\ ReqsIn(Appended(lines, line)) = ReqsIn(lines) \cup line.reqs
  <1> DEFINE n == Len(lines)
  <1>1. n \in Nat /\ DOMAIN lines = 1..n /\ \A i \in 1..n : lines[i] \in Lines
    OBVIOUS
  <1>4. \A k \in Nat : \A i \in 1..k : i \in 1..(k - 1) \/ i = k
    OBVIOUS
  <1>2. CASE lines = <<>> \/ Last(lines).ended
    <2> DEFINE new == Append(lines, line)
    <2>1. Appended(lines, line) = new
      BY <1>2 DEF Appended
    <2>2. new \in Seq(Lines) /\ DOMAIN new = 1..(n + 1) /\ new[n + 1] = line /\ \A i \in 1..n : new[i] = lines[i]
      BY <1>1
    <2>3. \A i \in 1..(n + 1) : i \in 1..n \/ i = n + 1
      BY <1>1
    <2>4. n + 1 \in 1..(n + 1) /\ \A i \in 1..n : i \in 1..(n + 1)
      BY <1>1
    <2> HIDE DEF new
    <2>5. \A one \in Range(new) : one \in Range(lines) \/ one = line
      BY <1>1, <2>2, <2>3 DEF Range
    <2>6. ReqsIn(new) = ReqsIn(lines) \cup line.reqs
      BY <1>1, <2>2, <2>3, <2>4 DEF ReqsIn
    <2> QED
      BY <2>1, <2>2, <2>5, <2>6
  <1>3. CASE lines # <<>> /\ ~Last(lines).ended
    <2> DEFINE both == [reqs |-> Last(lines).reqs \cup line.reqs, reads |-> FALSE, ended |-> line.ended]
               front == SubSeq(lines, 1, n - 1)
               new == Append(front, both)
    <2>1. Appended(lines, line) = new
      BY <1>3 DEF Appended, Front
    <2>2. n # 0 /\ n - 1 \in Nat /\ n \in 1..n /\ Last(lines) = lines[n]
      BY <1>1, <1>3 DEF Last
    <2>3. both \in Lines /\ both.reqs = lines[n].reqs \cup line.reqs /\ both.reads = FALSE
      BY <1>1, <2>2 DEF Lines
    <2> HIDE DEF both
    <2>4. front \in Seq(Lines) /\ Len(front) = n - 1 /\ \A i \in 1..(n - 1) : front[i] = lines[i]
      BY <1>1, <2>2
    <2> HIDE DEF front
    <2>5. new \in Seq(Lines) /\ DOMAIN new = 1..n /\ new[n] = both /\ \A i \in 1..(n - 1) : new[i] = lines[i]
      <3>1. new \in Seq(Lines) /\ Len(new) = n - 1 + 1 /\ new[n - 1 + 1] = both
            /\ \A i \in 1..(n - 1) : new[i] = front[i]
        BY <2>2, <2>3, <2>4
      <3>2. n - 1 + 1 = n
        BY <1>1
      <3> HIDE DEF new
      <3> QED
        BY <2>4, <3>1, <3>2
    <2>6. \A i \in 1..n : i \in 1..(n - 1) \/ i = n
      BY <1>1, <1>4
    <2>7. \A i \in 1..(n - 1) : i \in 1..n
      BY <1>1
    <2> HIDE DEF new
    <2>8. lines[n] \in Range(lines) /\ ~lines[n].ended
      BY <1>1, <1>3, <2>2 DEF Range
    <2>9. \A one \in Range(new) : one \in Range(lines) \/ one = both
      BY <1>1, <2>5, <2>6, <2>7 DEF Range
    <2>10. ReqsIn(new) = ReqsIn(lines) \cup line.reqs
      <3>1. \A req : req \in ReqsIn(new) <=> \E i \in 1..n : req \in new[i].reqs
        BY <2>5 DEF ReqsIn
      <3>2. \A req : req \in ReqsIn(lines) <=> \E i \in 1..n : req \in lines[i].reqs
        BY <1>1 DEF ReqsIn
      <3>3. ASSUME NEW req PROVE req \in ReqsIn(new) <=> req \in ReqsIn(lines) \/ req \in line.reqs
        <4>1. ASSUME req \in ReqsIn(new) PROVE req \in ReqsIn(lines) \/ req \in line.reqs
          BY <2>2, <2>3, <2>5, <2>6, <2>7, <3>1, <3>2, <4>1
        <4>2. ASSUME req \in ReqsIn(lines) PROVE req \in ReqsIn(new)
          BY <2>2, <2>3, <2>5, <2>6, <2>7, <3>1, <3>2, <4>2
        <4>3. ASSUME req \in line.reqs PROVE req \in ReqsIn(new)
          BY <2>2, <2>3, <2>5, <3>1, <4>3
        <4> QED
          BY <4>1, <4>2, <4>3
      <3> QED
        BY <3>3
    <2>11. Appended(lines, line) \in Seq(Lines)
      BY <2>1, <2>5
    <2>12. \E last \in Range(lines) :
              ~last.ended /\ \A one \in Range(new) :
                 one \in Range(lines) \/ (one.reqs = last.reqs \cup line.reqs /\ one.reads = FALSE)
      BY <2>3, <2>8, <2>9
    <2> QED
      BY <2>1, <2>10, <2>11, <2>12
  <1> QED
    BY <1>2, <1>3

LEMMA NameStands ==
  ASSUME scrub \in Runs, scrub.targets # {}
  PROVE  Name \in scrub.targets /\ Name \in Names
  <1>1. scrub.targets \in SUBSET Names
    BY DEF Runs
  <1>2. \E n \in scrub.targets : \A m \in scrub.targets : m = n \/ Before(n, m)
    BY <1>1, LeastName
  <1> QED
    BY <1>1, <1>2 DEF Name

\* A run record stays one when one of its fields is set to another value of it.
LEMMA RunFields ==
  ASSUME NEW A, NEW C, NEW T, NEW S, NEW N, NEW M,
         NEW r \in [at : A, cred : C, targets : T, snapshot : S, attempt : N,
                    seen : S, removed : N, changed : T, marker : M]
  PROVE  LET R == [at : A, cred : C, targets : T, snapshot : S, attempt : N,
                   seen : S, removed : N, changed : T, marker : M]
         IN  /\ \A x \in A : [r EXCEPT !.at = x] \in R
             /\ \A x \in A, y \in T, z \in N : [r EXCEPT !.targets = y, !.attempt = z, !.at = x] \in R
             /\ \A x \in A, y \in S : [r EXCEPT !.snapshot = y, !.at = x] \in R
             /\ \A x \in A, y \in S : [r EXCEPT !.at = x, !.seen = y] \in R
             /\ \A x \in A, y \in S, z \in N : [r EXCEPT !.at = x, !.snapshot = y, !.attempt = z] \in R
             /\ \A x \in A, z \in N : [r EXCEPT !.at = x, !.attempt = z] \in R
             /\ \A x \in A, y \in T : [r EXCEPT !.at = x, !.changed = y] \in R
             /\ \A x \in N : [r EXCEPT !.removed = x] \in R
             /\ \A x \in A, y \in M : [r EXCEPT !.at = x, !.marker = y] \in R
  OBVIOUS

LEMMA FiledBounds ==
  ASSUME LogAssumption
  PROVE  TypeOK => /\ nextRid \in Nat /\ Filed \in Int /\ Spent \in Int
                          /\ Filed <= nextRid /\ clock \in Nat
                          /\ (Writing => Filed = nextRid - 1) /\ (~Writing => Filed = nextRid)
                          /\ (Writing /\ task.at = "settle" => Spent = nextRid - 1)
                          /\ (~(Writing /\ task.at = "settle") => Spent = nextRid)
  <1>1. TypeOK => nextRid \in Nat /\ clock \in Nat
    BY DEF TypeOK, LogAssumption
  <1> QED
    <2> SUFFICES ASSUME TypeOK, nextRid \in Nat
                 PROVE  /\ Filed \in Int /\ Spent \in Int /\ Filed <= nextRid
                        /\ (Writing => Filed = nextRid - 1) /\ (~Writing => Filed = nextRid)
                        /\ (Writing /\ task.at = "settle" => Spent = nextRid - 1)
                        /\ (~(Writing /\ task.at = "settle") => Spent = nextRid)
      BY <1>1
    <2>1. CASE Writing /\ task.at = "settle"
      BY <2>1 DEF Filed, Spent
    <2>2. CASE Writing /\ task.at # "settle"
      BY <2>2 DEF Filed, Spent
    <2>3. CASE ~Writing
      BY <2>3 DEF Filed, Spent
    <2> QED
      BY <2>1, <2>2, <2>3

LEMMA InPool ==
  \A line : line \in Pool <=> \/ \E name \in DOMAIN parts : line \in Range(parts[name])
                              \/ scrub # None /\ line \in Range(scrub.snapshot)
  <1>1. CASE scrub = None
    BY <1>1 DEF Pool
  <1>2. CASE scrub # None
    <2> DEFINE U == UNION {Range(parts[name]) : name \in DOMAIN parts}
    <2>1. \A line : line \in Pool <=> line \in U \/ line \in Range(scrub.snapshot)
      BY <1>2, Zenon DEF Pool
    <2>2. \A line : line \in U <=> \E name \in DOMAIN parts : line \in Range(parts[name])
      OBVIOUS
    <2> HIDE DEF U
    <2> QED
      BY <1>2, <2>1, <2>2
  <1> QED
    BY <1>1, <1>2

LEMMA ReqsOf ==
  ASSUME NEW lines \in Seq(Lines)
  PROVE  \A req : req \in ReqsIn(lines) <=> \E line \in Range(lines) : req \in line.reqs
  BY DEF ReqsIn, Range

\* A pool that gains nothing, or only lines like ones that were there.
LEMMA PoolKept ==
  ASSUME LogAssumption, TypeOK, TypeOK', PoolStands, Filed <= Filed',
         \A line \in Pool' : \E old \in Pool :
            line.reqs = old.reqs /\ line.reads = old.reads /\ (old.ended => line.ended)
  PROVE  PoolStands'
  <1> SUFFICES ASSUME NEW line \in Pool'
               PROVE  /\ line.reads => line.ended /\ \A one, other \in line.reqs : one = other
                      /\ \A req \in line.reqs : req.rid < Filed'
                      /\ \A torn \in Pool' : line.reads /\ ~torn.reads => line.reqs \cap torn.reqs = {}
    BY DEF PoolStands
  <1>1. PICK old \in Pool : line.reqs = old.reqs /\ line.reads = old.reads /\ (old.ended => line.ended)
    OBVIOUS
  <1>2. \A torn \in Pool' : line.reads /\ ~torn.reads => line.reqs \cap torn.reqs = {}
    BY <1>1 DEF PoolStands
  <1>3. line.reads => line.ended /\ \A one, other \in line.reqs : one = other
    BY <1>1 DEF PoolStands
  <1>4. ASSUME NEW req \in line.reqs PROVE req.rid < Filed'
    <2>1. req.rid < Filed
      BY <1>1 DEF PoolStands
    <2>2. req.rid \in Int /\ Filed \in Int /\ Filed' \in Int
      <3>1. old \in Lines
        BY <1>1, InPool DEF TypeOK, Runs, Range
      <3> QED
        BY <1>1, <3>1, FiledBounds DEF Lines, Requests, TypeOK, Filed
    <2> QED
      BY <2>1, <2>2
  <1> QED
    BY <1>2, <1>3, <1>4

LEMMA OnVolumeIs ==
  \A req : req \in OnVolume <=> \E name \in DOMAIN parts : req \in ReqsIn(parts[name])
  BY DEF OnVolume

\* A step that leaves the directory and the scrub alone.
LEMMA QuietStands ==
  ASSUME LogAssumption, InductiveInv, TypeOK', TaskStands', UNCHANGED <<parts, scrub, erased, overrun, acked>>,
         clock <= clock', Filed <= Filed', Spent <= Spent',
         current' # None => current'[2] < Spent'
  PROVE  InductiveInv'
  <1> USE DEF InductiveInv
  <1>1. PoolStands'
    <2>1. Pool' = Pool
      BY DEF Pool
    <2> QED
      BY <2>1, PoolKept
  <1>2. Spent \in Int /\ Spent' \in Int
    BY FiledBounds DEF TypeOK, Spent
  <1>3. PartsStand'
    <2>1. \A name \in DOMAIN parts : name[2] \in Nat
      BY DEF TypeOK, Names
    <2> QED
      BY <1>2, <2>1 DEF PartsStand
  <1>4. ScrubStands'
    <2>1. CASE scrub = None
      BY <2>1 DEF ScrubStands
    <2>2. CASE scrub # None
      <3>1. \A name \in scrub.targets : name[2] \in Nat
        BY <2>2 DEF TypeOK, Runs, Names
      <3>2. Name' = Name
        BY DEF Name
      <3> QED
        BY <1>2, <2>2, <3>1, <3>2 DEF ScrubStands
    <2> QED
      BY <2>1, <2>2
  <1>5. LinesAreKept'
    <2> SUFFICES ASSUME NEW req \in acked PROVE Accounted(req)'
      BY DEF LinesAreKept
    <2>1. Accounted(req)
      BY DEF LinesAreKept
    <2>2. req.day < clock - Days => req.day < clock' - Days
      BY DEF TypeOK, LogAssumption, Requests
    <2>3. OnVolume' = OnVolume
      BY DEF OnVolume
    <2> QED
      BY <2>1, <2>2, <2>3 DEF Accounted
  <1> QED
    BY <1>1, <1>3, <1>4, <1>5

LEMMA TickStands ==
  ASSUME LogAssumption
  PROVE  InductiveInv /\ Tick /\ UNCHANGED <<scrub, owed, erased, overrun>> => InductiveInv'
  <1> SUFFICES ASSUME InductiveInv, Tick, UNCHANGED <<scrub, owed, erased, overrun>> PROVE InductiveInv'
    OBVIOUS
  <1> USE DEF Tick
  <1>1. TypeOK'
    BY DEF InductiveInv, TypeOK, LogAssumption
  <1>2. clock <= clock' /\ Filed' = Filed /\ Spent' = Spent /\ Filed \in Int /\ Spent \in Int
    BY FiledBounds DEF InductiveInv, TypeOK, Filed, Spent, Writing
  <1>3. TaskStands'
    <2>1. ASSUME task # None, task.at = "sweep" PROVE Accounted(task.req)'
      <3>1. Accounted(task.req) /\ task.req \in Requests
        BY <2>1 DEF InductiveInv, TaskStands, TypeOK
      <3>2. task.req.day < clock - Days => task.req.day < clock' - Days
        BY <3>1 DEF InductiveInv, TypeOK, LogAssumption, Requests
      <3>3. OnVolume' = OnVolume
        BY DEF OnVolume
      <3> QED
        BY <3>1, <3>2, <3>3 DEF Accounted
    <2> QED
      BY <2>1 DEF InductiveInv, TaskStands
  <1> QED
    BY <1>1, <1>2, <1>3, QuietStands DEF InductiveInv, PartsStand

LEMMA RecordStands ==
  ASSUME LogAssumption, InductiveInv, NEW cred \in Creds, NEW day \in 0..LastDay, Record(cred, day),
         UNCHANGED <<scrub, owed, erased, overrun>>
  PROVE  InductiveInv'
  <1> USE DEF Record
  <1>1. [rid |-> nextRid, cred |-> cred, day |-> day] \in Requests
    BY DEF InductiveInv, TypeOK, Requests
  <1>2. nextRid \in Nat /\ nextRid + 1 \in 0..MaxRecords
    BY DEF InductiveInv, TypeOK, LogAssumption
  <1>3. TypeOK'
    BY <1>1, <1>2 DEF InductiveInv, TypeOK
  <1>4. Filed = nextRid /\ Spent = nextRid /\ Filed <= Filed' /\ Spent <= Spent'
    BY <1>2 DEF Filed, Spent, Writing
  <1>5. TaskStands'
    BY <1>2 DEF TaskStands
  <1>6. current' # None => current'[2] < Spent'
    BY <1>2, <1>3, <1>4 DEF InductiveInv, PartsStand, TypeOK, Names, Spent
  <1> QED
    BY <1>3, <1>4, <1>5, <1>6, QuietStands DEF InductiveInv, TypeOK

LEMMA RestartStands ==
  ASSUME LogAssumption
  PROVE  InductiveInv /\ Restart /\ UNCHANGED <<scrub, owed, erased, overrun>> => InductiveInv'
  <1> SUFFICES ASSUME InductiveInv, Restart, UNCHANGED <<scrub, owed, erased, overrun>> PROVE InductiveInv'
    OBVIOUS
  <1> USE DEF Restart, Fault
  <1>1. TypeOK'
    BY DEF InductiveInv, TypeOK, LogAssumption
  <1>2. nextRid \in Nat /\ Filed' = nextRid /\ Spent' = nextRid
    BY DEF InductiveInv, TypeOK, LogAssumption, Filed, Spent, Writing
  <1>3. Filed <= Filed' /\ Spent <= Spent' /\ clock <= clock'
    BY <1>2 DEF InductiveInv, TypeOK, Filed, Spent
  <1>4. TaskStands'
    BY DEF TaskStands
  <1> QED
    BY <1>1, <1>3, <1>4, QuietStands

LEMMA FreeName ==
  ASSUME NEW day, NEW n \in 0..MaxRecords, <<day, n>> \notin DOMAIN parts
  PROVE  FreePart(day) \in Nat /\ FreePart(day) <= n
  <1> DEFINE free == {k \in 0..MaxRecords : <<day, k>> \notin DOMAIN parts}
  <1>1. n \in free /\ free \in SUBSET Nat
    OBVIOUS
  <1>2. FreePart(day) = CHOOSE x \in free : \A y \in free : x <= y
    BY DEF FreePart, Min
  <1> HIDE DEF free
  <1>3. \E x \in free : \A y \in free : x <= y
    BY <1>1, LeastElement
  <1>4. FreePart(day) \in free /\ \A y \in free : FreePart(day) <= y
    BY <1>2, <1>3
  <1> QED
    BY <1>1, <1>4

\* The part a task settles on is a name it may file under.
LEMMA SettledOn ==
  ASSUME LogAssumption, InductiveInv, Settle
  PROVE  /\ current' \in Names /\ current'[1] = task.req.day /\ current'[2] < nextRid
         /\ size' \in Nat
  <1> DEFINE r == Resumed
             day == task.req.day
  <1>1. /\ nextRid \in Nat /\ Spent = nextRid - 1
        /\ task.req \in Requests /\ day \in 0..LastDay /\ task.req.rid = nextRid - 1
    <2>1. task # None /\ task.at = "settle"
      BY DEF Settle
    <2>2. task.req \in Requests /\ task.req.rid = nextRid - 1
      BY <2>1 DEF InductiveInv, TypeOK, TaskStands
    <2> QED
      BY <2>1, <2>2, FiledBounds DEF Writing, InductiveInv, Requests
  <1>2. \A name \in DOMAIN parts : /\ name \in (0..LastDay) \X (0..(nextRid - 2)) /\ nextRid - 2 \in Nat
                                   /\ parts[name] \in Seq(Lines)
    BY <1>1 DEF InductiveInv, TypeOK, PartsStand, Names
  <1>3. /\ r.name = None \/ r.name \in Names
        /\ r.name # None => r.name[2] < nextRid - 1
        /\ r.size \in Nat
    <2>1. CASE current # None \/ Listed = {}
      <3>1. r.name = current /\ r.size = size
        BY <2>1 DEF Resumed
      <3> QED
        BY <1>1, <3>1 DEF InductiveInv, TypeOK, PartsStand
    <2>2. CASE ~(current # None \/ Listed = {})
      <3>1. Listed # {} /\ Listed \subseteq DOMAIN parts
        BY <2>2 DEF Listed
      <3>2. \E n \in Listed : \A m \in Listed : m = n \/ Before(m, n)
        <4>1. Listed \in SUBSET ((0..LastDay) \X (0..(nextRid - 2))) /\ nextRid - 2 \in Nat
          BY <1>2, <3>1
        <4> QED
          BY <3>1, <4>1, GreatestName DEF LogAssumption
      <3> DEFINE newest == CHOOSE n \in Listed : \A m \in Listed : m = n \/ Before(m, n)
      <3>3. newest \in Listed
        BY <3>2
      <3>4. r.name = newest /\ r.size = Len(parts[newest])
        BY <2>2 DEF Resumed
      <3> HIDE DEF newest
      <3>5. newest \in (0..LastDay) \X (0..(nextRid - 2)) /\ nextRid - 2 \in Nat /\ parts[newest] \in Seq(Lines)
        BY <1>2, <3>1, <3>3
      <3>6. newest \in Names /\ newest[2] < nextRid - 1 /\ Len(parts[newest]) \in Nat
        BY <1>1, <3>5 DEF Names
      <3> QED
        BY <3>4, <3>6
    <2> QED
      BY <2>1, <2>2
  <1> HIDE DEF r
  <1>4. FreePart(day) \in Nat /\ FreePart(day) < nextRid
    <2>1. nextRid - 1 \in 0..MaxRecords
      <3>1. task.req.rid \in 0..MaxRecords
        BY <1>1 DEF Requests
      <3> QED
        BY <1>1, <3>1
    <2>2. <<day, nextRid - 1>> \notin DOMAIN parts
      BY <1>1, <1>2
    <2> HIDE DEF day
    <2>3. FreePart(day) \in Nat /\ FreePart(day) <= nextRid - 1
      BY <2>1, <2>2, FreeName
    <2> QED
      BY <1>1, <2>3
  <1> DEFINE newDay == r.name = None \/ r.name[1] # day
             full == r.size + 1 > MaxLines
  <1>5. /\ current' = IF newDay THEN <<day, FreePart(day)>>
                      ELSE IF full THEN <<day, r.name[2] + 1>> ELSE r.name
        /\ size' = IF newDay \/ full THEN 0 ELSE r.size
    BY DEF Settle, r
  <1>6. ~newDay => r.name \in Names /\ r.name[2] < nextRid - 1 /\ r.name[1] = day /\ r.name[2] \in Nat
    BY <1>3 DEF Names
  <1> HIDE DEF day, newDay, full
  <1>7. day \in 0..LastDay
    BY <1>1 DEF day
  <1>8. size' \in Nat
    BY <1>3, <1>5
  <1>9. current' \in Names /\ current'[1] = day /\ current'[2] < nextRid
    <2>1. CASE newDay
      <3>1. current' = <<day, FreePart(day)>>
        BY <1>5, <2>1
      <3> QED
        BY <1>4, <1>7, <3>1 DEF Names
    <2>2. CASE ~newDay /\ full
      <3>1. current' = <<day, r.name[2] + 1>>
        BY <1>5, <2>2
      <3>2. r.name[2] + 1 \in Nat /\ r.name[2] + 1 < nextRid
        BY <1>1, <1>6, <2>2
      <3> QED
        BY <1>7, <3>1, <3>2 DEF Names
    <2>3. CASE ~newDay /\ ~full
      <3>1. current' = r.name
        BY <1>5, <2>3
      <3> QED
        BY <1>1, <1>6, <2>3, <3>1
    <2> QED
      BY <2>1, <2>2, <2>3
  <1> QED
    BY <1>8, <1>9 DEF day

LEMMA SettleStands ==
  ASSUME LogAssumption
  PROVE  InductiveInv /\ Settle /\ UNCHANGED <<scrub, owed, erased, overrun>> => InductiveInv'
  <1> SUFFICES ASSUME InductiveInv, Settle, UNCHANGED <<scrub, owed, erased, overrun>> PROVE InductiveInv'
    OBVIOUS
  <1>1. /\ task # None /\ task.at = "settle" /\ task' = [task EXCEPT !.at = "append"]
        /\ UNCHANGED <<parts, clock, swept, nextRid, acked, faults>>
    BY DEF Settle
  <1>2. /\ task' \in [at : {"settle", "append", "sweep"}, req : Requests]
        /\ task'.at = "append" /\ task'.req = task.req
    BY <1>1 DEF InductiveInv, TypeOK
  <1>3. /\ current' \in Names /\ current'[1] = task.req.day /\ current'[2] < nextRid
        /\ size' \in Nat
    BY SettledOn
  <1>4. TypeOK'
    BY <1>1, <1>2, <1>3 DEF InductiveInv, TypeOK
  <1>5. nextRid \in Nat /\ Filed = nextRid - 1 /\ Spent = nextRid - 1
    BY <1>1, FiledBounds DEF InductiveInv, Writing
  <1>6. Filed <= Filed' /\ Spent' = nextRid
    BY <1>1, <1>2, <1>5 DEF Filed, Spent
  <1>7. TaskStands'
    BY <1>1, <1>2, <1>3 DEF InductiveInv, TaskStands
  <1> QED
    BY <1>1, <1>3, <1>4, <1>5, <1>6, <1>7, QuietStands DEF InductiveInv, TypeOK

LEMMA NoNameIsNone ==
  ASSUME LogAssumption
  PROVE  None \notin Names
  BY DEF LogAssumption, Names

LEMMA AtLines ==
  ASSUME TypeOK, NEW name
  PROVE  At(name) \in Seq(Lines) /\ (name \notin DOMAIN parts => Range(At(name)) = {})
  <1>1. CASE name \in DOMAIN parts
    BY <1>1 DEF TypeOK, At
  <1>2. CASE name \notin DOMAIN parts
    BY <1>2 DEF At, Range
  <1> QED
    BY <1>1, <1>2

\* What putting a line on the current part does to all three.
LEMMA AppendStands ==
  ASSUME LogAssumption, InductiveInv, task # None, task.at = "append", NEW line \in Lines,
         line.reqs = {task.req}, line.reads => line.ended,
         parts' = Put(current, Appended(At(current), line)),
         task' = None \/ (task'.at = "sweep" /\ task'.req = task.req),
         TypeOK', UNCHANGED <<clock, current, nextRid, acked, scrub, owed, erased, overrun>>
  PROVE  InductiveInv'
  <1>0. PICK req : req = task.req /\ line.reqs = {req}
    OBVIOUS
  <1> DEFINE new == Appended(At(current), line)
  <1>1. current \in Names /\ current # None /\ current[1] = req.day /\ req.rid = nextRid - 1 /\ req \in Requests
    BY <1>0, NoNameIsNone DEF InductiveInv, TaskStands, TypeOK
  <1>2. nextRid \in Nat /\ Filed = nextRid - 1 /\ Spent = nextRid /\ Filed' = nextRid /\ Spent' = nextRid
    <2>1. nextRid \in Nat /\ Filed = nextRid - 1 /\ Spent = nextRid
      BY FiledBounds DEF InductiveInv, Writing
    <2>2. ~Writing'
      BY DEF Writing
    <2> QED
      BY <2>1, <2>2 DEF Filed, Spent
  <1>3. At(current) \in Seq(Lines) /\ (current \notin DOMAIN parts => Range(At(current)) = {})
        /\ (current \in DOMAIN parts => At(current) = parts[current])
    BY AtLines DEF InductiveInv, At
  <1>4. /\ new \in Seq(Lines) /\ ReqsIn(new) = ReqsIn(At(current)) \cup {req}
        /\ \/ \A one \in Range(new) : one \in Range(At(current)) \/ one = line
           \/ \E last \in Range(At(current)) :
                 ~last.ended /\ \A one \in Range(new) :
                    one \in Range(At(current)) \/ (one.reqs = last.reqs \cup {req} /\ one.reads = FALSE)
    <2>1. At(current) \in Seq(Lines) /\ line \in Lines /\ line.reqs = {req}
      BY <1>0, <1>3
    <2>2. /\ new \in Seq(Lines)
          /\ \/ \A one \in Range(new) : one \in Range(At(current)) \/ one = line
             \/ \E last \in Range(At(current)) :
                   ~last.ended /\ \A one \in Range(new) :
                      one \in Range(At(current)) \/ (one.reqs = last.reqs \cup line.reqs /\ one.reads = FALSE)
          /\ ReqsIn(new) = ReqsIn(At(current)) \cup line.reqs
      BY <2>1, AppendedLines, Zenon
    <2> HIDE DEF new
    <2> QED
      BY <2>1, <2>2
  <1> HIDE DEF new
  <1>5. /\ DOMAIN parts' = DOMAIN parts \cup {current} /\ parts'[current] = new
        /\ \A name \in DOMAIN parts : name # current => parts'[name] = parts[name]
    BY DEF Put, new
  <1>6. Range(At(current)) \subseteq Pool
    BY <1>3, InPool
  <1>7. \A one \in Pool' : one \in Pool \/ one \in Range(new)
    <2> SUFFICES ASSUME NEW one \in Pool', one \notin Pool PROVE one \in Range(new)
      OBVIOUS
    <2>1. PICK name \in DOMAIN parts' : one \in Range(parts'[name])
      <3>1. \/ \E name \in DOMAIN parts' : one \in Range(parts'[name])
            \/ scrub # None /\ one \in Range(scrub.snapshot)
        <4>1. one \in ((UNION {Range(parts'[name]) : name \in DOMAIN parts'})
                          \cup (IF scrub = None THEN {} ELSE Range(scrub.snapshot)))
          BY DEF Pool
        <4> QED
          BY <4>1
      <3> QED
        BY <3>1, InPool
    <2>2. name = current
      BY <1>5, <2>1, InPool
    <2> QED
      BY <1>5, <2>1, <2>2
  <1>8. \/ \A one \in Pool' : one \in Pool \/ one = line
        \/ \E last \in Pool : ~last.ended /\ \A one \in Pool' :
              one \in Pool \/ (one.reqs = last.reqs \cup {req} /\ one.reads = FALSE)
    BY <1>4, <1>6, <1>7
  <1>9. \A old \in Pool : req \notin old.reqs
    BY <1>1, <1>2 DEF InductiveInv, PoolStands
  <1>10. \A old \in Pool : \A r \in old.reqs : r.rid < nextRid
    <2> SUFFICES ASSUME NEW old \in Pool, NEW r \in old.reqs PROVE r.rid < nextRid
      OBVIOUS
    <2>1. old \in Lines
      BY InPool DEF InductiveInv, TypeOK, Runs, Range
    <2>2. r.rid < nextRid - 1 /\ r.rid \in Int
      BY <1>2, <2>1 DEF InductiveInv, PoolStands, Lines, Requests
    <2> QED
      BY <1>2, <2>2
  <1>11. PoolStands'
    <2>1. CASE \A one \in Pool' : one \in Pool \/ one = line
      BY <1>0, <1>1, <1>2, <1>9, <1>10, <2>1 DEF InductiveInv, PoolStands
    <2>2. ASSUME NEW last \in Pool, ~last.ended,
                 \A one \in Pool' : one \in Pool \/ (one.reqs = last.reqs \cup {req} /\ one.reads = FALSE)
          PROVE  PoolStands'
      BY <1>0, <1>1, <1>2, <1>9, <1>10, <2>2 DEF InductiveInv, PoolStands
    <2> QED
      BY <1>8, <2>1, <2>2
  <1>12. PartsStand'
    <2>1. ASSUME NEW name \in DOMAIN parts' PROVE name[2] < Spent' /\ \A r \in ReqsIn(parts'[name]) : r.day = name[1]
      <3>1. CASE name = current
        <4>1. \A r \in ReqsIn(At(current)) : r.day = current[1]
          BY <1>3 DEF InductiveInv, PartsStand, At, ReqsIn
        <4> QED
          BY <1>1, <1>2, <1>4, <1>5, <3>1, <4>1 DEF InductiveInv, PartsStand
      <3>2. CASE name # current
        BY <1>2, <1>5, <3>2 DEF InductiveInv, PartsStand
      <3> QED
        BY <3>1, <3>2
    <2> QED
      BY <1>2, <2>1 DEF InductiveInv, PartsStand
  <1>13. OnVolume \cup {req} \subseteq OnVolume'
    <2>1. \A name \in DOMAIN parts : name \in DOMAIN parts' /\ ReqsIn(parts[name]) \subseteq ReqsIn(parts'[name])
      BY <1>3, <1>4, <1>5
    <2>2. req \in ReqsIn(parts'[current]) /\ current \in DOMAIN parts'
      BY <1>4, <1>5
    <2> QED
      BY <2>1, <2>2 DEF OnVolume
  <1>14. \A r : Accounted(r) => Accounted(r)'
    BY <1>13 DEF Accounted
  <1>15. LinesAreKept'
    BY <1>14 DEF InductiveInv, LinesAreKept
  <1>16. TaskStands'
    <2>1. Accounted(req)'
      BY <1>13 DEF Accounted
    <2> QED
      BY <1>0, <2>1 DEF TaskStands
  <1>17. ScrubStands'
    <2>1. Name' = Name
      BY DEF Name
    <2> QED
      BY <1>2, <2>1 DEF InductiveInv, ScrubStands
  <1> QED
    BY <1>11, <1>12, <1>15, <1>16, <1>17 DEF InductiveInv

LEMMA AppendTypes ==
  ASSUME TypeOK, current \in Names, NEW line \in Lines, parts' = Put(current, Appended(At(current), line)),
         size' \in Nat, task' = None \/ task' \in [at : {"settle", "append", "sweep"}, req : Requests],
         faults' \in 0..MaxFaults,
         UNCHANGED <<clock, current, swept, nextRid, acked, scrub, owed, erased, overrun>>
  PROVE  TypeOK'
  <1>1. Appended(At(current), line) \in Seq(Lines)
    BY AtLines, AppendedLines
  <1>2. DOMAIN parts' \subseteq Names /\ \A name \in DOMAIN parts' : parts'[name] \in Seq(Lines)
    <2>1. /\ DOMAIN parts' = DOMAIN parts \cup {current} /\ parts'[current] = Appended(At(current), line)
          /\ \A name \in DOMAIN parts : name # current => parts'[name] = parts[name]
      BY DEF Put
    <2> QED
      BY <1>1, <2>1 DEF TypeOK
  <1>3. parts' \in [DOMAIN parts' -> Seq(Lines)]
    BY <1>2 DEF Put
  <1> QED
    BY <1>2, <1>3 DEF TypeOK

LEMMA AppendLineStands ==
  ASSUME LogAssumption
  PROVE  InductiveInv /\ AppendLine /\ UNCHANGED <<scrub, owed, erased, overrun>> => InductiveInv'
  <1> SUFFICES ASSUME InductiveInv, AppendLine, UNCHANGED <<scrub, owed, erased, overrun>> PROVE InductiveInv'
    OBVIOUS
  <1>1. /\ task # None /\ task.at = "append" /\ parts' = Put(current, Appended(At(current), Line(task.req)))
        /\ task' = [task EXCEPT !.at = "sweep"] /\ size' = size + 1
        /\ UNCHANGED <<clock, current, swept, nextRid, acked, faults>>
    BY DEF AppendLine
  <1>2. task \in [at : {"settle", "append", "sweep"}, req : Requests] /\ current \in Names
    BY <1>1 DEF InductiveInv, TypeOK, TaskStands
  <1>3. /\ Line(task.req) \in Lines /\ Line(task.req).reqs = {task.req}
        /\ (Line(task.req).reads => Line(task.req).ended)
    BY <1>2 DEF Line, Lines
  <1>4. /\ task' \in [at : {"settle", "append", "sweep"}, req : Requests]
        /\ task'.at = "sweep" /\ task'.req = task.req /\ size' \in Nat
    BY <1>1, <1>2 DEF InductiveInv, TypeOK
  <1>5. TypeOK'
    BY <1>1, <1>2, <1>3, <1>4, AppendTypes DEF InductiveInv, TypeOK
  <1> QED
    BY <1>1, <1>3, <1>4, <1>5, AppendStands

LEMMA AppendShortStands ==
  ASSUME LogAssumption
  PROVE  InductiveInv /\ AppendShort /\ UNCHANGED <<scrub, owed, erased, overrun>> => InductiveInv'
  <1> SUFFICES ASSUME InductiveInv, AppendShort, UNCHANGED <<scrub, owed, erased, overrun>> PROVE InductiveInv'
    OBVIOUS
  <1>1. /\ task # None /\ task.at = "append" /\ parts' = Put(current, Appended(At(current), Torn(task.req)))
        /\ task' = None /\ faults < MaxFaults /\ faults' = faults + 1
        /\ UNCHANGED <<clock, current, size, swept, nextRid, acked>>
    BY DEF AppendShort, Fault
  <1>2. task \in [at : {"settle", "append", "sweep"}, req : Requests] /\ current \in Names
    BY <1>1 DEF InductiveInv, TypeOK, TaskStands
  <1>3. /\ Torn(task.req) \in Lines /\ Torn(task.req).reqs = {task.req}
        /\ (Torn(task.req).reads => Torn(task.req).ended)
    BY <1>2 DEF Torn, Lines
  <1>4. faults' \in 0..MaxFaults /\ size' \in Nat
    BY <1>1 DEF InductiveInv, TypeOK, LogAssumption
  <1>5. TypeOK'
    BY <1>1, <1>2, <1>3, <1>4, AppendTypes DEF InductiveInv
  <1> QED
    BY <1>1, <1>3, <1>5, AppendStands

LEMMA RestrictedIs ==
  ASSUME NEW f, NEW S PROVE DOMAIN Restrict(f, S) = S /\ \A x \in S : Restrict(f, S)[x] = f[x]
  BY DEF Restrict

\* Unlinking parts past the retention.
LEMMA SweptStands ==
  ASSUME LogAssumption, InductiveInv, task # None, task.at = "sweep", NEW kept \in SUBSET DOMAIN parts,
         \A name \in DOMAIN parts : name \notin kept => Aged(name),
         parts' = Restrict(parts, kept), acked' \subseteq acked \cup {task.req}, task' = None, TypeOK',
         UNCHANGED <<clock, current, nextRid, scrub, owed, erased, overrun>>
  PROVE  InductiveInv'
  <1>1. DOMAIN parts' = kept /\ \A name \in kept : parts'[name] = parts[name]
    BY RestrictedIs
  <1>2. Filed = nextRid /\ Spent = nextRid /\ Filed' = nextRid /\ Spent' = nextRid /\ nextRid \in Nat
    <2>1. ~Writing /\ ~Writing' /\ nextRid \in Nat
      BY FiledBounds DEF Writing, InductiveInv
    <2> QED
      BY <2>1 DEF Filed, Spent
  <1>3. PoolStands'
    <2>1. \A line \in Pool' : line \in Pool
      <3> SUFFICES ASSUME NEW line \in Pool' PROVE line \in Pool
        OBVIOUS
      <3>1. \/ \E name \in DOMAIN parts' : line \in Range(parts'[name])
            \/ scrub # None /\ line \in Range(scrub.snapshot)
        <4>1. line \in ((UNION {Range(parts'[name]) : name \in DOMAIN parts'})
                          \cup (IF scrub = None THEN {} ELSE Range(scrub.snapshot)))
          BY DEF Pool
        <4> QED
          BY <4>1
      <3> QED
        BY <1>1, <3>1, InPool
    <2> QED
      BY <1>2, <2>1, PoolKept DEF InductiveInv
  <1>4. PartsStand'
    BY <1>1, <1>2 DEF InductiveInv, PartsStand
  <1>5. ScrubStands'
    <2>1. Name' = Name
      BY DEF Name
    <2> QED
      BY <1>2, <2>1 DEF InductiveInv, ScrubStands
  <1>6. ASSUME NEW req, Accounted(req) PROVE Accounted(req)'
    <2>1. CASE req \in OnVolume
      <3>1. PICK name \in DOMAIN parts : req \in ReqsIn(parts[name])
        BY <2>1, OnVolumeIs
      <3>2. CASE name \in kept
        <4>1. req \in OnVolume'
          BY <1>1, <3>1, <3>2 DEF OnVolume
        <4> QED
          BY <4>1 DEF Accounted
      <3>3. CASE name \notin kept
        <4>1. req.day = name[1] /\ name[1] < clock - Days
          BY <3>1, <3>3 DEF InductiveInv, PartsStand, Aged
        <4> QED
          BY <4>1 DEF Accounted
      <3> QED
        BY <3>2, <3>3
    <2>2. CASE req \notin OnVolume
      BY <1>6, <2>2 DEF Accounted
    <2> QED
      BY <2>1, <2>2
  <1>7. LinesAreKept'
    <2>1. Accounted(task.req)
      BY DEF InductiveInv, TaskStands
    <2> QED
      BY <1>6, <2>1 DEF InductiveInv, LinesAreKept
  <1> QED
    BY <1>3, <1>4, <1>5, <1>7 DEF InductiveInv, TaskStands

LEMMA SweptTypes ==
  ASSUME TypeOK, NEW kept \in SUBSET DOMAIN parts, parts' = Restrict(parts, kept), acked' \subseteq Requests,
         task' = None, swept' \in {None} \cup 0..LastDay, faults' \in 0..MaxFaults,
         UNCHANGED <<clock, current, size, nextRid, scrub, owed, erased, overrun>>
  PROVE  TypeOK'
  <1>1. DOMAIN parts' = kept /\ \A name \in kept : parts'[name] = parts[name]
    BY RestrictedIs
  <1>2. parts' \in [DOMAIN parts' -> Seq(Lines)]
    <2>1. parts' = [name \in kept |-> parts[name]]
      BY DEF Restrict
    <2> QED
      BY <2>1 DEF TypeOK
  <1> QED
    BY <1>1, <1>2 DEF TypeOK

LEMMA SweepStands ==
  ASSUME LogAssumption
  PROVE  InductiveInv /\ Sweep /\ UNCHANGED <<scrub, owed, erased, overrun>> => InductiveInv'
  <1> SUFFICES ASSUME InductiveInv, Sweep, UNCHANGED <<scrub, owed, erased, overrun>> PROVE InductiveInv'
    OBVIOUS
  <1> DEFINE left == {n \in DOMAIN parts : ~(Matched(n) /\ Aged(n))}
             kept == IF swept = task.req.day THEN DOMAIN parts ELSE left
  <1>1. /\ task # None /\ task.at = "sweep" /\ task' = None /\ swept' = task.req.day
        /\ acked' = acked \cup {task.req}
        /\ UNCHANGED <<clock, current, size, nextRid, faults>>
    BY DEF Sweep
  <1>2. kept \in SUBSET DOMAIN parts /\ \A name \in DOMAIN parts : name \notin kept => Aged(name)
    OBVIOUS
  <1>3. parts' = Restrict(parts, kept)
    <2>1. parts = [n \in DOMAIN parts |-> parts[n]]
      BY DEF InductiveInv, TypeOK
    <2> QED
      BY <2>1 DEF Sweep, Restrict
  <1> HIDE DEF kept
  <1>4. task.req \in Requests
    BY <1>1 DEF InductiveInv, TypeOK
  <1>5. TypeOK'
    <2>1. task.req.day \in 0..LastDay
      BY <1>4 DEF Requests
    <2>2. acked' \subseteq Requests /\ swept' \in {None} \cup 0..LastDay /\ faults' \in 0..MaxFaults
      BY <1>1, <1>4, <2>1 DEF InductiveInv, TypeOK
    <2> QED
      BY <1>1, <1>2, <1>3, <2>2, SweptTypes DEF InductiveInv
  <1> QED
    BY <1>1, <1>2, <1>3, <1>5, SweptStands

LEMMA SweepFailsStands ==
  ASSUME LogAssumption
  PROVE  InductiveInv /\ SweepFails /\ UNCHANGED <<scrub, owed, erased, overrun>> => InductiveInv'
  <1> SUFFICES ASSUME InductiveInv, SweepFails, UNCHANGED <<scrub, owed, erased, overrun>> PROVE InductiveInv'
    OBVIOUS
  <1>1. /\ task # None /\ task.at = "sweep" /\ task' = None /\ faults < MaxFaults /\ faults' = faults + 1
        /\ UNCHANGED <<clock, current, size, swept, nextRid, acked>>
    BY DEF SweepFails, Fault
  <1>2. PICK gone \in SUBSET {n \in Listed : Aged(n)} : parts' = Restrict(parts, DOMAIN parts \ gone)
    BY DEF SweepFails
  <1>3. faults' \in 0..MaxFaults
    BY <1>1 DEF InductiveInv, TypeOK, LogAssumption
  <1>4. TypeOK'
    BY <1>1, <1>2, <1>3, SweptTypes DEF InductiveInv, TypeOK
  <1>5. \A name \in DOMAIN parts : name \notin DOMAIN parts \ gone => Aged(name)
    BY <1>2
  <1> QED
    BY <1>1, <1>2, <1>4, <1>5, SweptStands

\* A step of the run that leaves the volume alone.
LEMMA RunStands ==
  ASSUME LogAssumption, InductiveInv, UNCHANGED <<logVars, overrun>>, NEW r \in Runs,
         owed' \in [recorded : SUBSET Requests, readable : SUBSET Requests], scrub' = r,
         erased' \in {None} \cup Creds, erased # None => erased' = erased,
         r.cred = erased',
         \A name \in r.targets : name[2] < Spent,
         r.at \in {"read", "filter", "compare", "publish", "confirm"} => r.targets # {},
         r.at \in {"filter", "compare", "publish", "confirm"} =>
            scrub # None /\ r.targets = scrub.targets /\ \A req \in ReqsIn(r.snapshot) : req.day = Name[1],
         r.at = "publish" => r.seen = r.snapshot,
         Range(r.snapshot) \subseteq Pool
  PROVE  InductiveInv' 
  <1>1. TypeOK'
    BY DEF InductiveInv, TypeOK, logVars
  <1>2. Filed' = Filed /\ Spent' = Spent /\ Filed \in Int
    BY FiledBounds DEF InductiveInv, logVars, Filed, Spent, Writing
  <1>3. PoolStands'
    <2>1. \A line \in Pool' : line \in Pool
      <3> SUFFICES ASSUME NEW line \in Pool' PROVE line \in Pool
        OBVIOUS
      <3>1. (\E name \in DOMAIN parts : line \in Range(parts[name])) \/ line \in Range(r.snapshot)
        <4>1. line \in ((UNION {Range(parts[name]) : name \in DOMAIN parts})
                          \cup (IF scrub' = None THEN {} ELSE Range(r.snapshot)))
          BY DEF Pool, logVars
        <4> QED
          BY <4>1
      <3> QED
        BY <3>1, InPool
    <2> QED
      BY <1>1, <1>2, <2>1, PoolKept DEF InductiveInv
  <1>4. PartsStand'
    BY <1>2 DEF InductiveInv, PartsStand, logVars
  <1>5. ASSUME NEW req \in Requests, Accounted(req) PROVE Accounted(req)'
    <2>1. req.cred = erased => req.cred = erased'
      BY <1>5 DEF LogAssumption, Requests
    <2>2. OnVolume' = OnVolume
      BY DEF OnVolume, logVars
    <2> QED
      BY <1>5, <2>1, <2>2 DEF Accounted, logVars
  <1>6. LinesAreKept'
    BY <1>5 DEF InductiveInv, LinesAreKept, TypeOK, logVars
  <1>7. TaskStands'
    <2>1. ASSUME task # None, task.at = "sweep" PROVE Accounted(task.req)'
      <3>1. PICK req \in Requests : req = task.req /\ Accounted(req)
        BY <2>1 DEF InductiveInv, TaskStands, TypeOK
      <3>2. task'.req = req
        BY <3>1 DEF logVars
      <3>3. Accounted(req)'
        BY <1>5, <3>1
      <3> QED
        BY <3>1, <3>2, <3>3
    <2> QED
      BY <2>1 DEF InductiveInv, TaskStands, logVars
  <1>8. ScrubStands'
    <2>1. scrub # None /\ r.targets = scrub.targets => Name' = Name
      BY DEF Name
    <2> QED
      BY <1>2, <2>1 DEF ScrubStands
  <1> QED
    BY <1>1, <1>3, <1>4, <1>6, <1>7, <1>8 DEF InductiveInv

LEMMA RunFacts ==
  ASSUME InductiveInv, scrub # None
  PROVE  /\ scrub \in Runs /\ scrub.cred = erased /\ erased \in {None} \cup Creds
         /\ owed \in [recorded : SUBSET Requests, readable : SUBSET Requests]
         /\ \A name \in scrub.targets : name[2] < Spent
         /\ Range(scrub.snapshot) \subseteq Pool
         /\ \A name \in DOMAIN parts : /\ parts[name] \in Seq(Lines) /\ Range(parts[name]) \subseteq Pool
                                       /\ \A req \in ReqsIn(parts[name]) : req.day = name[1]
  <1>1. /\ scrub \in Runs /\ erased \in {None} \cup Creds /\ \A name \in DOMAIN parts : parts[name] \in Seq(Lines)
        /\ owed \in [recorded : SUBSET Requests, readable : SUBSET Requests]
    BY DEF InductiveInv, TypeOK
  <1> QED
    BY <1>1, InPool DEF InductiveInv, ScrubStands, PartsStand

LEMMA MovedRun ==
  ASSUME NEW s \in Runs, NEW at \in ScrubAt
  PROVE  LET r == [s EXCEPT !.at = at]
         IN  r \in Runs /\ r.at = at /\ r.cred = s.cred /\ r.targets = s.targets /\ r.snapshot = s.snapshot
             /\ r.seen = s.seen
  <1>1. [s EXCEPT !.at = at] \in Runs
    BY RunFields DEF Runs
  <1> QED
    BY <1>1 DEF Runs

LEMMA FailedRun ==
  ASSUME NEW s \in Runs
  PROVE  LET r == Failing(s)
         IN  r \in Runs /\ r.at \in {"failed", "failing"} /\ r.cred = s.cred /\ r.targets = s.targets
             /\ r.snapshot = s.snapshot
  <1> DEFINE at == IF s.changed = {} THEN "failed" ELSE "failing"
  <1>1. Failing(s) = [s EXCEPT !.at = at]
    BY DEF Failing
  <1>2. at \in {"failed", "failing"} /\ at \in ScrubAt
    BY DEF ScrubAt
  <1> HIDE DEF at
  <1> QED
    BY <1>1, <1>2, MovedRun

LEMMA AdvancedRun ==
  ASSUME NEW s \in Runs, s.targets # {}
  PROVE  LET r == Advance(s)
         IN  /\ r \in Runs /\ r.cred = s.cred /\ r.targets \subseteq s.targets /\ r.snapshot = s.snapshot
             /\ r.at \in {"done", "receipt"} \/ (r.at = "read" /\ r.targets # {} /\ r.targets = s.targets \ {Name})
             /\ r.at \in {"done", "receipt"} => s.targets = {Name}
  <1>1. CASE s.targets = {Name}
    <2> DEFINE at == IF s.changed = {} THEN "done" ELSE "receipt"
    <2>1. Advance(s) = [s EXCEPT !.at = at]
      BY <1>1 DEF Advance, Closing
    <2>2. at \in {"done", "receipt"} /\ at \in ScrubAt
      BY DEF ScrubAt
    <2> HIDE DEF at
    <2> QED
      BY <1>1, <2>1, <2>2, MovedRun
  <1>2. CASE s.targets # {Name}
    <2> DEFINE left == s.targets \ {Name}
               r == [s EXCEPT !.targets = left, !.attempt = 1, !.at = "read"]
    <2>1. Advance(s) = r
      BY <1>2 DEF Advance
    <2>2. left \in SUBSET Names /\ left # {} /\ "read" \in ScrubAt
      BY <1>2 DEF Runs, ScrubAt
    <2>3. r \in Runs
      BY <2>2, RunFields DEF Runs
    <2>4. r.at = "read" /\ r.cred = s.cred /\ r.targets = left /\ r.snapshot = s.snapshot
      BY DEF Runs
    <2> HIDE DEF r
    <2> QED
      BY <2>1, <2>2, <2>3, <2>4
  <1> QED
    BY <1>1, <1>2

LEMMA FailedStands ==
  ASSUME LogAssumption, InductiveInv, scrub # None, scrub' = Failing(scrub),
         UNCHANGED <<logVars, owed, erased, overrun>>
  PROVE  InductiveInv'
  <1> DEFINE r == Failing(scrub)
  <1>1. scrub' = r
    OBVIOUS
  <1> HIDE DEF r
  <1>2. r \in Runs /\ r.at \in {"failed", "failing"} /\ r.cred = erased /\ r.targets = scrub.targets
        /\ r.snapshot = scrub.snapshot
    BY FailedRun, RunFacts DEF r
  <1> QED
    BY <1>1, <1>2, RunFacts, RunStands

LEMMA AdvancedStands ==
  ASSUME LogAssumption, InductiveInv, scrub # None, NEW s \in Runs, s.cred = scrub.cred, s.targets = scrub.targets,
         s.snapshot = scrub.snapshot, scrub.targets # {}, scrub' = Advance(s),
         UNCHANGED <<logVars, owed, erased, overrun>>
  PROVE  InductiveInv'
  <1> DEFINE r == Advance(s)
  <1>1. scrub' = r
    OBVIOUS
  <1> HIDE DEF r
  <1>2. /\ r \in Runs /\ r.cred = erased /\ r.targets \subseteq scrub.targets /\ r.snapshot = scrub.snapshot
        /\ r.at \in {"done", "receipt"} \/ (r.at = "read" /\ r.targets # {})
    BY AdvancedRun, RunFacts DEF r
  <1> QED
    BY <1>1, <1>2, RunFacts, RunStands

LEMMA BeginStands ==
  ASSUME LogAssumption, InductiveInv, NEW cred \in Creds, Begin(cred)
  PROVE  InductiveInv'
  <1> DEFINE r == [at |-> "read", cred |-> cred, targets |-> Listed, snapshot |-> <<>>,
                   attempt |-> 1, seen |-> <<>>, removed |-> 0, changed |-> {}, marker |-> None]
  <1>1. /\ scrub' = r /\ erased = None /\ erased' = cred /\ Listed # {} /\ UNCHANGED <<logVars, overrun>>
        /\ owed' = [recorded |-> {req \in acked \cap OnVolume : req.cred = cred},
                    readable |-> {req \in OnVolume : req.cred = cred /\ OnReadableLine(req)}]
    BY DEF Begin
  <1>2. OnVolume \subseteq Requests
    <2> SUFFICES ASSUME NEW req \in OnVolume PROVE req \in Requests
      OBVIOUS
    <2>1. PICK name \in DOMAIN parts : req \in ReqsIn(parts[name]) /\ parts[name] \in Seq(Lines)
      BY OnVolumeIs DEF InductiveInv, TypeOK
    <2>2. PICK i \in DOMAIN parts[name] : req \in parts[name][i].reqs /\ parts[name][i] \in Lines
      BY <2>1 DEF ReqsIn
    <2> QED
      BY <2>2 DEF Lines
  <1>3. owed' \in [recorded : SUBSET Requests, readable : SUBSET Requests]
    BY <1>1, <1>2
  <1>4. Listed \subseteq Names /\ \A name \in Listed : name[2] < Spent
    BY DEF Listed, InductiveInv, TypeOK, PartsStand
  <1>5. r \in Runs
    BY <1>4 DEF Runs, ScrubAt
  <1>6. r.at = "read" /\ r.cred = cred /\ r.targets = Listed /\ Range(r.snapshot) = {}
    BY DEF Range
  <1> HIDE DEF r
  <1> QED
    BY <1>1, <1>3, <1>4, <1>5, <1>6, RunStands

LEMMA ReadPartStands ==
  ASSUME LogAssumption, InductiveInv, ReadPart
  PROVE  InductiveInv'
  <1>1. /\ scrub # None /\ scrub.at = "read" /\ UNCHANGED <<logVars, owed, erased, overrun>>
        /\ scrub' = IF Name \notin DOMAIN parts THEN Failing(scrub)
                    ELSE [scrub EXCEPT !.snapshot = parts[Name], !.at = "filter"]
    BY DEF ReadPart, Running, Ghosts
  <1>2. scrub.targets # {}
    BY <1>1 DEF InductiveInv, ScrubStands
  <1>3. CASE Name \notin DOMAIN parts
    BY <1>1, <1>3, FailedStands
  <1>4. CASE Name \in DOMAIN parts
    <2> DEFINE r == [scrub EXCEPT !.snapshot = parts[Name], !.at = "filter"]
    <2>1. scrub' = r
      BY <1>1, <1>4
    <2>2. parts[Name] \in Seq(Lines) /\ "filter" \in ScrubAt /\ scrub \in Runs
      BY <1>1, <1>4, RunFacts DEF ScrubAt
    <2>3. r \in Runs
      BY <2>2, RunFields DEF Runs
    <2>4. r.at = "filter" /\ r.cred = scrub.cred /\ r.targets = scrub.targets /\ r.snapshot = parts[Name]
      BY <2>2 DEF Runs
    <2> HIDE DEF r
    <2> QED
      BY <1>1, <1>2, <1>4, <2>1, <2>3, <2>4, RunFacts, RunStands
  <1> QED
    BY <1>3, <1>4

LEMMA FilterStands ==
  ASSUME LogAssumption, InductiveInv, Filter
  PROVE  InductiveInv'
  <1>1. /\ scrub # None /\ scrub.at = "filter" /\ UNCHANGED <<logVars, owed, erased, overrun>>
        /\ \/ scrub' = Failing(scrub) \/ scrub' = Advance(scrub)
           \/ scrub' = [scrub EXCEPT !.at = "compare"]
    BY DEF Filter, Running, Ghosts
  <1>2. scrub.targets # {} /\ scrub \in Runs /\ "compare" \in ScrubAt
        /\ \A req \in ReqsIn(scrub.snapshot) : req.day = Name[1]
    BY <1>1, RunFacts DEF InductiveInv, ScrubStands, ScrubAt
  <1>3. CASE scrub' = Failing(scrub)
    BY <1>1, <1>3, FailedStands
  <1>4. CASE scrub' = Advance(scrub)
    BY <1>1, <1>2, <1>4, AdvancedStands
  <1>5. CASE scrub' = [scrub EXCEPT !.at = "compare"]
    <2> DEFINE r == [scrub EXCEPT !.at = "compare"]
    <2>1. r \in Runs /\ r.at = "compare" /\ r.cred = scrub.cred /\ r.targets = scrub.targets
          /\ r.snapshot = scrub.snapshot
      BY <1>2, MovedRun
    <2> HIDE DEF r
    <2>2. scrub' = r
      BY <1>5 DEF r
    <2> QED
      BY <1>1, <1>2, <2>1, <2>2, RunFacts, RunStands
  <1> QED
    BY <1>1, <1>3, <1>4, <1>5

LEMMA CompareStands ==
  ASSUME LogAssumption, InductiveInv, Compare
  PROVE  InductiveInv'
  <1>1. /\ scrub # None /\ scrub.at = "compare" /\ UNCHANGED <<logVars, owed, erased, overrun>>
        /\ scrub' = IF Name \notin DOMAIN parts THEN Failing(scrub)
                    ELSE IF HoldsStill THEN [scrub EXCEPT !.at = "publish", !.seen = parts[Name]]
                    ELSE IF Kept = <<>>
                    THEN [scrub EXCEPT !.at = "filter", !.snapshot = parts[Name], !.attempt = @ + 1]
                    ELSE [scrub EXCEPT !.at = "read", !.attempt = @ + 1]
    BY DEF Compare, Running, Ghosts
  <1>2. scrub.targets # {} /\ scrub \in Runs /\ {"filter", "publish", "read"} \subseteq ScrubAt
        /\ scrub.attempt + 1 \in Nat
        /\ \A req \in ReqsIn(scrub.snapshot) : req.day = Name[1]
    BY <1>1, RunFacts DEF InductiveInv, ScrubStands, ScrubAt, Runs
  <1>3. CASE Name \notin DOMAIN parts
    BY <1>1, <1>3, FailedStands
  <1>4. CASE Name \in DOMAIN parts /\ HoldsStill
    <2> DEFINE r == [scrub EXCEPT !.at = "publish", !.seen = parts[Name]]
    <2>1. parts[Name] \in Seq(Lines) /\ parts[Name] = scrub.snapshot
      BY <1>1, <1>4, RunFacts DEF HoldsStill, At
    <2>2. r \in Runs
      BY <1>2, <2>1, RunFields DEF Runs
    <2>3. r.at = "publish" /\ r.cred = scrub.cred /\ r.targets = scrub.targets /\ r.snapshot = scrub.snapshot
          /\ r.seen = r.snapshot
      BY <1>2, <2>1 DEF Runs
    <2>4. scrub' = r
      BY <1>1, <1>4
    <2> HIDE DEF r
    <2> QED
      BY <1>1, <1>2, <2>2, <2>3, <2>4, RunFacts, RunStands
  <1>5. CASE Name \in DOMAIN parts /\ ~HoldsStill /\ Kept = <<>>
    <2> DEFINE r == [scrub EXCEPT !.at = "filter", !.snapshot = parts[Name], !.attempt = @ + 1]
    <2>1. parts[Name] \in Seq(Lines) /\ \A req \in ReqsIn(parts[Name]) : req.day = Name[1]
      BY <1>1, <1>5, RunFacts
    <2>2. r \in Runs
      BY <1>2, <2>1, RunFields DEF Runs
    <2>3. r.at = "filter" /\ r.cred = scrub.cred /\ r.targets = scrub.targets /\ r.snapshot = parts[Name]
      BY <1>2 DEF Runs
    <2>4. scrub' = r
      BY <1>1, <1>5
    <2> HIDE DEF r
    <2> QED
      BY <1>1, <1>2, <1>5, <2>1, <2>2, <2>3, <2>4, RunFacts, RunStands
  <1>6. CASE Name \in DOMAIN parts /\ ~HoldsStill /\ Kept # <<>>
    <2> DEFINE r == [scrub EXCEPT !.at = "read", !.attempt = @ + 1]
    <2>1. r \in Runs
      BY <1>2, RunFields DEF Runs
    <2>2. r.at = "read" /\ r.cred = scrub.cred /\ r.targets = scrub.targets /\ r.snapshot = scrub.snapshot
      BY <1>2 DEF Runs
    <2>3. scrub' = r
      BY <1>1, <1>6
    <2> HIDE DEF r
    <2> QED
      BY <1>1, <1>2, <2>1, <2>2, <2>3, RunFacts, RunStands
  <1> QED
    BY <1>3, <1>4, <1>5, <1>6

LEMMA RemovedCount ==
  ASSUME InductiveInv, scrub \in Runs
  PROVE  scrub.removed + (IF Held(scrub.snapshot) - Held(At(Name)) > 0
                          THEN Held(scrub.snapshot) - Held(At(Name)) ELSE 0) \in Nat
  <1>1. Held(scrub.snapshot) \in Nat /\ Held(At(Name)) \in Nat
    <2>1. \A lines \in Seq(Lines) : Held(lines) \in Nat
      <3> SUFFICES ASSUME NEW lines \in Seq(Lines) PROVE Held(lines) \in Nat
        OBVIOUS
      <3>1. IsFiniteSet(DOMAIN lines)
        BY FS_Interval
      <3>2. IsFiniteSet({i \in DOMAIN lines : Subject(lines[i])})
        BY <3>1, FS_Subset
      <3> QED
        BY <3>2, FS_CardinalityType DEF Held
    <2>2. scrub.snapshot \in Seq(Lines) /\ At(Name) \in Seq(Lines)
      BY AtLines DEF Runs, InductiveInv
    <2> QED
      BY <2>1, <2>2
  <1>2. scrub.removed \in Nat
    BY DEF Runs
  <1> QED
    BY <1>1, <1>2

LEMMA ConfirmStands ==
  ASSUME LogAssumption, InductiveInv, Confirm
  PROVE  InductiveInv'
  <1> DEFINE gone == Held(scrub.snapshot) - Held(At(Name))
             n == scrub.removed + (IF gone > 0 THEN gone ELSE 0)
             s == [scrub EXCEPT !.removed = n]
  <1>1. /\ scrub # None /\ scrub.at = "confirm" /\ UNCHANGED <<logVars, owed, erased, overrun>>
        /\ scrub' = Advance(s)
    BY DEF Confirm, Running, Ghosts
  <1>2. scrub.targets # {} /\ scrub \in Runs
    BY <1>1, RunFacts DEF InductiveInv, ScrubStands
  <1>3. n \in Nat
    BY <1>2, RemovedCount
  <1> HIDE DEF n
  <1>4. s \in Runs
    BY <1>2, <1>3, RunFields DEF Runs
  <1>5. s.cred = scrub.cred /\ s.targets = scrub.targets /\ s.snapshot = scrub.snapshot
    BY <1>2 DEF Runs
  <1> HIDE DEF s
  <1> QED
    BY <1>1, <1>2, <1>4, <1>5, AdvancedStands

LEMMA ReceiptStepStands ==
  ASSUME LogAssumption, InductiveInv, Receipt
  PROVE  InductiveInv'
  <1> DEFINE marker == [removed |-> scrub.removed, parts |-> scrub.changed]
             at == IF scrub.at = "receipt" THEN "done" ELSE "failed"
             r == [scrub EXCEPT !.at = at, !.marker = marker]
  <1>1. /\ scrub # None /\ scrub' = r /\ UNCHANGED <<logVars, owed, erased, overrun>>
    BY DEF Receipt, Ghosts
  <1>2. scrub \in Runs /\ at \in ScrubAt /\ at \in {"done", "failed"}
    BY <1>1, RunFacts DEF ScrubAt
  <1>3. marker \in {None} \cup [removed : Nat, parts : SUBSET Names]
    BY <1>2 DEF Runs
  <1> HIDE DEF marker, at
  <1>4. r \in Runs
    BY <1>2, <1>3, RunFields DEF Runs
  <1>5. r.at = at /\ r.cred = scrub.cred /\ r.targets = scrub.targets /\ r.snapshot = scrub.snapshot
    BY <1>2 DEF Runs
  <1> HIDE DEF r
  <1> QED
    BY <1>1, <1>2, <1>4, <1>5, RunFacts, RunStands

LEMMA PublishedRun ==
  ASSUME InductiveInv, Publish
  PROVE  \E r \in Runs : /\ scrub' = r /\ r.cred = scrub.cred /\ r.targets = scrub.targets
                         /\ r.snapshot = scrub.snapshot /\ r.at \in {"confirm", "failed", "failing"}
  <1>0. scrub \in Runs /\ Name \in Names
    BY RunFacts, NameStands DEF Publish, Running, InductiveInv, ScrubStands
  <1>1. CASE Kept # <<>> \/ Name \in DOMAIN parts
    <2> DEFINE r == [scrub EXCEPT !.at = "confirm", !.changed = @ \cup {Name}]
    <2>1. scrub.changed \cup {Name} \in SUBSET Names /\ "confirm" \in ScrubAt
      BY <1>0 DEF Runs, ScrubAt
    <2>2. r \in Runs
      BY <1>0, <2>1, RunFields DEF Runs
    <2>3. r.at = "confirm" /\ r.cred = scrub.cred /\ r.targets = scrub.targets /\ r.snapshot = scrub.snapshot
      BY <1>0 DEF Runs
    <2>4. scrub' = r
      BY <1>1 DEF Publish
    <2> HIDE DEF r
    <2> QED
      BY <2>2, <2>3, <2>4
  <1>2. CASE ~(Kept # <<>> \/ Name \in DOMAIN parts)
    <2>1. scrub' = Failing(scrub)
      BY <1>2 DEF Publish
    <2> QED
      BY <1>0, <2>1, FailedRun
  <1> QED
    BY <1>1, <1>2

LEMMA PublishedParts ==
  ASSUME InductiveInv, Publish
  PROVE  /\ DOMAIN parts' \subseteq DOMAIN parts \cup {Name} /\ parts' \in [DOMAIN parts' -> Seq(Lines)]
         /\ \A name \in DOMAIN parts : name # Name => name \in DOMAIN parts' /\ parts'[name] = parts[name]
         /\ Name \in DOMAIN parts' => Kept # <<>> /\ parts'[Name] = Kept
         /\ Kept # <<>> => Name \in DOMAIN parts'
  <1>0. Kept \in Seq(Lines)
    BY RunFacts, KeptLines DEF Publish, Running
  <1>1. parts \in [DOMAIN parts -> Seq(Lines)]
    BY DEF InductiveInv, TypeOK
  <1>2. CASE Kept # <<>>
    <2>1. parts' = Put(Name, Kept)
      BY <1>2 DEF Publish
    <2> QED
      BY <1>0, <1>1, <1>2, <2>1 DEF Put
  <1>3. CASE Kept = <<>> /\ Name \in DOMAIN parts
    <2>1. parts' = Restrict(parts, DOMAIN parts \ {Name})
      BY <1>3 DEF Publish
    <2>2. parts' = [name \in DOMAIN parts \ {Name} |-> parts[name]]
      BY <2>1 DEF Restrict
    <2> QED
      BY <1>1, <1>3, <2>2
  <1>4. CASE Kept = <<>> /\ Name \notin DOMAIN parts
    <2>1. parts' = parts
      BY <1>4 DEF Publish
    <2> QED
      BY <1>1, <1>4, <2>1
  <1> QED
    BY <1>2, <1>3, <1>4

LEMMA PublishStands ==
  ASSUME LogAssumption, InductiveInv, Publish
  PROVE  InductiveInv'
  <1>1. /\ scrub # None /\ scrub.at = "publish"
        /\ UNCHANGED <<clock, current, size, swept, task, nextRid, acked, faults, owed, erased>>
        /\ overrun' = overrun \cup (ReqsIn(At(Name)) \ ReqsIn(scrub.seen))
    BY DEF Publish, Running, Ghosts
  <1>2. /\ scrub \in Runs /\ scrub.targets # {} /\ scrub.seen = scrub.snapshot /\ scrub.cred = erased
        /\ \A req \in ReqsIn(scrub.snapshot) : req.day = Name[1]
        /\ Range(scrub.snapshot) \subseteq Pool /\ scrub.snapshot \in Seq(Lines)
        /\ \A name \in scrub.targets : name[2] < Spent
    BY <1>1, RunFacts DEF InductiveInv, ScrubStands, Runs
  <1>3. Name \in scrub.targets /\ Name \in Names
    BY <1>2, NameStands
  <1>4. /\ Kept \in Seq(Lines)
        /\ \A line \in Range(scrub.snapshot) : ~Subject(line) => Ended(line) \in Range(Kept)
        /\ \A line \in Range(Kept) :
              \E old \in Range(scrub.snapshot) : ~Subject(old) /\ line = Ended(old)
    BY <1>2, KeptLines
  <1>5. \A line \in Lines : Ended(line).reqs = line.reqs /\ Ended(line).reads = line.reads /\ Ended(line).ended
    BY DEF Ended, Lines
  <1>6. \A line \in Range(scrub.snapshot) : line \in Lines
    BY <1>2 DEF Range
  <1>7. Filed' = Filed /\ Spent' = Spent /\ Filed \in Int
    BY <1>1, FiledBounds DEF InductiveInv, Filed, Spent, Writing
  <1>8. PICK r \in Runs : /\ scrub' = r /\ r.cred = scrub.cred /\ r.targets = scrub.targets
                          /\ r.snapshot = scrub.snapshot /\ r.at \in {"confirm", "failed", "failing"}
    BY PublishedRun
  <1>9. /\ DOMAIN parts' \subseteq DOMAIN parts \cup {Name} /\ parts' \in [DOMAIN parts' -> Seq(Lines)]
        /\ \A name \in DOMAIN parts : name # Name => name \in DOMAIN parts' /\ parts'[name] = parts[name]
        /\ Name \in DOMAIN parts' => Kept # <<>> /\ parts'[Name] = Kept
        /\ Kept # <<>> => Name \in DOMAIN parts'
    BY PublishedParts
  <1>10. ASSUME NEW req \in ReqsIn(At(Name))
         PROVE  req \in OnVolume' \/ req.cred = erased \/ req \in overrun'
    <2>1. CASE req \notin ReqsIn(scrub.snapshot)
      BY <1>1, <1>2, <2>1
    <2>2. CASE req \in ReqsIn(scrub.snapshot)
      <3>1. PICK line \in Range(scrub.snapshot) : req \in line.reqs
        BY <1>2, <2>2, ReqsOf
      <3>2. CASE Subject(line)
        <4>1. PICK one \in line.reqs : line.reads /\ one.cred = erased
          BY <1>2, <3>2 DEF Subject
        <4>2. req = one
          BY <1>2, <3>1, <4>1 DEF InductiveInv, PoolStands
        <4> QED
          BY <4>1, <4>2
      <3>3. CASE ~Subject(line)
        <4>1. Ended(line) \in Range(Kept) /\ req \in Ended(line).reqs
          BY <1>4, <1>5, <1>6, <3>1, <3>3
        <4>2. req \in ReqsIn(Kept) /\ Kept # <<>>
          BY <1>4, <4>1, ReqsOf DEF Range
        <4>3. Name \in DOMAIN parts' /\ parts'[Name] = Kept
          BY <1>9, <4>2
        <4> QED
          BY <4>2, <4>3 DEF OnVolume
      <3> QED
        BY <3>2, <3>3
    <2> QED
      BY <2>1, <2>2
  <1>11. ASSUME NEW req, Accounted(req) PROVE Accounted(req)'
    <2>1. CASE req \in OnVolume
      <3>1. PICK name \in DOMAIN parts : req \in ReqsIn(parts[name])
        BY <2>1, OnVolumeIs
      <3>2. CASE name = Name
        <4>1. req \in OnVolume' \/ req.cred = erased \/ req \in overrun'
          BY <1>10, <3>1, <3>2 DEF At
        <4> QED
          BY <1>1, <4>1 DEF Accounted
      <3>3. CASE name # Name
        <4>1. req \in OnVolume'
          BY <1>9, <3>1, <3>3 DEF OnVolume
        <4> QED
          BY <4>1 DEF Accounted
      <3> QED
        BY <3>2, <3>3
    <2>2. CASE req \notin OnVolume
      BY <1>1, <1>11, <2>2 DEF Accounted
    <2> QED
      BY <2>1, <2>2
  <1>12. LinesAreKept'
    BY <1>1, <1>11 DEF InductiveInv, LinesAreKept
  <1>13. TaskStands'
    <2>1. ASSUME task # None, task.at = "sweep" PROVE Accounted(task.req)'
      <3>1. PICK req : req = task.req /\ Accounted(req)
        BY <2>1 DEF InductiveInv, TaskStands
      <3>2. Accounted(req)' /\ task'.req = req
        BY <1>1, <1>11, <3>1
      <3> QED
        BY <3>1, <3>2
    <2> QED
      BY <1>1, <2>1 DEF InductiveInv, TaskStands
  <1>14. ScrubStands'
    <2>1. Name' = Name
      BY <1>8 DEF Name
    <2> QED
      BY <1>1, <1>2, <1>7, <1>8, <2>1 DEF ScrubStands
  <1>15. ASSUME NEW name \in DOMAIN parts', name # Name PROVE name \in DOMAIN parts /\ parts'[name] = parts[name]
    BY <1>9, <1>15
  <1>16. PartsStand'
    <2>1. ASSUME NEW name \in DOMAIN parts'
          PROVE  name[2] < Spent' /\ \A req \in ReqsIn(parts'[name]) : req.day = name[1]
      <3>1. CASE name = Name
        <4>1. parts'[name] = Kept
          BY <1>9, <3>1
        <4>2. ASSUME NEW req \in ReqsIn(Kept) PROVE req.day = Name[1]
          <5>1. PICK line \in Range(Kept) : req \in line.reqs
            BY <1>4, ReqsOf
          <5>2. PICK old \in Range(scrub.snapshot) : line = Ended(old)
            BY <1>4
          <5>3. req \in ReqsIn(scrub.snapshot)
            BY <1>2, <1>5, <1>6, <5>1, <5>2, ReqsOf
          <5> QED
            BY <1>2, <5>3
        <4> QED
          BY <1>2, <1>3, <1>7, <3>1, <4>1, <4>2
      <3>2. CASE name # Name
        BY <1>7, <1>15, <3>2 DEF InductiveInv, PartsStand
      <3> QED
        BY <3>1, <3>2
    <2> QED
      BY <1>1, <1>7, <2>1 DEF InductiveInv, PartsStand
  <1>17. TypeOK'
    <2>1. DOMAIN parts' \subseteq Names
      BY <1>3, <1>9 DEF InductiveInv, TypeOK
    <2>2. ReqsIn(At(Name)) \subseteq Requests
      <3>1. At(Name) \in Seq(Lines)
        BY AtLines DEF InductiveInv
      <3>2. \A line \in Range(At(Name)) : line.reqs \subseteq Requests
        <4>1. \A line \in Range(At(Name)) : line \in Lines
          BY <3>1 DEF Range
        <4> QED
          BY <4>1 DEF Lines
      <3> QED
        BY <3>1, <3>2, ReqsOf
    <2>3. overrun' \subseteq Requests
      BY <1>1, <2>2 DEF InductiveInv, TypeOK
    <2> QED
      BY <1>1, <1>8, <1>9, <2>1, <2>3 DEF InductiveInv, TypeOK
  <1>18. PoolStands'
    <2>1. ASSUME NEW line \in Pool'
          PROVE  \E old \in Pool : line.reqs = old.reqs /\ line.reads = old.reads /\ (old.ended => line.ended)
      <3>1. (\E name \in DOMAIN parts' : line \in Range(parts'[name])) \/ line \in Range(scrub.snapshot)
        <4>1. line \in ((UNION {Range(parts'[name]) : name \in DOMAIN parts'})
                          \cup (IF scrub' = None THEN {} ELSE Range(scrub.snapshot)))
          BY <1>8 DEF Pool
        <4> QED
          BY <4>1
      <3>2. CASE line \in Range(scrub.snapshot)
        BY <1>2, <3>2
      <3>3. ASSUME NEW name \in DOMAIN parts', line \in Range(parts'[name])
            PROVE  \E old \in Pool : line.reqs = old.reqs /\ line.reads = old.reads /\ (old.ended => line.ended)
        <4>1. CASE name = Name
          <5>1. PICK old \in Range(scrub.snapshot) : line = Ended(old)
            BY <1>4, <1>9, <3>3, <4>1
          <5> QED
            BY <1>2, <1>5, <1>6, <5>1
        <4>2. CASE name # Name
          <5>1. line \in Pool
            BY <1>15, <3>3, <4>2, InPool
          <5> QED
            BY <5>1
        <4> QED
          BY <4>1, <4>2
      <3> QED
        BY <3>1, <3>2, <3>3
    <2> QED
      BY <1>7, <1>17, <2>1, PoolKept DEF InductiveInv
  <1> QED
    BY <1>12, <1>13, <1>14, <1>16, <1>17, <1>18 DEF InductiveInv

LEMMA LogStarts ==
  ASSUME LogAssumption, Init
  PROVE  InductiveInv
  <1> USE DEF Init, LogInit
  <1>1. DOMAIN parts = {} /\ parts \in [DOMAIN parts -> Seq(Lines)]
    OBVIOUS
  <1>2. TypeOK
    BY <1>1 DEF TypeOK, LogAssumption
  <1>3. PoolStands
    <2>1. Pool = {}
      BY <1>1 DEF Pool
    <2> QED
      BY <2>1 DEF PoolStands
  <1> QED
    BY <1>1, <1>2, <1>3 DEF InductiveInv, PartsStand, TaskStands, ScrubStands, LinesAreKept

LEMMA StepStands ==
  ASSUME LogAssumption, InductiveInv, [Next]_vars
  PROVE  InductiveInv'
  <1>1. ASSUME LogNext, UNCHANGED <<scrub, Ghosts, overrun>> PROVE InductiveInv'
    <2>1. UNCHANGED <<scrub, owed, erased, overrun>>
      BY <1>1 DEF Ghosts
    <2>2. ASSUME NEW cred \in Creds, NEW day \in 0..LastDay, Record(cred, day) PROVE InductiveInv'
      BY <2>1, <2>2, RecordStands
    <2> QED
      BY <1>1, <2>1, <2>2, TickStands, SettleStands, AppendLineStands, AppendShortStands, SweepStands,
         SweepFailsStands, RestartStands DEF LogNext
  <1>2. ASSUME ScrubNext PROVE InductiveInv'
    BY <1>2, BeginStands, ReadPartStands, FilterStands, CompareStands, PublishStands, ConfirmStands,
       ReceiptStepStands DEF ScrubNext
  <1>3. ASSUME UNCHANGED vars PROVE InductiveInv'
    <2> USE <1>3 DEF vars, logVars
    <2>1. TypeOK'
      BY DEF InductiveInv, TypeOK
    <2>2. Filed <= Filed' /\ Spent <= Spent' /\ clock <= clock'
      <3>1. Filed' = Filed /\ Spent' = Spent /\ clock' = clock
        BY DEF Filed, Spent, Writing
      <3>2. Filed \in Int /\ Spent \in Int /\ clock \in Int
        BY FiledBounds DEF InductiveInv
      <3> QED
        BY <3>1, <3>2
    <2>3. TaskStands'
      <3>1. OnVolume' = OnVolume
        BY DEF OnVolume
      <3> QED
        BY <3>1 DEF InductiveInv, TaskStands, Accounted
    <2>4. current' # None => current'[2] < Spent'
      <3>1. Spent' = Spent
        BY DEF Spent, Writing
      <3> QED
        BY <3>1 DEF InductiveInv, PartsStand
    <2> QED
      BY <2>1, <2>2, <2>3, <2>4, QuietStands
  <1> QED
    BY <1>1, <1>2, <1>3 DEF Next

\* A step in which no part gains a request the run owes, the run staying where it was.
LEMMA OwedKept ==
  ASSUME LogAssumption, InductiveInv, InductiveInv', OwedStands, UNCHANGED <<scrub, owed, erased>>, Filed <= Filed',
         \A line \in Pool' : line.reqs \cap owed.readable # {} => line.reads,
         \A name \in DOMAIN parts' : ReqsIn(parts'[name]) \cap owed.readable # {} =>
            name \in DOMAIN parts /\ ReqsIn(parts'[name]) \cap owed.readable \subseteq ReqsIn(parts[name])
  PROVE  OwedStands'
  <1>1. ASSUME NEW req \in owed.readable PROVE req.cred = erased /\ req.rid < Filed'
    <2>1. req \in Requests /\ req.rid \in Int
      BY DEF InductiveInv, TypeOK, Requests
    <2>2. Filed \in Int /\ Filed' \in Int
      BY FiledBounds DEF InductiveInv, TypeOK, Filed
    <2> QED
      BY <2>1, <2>2 DEF OwedStands
  <1>2. Name' = Name /\ Pending' = Pending
    BY DEF Name, Pending
  <1>3. ASSUME scrub # None, scrub.at \notin {"failing", "failed"}
        PROVE  /\ \A name \in DOMAIN parts' : ReqsIn(parts'[name]) \cap owed.readable # {} => name \in Pending
               /\ scrub.at \in {"filter", "compare", "publish"} =>
                     ReqsIn(At(Name))' \cap owed.readable \subseteq ReqsIn(scrub.snapshot)
    <2>1. \A name \in DOMAIN parts' : ReqsIn(parts'[name]) \cap owed.readable # {} => name \in Pending
      <3> SUFFICES ASSUME NEW name \in DOMAIN parts', ReqsIn(parts'[name]) \cap owed.readable # {}
                   PROVE  name \in Pending
        OBVIOUS
      <3>1. name \in DOMAIN parts /\ ReqsIn(parts[name]) \cap owed.readable # {}
        OBVIOUS
      <3> QED
        BY <1>3, <3>1 DEF OwedStands
    <2>2. ReqsIn(At(Name))' \cap owed.readable \subseteq ReqsIn(At(Name))
      <3>1. CASE Name \in DOMAIN parts'
        <4>1. At(Name)' = parts'[Name]
          BY <1>2, <3>1 DEF At
        <4> QED
          BY <3>1, <4>1 DEF At
      <3>2. CASE Name \notin DOMAIN parts'
        <4>1. At(Name)' = <<>>
          BY <1>2, <3>2 DEF At
        <4>2. ReqsIn(<<>>) = {}
          BY DEF ReqsIn
        <4>3. ReqsIn(At(Name))' = ReqsIn(<<>>)
          BY <4>1 DEF ReqsIn
        <4> QED
          BY <4>2, <4>3
      <3> QED
        BY <3>1, <3>2
    <2> QED
      BY <1>3, <2>1, <2>2 DEF OwedStands
  <1> QED
    BY <1>1, <1>2, <1>3 DEF OwedStands

LEMMA OwedQuiet ==
  ASSUME LogAssumption, InductiveInv, InductiveInv', OwedStands,
         UNCHANGED <<parts, scrub, owed, erased>>, Filed <= Filed'
  PROVE  OwedStands'
  <1>1. Pool' = Pool
    BY DEF Pool
  <1> QED
    BY <1>1, OwedKept DEF OwedStands

LEMMA OwedAppend ==
  ASSUME LogAssumption, InductiveInv, InductiveInv', OwedStands, UNCHANGED <<scrub, owed, erased, nextRid>>,
         task # None, task.at = "append", NEW line \in Lines, line.reqs = {task.req},
         parts' = Put(current, Appended(At(current), line)), task' = None \/ task'.at = "sweep"
  PROVE  OwedStands'
  <1>0. PICK req : req = task.req /\ line.reqs = {req}
    OBVIOUS
  <1> DEFINE new == Appended(At(current), line)
  <1>1. req.rid = nextRid - 1 /\ nextRid \in Nat /\ Filed = nextRid - 1 /\ Filed' = nextRid
    <2>1. req.rid = nextRid - 1 /\ nextRid \in Nat /\ Filed = nextRid - 1
      BY <1>0, FiledBounds DEF InductiveInv, TaskStands, Writing
    <2>2. ~Writing'
      BY DEF Writing
    <2> QED
      BY <2>1, <2>2 DEF Filed
  <1>2. req \notin owed.readable
    BY <1>1 DEF OwedStands
  <1>3. At(current) \in Seq(Lines) /\ (current \notin DOMAIN parts => Range(At(current)) = {})
        /\ (current \in DOMAIN parts => At(current) = parts[current])
    BY AtLines DEF InductiveInv, At
  <1>4. /\ new \in Seq(Lines) /\ ReqsIn(new) = ReqsIn(At(current)) \cup {req}
        /\ \/ \A one \in Range(new) : one \in Range(At(current)) \/ one = line
           \/ \E last \in Range(At(current)) :
                 ~last.ended /\ \A one \in Range(new) :
                    one \in Range(At(current)) \/ (one.reqs = last.reqs \cup {req} /\ one.reads = FALSE)
    <2>1. At(current) \in Seq(Lines) /\ line \in Lines /\ line.reqs = {req}
      BY <1>0, <1>3
    <2>2. /\ new \in Seq(Lines)
          /\ \/ \A one \in Range(new) : one \in Range(At(current)) \/ one = line
             \/ \E last \in Range(At(current)) :
                   ~last.ended /\ \A one \in Range(new) :
                      one \in Range(At(current)) \/ (one.reqs = last.reqs \cup line.reqs /\ one.reads = FALSE)
          /\ ReqsIn(new) = ReqsIn(At(current)) \cup line.reqs
      BY <2>1, AppendedLines, Zenon
    <2> HIDE DEF new
    <2> QED
      BY <2>1, <2>2
  <1> HIDE DEF new
  <1>5. /\ DOMAIN parts' = DOMAIN parts \cup {current} /\ parts'[current] = new
        /\ \A name \in DOMAIN parts : name # current => parts'[name] = parts[name]
    BY DEF Put, new
  <1>6. Range(At(current)) \subseteq Pool
    BY <1>3, InPool
  <1>7. ASSUME NEW one \in Pool' PROVE one \in Pool \/ one \in Range(new)
    <2>1. \/ \E name \in DOMAIN parts' : one \in Range(parts'[name])
          \/ scrub # None /\ one \in Range(scrub.snapshot)
      <3>1. one \in ((UNION {Range(parts'[name]) : name \in DOMAIN parts'})
                        \cup (IF scrub = None THEN {} ELSE Range(scrub.snapshot)))
        BY DEF Pool
      <3> QED
        BY <3>1
    <2> QED
      BY <1>5, <2>1, InPool
  <1>8. ASSUME NEW one \in Pool', one.reqs \cap owed.readable # {} PROVE one.reads
    <2>1. CASE one \in Pool
      BY <1>8, <2>1 DEF OwedStands
    <2>2. CASE one = line
      BY <1>0, <1>2, <1>8, <2>2
    <2>3. ASSUME NEW last \in Pool, ~last.ended, one.reqs = last.reqs \cup {req} PROVE FALSE
      <3>1. last.reqs \cap owed.readable # {}
        BY <1>2, <1>8, <2>3
      <3> QED
        BY <2>3, <3>1 DEF OwedStands, InductiveInv, PoolStands
    <2> QED
      BY <1>4, <1>6, <1>7, <2>1, <2>2, <2>3
  <1>9. ASSUME NEW name \in DOMAIN parts', ReqsIn(parts'[name]) \cap owed.readable # {}
        PROVE  name \in DOMAIN parts /\ ReqsIn(parts'[name]) \cap owed.readable \subseteq ReqsIn(parts[name])
    <2>1. CASE name = current
      <3>1. ReqsIn(parts'[name]) \cap owed.readable \subseteq ReqsIn(At(current))
        BY <1>2, <1>4, <1>5, <2>1
      <3>2. current \in DOMAIN parts
        BY <1>3, <1>9, <3>1, ReqsOf
      <3> QED
        BY <1>3, <2>1, <3>1, <3>2
    <2>2. CASE name # current
      BY <1>5, <1>9, <2>2
    <2> QED
      BY <2>1, <2>2
  <1>10. Filed <= Filed'
    BY <1>1
  <1> QED
    BY <1>8, <1>9, <1>10, OwedKept

LEMMA OwedSwept ==
  ASSUME LogAssumption, InductiveInv, InductiveInv', OwedStands, NEW kept \in SUBSET DOMAIN parts,
         parts' = Restrict(parts, kept), UNCHANGED <<scrub, owed, erased>>, Filed <= Filed'
  PROVE  OwedStands'
  <1>1. DOMAIN parts' = kept /\ \A name \in kept : parts'[name] = parts[name]
    BY RestrictedIs
  <1>2. \A line \in Pool' : line \in Pool
    <2> SUFFICES ASSUME NEW line \in Pool' PROVE line \in Pool
      OBVIOUS
    <2>1. \/ \E name \in DOMAIN parts' : line \in Range(parts'[name])
          \/ scrub # None /\ line \in Range(scrub.snapshot)
      <3>1. line \in ((UNION {Range(parts'[name]) : name \in DOMAIN parts'})
                        \cup (IF scrub = None THEN {} ELSE Range(scrub.snapshot)))
        BY DEF Pool
      <3> QED
        BY <3>1
    <2> QED
      BY <1>1, <2>1, InPool
  <1> QED
    BY <1>1, <1>2, OwedKept DEF OwedStands

LEMMA OwedLog ==
  ASSUME LogAssumption, InductiveInv, InductiveInv', OwedStands, LogNext, UNCHANGED <<scrub, owed, erased>>
  PROVE  OwedStands'
  <1>1. Filed \in Int /\ nextRid \in Nat /\ Filed <= nextRid
    BY FiledBounds DEF InductiveInv
  <1>2. ASSUME NEW cred \in Creds, NEW day \in 0..LastDay, Record(cred, day) PROVE OwedStands'
    <2>1. UNCHANGED parts /\ Filed <= Filed'
      BY <1>1, <1>2 DEF Record, Filed, Writing
    <2> QED
      BY <2>1, OwedQuiet
  <1>3. CASE Tick
    <2>1. UNCHANGED parts /\ Filed' = Filed
      BY <1>3 DEF Tick, Filed, Writing
    <2> QED
      BY <1>1, <2>1, OwedQuiet
  <1>4. CASE Settle
    <2>1. UNCHANGED parts /\ Filed <= Filed'
      BY <1>1, <1>4 DEF Settle, Filed, Writing
    <2> QED
      BY <2>1, OwedQuiet
  <1>5. CASE Restart
    <2>1. UNCHANGED parts /\ Filed' = nextRid
      BY <1>5 DEF Restart, Filed, Writing
    <2> QED
      BY <1>1, <2>1, OwedQuiet
  <1>6. CASE AppendLine
    <2>1. /\ task # None /\ task.at = "append" /\ parts' = Put(current, Appended(At(current), Line(task.req)))
          /\ task' = [task EXCEPT !.at = "sweep"] /\ nextRid' = nextRid
      BY <1>6 DEF AppendLine
    <2>2. task \in [at : {"settle", "append", "sweep"}, req : Requests]
      BY <2>1 DEF InductiveInv, TypeOK
    <2>3. Line(task.req) \in Lines /\ Line(task.req).reqs = {task.req} /\ task'.at = "sweep"
      BY <2>1, <2>2 DEF Line, Lines
    <2> QED
      BY <2>1, <2>3, OwedAppend
  <1>7. CASE AppendShort
    <2>1. /\ task # None /\ task.at = "append" /\ parts' = Put(current, Appended(At(current), Torn(task.req)))
          /\ task' = None /\ nextRid' = nextRid
      BY <1>7 DEF AppendShort
    <2>2. task \in [at : {"settle", "append", "sweep"}, req : Requests]
      BY <2>1 DEF InductiveInv, TypeOK
    <2>3. Torn(task.req) \in Lines /\ Torn(task.req).reqs = {task.req}
      BY <2>1, <2>2 DEF Torn, Lines
    <2> QED
      BY <2>1, <2>3, OwedAppend
  <1>8. CASE Sweep
    <2>1. Filed <= Filed'
      <3>1. Filed' = nextRid
        BY <1>8 DEF Sweep, Filed, Writing
      <3> QED
        BY <1>1, <3>1
    <2>2. CASE swept = task.req.day
      <3>1. UNCHANGED parts
        BY <1>8, <2>2 DEF Sweep
      <3> QED
        BY <2>1, <3>1, OwedQuiet
    <2>3. CASE swept # task.req.day
      <3>1. parts' = Restrict(parts, {n \in DOMAIN parts : ~(Matched(n) /\ Aged(n))})
        BY <1>8, <2>3 DEF Sweep
      <3> QED
        BY <2>1, <3>1, OwedSwept
    <2> QED
      BY <2>2, <2>3
  <1>9. CASE SweepFails
    <2>1. Filed' = nextRid
      BY <1>9 DEF SweepFails, Filed, Writing
    <2>2. PICK gone \in SUBSET {n \in Listed : Aged(n)} : parts' = Restrict(parts, DOMAIN parts \ gone)
      BY <1>9 DEF SweepFails
    <2> QED
      BY <1>1, <2>1, <2>2, OwedSwept
  <1> QED
    BY <1>2, <1>3, <1>4, <1>5, <1>6, <1>7, <1>8, <1>9 DEF LogNext

LEMMA OwedRun ==
  ASSUME InductiveInv, OwedStands, scrub # None, UNCHANGED <<logVars, owed, erased>>,
         NEW r \in Runs, scrub' = r, Range(r.snapshot) \subseteq Pool,
         r.at \notin {"failing", "failed"} =>
            \A name \in DOMAIN parts : ReqsIn(parts[name]) \cap owed.readable # {} => name \in Pending',
         r.at \in {"filter", "compare", "publish"} =>
            r.targets = scrub.targets /\ ReqsIn(At(Name)) \cap owed.readable \subseteq ReqsIn(r.snapshot)
  PROVE  OwedStands'
  <1>1. Filed' = Filed
    BY DEF logVars, Filed, Writing
  <1>2. \A line \in Pool' : line \in Pool
    <2> SUFFICES ASSUME NEW line \in Pool' PROVE line \in Pool
      OBVIOUS
    <2>1. (\E name \in DOMAIN parts : line \in Range(parts[name])) \/ line \in Range(r.snapshot)
      <3>1. line \in ((UNION {Range(parts[name]) : name \in DOMAIN parts})
                        \cup (IF scrub' = None THEN {} ELSE Range(r.snapshot)))
        BY DEF Pool, logVars
      <3> QED
        BY <3>1
    <2> QED
      BY <2>1, InPool
  <1>3. r.targets = scrub.targets => At(Name)' = At(Name)
    BY DEF At, Name, logVars
  <1>4. r.targets = scrub.targets => ReqsIn(At(Name))' = ReqsIn(At(Name))
    BY <1>3 DEF ReqsIn
  <1> QED
    BY <1>1, <1>2, <1>4 DEF OwedStands, logVars

LEMMA OwedFailed ==
  ASSUME InductiveInv, OwedStands, scrub # None, UNCHANGED <<logVars, owed, erased>>, scrub' = Failing(scrub)
  PROVE  OwedStands'
  <1> DEFINE r == Failing(scrub)
  <1>1. scrub' = r
    OBVIOUS
  <1> HIDE DEF r
  <1>2. r \in Runs /\ r.at \in {"failed", "failing"} /\ r.snapshot = scrub.snapshot
    BY FailedRun, RunFacts DEF r
  <1> QED
    BY <1>1, <1>2, RunFacts, OwedRun

\* The part a run is done with holds none of what it owes.
LEMMA OwedAdvanced ==
  ASSUME InductiveInv, OwedStands, scrub # None, UNCHANGED <<logVars, owed, erased>>, NEW s \in Runs,
         s.targets = scrub.targets, s.snapshot = scrub.snapshot, scrub.targets # {}, scrub' = Advance(s),
         \A name \in DOMAIN parts : ReqsIn(parts[name]) \cap owed.readable # {} =>
            name \in scrub.targets \ {Name}
  PROVE  OwedStands'
  <1> DEFINE r == Advance(s)
  <1>1. scrub' = r
    OBVIOUS
  <1> HIDE DEF r
  <1>2. /\ r \in Runs /\ r.snapshot = scrub.snapshot
        /\ r.at \in {"done", "receipt"} \/ (r.at = "read" /\ r.targets = scrub.targets \ {Name})
        /\ r.at \in {"done", "receipt"} => scrub.targets = {Name}
    BY AdvancedRun DEF r
  <1>3. \A name \in DOMAIN parts : ReqsIn(parts[name]) \cap owed.readable # {} => name \in Pending'
    BY <1>1, <1>2 DEF Pending
  <1> QED
    BY <1>1, <1>2, <1>3, RunFacts, OwedRun

\* A request that is owed and stands on a line of the snapshot makes the line the subject's.
LEMMA OwedSubject ==
  ASSUME InductiveInv, OwedStands, scrub # None, NEW line \in Range(scrub.snapshot),
         line.reqs \cap owed.readable # {}
  PROVE  Subject(line)
  <1>1. PICK req \in line.reqs : req \in owed.readable
    OBVIOUS
  <1>2. line.reads /\ req.cred = scrub.cred
    BY <1>1, RunFacts DEF OwedStands
  <1> QED
    BY <1>1, <1>2 DEF Subject

\* Every part on the volume has a name its writer and the scrub list.
AllMatched == \A name \in DOMAIN parts : Matched(name)

\* A run works on parts it listed.
TargetsMatch == scrub # None => \A name \in scrub.targets : Matched(name)

LEMMA OwedBegin ==
  ASSUME InductiveInv, OwedStands, AllMatched, NEW cred \in Creds, Begin(cred)
  PROVE  OwedStands'
  <1> DEFINE r == [at |-> "read", cred |-> cred, targets |-> Listed, snapshot |-> <<>>,
                   attempt |-> 1, seen |-> <<>>, removed |-> 0, changed |-> {}, marker |-> None]
  <1>1. /\ scrub' = r /\ erased' = cred /\ UNCHANGED logVars
        /\ owed' = [recorded |-> {req \in acked \cap OnVolume : req.cred = cred},
                    readable |-> {req \in OnVolume : req.cred = cred /\ OnReadableLine(req)}]
    BY DEF Begin
  <1>2. Filed' = Filed /\ UNCHANGED parts
    BY <1>1 DEF logVars, Filed, Writing
  <1>3. ASSUME NEW req \in owed'.readable
        PROVE  req.cred = cred /\ \E line \in Pool : line.reads /\ req \in line.reqs
    <2>1. req.cred = cred /\ OnReadableLine(req)
      BY <1>1
    <2>2. PICK name \in DOMAIN parts :
             \E i \in DOMAIN parts[name] : parts[name][i].reads /\ req \in parts[name][i].reqs
      BY <2>1 DEF OnReadableLine
    <2>3. PICK i \in DOMAIN parts[name] : parts[name][i].reads /\ req \in parts[name][i].reqs
      BY <2>2
    <2>4. parts[name][i] \in Pool
      BY <2>3, InPool DEF Range
    <2> QED
      BY <2>1, <2>3, <2>4
  <1>4. \A req \in owed'.readable : req.cred = erased' /\ req.rid < Filed'
    BY <1>1, <1>2, <1>3 DEF InductiveInv, PoolStands
  <1>5. r.at = "read" /\ r.targets = Listed /\ r.snapshot = <<>>
    OBVIOUS
  <1> HIDE DEF r
  <1>6. \A line \in Pool' : line \in Pool
    <2> SUFFICES ASSUME NEW line \in Pool' PROVE line \in Pool
      OBVIOUS
    <2>1. (\E name \in DOMAIN parts : line \in Range(parts[name])) \/ line \in Range(<<>>)
      <3>1. line \in ((UNION {Range(parts[name]) : name \in DOMAIN parts})
                        \cup (IF scrub' = None THEN {} ELSE Range(<<>>)))
        BY <1>1, <1>2, <1>5 DEF Pool
      <3> QED
        BY <3>1
    <2>2. Range(<<>>) = {}
      BY DEF Range
    <2> QED
      BY <2>1, <2>2, InPool
  <1>7. \A line \in Pool' : line.reqs \cap owed'.readable # {} => line.reads
    <2> SUFFICES ASSUME NEW line \in Pool, NEW req \in line.reqs, req \in owed'.readable PROVE line.reads
      BY <1>6
    <2>1. PICK read \in Pool : read.reads /\ req \in read.reqs
      BY <1>3
    <2>2. line \in Lines
      BY InPool DEF InductiveInv, TypeOK, Runs, Range
    <2>3. line.reads \in BOOLEAN
      BY <2>2 DEF Lines
    <2> QED
      BY <2>1, <2>3 DEF InductiveInv, PoolStands
  <1>8. \A name \in DOMAIN parts' : name \in Pending'
    <2>1. \A name \in DOMAIN parts : name \in Listed
      BY DEF AllMatched, Listed
    <2>2. Pending' = Listed
      BY <1>1, <1>5 DEF Pending
    <2> QED
      BY <1>2, <2>1, <2>2
  <1> QED
    BY <1>1, <1>4, <1>5, <1>7, <1>8 DEF OwedStands

LEMMA OwedReadPart ==
  ASSUME InductiveInv, OwedStands, ReadPart
  PROVE  OwedStands'
  <1>1. /\ scrub # None /\ scrub.at = "read" /\ UNCHANGED <<logVars, owed, erased>>
        /\ scrub' = IF Name \notin DOMAIN parts THEN Failing(scrub)
                    ELSE [scrub EXCEPT !.snapshot = parts[Name], !.at = "filter"]
    BY DEF ReadPart, Running, Ghosts
  <1>2. CASE Name \notin DOMAIN parts
    BY <1>1, <1>2, OwedFailed
  <1>3. CASE Name \in DOMAIN parts
    <2> DEFINE r == [scrub EXCEPT !.snapshot = parts[Name], !.at = "filter"]
    <2>1. scrub' = r
      BY <1>1, <1>3
    <2>2. parts[Name] \in Seq(Lines) /\ "filter" \in ScrubAt /\ scrub \in Runs
      BY <1>1, <1>3, RunFacts DEF ScrubAt
    <2>3. r \in Runs
      BY <2>2, RunFields DEF Runs
    <2>4. r.at = "filter" /\ r.targets = scrub.targets /\ r.snapshot = parts[Name]
      BY <2>2 DEF Runs
    <2> HIDE DEF r
    <2>5. Pending' = scrub.targets /\ Pending = scrub.targets
      BY <1>1, <2>1, <2>4 DEF Pending
    <2>6. At(Name) = parts[Name]
      BY <1>3 DEF At
    <2> QED
      BY <1>1, <1>3, <2>1, <2>3, <2>4, <2>5, <2>6, RunFacts, OwedRun DEF OwedStands
  <1> QED
    BY <1>2, <1>3

LEMMA OwedFilter ==
  ASSUME InductiveInv, OwedStands, Filter
  PROVE  OwedStands'
  <1>1. /\ scrub # None /\ scrub.at = "filter" /\ UNCHANGED <<logVars, owed, erased>>
        /\ \/ scrub' = Failing(scrub)
           \/ (\A i \in DOMAIN scrub.snapshot : ~Subject(scrub.snapshot[i])) /\ scrub' = Advance(scrub)
           \/ scrub' = [scrub EXCEPT !.at = "compare"]
    BY DEF Filter, Running, Ghosts
  <1>2. scrub.targets # {} /\ scrub \in Runs /\ "compare" \in ScrubAt
    BY <1>1, RunFacts DEF InductiveInv, ScrubStands, ScrubAt
  <1>3. Pending = scrub.targets
    BY <1>1 DEF Pending
  <1>4. CASE scrub' = Failing(scrub)
    BY <1>1, <1>4, OwedFailed
  <1>5. CASE (\A i \in DOMAIN scrub.snapshot : ~Subject(scrub.snapshot[i])) /\ scrub' = Advance(scrub)
    <2>1. ReqsIn(scrub.snapshot) \cap owed.readable = {}
      <3> SUFFICES ASSUME NEW req \in ReqsIn(scrub.snapshot), req \in owed.readable PROVE FALSE
        OBVIOUS
      <3>1. PICK i \in DOMAIN scrub.snapshot : req \in scrub.snapshot[i].reqs
        BY DEF ReqsIn
      <3>2. scrub.snapshot[i] \in Range(scrub.snapshot)
        BY <3>1 DEF Range
      <3> QED
        BY <1>1, <1>5, <3>1, <3>2, OwedSubject
    <2>2. ReqsIn(At(Name)) \cap owed.readable = {}
      BY <1>1, <2>1 DEF OwedStands
    <2>3. \A name \in DOMAIN parts : ReqsIn(parts[name]) \cap owed.readable # {} => name \in scrub.targets \ {Name}
      BY <1>1, <1>3, <2>2 DEF OwedStands, At
    <2> QED
      BY <1>1, <1>2, <1>5, <2>3, OwedAdvanced
  <1>6. CASE scrub' = [scrub EXCEPT !.at = "compare"]
    <2> DEFINE r == [scrub EXCEPT !.at = "compare"]
    <2>1. r \in Runs /\ r.at = "compare" /\ r.targets = scrub.targets /\ r.snapshot = scrub.snapshot
      BY <1>2, MovedRun
    <2>2. scrub' = r
      BY <1>6
    <2> HIDE DEF r
    <2>3. Pending' = scrub.targets
      BY <2>1, <2>2 DEF Pending
    <2> QED
      BY <1>1, <1>3, <2>1, <2>2, <2>3, RunFacts, OwedRun DEF OwedStands
  <1> QED
    BY <1>1, <1>4, <1>5, <1>6

LEMMA OwedCompare ==
  ASSUME InductiveInv, OwedStands, Compare
  PROVE  OwedStands'
  <1>1. /\ scrub # None /\ scrub.at = "compare" /\ UNCHANGED <<logVars, owed, erased>>
        /\ scrub' = IF Name \notin DOMAIN parts THEN Failing(scrub)
                    ELSE IF HoldsStill THEN [scrub EXCEPT !.at = "publish", !.seen = parts[Name]]
                    ELSE IF Kept = <<>>
                    THEN [scrub EXCEPT !.at = "filter", !.snapshot = parts[Name], !.attempt = @ + 1]
                    ELSE [scrub EXCEPT !.at = "read", !.attempt = @ + 1]
    BY DEF Compare, Running, Ghosts
  <1>2. scrub \in Runs /\ {"filter", "publish", "read"} \subseteq ScrubAt /\ scrub.attempt + 1 \in Nat
    BY <1>1, RunFacts DEF ScrubAt, Runs
  <1>3. Pending = scrub.targets
    BY <1>1 DEF Pending
  <1>4. CASE Name \notin DOMAIN parts
    BY <1>1, <1>4, OwedFailed
  <1>5. CASE Name \in DOMAIN parts
    <2>1. At(Name) = parts[Name] /\ parts[Name] \in Seq(Lines)
      BY <1>1, <1>5, RunFacts DEF At
    <2>2. PICK r \in Runs : /\ scrub' = r /\ r.targets = scrub.targets /\ r.at \in {"filter", "publish", "read"}
                            /\ r.snapshot = scrub.snapshot \/ r.snapshot = parts[Name]
      <3>1. CASE HoldsStill
        <4> DEFINE r == [scrub EXCEPT !.at = "publish", !.seen = parts[Name]]
        <4>1. r \in Runs
          BY <1>2, <2>1, RunFields DEF Runs
        <4>2. r.at = "publish" /\ r.targets = scrub.targets /\ r.snapshot = scrub.snapshot
          BY <1>2 DEF Runs
        <4>3. scrub' = r
          BY <1>1, <1>5, <3>1
        <4> HIDE DEF r
        <4> QED
          BY <4>1, <4>2, <4>3
      <3>2. CASE ~HoldsStill /\ Kept = <<>>
        <4> DEFINE r == [scrub EXCEPT !.at = "filter", !.snapshot = parts[Name], !.attempt = @ + 1]
        <4>1. r \in Runs
          BY <1>2, <2>1, RunFields DEF Runs
        <4>2. r.at = "filter" /\ r.targets = scrub.targets /\ r.snapshot = parts[Name]
          BY <1>2 DEF Runs
        <4>3. scrub' = r
          BY <1>1, <1>5, <3>2
        <4> HIDE DEF r
        <4> QED
          BY <4>1, <4>2, <4>3
      <3>3. CASE ~HoldsStill /\ Kept # <<>>
        <4> DEFINE r == [scrub EXCEPT !.at = "read", !.attempt = @ + 1]
        <4>1. r \in Runs
          BY <1>2, RunFields DEF Runs
        <4>2. r.at = "read" /\ r.targets = scrub.targets /\ r.snapshot = scrub.snapshot
          BY <1>2 DEF Runs
        <4>3. scrub' = r
          BY <1>1, <1>5, <3>3
        <4> HIDE DEF r
        <4> QED
          BY <4>1, <4>2, <4>3
      <3> QED
        BY <3>1, <3>2, <3>3
    <2>3. Pending' = scrub.targets
      BY <2>2 DEF Pending
    <2>4. ReqsIn(At(Name)) \cap owed.readable \subseteq ReqsIn(r.snapshot)
      BY <1>1, <2>1, <2>2 DEF OwedStands
    <2> QED
      BY <1>1, <1>3, <1>5, <2>2, <2>3, <2>4, RunFacts, OwedRun DEF OwedStands
  <1> QED
    BY <1>4, <1>5

LEMMA OwedConfirm ==
  ASSUME InductiveInv, OwedStands, Confirm
  PROVE  OwedStands'
  <1> DEFINE gone == Held(scrub.snapshot) - Held(At(Name))
             n == scrub.removed + (IF gone > 0 THEN gone ELSE 0)
             s == [scrub EXCEPT !.removed = n]
  <1>1. /\ scrub # None /\ scrub.at = "confirm" /\ UNCHANGED <<logVars, owed, erased>>
        /\ scrub' = Advance(s)
    BY DEF Confirm, Running, Ghosts
  <1>2. scrub.targets # {} /\ scrub \in Runs
    BY <1>1, RunFacts DEF InductiveInv, ScrubStands
  <1>3. n \in Nat
    BY <1>2, RemovedCount
  <1> HIDE DEF n
  <1>4. s \in Runs
    BY <1>2, <1>3, RunFields DEF Runs
  <1>5. s.targets = scrub.targets /\ s.snapshot = scrub.snapshot
    BY <1>2 DEF Runs
  <1> HIDE DEF s
  <1>6. \A name \in DOMAIN parts : ReqsIn(parts[name]) \cap owed.readable # {} => name \in scrub.targets \ {Name}
    BY <1>1 DEF OwedStands, Pending
  <1> QED
    BY <1>1, <1>2, <1>4, <1>5, <1>6, OwedAdvanced

LEMMA OwedReceipt ==
  ASSUME InductiveInv, OwedStands, Receipt
  PROVE  OwedStands'
  <1> DEFINE marker == [removed |-> scrub.removed, parts |-> scrub.changed]
             at == IF scrub.at = "receipt" THEN "done" ELSE "failed"
             r == [scrub EXCEPT !.at = at, !.marker = marker]
  <1>1. /\ scrub # None /\ scrub.at \in {"receipt", "failing"} /\ scrub' = r /\ UNCHANGED <<logVars, owed, erased>>
    BY DEF Receipt, Ghosts
  <1>2. /\ scrub \in Runs /\ at \in ScrubAt /\ at \in {"done", "failed"}
        /\ at = "done" => scrub.at = "receipt"
    BY <1>1, RunFacts DEF ScrubAt
  <1>3. marker \in {None} \cup [removed : Nat, parts : SUBSET Names]
    BY <1>2 DEF Runs
  <1> HIDE DEF marker, at
  <1>4. r \in Runs
    BY <1>2, <1>3, RunFields DEF Runs
  <1>5. r.at = at /\ r.targets = scrub.targets /\ r.snapshot = scrub.snapshot
    BY <1>2 DEF Runs
  <1> HIDE DEF r
  <1>6. at = "done" => \A name \in DOMAIN parts : ReqsIn(parts[name]) \cap owed.readable = {}
    BY <1>1, <1>2 DEF OwedStands, Pending
  <1> QED
    BY <1>1, <1>2, <1>4, <1>5, <1>6, RunFacts, OwedRun

LEMMA OwedPublish ==
  ASSUME InductiveInv, InductiveInv', OwedStands, Publish
  PROVE  OwedStands'
  <1>1. scrub # None /\ scrub.at = "publish" /\ UNCHANGED <<task, nextRid, owed, erased>>
    BY DEF Publish, Running, Ghosts
  <1>2. /\ scrub \in Runs /\ scrub.targets # {} /\ Range(scrub.snapshot) \subseteq Pool
        /\ Filed' = Filed
    BY <1>1, RunFacts DEF InductiveInv, ScrubStands, Filed, Writing
  <1>3. /\ \A line \in Range(Kept) :
              \E old \in Range(scrub.snapshot) : ~Subject(old) /\ line = Ended(old)
        /\ Kept \in Seq(Lines) /\ scrub.snapshot \in Seq(Lines)
    BY <1>2, KeptLines DEF Runs
  <1>4. \A line \in Lines : Ended(line).reqs = line.reqs /\ Ended(line).reads = line.reads
    BY DEF Ended, Lines
  <1>5. \A line \in Range(scrub.snapshot) : line \in Lines
    BY <1>3 DEF Range
  <1>6. PICK r \in Runs : /\ scrub' = r /\ r.targets = scrub.targets
                          /\ r.snapshot = scrub.snapshot /\ r.at \in {"confirm", "failed", "failing"}
    BY PublishedRun
  <1>7. /\ DOMAIN parts' \subseteq DOMAIN parts \cup {Name}
        /\ \A name \in DOMAIN parts : name # Name => name \in DOMAIN parts' /\ parts'[name] = parts[name]
        /\ Name \in DOMAIN parts' => parts'[Name] = Kept
    BY PublishedParts
  <1>8. \A line \in Range(Kept) : line.reqs \cap owed.readable = {}
    <2> SUFFICES ASSUME NEW line \in Range(Kept) PROVE line.reqs \cap owed.readable = {}
      OBVIOUS
    <2>1. PICK old \in Range(scrub.snapshot) : ~Subject(old) /\ line = Ended(old)
      BY <1>3
    <2> QED
      BY <1>1, <1>4, <1>5, <2>1, OwedSubject
  <1>9. \A line \in Pool' : line.reqs \cap owed.readable # {} => line.reads
    <2> SUFFICES ASSUME NEW line \in Pool', line.reqs \cap owed.readable # {} PROVE line.reads
      OBVIOUS
    <2>1. (\E name \in DOMAIN parts' : line \in Range(parts'[name])) \/ line \in Range(scrub.snapshot)
      <3>1. line \in ((UNION {Range(parts'[name]) : name \in DOMAIN parts'})
                        \cup (IF scrub' = None THEN {} ELSE Range(scrub.snapshot)))
        BY <1>6 DEF Pool
      <3> QED
        BY <3>1
    <2>2. line \in Pool
      BY <1>2, <1>7, <1>8, <2>1, InPool
    <2> QED
      BY <2>2 DEF OwedStands
  <1>10. \A name \in DOMAIN parts' : ReqsIn(parts'[name]) \cap owed.readable # {} => name \in scrub.targets \ {Name}
    <2> SUFFICES ASSUME NEW name \in DOMAIN parts', ReqsIn(parts'[name]) \cap owed.readable # {}
                 PROVE  name \in scrub.targets \ {Name}
      OBVIOUS
    <2>1. CASE name = Name
      BY <1>3, <1>7, <1>8, <2>1, ReqsOf
    <2>2. CASE name # Name
      <3>1. name \in DOMAIN parts /\ parts'[name] = parts[name]
        BY <1>7, <2>2
      <3> QED
        BY <1>1, <2>2, <3>1 DEF OwedStands, Pending
    <2> QED
      BY <2>1, <2>2
  <1>11. r.at = "confirm" => Pending' = scrub.targets \ {Name}
    <2>1. Name' = Name
      BY <1>6 DEF Name
    <2> QED
      BY <1>6, <2>1 DEF Pending
  <1> QED
    BY <1>1, <1>2, <1>6, <1>9, <1>10, <1>11 DEF OwedStands

LEMMA OwedStep ==
  ASSUME LogAssumption, InductiveInv, OwedStands, AllMatched, [Next]_vars
  PROVE  OwedStands'
  <1>1. InductiveInv'
    BY StepStands
  <1>2. CASE LogNext /\ UNCHANGED <<scrub, Ghosts, overrun>>
    <2>1. UNCHANGED <<scrub, owed, erased>>
      BY <1>2 DEF Ghosts
    <2> QED
      BY <1>1, <1>2, <2>1, OwedLog
  <1>3. CASE ScrubNext
    BY <1>1, <1>3, OwedBegin, OwedReadPart, OwedFilter, OwedCompare, OwedPublish, OwedConfirm, OwedReceipt
       DEF ScrubNext
  <1>4. CASE UNCHANGED vars
    <2>1. UNCHANGED <<parts, scrub, owed, erased>> /\ Filed' = Filed /\ Filed \in Int
      BY <1>4, FiledBounds DEF vars, logVars, Filed, Writing, InductiveInv
    <2> QED
      BY <1>1, <2>1, OwedQuiet
  <1> QED
    BY <1>2, <1>3, <1>4 DEF Next

LEMMA TargetsStay ==
  ASSUME InductiveInv, TargetsMatch, [Next]_vars
  PROVE  TargetsMatch'
  <1>1. CASE UNCHANGED scrub
    BY <1>1 DEF TargetsMatch, Matched
  <1>2. CASE \E cred \in Creds : Begin(cred)
    <2>1. PICK cred \in Creds : Begin(cred)
      BY <1>2
    <2>2. scrub'.targets = Listed
      BY <2>1 DEF Begin
    <2> QED
      BY <2>2 DEF TargetsMatch, Listed, Matched
  <1>3. ASSUME scrub \in Runs, scrub'.targets \subseteq scrub.targets, scrub # None
        PROVE  TargetsMatch'
    BY <1>3 DEF TargetsMatch, Matched
  <1>4. ASSUME NEW s \in Runs, s.targets = scrub.targets
        PROVE  Advance(s).targets \subseteq scrub.targets /\ Failing(s).targets \subseteq scrub.targets
    BY <1>4 DEF Advance, Closing, Failing, Runs
  <1>5. CASE ReadPart \/ Filter \/ Compare \/ Publish \/ Confirm \/ Receipt
    <2>1. scrub # None /\ scrub \in Runs
      BY <1>5, RunFacts DEF ReadPart, Filter, Compare, Publish, Confirm, Receipt, Running
    <2>2. scrub'.targets \subseteq scrub.targets
      <3>1. CASE ReadPart \/ Filter \/ Compare \/ Receipt
        BY <1>4, <2>1, <3>1 DEF ReadPart, Filter, Compare, Receipt, Runs
      <3>2. CASE Publish
        BY <1>4, <2>1, <3>2 DEF Publish, Runs
      <3>3. CASE Confirm
        <4>1. PICK n : scrub' = Advance([scrub EXCEPT !.removed = scrub.removed + n])
          BY <3>3 DEF Confirm
        <4>2. Advance([scrub EXCEPT !.removed = scrub.removed + n]).targets \subseteq scrub.targets
          BY <2>1 DEF Advance, Closing, Runs
        <4> QED
          BY <4>1, <4>2
      <3> QED
        BY <1>5, <3>1, <3>2, <3>3
    <2> QED
      BY <1>3, <2>1, <2>2
  <1> QED
    BY <1>1, <1>2, <1>5 DEF Next, ScrubNext, vars

\* What has no name that is listed is nobody's to remove.
LEMMA UnmatchedStays ==
  ASSUME InductiveInv, TargetsMatch, [Next]_vars, AllMatched'
  PROVE  AllMatched
  <1> SUFFICES ASSUME NEW name \in DOMAIN parts, ~Matched(name)
               PROVE  name \in DOMAIN parts'
    BY DEF AllMatched, Matched
  <1>1. CASE UNCHANGED parts
    BY <1>1
  <1>2. ASSUME NEW n, NEW lines, parts' = Put(n, lines)
        PROVE  name \in DOMAIN parts'
    BY <1>2 DEF Put
  <1>3. ASSUME NEW kept, parts' = Restrict(parts, kept), name \in kept
        PROVE  name \in DOMAIN parts'
    BY <1>3, RestrictedIs
  <1>4. CASE AppendLine \/ AppendShort
    BY <1>2, <1>4 DEF AppendLine, AppendShort
  <1>5. CASE Sweep
    BY <1>1, <1>3, <1>5 DEF Sweep
  <1>6. CASE SweepFails
    <2>1. PICK gone \in SUBSET {n \in Listed : Aged(n)} : parts' = Restrict(parts, DOMAIN parts \ gone)
      BY <1>6 DEF SweepFails
    <2> QED
      BY <1>3, <2>1 DEF Listed
  <1>7. CASE Publish
    <2>1. scrub # None /\ scrub \in Runs /\ scrub.targets # {}
      BY <1>7, RunFacts DEF Publish, Running, InductiveInv, ScrubStands
    <2>2. Name # name
      BY <2>1, NameStands DEF TargetsMatch
    <2> QED
      BY <1>1, <1>2, <1>3, <1>7, <2>2 DEF Publish
  <1> QED
    BY <1>1, <1>4, <1>5, <1>6, <1>7
       DEF Next, LogNext, ScrubNext, vars, logVars, Tick, Settle, Record, Restart,
           Begin, ReadPart, Filter, Compare, Confirm, Receipt

LEMMA OwedIsErased ==
  ASSUME OwedStands
  PROVE  ErasedIsGone
  <1> SUFFICES ASSUME Running("done")
               PROVE  owed.readable \cap OnVolume = {}
    BY DEF ErasedIsGone
  <1>1. scrub # None /\ Pending = {} /\ scrub.at = "done"
    BY DEF Running, Pending
  <1> QED
    BY <1>1 DEF OwedStands, OnVolume

LEMMA OwedInit ==
  ASSUME Init
  PROVE  OwedStands
  <1> USE DEF Init, LogInit
  <1>1. DOMAIN parts = {} /\ owed.readable = {} /\ scrub = None
    OBVIOUS
  <1> QED
    BY <1>1 DEF OwedStands

(* aclog.ts, openFileAccessLog, beside accesslog.ts: every step of either   *)
(* keeps the invariant, wherever the other is.                              *)
THEOREM LogInductive ==
  ASSUME LogAssumption
  PROVE  Spec => []InductiveInv
  <1>1. Init => InductiveInv
    BY LogStarts
  <1>2. InductiveInv /\ [Next]_vars => InductiveInv'
    BY StepStands
  <1> QED
    BY <1>1, <1>2, PTL DEF Spec

(* A line whose record() resolved is on the volume until its day is past    *)
(* the retention, unless a scrub was erasing its credential, or it came in  *)
(* between a scrub's comparison and its publish.                            *)
THEOREM LinesStay ==
  ASSUME LogAssumption
  PROVE  Spec => []LinesAreKept
  <1>1. InductiveInv => LinesAreKept
    BY DEF InductiveInv
  <1> QED
    BY LogInductive, <1>1, PTL

(* A scrub that ends well leaves no line that parsed as a record of its     *)
(* credential when it began, whatever the gateway wrote meanwhile, unless   *)
(* the writer has gone past the numbers the name pattern matches: a part so *)
(* named is listed by neither, and stays where it is.                       *)
THEOREM OwedIsGone ==
  ASSUME LogAssumption
  PROVE  Spec => [](AllMatched => OwedStands /\ ErasedIsGone)
  <1> DEFINE Inv == InductiveInv /\ TargetsMatch /\ (AllMatched => OwedStands)
  <1>1. Init => Inv
    BY LogStarts, OwedInit DEF TargetsMatch, Init
  <1>2. Inv /\ [Next]_vars => Inv'
    BY StepStands, OwedStep, TargetsStay, UnmatchedStays
  <1>3. Inv => (AllMatched => OwedStands /\ ErasedIsGone)
    BY OwedIsErased
  <1> HIDE DEF Inv
  <1> QED
    BY <1>1, <1>2, <1>3, PTL DEF Spec
=============================================================================
