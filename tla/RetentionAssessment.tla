------------------------ MODULE RetentionAssessment ------------------------
(***************************************************************************)
(* Was a period continuously held (packages/sdk/src/retention-assessment.ts, *)
(* retention-assessment-produce.ts)?  A store files a declared sequence    *)
(* and acknowledges it, an intake observes it from outside, its customer   *)
(* stamps checkpoints over completed batches, somebody pins a head; then a *)
(* document lists what was observed, and the reading decides.              *)
(*                                                                         *)
(* A head is modelled as the sequence it closes and how often the store    *)
(* was rolled back before it.                                              *)
(***************************************************************************)
EXTENDS Integers, Sequences, FiniteSets, SequencesExt, FiniteSetsExt

CONSTANTS Final,        \* the declared intake runs from 1 to Final
          MaxTime,
          Interval,    \* scope.checkpoint.maxIntervalSeconds
          Required,    \* scope.duty.requiredSeconds
          MaxFaults    \* bounds what goes wrong before and in the document

VARIABLES clock,
          filed,       \* how far the store has got
          seen,        \* how often the intake observed each sequence
          acked,       \* the sequences the store acknowledged
          version,     \* rollbacks of the store so far
          rollbacks,   \* those the intake noticed
          checkpoints,
          pin,         \* the expected head and who pinned it
          document, slipped

vars == <<clock, filed, seen, acked, version, rollbacks, checkpoints, pin, document, slipped>>
intake == <<filed, seen, acked, version, rollbacks, checkpoints, pin>>

Declared == 1..Final
NoHead == <<0, 0>>
NoDocument == [runs |-> <<>>]
Pinners == {"customer", "subject", "none"}

Observed == {s \in Declared : seen[s] > 0}
Furthest == Max({0} \cup Observed)
HeadNow == <<Furthest, version>>

-----------------------------------------------------------------------------
(* Ranges. *)

Within(s, range) == s \in range.from..range.to
Overlaps(one, other) == one.from <= other.to /\ other.from <= one.to

\* The maximal ranges of a set, ascending.
RangesOf(set) ==
    LET firsts == SetToSortSeq({s \in set : s - 1 \notin set}, <)
    IN  [k \in DOMAIN firsts |-> [from |-> firsts[k], to |-> Max({s \in set : firsts[k]..s \subseteq set})]]

\* What a sweep over ascending ranges leaves out of the declared intake.
uncovered(ranges) ==
    LET cursor[k \in 0..Len(ranges)] ==
            IF k = 0 THEN [at |-> 1, missing |-> {}]
            ELSE [at |-> Max({cursor[k - 1].at, ranges[k].to + 1}),
                  missing |-> cursor[k - 1].missing \cup cursor[k - 1].at..ranges[k].from - 1]
    IN  cursor[Len(ranges)].missing \cup cursor[Len(ranges)].at..Final

\* A range the runs reach across without a hole.
supported(runs, range) ==
    LET at[k \in 0..Len(runs)] ==
            IF k = 0 THEN range.from
            ELSE IF runs[k].from > at[k - 1] THEN at[k - 1] ELSE Max({at[k - 1], runs[k].to + 1})
    IN  at[Len(runs)] > range.to

-----------------------------------------------------------------------------
(* The layout. *)

Misordered(ranges) ==
    \/ \E k \in DOMAIN ranges : ranges[k].from \notin 1..ranges[k].to \/ ranges[k].to > Final
    \/ \E k \in 2..Len(ranges) : ranges[k].from <= ranges[k - 1].to

readCheckpoints(m) ==
    \/ \E k \in DOMAIN m.checkpoints :
        LET range == m.checkpoints[k].range
        IN  range.from \notin 1..range.to \/ range.to > Final \/ ~supported(m.runs, range)
    \/ \E k \in 2..Len(m.checkpoints) :
        \/ m.checkpoints[k].range.from <= m.checkpoints[k - 1].range.to
        \/ m.checkpoints[k].at <= m.checkpoints[k - 1].at

readObservedHead(m) ==
    \/ (m.observedHead = NoHead) # (m.runs = <<>>)
    \/ m.observedHead # NoHead /\ m.runs # <<>> /\ m.observedHead[1] # m.runs[Len(m.runs)].to

readGaps(m) ==
    \/ \E k \in DOMAIN m.gaps : \E run \in Range(m.runs) : Overlaps(run, m.gaps[k])
    \/ \E k \in 2..Len(m.gaps) : Overlaps(m.gaps[k - 1], m.gaps[k])

readSuffixLoss(m) ==
    m.suffixLoss # {} /\ m.suffixLoss # (IF m.runs = <<>> THEN 0 ELSE m.runs[Len(m.runs)].to) + 1..Final

\* parseRetentionAssessment refuses; a pin nobody made is nobody's.
Refused(m) ==
    \/ Misordered(m.runs) \/ Misordered(m.acknowledged)
    \/ readCheckpoints(m) \/ readObservedHead(m) \/ readGaps(m) \/ readSuffixLoss(m)
    \/ \E s \in m.duplicates \cup m.rollbacks : \A run \in Range(m.runs) : ~Within(s, run)
    \/ (m.pin.head = NoHead) # (m.pin.by = "none")

-----------------------------------------------------------------------------
(* The reading. *)

\* Mutant: the receipts are spread over the period and not over the intake.
checkpointFindings_Timed(m) ==
    LET last == Len(m.checkpoints)
    IN  \/ last = 0
        \/ m.checkpoints[1].at > m.period.from
        \/ \E k \in 2..last : m.checkpoints[k].at - m.checkpoints[k - 1].at > Interval
        \/ m.checkpoints[last].at < m.period.to

\* Mutant: two receipts a whole interval apart stand too far apart.
checkpointFindings_Strict(m) ==
    LET last == Len(m.checkpoints)
    IN  \/ last = 0
        \/ m.checkpoints[1].range.from > 1
        \/ \E k \in 2..last : m.checkpoints[k].range.from > m.checkpoints[k - 1].range.to + 1
        \/ m.checkpoints[last].range.to < Final
        \/ m.checkpoints[1].at > m.period.from
        \/ \E k \in 2..last : m.checkpoints[k].at - m.checkpoints[k - 1].at >= Interval
        \/ m.checkpoints[last].at < m.period.to

\* checkpointFindings: the receipts tile the intake, and stand close enough together
\* from one end of the period to the other.
checkpointFindings(m) ==
    LET last == Len(m.checkpoints)
    IN  \/ last = 0
        \/ m.checkpoints[1].range.from > 1
        \/ \E k \in 2..last : m.checkpoints[k].range.from > m.checkpoints[k - 1].range.to + 1
        \/ m.checkpoints[last].range.to < Final
        \/ m.checkpoints[1].at > m.period.from
        \/ \E k \in 2..last : m.checkpoints[k].at - m.checkpoints[k - 1].at > Interval
        \/ m.checkpoints[last].at < m.period.to

Coverage(m) ==
    IF m.runs = <<>> THEN "indeterminate"
    ELSE IF uncovered(m.runs) # {} \/ m.gaps # <<>> \/ m.duplicates # {} \/ m.rollbacks # {} \/ m.suffixLoss # {}
    THEN "gap"
    ELSE IF uncovered(m.acknowledged) # {} \/ checkpointFindings(m) THEN "indeterminate"
    ELSE "covered"

assessRetention(m) ==
    CASE Coverage(m) = "gap" -> "not-met"
      [] Coverage(m) = "indeterminate" -> "indeterminate"
      [] OTHER ->
            IF m.period.to - m.period.from < Required THEN "not-met"
            ELSE IF m.pin.head = NoHead \/ m.pin.by = "subject" \/ m.observedHead = NoHead THEN "indeterminate"
            ELSE IF \/ m.observedHead[1] < Final \/ m.observedHead # m.pin.head
                    \/ m.checkpoints[Len(m.checkpoints)].head # m.observedHead
            THEN "not-met"
            ELSE "met"

\* What a reader of a document that states an outcome is left with.
Reading(m, stated) ==
    IF Refused(m) THEN "NOT_RETENTION_ASSESSMENT"
    ELSE IF assessRetention(m) # stated THEN "RETENTION_ASSESSMENT_DISAGREES"
    ELSE stated

-----------------------------------------------------------------------------
(* What happens before the document. *)

Init ==
    /\ clock = 0 /\ filed = 0 /\ version = 0
    /\ seen = [s \in Declared |-> 0]
    /\ acked = {} /\ rollbacks = {} /\ checkpoints = <<>>
    /\ pin = [head |-> NoHead, by |-> "none"]
    /\ document = NoDocument /\ slipped = FALSE

Open == document = NoDocument

Faults ==
    version + Cardinality({s \in 1..filed : seen[s] # 1}) + Cardinality(1..filed \ acked) + IF slipped THEN 1 ELSE 0

\* The store files the next sequence; the observation, the acknowledgement, or both may be lost.
File ==
    /\ Open
    /\ filed < Final
    /\ filed' = filed + 1
    /\ \E times \in 0..2, answered \in BOOLEAN :
        /\ seen' = [seen EXCEPT ![filed + 1] = times]
        /\ acked' = IF answered THEN acked \cup {filed + 1} ELSE acked
    /\ UNCHANGED <<clock, version, rollbacks, checkpoints, pin, document, slipped>>
    /\ Faults' <= MaxFaults

\* The store is restored from before; the intake notices at its furthest sequence, or does not.
RollBack ==
    /\ Open
    /\ version = 0 /\ Furthest > 0
    /\ version' = 1
    /\ \E noticed \in BOOLEAN : rollbacks' = IF noticed THEN {Furthest} ELSE {}
    /\ UNCHANGED <<clock, filed, seen, acked, checkpoints, pin, document, slipped>>
    /\ Faults' <= MaxFaults

Stamped == IF checkpoints = <<>> THEN [to |-> 0, at |-> -1]
           ELSE [to |-> checkpoints[Len(checkpoints)].range.to, at |-> checkpoints[Len(checkpoints)].at]

\* The customer stamps what it has seen since its last checkpoint, at most once a second.
Checkpoint ==
    /\ Open
    /\ Furthest > Stamped.to /\ clock > Stamped.at
    /\ \E from \in Stamped.to + 1..Furthest :
        /\ \A s \in from..Furthest : seen[s] > 0
        /\ checkpoints' = Append(checkpoints, [range |-> [from |-> from, to |-> Furthest], at |-> clock, head |-> HeadNow])
    /\ UNCHANGED <<clock, filed, seen, acked, version, rollbacks, pin, document, slipped>>

Pin ==
    /\ Open
    /\ pin.by = "none" /\ Furthest > 0
    /\ \E by \in Pinners \ {"none"} : pin' = [head |-> HeadNow, by |-> by]
    /\ UNCHANGED <<clock, filed, seen, acked, version, rollbacks, checkpoints, document, slipped>>

Tick == Open /\ clock < MaxTime /\ clock' = clock + 1 /\ UNCHANGED <<intake, document, slipped>>

-----------------------------------------------------------------------------
(* The document: what was observed, and what a hand may make of the lists. *)

Write ==
    /\ Open
    /\ \E from \in 0..clock, to \in 0..clock :
        /\ from <= to
        /\ document' = [runs |-> RangesOf(Observed), acknowledged |-> RangesOf(acked), checkpoints |-> checkpoints,
                        observedHead |-> IF Observed = {} THEN NoHead ELSE HeadNow,
                        gaps |-> RangesOf((1..Furthest) \ Observed), duplicates |-> {s \in Declared : seen[s] > 1},
                        rollbacks |-> rollbacks, suffixLoss |-> Furthest + 1..Final,
                        period |-> [from |-> from, to |-> to], pin |-> pin]
    /\ UNCHANGED <<clock, intake, slipped>>

Split(ranges) ==
    {SubSeq(ranges, 1, k - 1) \o <<[from |-> ranges[k].from, to |-> s], [from |-> s + 1, to |-> ranges[k].to]>>
        \o SubSeq(ranges, k + 1, Len(ranges)) : <<k, s>> \in (DOMAIN ranges) \X Declared}

Slip ==
    /\ ~Open
    /\ ~slipped
    /\ slipped' = TRUE
    /\ document' \in
        {[document EXCEPT !.runs = ranges] : ranges \in Split(document.runs) \cup {Reverse(document.runs)}}
        \cup {[document EXCEPT !.runs = RemoveAt(document.runs, k)] : k \in DOMAIN document.runs}
        \cup {[document EXCEPT !.acknowledged = ranges] : ranges \in Split(document.acknowledged)}
        \cup {[document EXCEPT !.checkpoints = RemoveAt(document.checkpoints, k)] : k \in DOMAIN document.checkpoints}
        \cup {[document EXCEPT !.checkpoints = Reverse(document.checkpoints)]}
        \cup {[document EXCEPT !.checkpoints[k].range.from = @ + 1] : k \in DOMAIN document.checkpoints}
        \cup {[document EXCEPT !.gaps = <<>>], [document EXCEPT !.suffixLoss = {}], [document EXCEPT !.gaps = <<>>, !.suffixLoss = {}]}
    /\ UNCHANGED <<clock, intake>>
    /\ Faults' <= MaxFaults

Next == File \/ RollBack \/ Checkpoint \/ Pin \/ Tick \/ Write \/ Slip

Spec == Init /\ [][Next]_vars

-----------------------------------------------------------------------------
(***************************************************************************)
(* "Only a period continuously covered in sequence, acknowledged across its *)
(* width, witnessed by customer-held checkpoints that tile the intake ...   *)
(* and closed by a head an independent party pinned and the intake matched  *)
(* answers met": a document the reading calls met was written over a store  *)
(* whose every declared sequence was seen once and acknowledged, whose head *)
(* did not move from under a pin that is not its own, with no stretch of    *)
(* the period longer than the interval between two checkpoints; however the *)
(* lists of the document are cut, ordered, shortened or silent.             *)
(***************************************************************************)
MetMeansHeld ==
    ~Open /\ Reading(document, "met") = "met" =>
        /\ \A s \in Declared : seen[s] = 1 /\ s \in acked
        /\ \A s \in Declared : \E k \in DOMAIN checkpoints : Within(s, checkpoints[k].range)
        /\ pin.by = "customer" /\ pin.head = <<Final, version>> /\ rollbacks = {}
        /\ \A t \in document.period.from..document.period.to :
            \E k \in DOMAIN checkpoints : checkpoints[k].at \in t - Interval..t
        /\ document.period.to - document.period.from >= Required

(***************************************************************************)
(* The other way round: a store that did hold the period, under checkpoints *)
(* kept to the schedule over the head a customer pinned, is not refused the *)
(* word by a document that lists what was observed.                         *)
(***************************************************************************)
HeldIsMet ==
    /\ ~Open /\ ~slipped
    /\ \A s \in Declared : seen[s] = 1 /\ s \in acked /\ \E k \in DOMAIN checkpoints : Within(s, checkpoints[k].range)
    /\ pin = [head |-> <<Final, version>>, by |-> "customer"] /\ rollbacks = {}
    /\ checkpoints[1].at <= document.period.from /\ checkpoints[Len(checkpoints)].at >= document.period.to
    /\ \A k \in 2..Len(checkpoints) : checkpoints[k].at - checkpoints[k - 1].at <= Interval
    /\ checkpoints[Len(checkpoints)].head = HeadNow
    /\ document.period.to - document.period.from >= Required
    => Reading(document, "met") = "met"

(***************************************************************************)
(* retention-assessment.ts:30: "An adverse observation is never a pass.  A  *)
(* gap, a duplicate, a rollback, a lost suffix or a final checkpoint head   *)
(* that is not the head the intake observed makes the assessment not-met".  *)
(***************************************************************************)
AdverseIsNotMet ==
    /\ ~Open /\ ~Refused(document)
    /\ \/ document.gaps # <<>> \/ document.duplicates # {} \/ document.rollbacks # {} \/ document.suffixLoss # {}
       \/ document.checkpoints # <<>> /\ document.checkpoints[Len(document.checkpoints)].head # document.observedHead
    => assessRetention(document) = "not-met"

=============================================================================
