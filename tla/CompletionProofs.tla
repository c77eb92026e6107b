-------------------------- MODULE CompletionProofs --------------------------
(***************************************************************************)
(* Completion for every number of callers and pieces, every bound of the   *)
(* retained set and every burst: what a response that ended means, what    *)
(* its digest covers, and what the guard's late reading can cost.          *)
(***************************************************************************)
EXTENDS Completion, FiniteSetTheorems, TLAPS

USE DEF Stages, Pieces, StreamStages, AnswerStages, Admitted

(* One request as the invariant has it.                                    *)
Sound(r) == r \in Requests /\ ArmFits(r) /\ SocketAndDigest(r) /\ EndedFiled(r)

(* A step of one request that leaves the retained set alone: it stays      *)
(* sound, and is admitted only while the set has room.                     *)
Follows(c) ==
  /\ \E r : /\ Sound(r)
            /\ Becomes(c, r)
            /\ r.at \in Admitted => req[c].at \in Admitted \/ held < Keep
  /\ tokens' \in 0..Burst
  /\ UNCHANGED <<held, shed, marks>>

LEMMA AllSound ==
  ASSUME InductiveInv, NEW c \in Callers
  PROVE  Sound(req[c])
  BY DEF InductiveInv, TypeOK, Sound

LEMMA InitInductive ==
  ASSUME CompletionAssumption, Init
  PROVE  InductiveInv
  <1> USE DEF CompletionAssumption, Init
  <1>1. Cardinality(Callers) \in Nat /\ Cardinality(Callers) # 0
    BY FS_CardinalityType, FS_EmptySet
  <1>2. Fresh \in Requests
    BY DEF Fresh, Requests
  <1>3. TypeOK
    BY <1>1, <1>2 DEF TypeOK
  <1>4. \A c \in Callers : ArmFits(req[c]) /\ SocketAndDigest(req[c]) /\ EndedFiled(req[c])
    BY DEF ArmFits, SocketAndDigest, EndedFiled, Fresh
  <1>5. ShedByTheAdmitted
    BY DEF ShedByTheAdmitted
  <1> QED
    BY <1>3, <1>4, <1>5 DEF InductiveInv

LEMMA OthersStay ==
  ASSUME InductiveInv, NEW c \in Callers, NEW r, Sound(r), Becomes(c, r), UNCHANGED marks
  PROVE  /\ req' \in [Callers -> Requests]
         /\ \A d \in Callers : ArmFits(req[d])' /\ SocketAndDigest(req[d])' /\ EndedFiled(req[d])'
         /\ req'[c] = r
         /\ \A d \in Callers : d # c => req'[d] = req[d]
  <1>1. /\ req' \in [Callers -> Requests]
        /\ req'[c] = r
        /\ \A d \in Callers : d # c => req'[d] = req[d]
    BY DEF Becomes, Sound, InductiveInv, TypeOK
  <1>2. \A d \in Callers : Sound(req'[d])
    BY <1>1, AllSound
  <1>3. \A d \in Callers : ArmFits(req[d])' /\ EndedFiled(req[d])'
    BY <1>2 DEF Sound, ArmFits, EndedFiled
  <1>4. \A d \in Callers : SocketAndDigest(req[d])'
    BY <1>2 DEF Sound, SocketAndDigest
  <1> QED
    BY <1>1, <1>3, <1>4

LEMMA FollowsInductive ==
  ASSUME CompletionAssumption, InductiveInv, NEW c \in Callers, Follows(c)
  PROVE  InductiveInv'
  <1> PICK r : /\ Sound(r) /\ Becomes(c, r)
               /\ r.at \in Admitted => req[c].at \in Admitted \/ held < Keep
    BY DEF Follows
  <1>1. /\ req' \in [Callers -> Requests]
        /\ \A d \in Callers : ArmFits(req[d])' /\ SocketAndDigest(req[d])' /\ EndedFiled(req[d])'
        /\ req'[c] = r
        /\ \A d \in Callers : d # c => req'[d] = req[d]
    BY OthersStay DEF Follows
  <1>2. TypeOK'
    BY <1>1 DEF InductiveInv, TypeOK, Follows
  <1>3. ShedByTheAdmitted'
    <2>1. held < Keep => shed = 0
      BY DEF InductiveInv, ShedByTheAdmitted
    <2>2. ASSUME held = Keep
          PROVE  shed + Cardinality(InFlight') < Cardinality(Callers)
      <3>1. r.at \in Admitted => req[c].at \in Admitted
        BY <2>2 DEF CompletionAssumption
      <3>2. InFlight' \subseteq InFlight /\ InFlight \subseteq Callers
        BY <1>1, <3>1 DEF InFlight
      <3>3. IsFiniteSet(InFlight) /\ IsFiniteSet(InFlight')
        BY <3>2, FS_Subset DEF CompletionAssumption
      <3>4. /\ Cardinality(InFlight') <= Cardinality(InFlight)
            /\ Cardinality(InFlight') \in Nat /\ Cardinality(InFlight) \in Nat
            /\ Cardinality(Callers) \in Nat
        BY <3>2, <3>3, FS_Subset, FS_CardinalityType DEF CompletionAssumption
      <3>5. shed + Cardinality(InFlight) < Cardinality(Callers) /\ shed \in Nat
        BY <2>2, <3>4 DEF InductiveInv, ShedByTheAdmitted, TypeOK
      <3> QED
        BY <3>4, <3>5
    <2> QED
      BY <2>1, <2>2 DEF ShedByTheAdmitted, Follows
  <1> QED
    BY <1>1, <1>2, <1>3 DEF InductiveInv

-----------------------------------------------------------------------------
(* The handler's own steps, each of which follows.                          *)

LEMMA ErrorsAreSound ==
  ASSUME NEW c \in Callers, Sound(req[c]), req[c].at # "over"
  PROVE  /\ Sound(Answered(c, req[c])) /\ Answered(c, req[c]).at = "over"
         /\ Sound(Destroyed(c, req[c])) /\ Destroyed(c, req[c]).at = "over"
         /\ Sound(Refused(c)) /\ Refused(c).at = "over"
  <1>1. ASSUME NEW r \in Requests, Sound(r), Here(c) <=> r.left = "no"
        PROVE  /\ Sound(Answered(c, r)) /\ Answered(c, r).at = "over"
               /\ Sound(Destroyed(c, r)) /\ Destroyed(c, r).at = "over"
    <2> DEFINE a == Answered(c, r)
               d == Destroyed(c, r)
    <2>1. /\ a \in Requests /\ a.at = "over" /\ a.told \in {"error", r.told}
          /\ a.arm = r.arm /\ a.left = r.left /\ a.aborted = r.aborted /\ a.noted = r.noted /\ a.line = r.line
          /\ a.sent = r.sent /\ a.hashed = r.hashed /\ a.digest = r.digest /\ a.owed = r.owed /\ a.filed = r.filed
      BY <1>1 DEF Answered, Requests
    <2>2. /\ d \in Requests /\ d.at = "over" /\ d.told \in {"cut", r.told}
          /\ d.arm = r.arm /\ d.left = r.left /\ d.aborted = r.aborted /\ d.noted = r.noted /\ d.line = r.line
          /\ d.sent = r.sent /\ d.hashed = r.hashed /\ d.digest = r.digest /\ d.owed = r.owed /\ d.filed = r.filed
      BY <1>1 DEF Destroyed, Requests
    <2> HIDE DEF a, d
    <2>3. ArmFits(a) /\ ArmFits(d)
      BY <2>1, <2>2 DEF ArmFits, StreamStages, AnswerStages
    <2>4. SocketAndDigest(r)
      BY <1>1 DEF Sound
    <2>5. SocketAndDigest(a)
      BY <2>1, <2>4 DEF SocketAndDigest, AnswerStages
    <2>6. SocketAndDigest(d)
      BY <2>2, <2>4 DEF SocketAndDigest, AnswerStages
    <2>7. EndedFiled(a) /\ EndedFiled(d)
      BY <1>1, <2>1, <2>2 DEF Sound, EndedFiled
    <2> QED
      BY <2>1, <2>2, <2>3, <2>5, <2>6, <2>7 DEF Sound, a, d
  <1>2. Sound([req[c] EXCEPT !.noted = "refused"]) /\ [req[c] EXCEPT !.noted = "refused"].left = req[c].left
    <2> DEFINE n == [req[c] EXCEPT !.noted = "refused"]
    <2>1. n \in Requests
      BY DEF Sound, Requests
    <2>2. ArmFits(n) /\ SocketAndDigest(n) /\ EndedFiled(n)
      BY DEF Sound, ArmFits, SocketAndDigest, EndedFiled, Requests
    <2>3. n.left = req[c].left
      BY DEF Sound, Requests
    <2> QED
      BY <2>1, <2>2, <2>3 DEF Sound
  <1>3. /\ Sound(Answered(c, req[c])) /\ Answered(c, req[c]).at = "over"
        /\ Sound(Destroyed(c, req[c])) /\ Destroyed(c, req[c]).at = "over"
    BY <1>1 DEF Sound, Here
  <1>4. Sound(Refused(c)) /\ Refused(c).at = "over"
    BY <1>1, <1>2 DEF Sound, Here, Refused
  <1> QED
    BY <1>3, <1>4

LEMMA FailsFollows ==
  ASSUME CompletionAssumption, InductiveInv, NEW c \in Callers, req[c].at # "over", Fails(c)
  PROVE  Follows(c)
  <1>1. Sound(req[c])
    BY AllSound
  <1>2. PICK r : Sound(r) /\ r.at = "over" /\ Becomes(c, r)
    BY <1>1, ErrorsAreSound DEF Fails
  <1> QED
    BY <1>2 DEF Follows, Fails, InductiveInv, TypeOK

(* Up to the upstream's answer nothing is counted.                          *)
LEMMA AheadOfTheBody ==
  ASSUME CompletionAssumption, InductiveInv, NEW c \in Callers,
         Arrive(c) \/ ReloadFails(c) \/ Admit(c) \/ Weigh(c) \/ Respond(c) \/ Collect(c)
  PROVE  Follows(c)
  <1>1. Sound(req[c]) /\ marks \in 0..MarkPieces /\ tokens \in 0..Burst /\ held \in 0..Keep
    BY AllSound DEF InductiveInv, TypeOK, CompletionAssumption
  <1>2. CASE Arrive(c)
    <2> DEFINE r == [req[c] EXCEPT !.at = "reloading", !.owed = marks]
    <2>1. r \in Requests
      BY <1>1, <1>2 DEF Sound, Requests, Arrive
    <2>2. Sound(r)
      BY <1>1, <1>2, <2>1 DEF Sound, Requests, Arrive, ArmFits, SocketAndDigest, EndedFiled
    <2>3. r.at \notin Admitted
      BY <1>1 DEF Sound, Requests
    <2> QED
      BY <1>1, <1>2, <2>2, <2>3 DEF Arrive, Follows
  <1>3. CASE ReloadFails(c)
    BY <1>3, FailsFollows DEF ReloadFails
  <1>4. ASSUME NEW stage \in {"weighing", "asking", "metering"},
               stage = "weighing" => req[c].at = "reloading",
               stage = "asking" => req[c].at = "weighing",
               stage = "metering" => req[c].at = "collecting" /\ req[c].arm # "failed",
               NEW note \in {"nothing", "admitted", "refused"}
        PROVE  /\ Sound([req[c] EXCEPT !.at = stage]) /\ [req[c] EXCEPT !.at = stage].at = stage
               /\ LET r == [req[c] EXCEPT !.at = stage, !.noted = note] IN
                  Sound(r) /\ r.at = stage
    <2>1. /\ [req[c] EXCEPT !.at = stage] \in Requests
          /\ [req[c] EXCEPT !.at = stage, !.noted = note] \in Requests
      BY <1>1, <1>4 DEF Sound, Requests
    <2> QED
      BY <1>1, <1>4, <2>1 DEF Sound, Requests, ArmFits, SocketAndDigest, EndedFiled, CompletionAssumption
  <1>5. CASE Admit(c)
    <2>1. CASE Goes(c, "weighing")
      BY <1>1, <1>4, <1>5, <2>1 DEF Admit, Goes, Follows
    <2>2. CASE Becomes(c, Refused(c))
      BY <1>1, <1>5, <2>2, ErrorsAreSound DEF Admit, Follows
    <2> QED
      BY <1>5, <2>1, <2>2 DEF Admit
  <1>6. CASE Weigh(c)
    <2>1. CASE intakeGuardRefusal \/ tokens = 0
      BY <1>1, <1>6, <2>1, ErrorsAreSound DEF Weigh, Follows
    <2>2. CASE ~(intakeGuardRefusal \/ tokens = 0)
      <3>1. held < Keep /\ tokens' \in 0..Burst
        BY <1>1, <1>6, <2>2 DEF Weigh, intakeGuardRefusal, CompletionAssumption
      <3>2. Becomes(c, [req[c] EXCEPT !.at = "asking", !.noted = "admitted"])
        BY <1>6, <2>2 DEF Weigh
      <3>3. Sound([req[c] EXCEPT !.at = "asking", !.noted = "admitted"])
        BY <1>4, <1>6 DEF Weigh
      <3> QED
        BY <1>6, <3>1, <3>2, <3>3 DEF Weigh, Follows
    <2> QED
      BY <2>1, <2>2
  <1>7. CASE Respond(c)
    <2> PICK arm \in {"failed", "buffered", "stream"} :
               Becomes(c, [req[c] EXCEPT !.arm = arm,
                             !.at = IF arm = "stream" THEN "opening" ELSE "collecting"])
      BY <1>7 DEF Respond
    <2> DEFINE r == [req[c] EXCEPT !.arm = arm,
                       !.at = IF arm = "stream" THEN "opening" ELSE "collecting"]
    <2>1. r \in Requests
      BY <1>1 DEF Sound, Requests
    <2>2. Sound(r)
      BY <1>1, <1>7, <2>1 DEF Sound, Requests, Respond, ArmFits, SocketAndDigest, EndedFiled
    <2> QED
      BY <1>1, <1>7, <2>2 DEF Respond, Follows
  <1>8. CASE Collect(c)
    <2>1. CASE req[c].arm = "failed"
      BY <1>1, <1>8, <2>1, ErrorsAreSound DEF Collect, Follows
    <2>2. CASE req[c].arm # "failed"
      BY <1>1, <1>4, <1>8, <2>2 DEF Collect, Follows
    <2> QED
      BY <2>1, <2>2
  <1> QED
    BY <1>2, <1>3, <1>5, <1>6, <1>7, <1>8

(* One piece, or a chunk held back, while the stream runs.                  *)
LEMMA StreamStep ==
  ASSUME CompletionAssumption, InductiveInv, NEW c \in Callers,
         Open(c) \/ Pull(c) \/ PullEnd(c)
  PROVE  Follows(c)
  <1>1. Sound(req[c]) /\ tokens \in 0..Burst /\ MaxPieces \in Nat \ {0} /\ MarkPieces \in Nat
    BY AllSound DEF InductiveInv, TypeOK, CompletionAssumption
  <1>2. /\ req[c].at \in {"opening", "pulling"} /\ req[c].arm = "stream"
        /\ UNCHANGED <<held, shed, tokens, marks>>
    BY <1>1 DEF Open, Pull, PullEnd, Sound, ArmFits
  <1>3. CASE req[c].hashed < MaxPieces /\ Write(c, "draining", "pulling")
    <2> PICK stage \in {"draining", "pulling"} :
               /\ stage = "pulling" => Here(c)
               /\ Becomes(c, [Written(c, req[c], 1) EXCEPT !.at = stage])
      BY <1>3 DEF Write
    <2> DEFINE r == [Written(c, req[c], 1) EXCEPT !.at = stage]
    <2>1. r \in Requests
      <3>1. req[c] \in Requests /\ req[c].sent <= req[c].hashed /\ req[c].hashed < MaxPieces
        BY <1>1, <1>3 DEF Sound, SocketAndDigest
      <3>2. req[c].hashed + 1 \in Pieces /\ req[c].sent + 1 \in Pieces
        BY <1>1, <3>1 DEF Requests
      <3> QED
        BY <3>1, <3>2 DEF Requests, Written
    <2>2. /\ r.hashed = req[c].hashed + 1 /\ r.at = stage
          /\ r.sent = IF Here(c) THEN req[c].sent + 1 ELSE req[c].sent
          /\ r.arm = "stream" /\ r.left = req[c].left /\ r.told = req[c].told
          /\ r.filed = req[c].filed
      BY <1>1, <1>2 DEF Sound, Requests, Written
    <2>3. Sound(r)
      BY <1>1, <1>2, <1>3, <2>1, <2>2 DEF Sound, Requests, ArmFits, SocketAndDigest, EndedFiled, Here
    <2> QED
      BY <1>1, <1>2, <2>2, <2>3 DEF Follows
  <1>4. CASE HeldBack(c)
    <2> DEFINE r == [req[c] EXCEPT !.at = IF req[c].aborted THEN "over" ELSE "pulling"]
    <2>1. r \in Requests
      BY <1>1 DEF Sound, Requests
    <2>2. Sound(r)
      BY <1>1, <1>2, <1>4, <2>1 DEF HeldBack, Sound, Requests, ArmFits, SocketAndDigest, EndedFiled
    <2> QED
      BY <1>1, <1>2, <1>4, <2>2 DEF HeldBack, Goes, Follows
  <1>5. CASE PullEnd(c)
    <2> DEFINE r == [req[c] EXCEPT !.at = IF req[c].aborted THEN "over" ELSE "metering"]
    <2>1. r \in Requests
      BY <1>1 DEF Sound, Requests
    <2>2. Sound(r)
      BY <1>1, <1>2, <1>5, <2>1 DEF PullEnd, Sound, Requests, ArmFits, SocketAndDigest, EndedFiled
    <2> QED
      BY <1>1, <1>2, <1>5, <2>2 DEF PullEnd, Goes, Follows
  <1> QED
    BY <1>1, <1>3, <1>4, <1>5 DEF Open, Pull, Sound, SocketAndDigest

(* The mark's pieces: past a closed socket only the first is counted, and   *)
(* the handler waits behind it for good.                                    *)
LEMMA MarkFollows ==
  ASSUME CompletionAssumption, InductiveInv, NEW c \in Callers,
         req[c].at \in {"metering", "drainingMark"}, req[c].arm = "stream",
         Mark(c, req[c]), UNCHANGED <<held, shed, tokens, marks>>
  PROVE  Follows(c)
  <1>1. /\ Sound(req[c]) /\ tokens \in 0..Burst /\ MaxPieces \in Nat \ {0} /\ MarkPieces \in Nat
        /\ req[c].hashed + req[c].owed <= MaxPieces + MarkPieces
        /\ req[c].owed \in 0..MarkPieces
    BY AllSound DEF InductiveInv, TypeOK, CompletionAssumption, Sound, Requests, SocketAndDigest
  <1>2. ASSUME NEW k \in 0..req[c].owed, NEW stage \in {"sealing", "drainingMark"}, NEW left,
               left = req[c].owed - k, stage = "sealing" => Here(c) /\ left = 0
        PROVE  Sound([Written(c, req[c], k) EXCEPT !.at = stage, !.owed = left])
    <2> DEFINE r == [Written(c, req[c], k) EXCEPT !.at = stage, !.owed = left]
    <2>1. /\ req[c] \in Requests /\ req[c].sent <= req[c].hashed
          /\ req[c].hashed \in Nat /\ req[c].sent \in Nat
      BY <1>1 DEF Sound, SocketAndDigest, Requests
    <2>2. req[c].hashed + k \in Pieces /\ req[c].sent + k \in Pieces /\ left \in 0..MarkPieces
      BY <1>1, <1>2, <2>1
    <2>3. r \in Requests
      BY <2>1, <2>2 DEF Requests, Written
    <2>4. /\ r.hashed = req[c].hashed + k /\ r.at = stage /\ r.owed = left
          /\ r.sent = IF Here(c) THEN req[c].sent + k ELSE req[c].sent
          /\ r.arm = "stream" /\ r.left = req[c].left /\ r.told = req[c].told
          /\ r.filed = req[c].filed
      BY <2>1 DEF Requests, Written
    <2>5. req[c].left = "no" \/ stage = "drainingMark"
      BY <1>2 DEF Here
    <2>6. ArmFits(r) /\ EndedFiled(r)
      BY <1>1, <2>4 DEF Sound, ArmFits, EndedFiled
    <2>7. SocketAndDigest(r)
      BY <1>1, <1>2, <2>1, <2>2, <2>4, <2>5 DEF Sound, SocketAndDigest, Here, Requests
    <2> QED
      BY <2>3, <2>6, <2>7 DEF Sound
  <1>3. CASE /\ req[c].left = "no"
             /\ Becomes(c, [Written(c, req[c], req[c].owed) EXCEPT !.at = "sealing", !.owed = 0])
    <2>1. Sound([Written(c, req[c], req[c].owed) EXCEPT !.at = "sealing", !.owed = 0])
      <3>1. req[c].owed \in 0..req[c].owed /\ 0 = req[c].owed - req[c].owed
        BY <1>1
      <3> QED
        BY <3>1, <1>2, <1>3 DEF Here
    <2> QED
      BY <1>1, <1>3, <2>1 DEF Follows
  <1>4. ASSUME NEW k \in 1..req[c].owed,
               Becomes(c, [Written(c, req[c], k) EXCEPT !.at = "drainingMark", !.owed = @ - k])
        PROVE  Follows(c)
    <2> DEFINE left == Written(c, req[c], k).owed - k
    <2>1. left = req[c].owed - k
      BY <1>1 DEF Written, Sound, Requests
    <2>2. Sound([Written(c, req[c], k) EXCEPT !.at = "drainingMark", !.owed = left])
      <3>1. k \in 0..req[c].owed
        BY <1>1, <1>4
      <3> HIDE DEF left
      <3> QED
        BY <3>1, <1>2, <2>1
    <2>3. Becomes(c, [Written(c, req[c], k) EXCEPT !.at = "drainingMark", !.owed = left])
      BY <1>4
    <2> QED
      BY <1>1, <2>2, <2>3 DEF Follows
  <1> QED
    BY <1>3, <1>4 DEF Mark

LEMMA MeterStep ==
  ASSUME CompletionAssumption, InductiveInv, NEW c \in Callers, Drain(c) \/ Meter(c) \/ Seal(c)
  PROVE  Follows(c)
  <1>1. Sound(req[c]) /\ tokens \in 0..Burst /\ MaxPieces \in Nat \ {0} /\ MarkPieces \in Nat
    BY AllSound DEF InductiveInv, TypeOK, CompletionAssumption
  <1>2. CASE Drain(c) /\ req[c].at = "draining"
    <2> DEFINE r == [req[c] EXCEPT !.at = "pulling"]
    <2>1. r \in Requests
      BY <1>1 DEF Sound, Requests
    <2>2. Sound(r)
      BY <1>1, <1>2, <2>1 DEF Drain, Here, Sound, Requests, ArmFits, SocketAndDigest, EndedFiled
    <2> QED
      BY <1>1, <1>2, <2>2 DEF Drain, Goes, Follows
  <1>3. CASE Drain(c) /\ req[c].at = "drainingMark"
    BY <1>1, <1>3, MarkFollows DEF Drain, Sound, ArmFits
  <1>4. CASE Meter(c) /\ req[c].arm = "stream" /\ marks > 0
    BY <1>1, <1>4, MarkFollows DEF Meter
  <1>5. CASE Meter(c) /\ ~(req[c].arm = "stream" /\ marks > 0)
    <2> DEFINE r == [req[c] EXCEPT !.at = "sealing",
                       !.hashed = IF req[c].arm = "stream" THEN req[c].hashed ELSE 1]
    <2>1. r \in Requests
      <3>1. req[c] \in Requests /\ 1 \in Pieces /\ req[c].hashed \in Pieces
        BY <1>1 DEF Sound, Requests
      <3> QED
        BY <3>1 DEF Requests
    <2>2. Sound(r)
      BY <1>1, <1>5, <2>1 DEF Meter, Sound, Requests, ArmFits, SocketAndDigest, EndedFiled
    <2>3. Becomes(c, r)
      BY <1>1, <1>5 DEF Meter
    <2> QED
      BY <1>1, <1>5, <2>2, <2>3 DEF Meter, Follows
  <1>6. CASE Seal(c)
    <2> DEFINE r == [req[c] EXCEPT !.at = "filing", !.digest = req[c].hashed]
    <2>1. r \in Requests
      BY <1>1 DEF Sound, Requests
    <2>2. Sound(r)
      BY <1>1, <1>6, <2>1 DEF Seal, Sound, Requests, ArmFits, SocketAndDigest, EndedFiled
    <2> QED
      BY <1>1, <1>6, <2>2 DEF Seal, Follows
  <1> QED
    BY <1>2, <1>3, <1>4, <1>5, <1>6 DEF Drain

-----------------------------------------------------------------------------
(* The connection: a client that closes while its handler waits.            *)

LEMMA LeaveStep ==
  ASSUME CompletionAssumption, InductiveInv, NEW c \in Callers, Leave(c)
  PROVE  Follows(c)
  <1>1. Sound(req[c]) /\ tokens \in 0..Burst /\ MaxPieces \in Nat \ {0} /\ MarkPieces \in Nat
    BY AllSound DEF InductiveInv, TypeOK, CompletionAssumption
  <1> DEFINE old == req[c]
             late == old.at \in {"metering", "drainingMark", "sealing", "filing"}
             gone == [flush(old) EXCEPT !.left = IF late THEN "late" ELSE "early",
                                        !.aborted = Hijacked(old)]
  <1>2. gone \in Requests
    <2>1. flush(old) \in Requests /\ Hijacked(old) \in BOOLEAN
      BY <1>1 DEF flush, Sound, Requests, Hijacked
    <2> QED
      BY <2>1 DEF Requests
  <1>3. /\ gone.at = old.at /\ gone.arm = old.arm /\ gone.told = old.told /\ gone.filed = old.filed
        /\ gone.sent = old.sent /\ gone.hashed = old.hashed /\ gone.owed = old.owed
        /\ gone.digest = old.digest
        /\ gone.left = IF late THEN "late" ELSE "early"
        /\ gone.aborted = Hijacked(old)
    BY <1>1 DEF flush, Sound, Requests
  <1>4. old.left = "no" /\ old.at \notin {"idle", "over"}
    BY DEF Leave, Here
  <1>5. Sound(gone)
    <2> HIDE DEF gone
    <2>1. ArmFits(gone) /\ EndedFiled(gone)
      BY <1>1, <1>3, <1>4 DEF Sound, ArmFits, EndedFiled
    <2>2. SocketAndDigest(gone)
      <3>1. SocketAndDigest(old) /\ ArmFits(old)
        BY <1>1 DEF Sound
      <3>2. CASE late
        <4>1. gone.left = "late"
          BY <1>3, <3>2
        <4> QED
          BY <1>3, <1>4, <3>1, <3>2, <4>1 DEF ArmFits, SocketAndDigest
      <3>3. CASE ~late
        <4>1. gone.left = "early"
          BY <1>3, <3>3
        <4>2. old.arm = "stream" /\ old.at = "pulling" => gone.aborted
          BY <1>3 DEF Hijacked
        <4> QED
          BY <1>3, <1>4, <3>1, <3>3, <4>1, <4>2 DEF ArmFits, SocketAndDigest
      <3> QED
        BY <3>2, <3>3
    <2> QED
      BY <1>2, <2>1, <2>2 DEF Sound
  <1>6. CASE old.at = "draining" /\ Becomes(c, [gone EXCEPT !.at = "over"])
    <2>1. [gone EXCEPT !.at = "over"] \in Requests
      BY <1>2 DEF Requests
    <2>2. Sound([gone EXCEPT !.at = "over"])
      BY <1>2, <1>3, <1>4, <1>5, <1>6, <2>1 DEF Sound, Requests, ArmFits, SocketAndDigest, EndedFiled
    <2> QED
      BY <1>1, <1>2, <1>6, <2>2 DEF Leave, Follows
  <1>7. CASE old.at = "drainingMark" /\ Becomes(c, [gone EXCEPT !.at = "sealing"])
    <2>1. [gone EXCEPT !.at = "sealing"] \in Requests
      BY <1>2 DEF Requests
    <2>2. Sound([gone EXCEPT !.at = "sealing"])
      BY <1>1, <1>2, <1>3, <1>4, <1>5, <1>7, <2>1
         DEF Sound, Requests, ArmFits, SocketAndDigest, EndedFiled
    <2> QED
      BY <1>1, <1>7, <2>2 DEF Leave, Follows
  <1>8. CASE /\ old.at = "drainingMark" /\ old.owed > 0
             /\ Becomes(c, [gone EXCEPT !.hashed = @ + 1, !.owed = @ - 1])
    <2> HIDE DEF gone
    <2> DEFINE r == [gone EXCEPT !.hashed = gone.hashed + 1, !.owed = gone.owed - 1]
    <2>0. gone.hashed + 1 \in Pieces /\ gone.owed - 1 \in 0..MarkPieces
      BY <1>1, <1>3, <1>8 DEF Sound, Requests, SocketAndDigest
    <2>1. r \in Requests /\ Becomes(c, r)
      BY <1>2, <1>8, <2>0 DEF Requests
    <2>2. Sound(r)
      BY <1>1, <1>2, <1>3, <1>4, <1>5, <1>8, <2>1
         DEF Sound, Requests, ArmFits, SocketAndDigest, EndedFiled
    <2> QED
      BY <1>1, <1>8, <2>1, <2>2 DEF Leave, Follows
  <1>9. CASE Becomes(c, gone)
    BY <1>1, <1>3, <1>5, <1>9 DEF Leave, Follows
  <1> QED
    BY <1>1, <1>6, <1>7, <1>8, <1>9 DEF Leave, Sound, Requests

LEMMA FinishStep ==
  ASSUME CompletionAssumption, InductiveInv, NEW c \in Callers, Finish(c) \/ Again(c) \/ Fail(c)
  PROVE  Follows(c)
  <1>1. Sound(req[c]) /\ tokens \in 0..Burst /\ MaxPieces \in Nat \ {0} /\ MarkPieces \in Nat
    BY AllSound DEF InductiveInv, TypeOK, CompletionAssumption
  <1>2. CASE Finish(c)
    <2>1. flush(req[c]) \in Requests
      BY <1>1 DEF flush, Sound, Requests
    <2>2. Sound(flush(req[c]))
      BY <1>1, <2>1 DEF flush, Sound, Requests, ArmFits, SocketAndDigest, EndedFiled
    <2> QED
      BY <1>1, <1>2, <2>2 DEF Finish, Follows, flush, Sound, Requests
  <1>3. CASE Again(c)
    <2>1. Fresh \in Requests /\ Fresh.at \notin Admitted
      BY <1>1 DEF Fresh, Requests
    <2>2. Sound(Fresh)
      BY <1>1, <2>1 DEF Fresh, Sound, ArmFits, SocketAndDigest, EndedFiled
    <2> QED
      BY <1>1, <1>3, <2>1, <2>2 DEF Again, Follows
  <1>4. CASE Fail(c)
    BY <1>4, FailsFollows DEF Fail
  <1> QED
    BY <1>2, <1>3, <1>4

(* The retained set: a receipt is filed by a request that was in flight, and *)
(* leaves it to one fewer; and time empties the set again.                  *)
LEMMA FileStep ==
  ASSUME CompletionAssumption, InductiveInv, NEW c \in Callers, File(c)
  PROVE  InductiveInv'
  <1>1. /\ Sound(req[c]) /\ req[c].at = "filing"
        /\ held \in 0..Keep /\ shed \in 0..Cardinality(Callers) /\ Keep \in Nat \ {0}
        /\ MaxPieces \in Nat \ {0} /\ MarkPieces \in Nat
    BY AllSound DEF InductiveInv, TypeOK, CompletionAssumption, File
  <1> DEFINE old == req[c]
             r == Ended(c, [req[c] EXCEPT !.filed = TRUE])
  <1>2. /\ r.at = "over" /\ r.filed /\ r.arm = old.arm /\ r.left = old.left
        /\ r.hashed = old.hashed /\ r.digest = old.digest /\ r.owed = old.owed
        /\ r.told = IF Here(c) THEN "whole" ELSE old.told
        /\ r.sent = IF Here(c) /\ old.arm = "buffered" THEN 1 ELSE old.sent
    BY <1>1 DEF Ended, Sound, Requests
  <1>3. r \in Requests
    <2>1. old \in Requests /\ 1 \in Pieces /\ old.sent \in Pieces
      BY <1>1 DEF Sound, Requests
    <2> DEFINE mid == [old EXCEPT !.filed = TRUE]
    <2>2. mid \in Requests
      BY <2>1 DEF Requests
    <2>3. ASSUME NEW m \in Requests
          PROVE  Ended(c, m) \in Requests
      <3>1. CASE Here(c)
        <4>1. (IF m.arm = "buffered" THEN 1 ELSE m.sent) \in Pieces
          BY <2>1 DEF Requests
        <4>2. Ended(c, m) = [m EXCEPT !.at = "over", !.told = "whole",
                                      !.sent = IF m.arm = "buffered" THEN 1 ELSE m.sent]
          BY <3>1 DEF Ended, Requests
        <4> QED
          BY <4>1, <4>2 DEF Requests
      <3>2. CASE ~Here(c)
        BY <3>2 DEF Ended, Requests
      <3> QED
        BY <3>1, <3>2
    <2> HIDE DEF mid
    <2>4. Ended(c, mid) \in Requests
      BY <2>2, <2>3
    <2> QED
      BY <2>4 DEF mid
  <1>4. Sound(r)
    <2> HIDE DEF r
    <2>1. /\ old.arm \in {"buffered", "stream"} /\ old.told = "nothing" /\ old.digest = old.hashed
          /\ old.arm = "stream" => old.hashed = old.sent /\ old.left # "early"
          /\ old.arm = "buffered" => old.hashed = 1 /\ old.sent = 0
      BY <1>1 DEF Sound, ArmFits, SocketAndDigest, EndedFiled, Requests
    <2>2. ArmFits(r) /\ EndedFiled(r)
      BY <1>2, <2>1 DEF ArmFits, EndedFiled, Here
    <2>3. SocketAndDigest(r)
      BY <1>1, <1>2, <2>1 DEF Sound, SocketAndDigest, Here, Requests
    <2> QED
      BY <1>3, <2>2, <2>3 DEF Sound
  <1>5. /\ req' \in [Callers -> Requests]
        /\ \A d \in Callers : ArmFits(req[d])' /\ SocketAndDigest(req[d])' /\ EndedFiled(req[d])'
        /\ req'[c] = r
        /\ \A d \in Callers : d # c => req'[d] = req[d]
    BY <1>4, OthersStay DEF File
  <1>6. c \in InFlight /\ InFlight' = InFlight \ {c} /\ InFlight \subseteq Callers
    BY <1>1, <1>2, <1>5 DEF InFlight
  <1>7. /\ Cardinality(InFlight') = Cardinality(InFlight) - 1
        /\ Cardinality(InFlight) \in Nat /\ Cardinality(Callers) \in Nat
        /\ Cardinality(InFlight) <= Cardinality(Callers)
        /\ Cardinality(InFlight) # 0
    <2>1. IsFiniteSet(Callers) /\ IsFiniteSet(InFlight)
      BY <1>6, FS_Subset DEF CompletionAssumption
    <2>2. Cardinality(InFlight) # 0
      BY <1>6, <2>1, FS_EmptySet
    <2> QED
      BY <1>6, <2>1, <2>2, FS_Subset, FS_CardinalityType, FS_RemoveElement
  <1>8. ShedByTheAdmitted' /\ held' \in 0..Keep /\ shed' \in 0..Cardinality(Callers)
    <2>1. CASE held = Keep
      <3>1. held' = Keep /\ shed' = shed + 1 /\ shed + Cardinality(InFlight) < Cardinality(Callers)
        BY <2>1 DEF File, InductiveInv, ShedByTheAdmitted
      <3> QED
        BY <1>1, <1>7, <3>1 DEF ShedByTheAdmitted
    <2>2. CASE held # Keep
      <3>1. held' = held + 1 /\ shed' = shed /\ shed = 0
        BY <1>1, <2>2 DEF File, InductiveInv, ShedByTheAdmitted
      <3> QED
        BY <1>1, <1>7, <2>2, <3>1 DEF ShedByTheAdmitted
    <2> QED
      BY <2>1, <2>2
  <1>9. TypeOK'
    BY <1>5, <1>8 DEF TypeOK, InductiveInv, File
  <1> QED
    BY <1>5, <1>8, <1>9 DEF InductiveInv

LEMMA TimeStep ==
  ASSUME CompletionAssumption, InductiveInv, Age \/ Earn \/ UNCHANGED vars
  PROVE  InductiveInv'
  <1>1. Cardinality(Callers) \in Nat
    BY FS_CardinalityType DEF CompletionAssumption
  <1>2. UNCHANGED <<req, marks>>
    BY DEF Age, Earn, vars
  <1>3. TypeOK' /\ ShedByTheAdmitted'
    <2>1. CASE Age
      BY <1>1, <2>1 DEF Age, InductiveInv, TypeOK, ShedByTheAdmitted, CompletionAssumption
    <2>2. CASE Earn
      BY <1>1, <2>2 DEF Earn, InductiveInv, TypeOK, ShedByTheAdmitted, CompletionAssumption, InFlight
    <2>3. CASE UNCHANGED vars
      BY <1>1, <2>3 DEF vars, InductiveInv, TypeOK, ShedByTheAdmitted, InFlight
    <2> QED
      BY <2>1, <2>2, <2>3
  <1> QED
    BY <1>2, <1>3 DEF InductiveInv, ArmFits, SocketAndDigest, EndedFiled

LEMMA NextInductive ==
  ASSUME CompletionAssumption, InductiveInv, [Next]_vars
  PROVE  InductiveInv'
  <1>1. ASSUME NEW c \in Callers, Handler(c) \/ Arrive(c) \/ Leave(c) \/ Again(c)
        PROVE  InductiveInv'
    <2>1. CASE File(c)
      BY <2>1, FileStep
    <2>2. CASE ~File(c)
      <3>1. Follows(c)
        BY <1>1, <2>2, AheadOfTheBody, StreamStep, MeterStep, LeaveStep, FinishStep DEF Handler
      <3> QED
        BY <3>1, FollowsInductive
    <2> QED
      BY <2>1, <2>2
  <1> QED
    BY <1>1, TimeStep DEF Next

-----------------------------------------------------------------------------
(* Every request in every state is where its arm has an await, its socket   *)
(* and its digest agree as far as the client's leaving lets them, and what  *)
(* the count retired is paid for by requests admitted before it.            *)
THEOREM CompletionInductive ==
  ASSUME CompletionAssumption
  PROVE  Spec => []InductiveInv
  <1>1. Init => InductiveInv
    BY InitInductive
  <1>2. InductiveInv /\ [Next]_vars => InductiveInv'
    BY NextInductive
  <1> QED
    BY <1>1, <1>2, PTL DEF Spec

(* gateway/src/server.ts awaits store.put before the answer: whoever read a *)
(* response to its end finds its receipt on file.                           *)
THEOREM WholeIsFiled ==
  ASSUME CompletionAssumption
  PROVE  Spec => []ReceiptMeansWhole
  <1>1. InductiveInv => ReceiptMeansWhole
    BY DEF InductiveInv, EndedFiled, ReceiptMeansWhole
  <1> QED
    BY <1>1, CompletionInductive, PTL

(* gateway/src/server.ts, write(): what the socket took the digest took,    *)
(* and nothing else is signed for, whenever the client goes.                *)
THEOREM DigestIsTheBody ==
  ASSUME CompletionAssumption
  PROVE  Spec => []DigestCoversTheBody
  <1>1. InductiveInv => DigestCoversTheBody
    BY DEF InductiveInv, EndedFiled, DigestCoversTheBody
  <1> QED
    BY <1>1, CompletionInductive, PTL

(* gateway/src/server.ts reads the retained set at the guard and files at   *)
(* the end: what other completions fill in between costs fewer receipts     *)
(* than there are callers.                                                  *)
THEOREM OvershootBounded ==
  ASSUME CompletionAssumption
  PROVE  Spec => []OvershootIsInFlight
  <1>1. InductiveInv => OvershootIsInFlight
    <2> SUFFICES ASSUME InductiveInv PROVE OvershootIsInFlight
      OBVIOUS
    <2>1. Cardinality(Callers) \in Nat /\ Cardinality(Callers) # 0
      BY FS_CardinalityType, FS_EmptySet DEF CompletionAssumption
    <2>2. InFlight \subseteq Callers /\ IsFiniteSet(InFlight)
      BY FS_Subset DEF CompletionAssumption, InFlight
    <2>3. Cardinality(InFlight) \in Nat
      BY <2>2, FS_CardinalityType
    <2>4. held \in 0..Keep /\ shed \in Nat /\ ShedByTheAdmitted /\ Keep \in Nat
      BY <2>1 DEF InductiveInv, TypeOK, CompletionAssumption
    <2> QED
      BY <2>1, <2>3, <2>4 DEF ShedByTheAdmitted, OvershootIsInFlight
  <1> QED
    BY <1>1, CompletionInductive, PTL
=============================================================================
