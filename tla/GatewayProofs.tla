----------------------------- MODULE GatewayProofs -----------------------------
(***************************************************************************)
(* DirectoryClaim for every set of processes and hosts: types, and the     *)
(* claim that a fork needs a takeover that moved a running process's claim.*)
(* Then what RateLimitProofs, AdmissionProofs, AccessLogProofs and         *)
(* EpochJournalProofs prove of one machine, of the composition the runs    *)
(* check: a step of MCGateway is a step of the machine it picked, and      *)
(* leaves the variables of the others alone.  Last, the stamps of          *)
(* TimeSource.                                                             *)
(***************************************************************************)
EXTENDS MCGateway, TLAPS

USE DEF Claim, Stages, Goto, Running, Nameless, holderState

LEMMA InitInductive == Init => InductiveInv
  BY DEF Init, InductiveInv, TypeOK, Countdown, HoldersNamed, WritesAtTheName,
         ProbesAClaim, FindsItselfNamed, Holding

(* The types and the loop counter, whatever has been moved. *)
LEMMA TypesStep ==
    TypeOK /\ Countdown /\ ProbesAClaim /\ [Next]_vars
        => TypeOK' /\ Countdown' /\ ProbesAClaim'
  <2> SUFFICES ASSUME TypeOK, Countdown, ProbesAClaim, [Next]_vars
               PROVE  TypeOK' /\ Countdown' /\ ProbesAClaim'
    OBVIOUS
  <2> USE NoneAssumption, HostAssumption DEF TypeOK, Countdown, ProbesAClaim
  <2>1. ASSUME NEW p \in Proc, Start(p) PROVE TypeOK' /\ Countdown' /\ ProbesAClaim'
    BY <2>1 DEF Start
  <2>2. ASSUME NEW p \in Proc, Create(p) PROVE TypeOK' /\ Countdown' /\ ProbesAClaim'
    BY <2>2 DEF Create
  <2>3. ASSUME NEW p \in Proc, WriteClaim(p) PROVE TypeOK' /\ Countdown' /\ ProbesAClaim'
    BY <2>3 DEF WriteClaim
  <2>4. ASSUME NEW p \in Proc, ReadClaim(p) PROVE TypeOK' /\ Countdown' /\ ProbesAClaim'
    BY <2>4 DEF ReadClaim
  <2>5. ASSUME NEW p \in Proc, Probe(p) PROVE TypeOK' /\ Countdown' /\ ProbesAClaim'
    BY <2>5 DEF Probe
  <2>6. ASSUME NEW p \in Proc, Displace(p) PROVE TypeOK' /\ Countdown' /\ ProbesAClaim'
    BY <2>6 DEF Displace
  <2>7. ASSUME NEW p \in Proc, Serve(p) PROVE TypeOK' /\ Countdown' /\ ProbesAClaim'
    BY <2>7 DEF Serve
  <2>8. ASSUME NEW p \in Proc, FailOpen(p) PROVE TypeOK' /\ Countdown' /\ ProbesAClaim'
    BY <2>8 DEF FailOpen
  <2>9. ASSUME NEW p \in Proc, ReleaseRead(p) PROVE TypeOK' /\ Countdown' /\ ProbesAClaim'
    BY <2>9 DEF ReleaseRead
  <2>10. ASSUME NEW p \in Proc, ReleaseRemove(p) PROVE TypeOK' /\ Countdown' /\ ProbesAClaim'
    BY <2>10 DEF ReleaseRemove
  <2>11. ASSUME NEW p \in Proc, VolumeRefuses(p) PROVE TypeOK' /\ Countdown' /\ ProbesAClaim'
    BY <2>11 DEF VolumeRefuses
  <2>12. ASSUME NEW p \in Proc, Stop(p) PROVE TypeOK' /\ Countdown' /\ ProbesAClaim'
    BY <2>12 DEF Stop
  <2>13. CASE UNCHANGED vars
    BY <2>13 DEF vars
  <2> QED
    BY <2>1, <2>2, <2>3, <2>4, <2>5, <2>6, <2>7, <2>8, <2>9, <2>10, <2>11, <2>12, <2>13 DEF Next, Step, Advance

(* While no running process has lost its claim, no step separates an       *)
(* opening from the claim it runs under.                                   *)
LEMMA NamedStep ==
    InductiveInv /\ [Next]_vars /\ seized' = "never"
        => HoldersNamed' /\ WritesAtTheName' /\ FindsItselfNamed'
  <2> SUFFICES ASSUME InductiveInv, [Next]_vars, seized' = "never"
               PROVE  HoldersNamed' /\ WritesAtTheName' /\ FindsItselfNamed'
    OBVIOUS
  <2> USE NoneAssumption, HostAssumption DEF InductiveInv, TypeOK, Countdown, HoldersNamed, Holding,
          WritesAtTheName, ProbesAClaim, FindsItselfNamed
  <2>1. ASSUME NEW p \in Proc, Start(p) PROVE HoldersNamed' /\ WritesAtTheName' /\ FindsItselfNamed'
    BY <2>1 DEF Start
  <2>2. ASSUME NEW p \in Proc, Create(p) PROVE HoldersNamed' /\ WritesAtTheName' /\ FindsItselfNamed'
    BY <2>2 DEF Create
  <2>3. ASSUME NEW p \in Proc, WriteClaim(p) PROVE HoldersNamed' /\ WritesAtTheName' /\ FindsItselfNamed'
    BY <2>3 DEF WriteClaim
  <2>4. ASSUME NEW p \in Proc, ReadClaim(p) PROVE HoldersNamed' /\ WritesAtTheName' /\ FindsItselfNamed'
    BY <2>4 DEF ReadClaim
  <2>5. ASSUME NEW p \in Proc, Probe(p) PROVE HoldersNamed' /\ WritesAtTheName' /\ FindsItselfNamed'
    BY <2>5 DEF Probe
  <2>6. ASSUME NEW p \in Proc, Displace(p) PROVE HoldersNamed' /\ WritesAtTheName' /\ FindsItselfNamed'
    BY <2>6 DEF Displace
  <2>7. ASSUME NEW p \in Proc, Serve(p) PROVE HoldersNamed' /\ WritesAtTheName' /\ FindsItselfNamed'
    BY <2>7 DEF Serve
  <2>8. ASSUME NEW p \in Proc, FailOpen(p) PROVE HoldersNamed' /\ WritesAtTheName' /\ FindsItselfNamed'
    BY <2>8 DEF FailOpen
  <2>9. ASSUME NEW p \in Proc, ReleaseRead(p) PROVE HoldersNamed' /\ WritesAtTheName' /\ FindsItselfNamed'
    BY <2>9 DEF ReleaseRead
  <2>10. ASSUME NEW p \in Proc, ReleaseRemove(p) PROVE HoldersNamed' /\ WritesAtTheName' /\ FindsItselfNamed'
    BY <2>10 DEF ReleaseRemove
  <2>11. ASSUME NEW p \in Proc, VolumeRefuses(p) PROVE HoldersNamed' /\ WritesAtTheName' /\ FindsItselfNamed'
    BY <2>11 DEF VolumeRefuses
  <2>12. ASSUME NEW p \in Proc, Stop(p) PROVE HoldersNamed' /\ WritesAtTheName' /\ FindsItselfNamed'
    BY <2>12 DEF Stop
  <2>13. CASE UNCHANGED vars
    BY <2>13 DEF vars
  <2> QED
    BY <2>1, <2>2, <2>3, <2>4, <2>5, <2>6, <2>7, <2>8, <2>9, <2>10, <2>11, <2>12, <2>13 DEF Next, Step, Advance

LEMMA Inductive == Spec => []InductiveInv
<1>1. InductiveInv /\ [Next]_vars => InductiveInv'
  BY TypesStep, NamedStep DEF InductiveInv
<1> QED
  BY InitInductive, <1>1, PTL DEF Spec

(* Every variable keeps its type through every step. *)
THEOREM TypeCorrect == Spec => []TypeOK
<1>1. InductiveInv => TypeOK
  BY DEF InductiveInv
<1> QED
  BY <1>1, Inductive, PTL

(* Whatever the processes and the machines, two stores serve one directory *)
(* only if a takeover has moved the claim of a process that was running.   *)
THEOREM ForkTakesASeizure == Spec => []ForkNeedsSeizure
<1>1. InductiveInv => ForkNeedsSeizure
  BY DEF InductiveInv, TypeOK, HoldersNamed, Holding, ForkNeedsSeizure, OneServing, Serving
<1> QED
  BY <1>1, Inductive, PTL

(* Under the same condition a refused opening removes no claim but its own. *)
THEOREM HandBackIsOwn == Spec => HandsBackItsOwn
<1>1. InductiveInv =>
        \A p \in Proc : pc[p] = "relRemove" /\ owner # None /\ owner' = None
                          => owner.by = p \/ seized = "once"
  BY DEF InductiveInv, TypeOK, HoldersNamed, Holding
<1> QED
  BY <1>1, Inductive, PTL DEF HandsBackItsOwn

HIDE DEF Claim, Stages, Goto, Running, Nameless, holderState

-----------------------------------------------------------------------------
RateProof == INSTANCE RateLimitProofs WITH
    MaxClock <- RateClock,
    clock <- bClock, buckets <- bBuckets, granted <- bGranted, opened <- bOpened, others <- bOthers,
    promised <- bPromised

GateProof == INSTANCE AdmissionProofs WITH
    PeerBurst <- 1, Burst <- 1, Unit <- 1, Gain <- 1, Second <- 1, MaxClock <- AdmitClock,
    clock <- gClock, peers <- gPeers, seen <- gSeen, own <- gOwn, verdict <- gVerdict, guess <- gGuess,
    recent <- gRecent, later <- gLater

LogProof == INSTANCE AccessLogProofs WITH
    parts <- aParts, clock <- aClock, current <- aCurrent, size <- aSize, swept <- aSwept, task <- aTask,
    nextRid <- aNextRid, acked <- aAcked, faults <- aFaults, scrub <- aScrub, owed <- aOwed,
    erased <- aErased, overrun <- aOverrun

JournalProof == INSTANCE EpochJournalProofs WITH
    Keys <- SealKeys,
    journal <- eJournal, temp <- eTemp, holder <- eHolder, proc <- eProc, now <- eNow, issued <- eIssued,
    started <- eStarted, stepped <- eStepped, edits <- eEdits

(* The two instances of RateLimit are one machine.                         *)
LEMMA SameRate ==
  /\ Rate!Init <=> RateProof!Init
  /\ Rate!Next <=> RateProof!Next
  /\ RateProof!InductiveInv <=> Rate!InductiveInv
  /\ RateProof!LimitAssumption
  <1>1. Rate!Init <=> RateProof!Init
    BY DEF Rate!Init, RateProof!Init, Rate!NoPromise, RateProof!NoPromise
  <1>2. Rate!Next <=> RateProof!Next
    BY DEF Rate!Bucket, RateProof!Bucket, Rate!Keys, RateProof!Keys,
           Rate!Position, RateProof!Position, Rate!BucketOf,
           RateProof!BucketOf, Rate!Others, RateProof!Others, Rate!Least,
           RateProof!Least, Rate!Most, RateProof!Most, Rate!Refilled,
           RateProof!Refilled, Rate!Allowed, RateProof!Allowed, Rate!Base,
           RateProof!Base, Rate!Trimmed, RateProof!Trimmed, Rate!Taken,
           RateProof!Taken, Rate!RetryAfter, RateProof!RetryAfter,
           Rate!RemoveAt, RateProof!RemoveAt, Rate!NoPromise,
           RateProof!NoPromise, Rate!Rest, RateProof!Rest, Rate!Init,
           RateProof!Init, Rate!Move, RateProof!Move, Rate!Presented,
           RateProof!Presented, Rate!Open, RateProof!Open, Rate!Grant,
           RateProof!Grant, Rate!Refuse, RateProof!Refuse, Rate!Next,
           RateProof!Next
  <1>3. RateProof!InductiveInv <=> Rate!InductiveInv
    BY DEF Rate!Bucket, RateProof!Bucket, Rate!Keys, RateProof!Keys,
           Rate!Position, RateProof!Position, Rate!BucketOf,
           RateProof!BucketOf, Rate!Others, RateProof!Others, Rate!Least,
           RateProof!Least, Rate!Most, RateProof!Most, Rate!Refilled,
           RateProof!Refilled, Rate!Allowed, RateProof!Allowed, Rate!Base,
           RateProof!Base, Rate!Trimmed, RateProof!Trimmed, Rate!Taken,
           RateProof!Taken, Rate!RetryAfter, RateProof!RetryAfter,
           Rate!RemoveAt, RateProof!RemoveAt, Rate!NoPromise,
           RateProof!NoPromise, Rate!Rest, RateProof!Rest, Rate!TypeOK,
           RateProof!TypeOK, Rate!GrantsAreEarned, RateProof!GrantsAreEarned,
           Rate!PromiseIsCovered, RateProof!PromiseIsCovered,
           Rate!LatestAtTheBack, RateProof!LatestAtTheBack,
           Rate!InductiveInv, RateProof!InductiveInv, Rate!Cardinality,
           RateProof!Cardinality
  <1>4. RateProof!LimitAssumption
    BY MachinesAssumption DEF Rate!LimitAssumption, RateProof!LimitAssumption,
           Rate!RateAssumption, RateProof!RateAssumption, Rate!IsFiniteSet,
           RateProof!IsFiniteSet, Rate!Cardinality, RateProof!Cardinality
  <1> QED
    BY <1>1, <1>2, <1>3, <1>4

(* The two instances of Admission are one machine.                         *)
LEMMA SameGate ==
  /\ Gate!Init <=> GateProof!Init
  /\ Gate!Next <=> GateProof!Next
  /\ GateProof!InductiveInv <=> Gate!InductiveInv
  /\ GateProof!WindowAssumption
  <1>1. Gate!Init <=> GateProof!Init
    BY DEF Gate!Init, GateProof!Init, Gate!Pair, GateProof!Pair
  <1>2. Gate!Next <=> GateProof!Next
    BY DEF Gate!Peers!Bucket, GateProof!Peers!Bucket, Gate!Peers!Keys,
           GateProof!Peers!Keys, Gate!Peers!Position,
           GateProof!Peers!Position, Gate!Peers!BucketOf,
           GateProof!Peers!BucketOf, Gate!Peers!Others,
           GateProof!Peers!Others, Gate!Peers!Least, GateProof!Peers!Least,
           Gate!Peers!Most, GateProof!Peers!Most, Gate!Peers!Refilled,
           GateProof!Peers!Refilled, Gate!Peers!Allowed,
           GateProof!Peers!Allowed, Gate!Peers!Base, GateProof!Peers!Base,
           Gate!Peers!Trimmed, GateProof!Peers!Trimmed, Gate!Peers!Taken,
           GateProof!Peers!Taken, Gate!Peers!RemoveAt,
           GateProof!Peers!RemoveAt, Gate!Own!Bucket, GateProof!Own!Bucket,
           Gate!Own!Keys, GateProof!Own!Keys, Gate!Own!Position,
           GateProof!Own!Position, Gate!Own!BucketOf, GateProof!Own!BucketOf,
           Gate!Own!Others, GateProof!Own!Others, Gate!Own!Least,
           GateProof!Own!Least, Gate!Own!Most, GateProof!Own!Most,
           Gate!Own!Refilled, GateProof!Own!Refilled, Gate!Own!Allowed,
           GateProof!Own!Allowed, Gate!Own!Base, GateProof!Own!Base,
           Gate!Own!Trimmed, GateProof!Own!Trimmed, Gate!Own!Taken,
           GateProof!Own!Taken, Gate!Own!RemoveAt, GateProof!Own!RemoveAt,
           Gate!RemoveAt, GateProof!RemoveAt, Gate!Cardinality,
           GateProof!Cardinality, Gate!Pair, GateProof!Pair, Gate!Stamps,
           GateProof!Stamps, Gate!Request, GateProof!Request, Gate!PairOf,
           GateProof!PairOf, Gate!Init, GateProof!Init, Gate!StaleStamp,
           GateProof!StaleStamp, Gate!Stale, GateProof!Stale, Gate!Verifies,
           GateProof!Verifies, Gate!Replayed, GateProof!Replayed,
           Gate!Remembered, GateProof!Remembered, Gate!Without,
           GateProof!Without, Gate!Grown, GateProof!Grown, Gate!Recorded,
           GateProof!Recorded, Gate!PeerAllows, GateProof!PeerAllows,
           Gate!PeerCharged, GateProof!PeerCharged, Gate!Unstamped,
           GateProof!Unstamped, Gate!Asked, GateProof!Asked, Gate!Public,
           GateProof!Public, Gate!PeerRefuses, GateProof!PeerRefuses,
           Gate!Refusal, GateProof!Refusal, Gate!Refuses, GateProof!Refuses,
           Gate!Passes, GateProof!Passes, Gate!ScopeDenies,
           GateProof!ScopeDenies, Gate!Charge, GateProof!Charge,
           Gate!BearerRefuses, GateProof!BearerRefuses, Gate!BearerCharge,
           GateProof!BearerCharge, Gate!Step, GateProof!Step, Gate!Next,
           GateProof!Next
  <1>3. GateProof!InductiveInv <=> Gate!InductiveInv
    BY DEF Gate!Peers!Keys, GateProof!Peers!Keys, Gate!Own!Keys,
           GateProof!Own!Keys, Gate!Pair, GateProof!Pair, Gate!Stamps,
           GateProof!Stamps, Gate!Verdicts, GateProof!Verdicts, Gate!TypeOK,
           GateProof!TypeOK, Gate!EntryOutlastsItsStamps,
           GateProof!EntryOutlastsItsStamps, Gate!BucketsAreBuckets,
           GateProof!BucketsAreBuckets, Gate!Unstamped, GateProof!Unstamped,
           Gate!Guesses, GateProof!Guesses, Gate!InductiveInv,
           GateProof!InductiveInv
  <1>4. GateProof!WindowAssumption
    BY MachinesAssumption DEF Gate!WindowAssumption, GateProof!WindowAssumption,
           Gate!IsFiniteSet, GateProof!IsFiniteSet
  <1> QED
    BY <1>1, <1>2, <1>3, <1>4

(* The two instances of EpochJournal are one journal.                       *)
LEMMA SameJournal ==
  /\ Journal!Init <=> JournalProof!Init
  /\ Journal!Next <=> JournalProof!Next
  /\ JournalProof!InductiveInv <=> Journal!InductiveInv
  /\ JournalProof!JournalAssumption
  <1>1. Journal!Init <=> JournalProof!Init
    BY DEF Journal!Down, JournalProof!Down, Journal!Init, JournalProof!Init
  <1>2. Journal!Next <=> JournalProof!Next
    BY DEF Journal!Cardinality, JournalProof!Cardinality, Journal!RemoveAt,
           JournalProof!RemoveAt, Journal!Down, JournalProof!Down,
           Journal!Stated, JournalProof!Stated, Journal!prefixDigest,
           JournalProof!prefixDigest, Journal!Chains, JournalProof!Chains,
           Journal!Names, JournalProof!Names, Journal!Stampable,
           JournalProof!Stampable, Journal!unsealedHistoryRefusal,
           JournalProof!unsealedHistoryRefusal, Journal!Move,
           JournalProof!Move, Journal!Leaves, JournalProof!Leaves,
           Journal!NewEntry, JournalProof!NewEntry, Journal!Claim,
           JournalProof!Claim, Journal!OpenJournal, JournalProof!OpenJournal,
           Journal!WriteTemp, JournalProof!WriteTemp, Journal!RenameTemp,
           JournalProof!RenameTemp, Journal!Stop, JournalProof!Stop,
           Journal!Issue, JournalProof!Issue, Journal!Tick,
           JournalProof!Tick, Journal!Edit, JournalProof!Edit, Journal!Next,
           JournalProof!Next
  <1>3. JournalProof!InductiveInv <=> Journal!InductiveInv
    BY DEF Journal!Stated, JournalProof!Stated, Journal!prefixDigest,
           JournalProof!prefixDigest, Journal!Names, JournalProof!Names,
           Journal!Statement, JournalProof!Statement, Journal!Entry,
           JournalProof!Entry, Journal!Steps, JournalProof!Steps,
           Journal!TypeOK, JournalProof!TypeOK, Journal!Told,
           JournalProof!Told, Journal!Rising, JournalProof!Rising,
           Journal!Deployed, JournalProof!Deployed, Journal!Dated,
           JournalProof!Dated, Journal!Whole, JournalProof!Whole,
           Journal!HolderIsNewest, JournalProof!HolderIsNewest,
           Journal!HistoryIsTold, JournalProof!HistoryIsTold,
           Journal!InductiveInv, JournalProof!InductiveInv
  <1>4. JournalProof!JournalAssumption
    BY MachinesAssumption DEF Journal!JournalAssumption, JournalProof!JournalAssumption
  <1> QED
    BY <1>1, <1>2, <1>3, <1>4

(* The two instances of AccessLogScrub are one machine.                    *)
LEMMA SameLog ==
  /\ Log!Init <=> LogProof!Init
  /\ Log!Next <=> LogProof!Next
  /\ LogProof!InductiveInv <=> Log!InductiveInv
  /\ (LogProof!OwedStands /\ LogProof!ErasedIsGone) <=> (Log!OwedStands /\ Log!ErasedIsGone)
  /\ LogProof!AllMatched <=> \A name \in DOMAIN aParts : Log!Matched(name)
  /\ LogProof!LogAssumption
  <1>1. Log!Init <=> LogProof!Init
    BY DEF Log!Init, LogProof!Init, Log!LogInit, LogProof!LogInit
  <1>2. Log!Next <=> LogProof!Next
    BY DEF Log!Range, LogProof!Range, Log!Restrict, LogProof!Restrict, Log!Min, LogProof!Min, Log!Last,
           LogProof!Last, Log!Front, LogProof!Front, Log!Cardinality, LogProof!Cardinality, Log!logVars,
           LogProof!logVars, Log!Before, LogProof!Before, Log!Matched, LogProof!Matched, Log!Listed,
           LogProof!Listed, Log!Line, LogProof!Line, Log!Torn, LogProof!Torn, Log!Appended, LogProof!Appended,
           Log!ReqsIn, LogProof!ReqsIn, Log!OnVolume, LogProof!OnVolume, Log!Fault, LogProof!Fault, Log!Tick,
           LogProof!Tick, Log!Record, LogProof!Record, Log!Resumed, LogProof!Resumed, Log!FreePart,
           LogProof!FreePart, Log!Settle, LogProof!Settle, Log!At, LogProof!At, Log!Put, LogProof!Put,
           Log!AppendLine, LogProof!AppendLine, Log!AppendShort, LogProof!AppendShort, Log!Aged, LogProof!Aged,
           Log!Sweep, LogProof!Sweep, Log!SweepFails, LogProof!SweepFails, Log!Restart, LogProof!Restart,
           Log!LogNext, LogProof!LogNext, Log!Subject, LogProof!Subject, Log!Held, LogProof!Held, Log!Kept,
           LogProof!Kept, Log!Name, LogProof!Name, Log!OnReadableLine, LogProof!OnReadableLine, Log!Begin,
           LogProof!Begin, Log!Closing, LogProof!Closing, Log!Failing, LogProof!Failing, Log!Advance,
           LogProof!Advance, Log!Running, LogProof!Running, Log!Ghosts, LogProof!Ghosts, Log!ReadPart,
           LogProof!ReadPart, Log!HoldsStill, LogProof!HoldsStill, Log!Filter, LogProof!Filter, Log!Compare,
           LogProof!Compare, Log!Publish, LogProof!Publish, Log!Confirm, LogProof!Confirm, Log!Receipt,
           LogProof!Receipt, Log!ScrubNext, LogProof!ScrubNext, Log!Next, LogProof!Next, Log!vars,
           LogProof!vars
  <1>3. LogProof!InductiveInv <=> Log!InductiveInv
    BY DEF Log!Range, LogProof!Range, Log!Subject, LogProof!Subject, Log!Matched, LogProof!Matched, Log!Listed,
           LogProof!Listed, Log!ReqsIn, LogProof!ReqsIn, Log!OnVolume, LogProof!OnVolume, Log!At, LogProof!At,
           Log!Before, LogProof!Before, Log!Name, LogProof!Name, Log!Requests, LogProof!Requests, Log!Lines,
           LogProof!Lines, Log!Names, LogProof!Names, Log!ScrubAt, LogProof!ScrubAt, Log!Runs, LogProof!Runs,
           Log!TypeOK, LogProof!TypeOK, Log!Writing, LogProof!Writing, Log!Filed, LogProof!Filed, Log!Spent,
           LogProof!Spent, Log!Pool, LogProof!Pool, Log!PoolStands, LogProof!PoolStands, Log!PartsStand,
           LogProof!PartsStand, Log!Accounted, LogProof!Accounted, Log!TaskStands, LogProof!TaskStands,
           Log!ScrubStands, LogProof!ScrubStands, Log!LinesAreKept, LogProof!LinesAreKept, Log!InductiveInv,
           LogProof!InductiveInv
  <1>4. (LogProof!OwedStands /\ LogProof!ErasedIsGone) <=> (Log!OwedStands /\ Log!ErasedIsGone)
    BY DEF Log!Range, LogProof!Range, Log!Running, LogProof!Running, Log!ReqsIn, LogProof!ReqsIn, Log!OnVolume,
           LogProof!OnVolume, Log!At, LogProof!At, Log!Before, LogProof!Before, Log!Name, LogProof!Name,
           Log!Writing, LogProof!Writing, Log!Filed, LogProof!Filed, Log!Pool, LogProof!Pool, Log!Pending,
           LogProof!Pending, Log!OwedStands, LogProof!OwedStands, Log!ErasedIsGone, LogProof!ErasedIsGone
  <1>5. LogProof!AllMatched <=> \A name \in DOMAIN aParts : Log!Matched(name)
    BY DEF LogProof!AllMatched, Log!Matched, LogProof!Matched
  <1>6. LogProof!LogAssumption
    BY MachinesAssumption DEF Log!LogAssumption, LogProof!LogAssumption
  <1> QED
    BY <1>1, <1>2, <1>3, <1>4, <1>5, <1>6

(* Every behaviour of the composition is, in the variables of the buckets,  *)
(* one of RateLimit.                                                        *)
LEMMA IsRate == MCSpec => RateProof!Spec
  <1>1. MCInit => RateProof!Init
    BY SameRate DEF MCInit
  <1>2. [MCNext]_<<machine, vars, bVars, gVars, aVars, eVars, tVars>> => [RateProof!Next]_(RateProof!vars)
    BY SameRate DEF MCNext, bVars, RateProof!vars
  <1> QED
    BY <1>1, <1>2, PTL DEF MCSpec, RateProof!Spec

(* Every behaviour of the composition is, in the variables of the gate, one *)
(* of Admission.                                                            *)
LEMMA IsGate == MCSpec => GateProof!Spec
  <1>1. MCInit => GateProof!Init
    BY SameGate DEF MCInit
  <1>2. [MCNext]_<<machine, vars, bVars, gVars, aVars, eVars, tVars>> => [GateProof!Next]_(GateProof!vars)
    BY SameGate DEF MCNext, gVars, GateProof!vars
  <1> QED
    BY <1>1, <1>2, PTL DEF MCSpec, GateProof!Spec

(* Every behaviour of the composition is, in the variables of the journal,  *)
(* one of EpochJournal.                                                     *)
LEMMA IsJournal == MCSpec => JournalProof!Spec
  <1>1. MCInit => JournalProof!Init
    BY SameJournal DEF MCInit
  <1>2. [MCNext]_<<machine, vars, bVars, gVars, aVars, eVars, tVars>> => [JournalProof!Next]_(JournalProof!vars)
    BY SameJournal DEF MCNext, eVars, JournalProof!vars
  <1> QED
    BY <1>1, <1>2, PTL DEF MCSpec, JournalProof!Spec

(* Every behaviour of the composition is, in the variables of the access   *)
(* log, one of AccessLogScrub.                                              *)
LEMMA IsLog == MCSpec => LogProof!Spec
  <1>1. MCInit => LogProof!Init
    BY SameLog DEF MCInit
  <1>2. [MCNext]_<<machine, vars, bVars, gVars, aVars, eVars, tVars>> => [LogProof!Next]_(LogProof!vars)
    <2>1. UNCHANGED aVars => UNCHANGED LogProof!vars
      BY DEF aVars, LogProof!vars, LogProof!logVars
    <2> QED
      BY <2>1, SameLog DEF MCNext
  <1> QED
    BY <1>1, <1>2, PTL DEF MCSpec, LogProof!Spec

-----------------------------------------------------------------------------
(* gateway/src/access.ts, TokenBucket: however the clock is set, a key is   *)
(* granted its burst and what the time its bucket counted refills, and no   *)
(* step back takes a token nobody spent.                                    *)
THEOREM EarnedInGateway == MCSpec => []GrantsAreEarned
  <1>1. RateProof!Spec => []RateProof!InductiveInv
    BY SameRate, RateProof!RateInductive
  <1>2. RateProof!InductiveInv => GrantsAreEarned
    BY SameRate DEF GrantsAreEarned, Rate!InductiveInv
  <1> QED
    BY <1>1, <1>2, IsRate, PTL

(* gateway/src/access.ts, retryAfterSeconds: a client that waits what its   *)
(* refusal states is not refused again.                                     *)
THEOREM HintInGateway == MCSpec => []HintSuffices
  <1>1. RateProof!Spec => []RateProof!HintSuffices
    BY SameRate, RateProof!HintIsEnough
  <1>2. RateProof!HintSuffices => HintSuffices
    BY DEF HintSuffices,
           Rate!Bucket, RateProof!Bucket, Rate!Keys, RateProof!Keys,
           Rate!Position, RateProof!Position, Rate!BucketOf,
           RateProof!BucketOf, Rate!Others, RateProof!Others, Rate!Least,
           RateProof!Least, Rate!Most, RateProof!Most, Rate!Refilled,
           RateProof!Refilled, Rate!Allowed, RateProof!Allowed, Rate!Base,
           RateProof!Base, Rate!Trimmed, RateProof!Trimmed, Rate!Taken,
           RateProof!Taken, Rate!RetryAfter, RateProof!RetryAfter,
           Rate!RemoveAt, RateProof!RemoveAt, Rate!Waited, RateProof!Waited,
           Rate!HintSuffices, RateProof!HintSuffices
  <1> QED
    BY <1>1, <1>2, IsRate, PTL

(* gateway/src/access.ts, the cap of TokenBucket: a key after which fewer   *)
(* others came than the map holds keeps its bucket.                         *)
THEOREM BusyInGateway == MCSpec => []BusyKeyKept
  <1>1. RateProof!Spec => []RateProof!BusyKeyKept
    BY SameRate, RateProof!BusyKeysStay
  <1>2. RateProof!BusyKeyKept => BusyKeyKept
    BY DEF BusyKeyKept,
           Rate!Bucket, RateProof!Bucket, Rate!Keys, RateProof!Keys,
           Rate!Position, RateProof!Position, Rate!BucketOf,
           RateProof!BucketOf, Rate!Others, RateProof!Others, Rate!Least,
           RateProof!Least, Rate!Most, RateProof!Most, Rate!Refilled,
           RateProof!Refilled, Rate!Allowed, RateProof!Allowed, Rate!Base,
           RateProof!Base, Rate!Trimmed, RateProof!Trimmed, Rate!Taken,
           RateProof!Taken, Rate!RetryAfter, RateProof!RetryAfter,
           Rate!RemoveAt, RateProof!RemoveAt, Rate!BusyKeyKept,
           RateProof!BusyKeyKept, Rate!Cardinality, RateProof!Cardinality
  <1> QED
    BY <1>1, <1>2, IsRate, PTL

(* gateway/src/access.ts, ReplaySet: a signature passes once, wherever the  *)
(* clock moves, until as many others as the set holds passed after it.      *)
THEOREM SpentInGateway == MCSpec => []SpentOnce
  <1>1. GateProof!Spec => []GateProof!InductiveInv /\ []GateProof!SpentOnce
    BY SameGate, GateProof!AdmissionInductive, GateProof!PassesOnce
  <1>2. GateProof!InductiveInv /\ GateProof!SpentOnce => SpentOnce
    <2>1. GateProof!SpentOnce => Gate!SpentOnce
      BY DEF Gate!Pair, GateProof!Pair, Gate!StaleStamp, GateProof!StaleStamp,
           Gate!Replayed, GateProof!Replayed, Gate!SpentOnce,
           GateProof!SpentOnce
    <2> QED
      BY <2>1, SameGate DEF SpentOnce
  <1> QED
    BY <1>1, <1>2, IsGate, PTL

(* gateway/src/access.ts, admit: a request that does not verify costs the   *)
(* holder of the name it gives nothing, and is told nothing of the file.    *)
THEOREM GuessesInGateway == MCSpec => GuessesTouchNothing
  <1>1. GateProof!Spec =>
          [][\A g \in gGuess' : gSeen' = gSeen /\ gOwn' = gOwn /\ gVerdict' = GateProof!Told(g)]_(GateProof!vars)
    BY SameGate, GateProof!GuessesLearnNothing DEF GateProof!GuessesTouchNothing
  <1>2. [\A g \in gGuess' : gSeen' = gSeen /\ gOwn' = gOwn /\ gVerdict' = GateProof!Told(g)]_(GateProof!vars) =>
          [\A g \in gGuess' : gSeen' = gSeen /\ gOwn' = gOwn /\ gVerdict' = Gate!Told(g)]_(Gate!vars)
    BY DEF GateProof!vars, Gate!vars, Gate!Told, GateProof!Told, Gate!Unstamped, GateProof!Unstamped,
           Gate!StaleStamp, GateProof!StaleStamp, Gate!PeerAllows, GateProof!PeerAllows,
           Gate!Peers!Keys, GateProof!Peers!Keys, Gate!Peers!Position, GateProof!Peers!Position,
           Gate!Peers!Bucket, GateProof!Peers!Bucket, Gate!Peers!BucketOf, GateProof!Peers!BucketOf,
           Gate!Peers!Others, GateProof!Peers!Others, Gate!Peers!Least, GateProof!Peers!Least,
           Gate!Peers!Most, GateProof!Peers!Most, Gate!Peers!Refilled, GateProof!Peers!Refilled,
           Gate!Peers!Allowed, GateProof!Peers!Allowed
  <1> QED
    BY <1>1, <1>2, IsGate, PTL DEF GuessesTouchNothing, Gate!GuessesTouchNothing

(* gateway/src/epoch-journal.ts, openEpochJournal: the manifest names every *)
(* epoch a receipt was signed under, and every client can read it, whatever *)
(* starts were refused or killed half way and whatever the source did.      *)
THEOREM HistoryInGateway == MCSpec => []HistoryIsWhole
  <1>1. JournalProof!Spec => []JournalProof!InductiveInv /\ []JournalProof!HistoryIsWhole
    BY SameJournal, JournalProof!JournalInductive, JournalProof!HistoryStaysWhole
  <1>2. JournalProof!InductiveInv /\ JournalProof!HistoryIsWhole => HistoryIsWhole
    <2>1. JournalProof!HistoryIsWhole => Journal!HistoryIsWhole
      BY DEF Journal!Cardinality, JournalProof!Cardinality, Journal!Min,
           JournalProof!Min, Journal!Names, JournalProof!Names,
           Journal!Serving, JournalProof!Serving, Journal!Starts,
           JournalProof!Starts, Journal!EpochsOf, JournalProof!EpochsOf,
           Journal!Parses, JournalProof!Parses, Journal!HistoryIsWhole,
           JournalProof!HistoryIsWhole
    <2> QED
      BY <2>1, SameJournal DEF HistoryIsWhole
  <1> QED
    BY <1>1, <1>2, IsJournal, PTL

(* packages/sdk/src/epoch.ts, adjudicateReceiptEpoch: while the source never *)
(* stepped back, a receipt verifies under the manifest of every later        *)
(* process, save one stamped in the second its successor opened.             *)
THEOREM EarlierInGateway == MCSpec => []EarlierReceiptsVerify
  <1>1. JournalProof!Spec => []JournalProof!EarlierReceiptsVerify
    BY SameJournal, JournalProof!EarlierReceiptsStand
  <1>2. JournalProof!EarlierReceiptsVerify => EarlierReceiptsVerify
    BY DEF EarlierReceiptsVerify,
           Journal!Cardinality, JournalProof!Cardinality, Journal!Min,
           JournalProof!Min, Journal!Names, JournalProof!Names,
           Journal!Serving, JournalProof!Serving, Journal!Starts,
           JournalProof!Starts, Journal!EpochsOf, JournalProof!EpochsOf,
           Journal!Parses, JournalProof!Parses, Journal!InWindow,
           JournalProof!InWindow, Journal!Accepts, JournalProof!Accepts,
           Journal!AtTheSeam, JournalProof!AtTheSeam,
           Journal!EarlierReceiptsVerify, JournalProof!EarlierReceiptsVerify
  <1> QED
    BY <1>1, <1>2, IsJournal, PTL

(* gateway/src/aclog.ts beside packages/cli/src/commands/accesslog.ts: a     *)
(* line the gateway resolved is on the volume until its day is past the     *)
(* retention, unless it names a credential being erased, or came in between *)
(* a scrub's comparison and its publish.                                    *)
THEOREM LinesInGateway == MCSpec => []LinesAreKept
  <1>1. LogProof!Spec => []LogProof!InductiveInv
    BY SameLog, LogProof!LogInductive
  <1>2. LogProof!InductiveInv => LinesAreKept
    BY SameLog DEF LinesAreKept, Log!InductiveInv
  <1> QED
    BY <1>1, <1>2, IsLog, PTL

(* packages/cli/src/commands/accesslog.ts: a scrub that ends well leaves no *)
(* line that parsed as a record of its credential when it began, while the  *)
(* gateway went on writing, unless the writer has gone past the numbers the *)
(* name pattern of a part matches.                                          *)
THEOREM ErasedInGateway ==
  MCSpec => []((\A name \in DOMAIN aParts : Log!Matched(name)) => ErasedIsGone)
  <1>1. LogProof!Spec => [](LogProof!AllMatched => LogProof!OwedStands /\ LogProof!ErasedIsGone)
    BY SameLog, LogProof!OwedIsGone
  <1>2. (LogProof!AllMatched => LogProof!OwedStands /\ LogProof!ErasedIsGone)
          => ((\A name \in DOMAIN aParts : Log!Matched(name)) => ErasedIsGone)
    BY SameLog DEF ErasedIsGone
  <1> QED
    BY <1>1, <1>2, IsLog, PTL

-----------------------------------------------------------------------------
(* The state file the stamps are read from.                                 *)

(* A cadence is at least a second, and a ceiling no less than nothing.      *)
LEMMA CadenceType ==
  ASSUME NEW d \in Source!Documents
  PROVE  Source!refreshSecondsFor(d.bound) \in Nat \ {0}
  <1>1. d.bound \in Nat \/ d.bound = Source!Unknown
    BY MachinesAssumption DEF Source!SourceAssumption, Source!Documents
  <1>2. MaxRefresh \in Nat \ {0}
    BY MachinesAssumption DEF Source!SourceAssumption
  <1>3. d.bound \in Nat => d.bound \div 2 \in Nat
    OBVIOUS
  <1> QED
    BY <1>1, <1>2, <1>3 DEF Source!refreshSecondsFor, Source!Lesser, Source!Greater, Source!Unknown

LEMMA ReadingType ==
  ASSUME NEW d \in Source!Documents, NEW base \in Int, NEW refresh \in Nat, tMono \in Nat
  PROVE  Source!Reading(d, base, refresh) \in
               [declared : Nat, base : Int, baseMono : Nat, ceiling : Nat]
  <1>1. d.at \in Nat /\ (d.bound \in Nat \/ d.bound = Source!Unknown)
    BY MachinesAssumption DEF Source!SourceAssumption, Source!Documents
  <1>2. Source!stalenessCeilingSeconds(d.bound, refresh) \in Nat
    BY <1>1 DEF Source!stalenessCeilingSeconds, Source!Unknown
  <1> QED
    BY <1>1, <1>2 DEF Source!Reading

(* The reading in force, advanced, reaches no further than it was adopted   *)
(* for: the seconds cut off are never counted.                              *)
LEMMA HeldWithinReach ==
  ASSUME Source!InductiveInv
  PROVE  Source!heldAt(tState) \in Int /\ Source!heldAt(tState) * PerSecond <= tReach + tMono
  <1> DEFINE b == tState.base
             m == tState.baseMono
             s == PerSecond
             q == (tMono - m) \div s
             bs == b * s
             qs == q * s
  <1>1. b \in Int /\ m \in Nat /\ tMono \in Nat /\ tReach \in Int /\ m <= tMono
    BY DEF Source!InductiveInv, Source!TypeOK, Source!HeldIsEarned
  <1>2. s \in Nat \ {0}
    BY MachinesAssumption DEF Source!SourceAssumption
  <1>3. bs <= tReach + m
    BY DEF Source!InductiveInv, Source!HeldIsEarned
  <1>4. Source!heldAt(tState) = b + q
    BY DEF Source!heldAt
  <1> HIDE DEF b, m, s
  <1>5. q \in Nat /\ qs <= tMono - m
    <2> DEFINE x == tMono - m
    <2>1. x \in Nat
      BY <1>1
    <2> HIDE DEF x
    <2>2. x \div s \in Nat /\ (x \div s) * s <= x
      BY <1>2, <2>1
    <2> QED
      BY <2>2 DEF x
  <1> HIDE DEF q
  <1>6. (b + q) * s = bs + qs /\ bs \in Int /\ qs \in Int
    BY <1>1, <1>2, <1>5
  <1> HIDE DEF bs, qs
  <1>7. bs + qs <= tReach + tMono
    BY <1>1, <1>3, <1>5, <1>6
  <1> QED
    BY <1>1, <1>4, <1>5, <1>6, <1>7 DEF s

LEMMA SourceInit ==
  ASSUME Source!Init
  PROVE  Source!InductiveInv
  <1> USE DEF Source!Init
  <1>1. PerSecond \in Nat
    BY MachinesAssumption DEF Source!SourceAssumption
  <1>2. Source!HeldIsEarned /\ Source!IssuedIsEarned
    BY <1>1 DEF Source!HeldIsEarned, Source!IssuedIsEarned
  <1>3. Source!TypeOK
    BY DEF Source!TypeOK
  <1> QED
    BY <1>2, <1>3 DEF Source!InductiveInv

(* A step leaves the invariant, and gives no stamp that is not earned.      *)
LEMMA SourceStart ==
  ASSUME Source!InductiveInv, Source!Start
  PROVE  Source!InductiveInv' /\ Source!EarnsItsStamp
  <1> DEFINE at == tDoc.at
             reached == at * PerSecond
  <1>1. tDoc \in Source!Documents /\ tMono \in Nat
    BY DEF Source!InductiveInv, Source!TypeOK, Source!Start
  <1>2. at \in Nat /\ PerSecond \in Nat \ {0}
    BY <1>1, MachinesAssumption DEF Source!SourceAssumption, Source!Documents
  <1>3. reached \in Nat
    <2> HIDE DEF at
    <2> QED
      BY <1>2
  <1>4. /\ tState' = Source!Reading(tDoc, at, tCadence') /\ tIssued' = at
        /\ tCadence' = Source!refreshSecondsFor(tDoc.bound)
        /\ tStamp' = [at |-> at, mono |-> tMono] /\ tReach' = reached - tMono
        /\ tMono' = tMono /\ tDoc' = tDoc /\ tReading' = tReading
    BY DEF Source!Start
  <1>5. tState'.base = at /\ tState'.baseMono = tMono
    BY <1>4 DEF Source!Reading
  <1>6. tCadence' \in Nat \ {0}
    BY <1>1, <1>4, CadenceType
  <1>7. tState' \in [declared : Nat, base : Int, baseMono : Nat, ceiling : Nat]
    BY <1>1, <1>2, <1>4, <1>6, ReadingType
  <1>8. tIssued = 0 /\ tStamp.at = 0
    BY DEF Source!InductiveInv, Source!IssuedIsEarned, Source!Start
  <1>9. Source!TypeOK'
    <2>1. tReach' \in Int /\ tStamp' \in [at : Int, mono : Nat] /\ tIssued' \in Int /\ tMono' \in Nat
      BY <1>1, <1>2, <1>3, <1>4
    <2>2. /\ tDoc' \in Source!Documents \cup {Source!Unreadable}
          /\ tReading' \in [Readers -> Source!Documents \cup {Source!Unreadable, Source!Idle}]
      BY <1>4 DEF Source!InductiveInv, Source!TypeOK
    <2> QED
      BY <1>6, <1>7, <2>1, <2>2 DEF Source!TypeOK
  <1>10. reached - tMono + tMono = reached
    <2> HIDE DEF reached
    <2> QED
      BY <1>1, <1>3
  <1>11. Source!HeldIsEarned'
    <2>1. tMono <= tMono
      BY <1>1
    <2>2. at * PerSecond <= tReach' + tMono
      BY <1>3, <1>4, <1>10
    <2> QED
      BY <1>4, <1>5, <2>1, <2>2 DEF Source!HeldIsEarned
  <1>12. Source!IssuedIsEarned' /\ Source!EarnsItsStamp
    <2>1. tMono <= tMono /\ 0 <= at
      BY <1>1, <1>2
    <2>2. at * PerSecond <= tReach' + tMono
      BY <1>3, <1>4, <1>10
    <2> QED
      BY <1>4, <1>6, <1>8, <2>1, <2>2 DEF Source!IssuedIsEarned, Source!EarnsItsStamp
  <1> QED
    BY <1>9, <1>11, <1>12 DEF Source!InductiveInv

LEMMA SourceSettle ==
  ASSUME Source!InductiveInv, NEW r \in Readers, Source!Settle(r)
  PROVE  Source!InductiveInv' /\ Source!EarnsItsStamp
  <1> DEFINE d == tReading[r]
             held == Source!heldAt(tState)
  <1>1. /\ tMono \in Nat /\ tReach \in Int /\ tCadence \in Nat
        /\ tStamp \in [at : Int, mono : Nat] /\ tStamp.mono <= tMono
        /\ tStamp.at * PerSecond <= tReach + tStamp.mono
    BY DEF Source!InductiveInv, Source!TypeOK, Source!IssuedIsEarned
  <1>2. UNCHANGED <<tDoc, tMono, tCadence, tIssued, tFired, tStamp>>
    BY DEF Source!Settle
  <1>3. PerSecond \in Nat \ {0}
    BY MachinesAssumption DEF Source!SourceAssumption
  <1>4. tReading' \in [Readers -> Source!Documents \cup {Source!Unreadable, Source!Idle}]
    BY DEF Source!InductiveInv, Source!TypeOK, Source!Settle
  <1>5. CASE d = Source!Unreadable
    <2>1. UNCHANGED <<tState, tReach>>
      BY <1>5 DEF Source!Settle
    <2> QED
      BY <1>1, <1>2, <1>4, <2>1
      DEF Source!InductiveInv, Source!TypeOK, Source!HeldIsEarned, Source!IssuedIsEarned, Source!EarnsItsStamp
  <1>6. CASE d # Source!Unreadable
    <2> DEFINE base == Source!Greater(d.at, held)
               ahead == d.at * PerSecond
    <2>1. d \in Source!Documents
      BY <1>6 DEF Source!InductiveInv, Source!TypeOK, Source!Settle
    <2>2. d.at \in Nat
      BY <2>1, MachinesAssumption DEF Source!SourceAssumption, Source!Documents
    <2>3. held \in Int /\ held * PerSecond <= tReach + tMono
      BY HeldWithinReach
    <2>4. /\ tState' = Source!Reading(d, base, tCadence)
          /\ tReach' = Source!Greater(tReach, ahead - tMono)
      BY <1>6 DEF Source!Settle, Source!Adopted
    <2> HIDE DEF d, held
    <2>5. base \in Int /\ (base = d.at \/ base = held)
      BY <2>2, <2>3 DEF Source!Greater
    <2>6. ahead \in Int
      BY <1>3, <2>2
    <2> HIDE DEF base, ahead
    <2>7. tReach' \in Int /\ tReach' >= tReach /\ tReach' >= ahead - tMono
      BY <1>1, <2>4, <2>6 DEF Source!Greater
    <2>8. tState' \in [declared : Nat, base : Int, baseMono : Nat, ceiling : Nat]
      BY <1>1, <2>1, <2>4, <2>5, ReadingType
    <2>9. tState'.base = base /\ tState'.baseMono = tMono
      BY <2>4 DEF Source!Reading
    <2>10. base * PerSecond <= tReach' + tMono
      <3>1. CASE base = d.at
        <4>1. base * PerSecond = ahead
          BY <3>1 DEF ahead
        <4> QED
          BY <1>1, <2>6, <2>7, <4>1
      <3>2. CASE base = held
        <4> DEFINE h == held * PerSecond
        <4>1. h \in Int /\ h <= tReach + tMono
          BY <1>3, <2>3
        <4>2. base * PerSecond = h
          BY <3>2
        <4> HIDE DEF h
        <4> QED
          BY <1>1, <2>7, <4>1, <4>2
      <3> QED
        BY <2>5, <3>1, <3>2
    <2>11. tStamp.at * PerSecond <= tReach' + tStamp.mono
      <3> DEFINE s == tStamp.at * PerSecond
      <3>1. s \in Int /\ s <= tReach + tStamp.mono /\ tStamp.mono \in Nat
        BY <1>1, <1>3
      <3> HIDE DEF s
      <3>2. s <= tReach' + tStamp.mono
        BY <1>1, <2>7, <3>1
      <3> QED
        BY <3>2 DEF s
    <2>12. tMono <= tMono
      BY <1>1
    <2>13. Source!TypeOK'
      BY <1>2, <1>4, <2>7, <2>8 DEF Source!InductiveInv, Source!TypeOK
    <2>14. Source!HeldIsEarned' /\ Source!IssuedIsEarned'
      BY <1>1, <1>2, <2>9, <2>10, <2>11, <2>12
      DEF Source!InductiveInv, Source!HeldIsEarned, Source!IssuedIsEarned
    <2>15. tStamp.at <= tStamp'.at
      BY <1>1, <1>2
    <2> QED
      BY <1>2, <2>11, <2>13, <2>14, <2>15 DEF Source!InductiveInv, Source!EarnsItsStamp
  <1> QED
    BY <1>5, <1>6

LEMMA SourceStamp ==
  ASSUME Source!InductiveInv, Source!Stamp
  PROVE  Source!InductiveInv' /\ Source!EarnsItsStamp
  <1> DEFINE held == Source!heldAt(tState)
             s == tStamp.at * PerSecond
             h == held * PerSecond
  <1>1. /\ tMono \in Nat /\ tReach \in Int
        /\ tStamp \in [at : Int, mono : Nat] /\ tStamp.mono <= tMono
        /\ tIssued \in Int /\ tStamp.at = tIssued
        /\ s <= tReach + tStamp.mono
    BY DEF Source!InductiveInv, Source!TypeOK, Source!IssuedIsEarned
  <1>2. PerSecond \in Nat \ {0}
    BY MachinesAssumption DEF Source!SourceAssumption
  <1>3. held \in Int /\ h <= tReach + tMono
    BY HeldWithinReach
  <1>4. /\ tIssued' = Source!Greater(held, tIssued) /\ tStamp' = [at |-> tIssued', mono |-> tMono]
        /\ tCadence > 0 /\ UNCHANGED <<tDoc, tMono, tCadence, tState, tReading, tReach>>
    BY DEF Source!Stamp, Source!Held
  <1> HIDE DEF held
  <1>5. tIssued' \in Int /\ tIssued' >= tIssued /\ (tIssued' = held \/ tIssued' = tIssued)
    BY <1>1, <1>3, <1>4 DEF Source!Greater
  <1>6. s \in Int /\ h \in Int
    BY <1>1, <1>2, <1>3
  <1>7. tIssued' * PerSecond <= tReach + tMono
    <2>1. CASE tIssued' = held
      BY <1>3, <2>1
    <2>2. CASE tIssued' = tIssued
      <3>1. tIssued' * PerSecond = s
        BY <1>1, <2>2
      <3> HIDE DEF s
      <3>2. tStamp.mono \in Nat
        BY <1>1
      <3> QED
        BY <1>1, <1>6, <3>1, <3>2
    <2> QED
      BY <1>5, <2>1, <2>2
  <1>8. Source!TypeOK'
    BY <1>1, <1>4, <1>5 DEF Source!InductiveInv, Source!TypeOK
  <1>9. Source!HeldIsEarned'
    BY <1>4 DEF Source!InductiveInv, Source!HeldIsEarned
  <1>10. Source!IssuedIsEarned'
    <2>1. tMono <= tMono /\ tCadence' # 0
      BY <1>1, <1>4 DEF Source!InductiveInv, Source!TypeOK
    <2> QED
      BY <1>4, <1>7, <2>1 DEF Source!IssuedIsEarned
  <1>11. Source!EarnsItsStamp
    BY <1>1, <1>4, <1>5, <1>7 DEF Source!EarnsItsStamp
  <1> QED
    BY <1>8, <1>9, <1>10, <1>11 DEF Source!InductiveInv

(* The other steps give no stamp and adopt no document.                     *)
LEMMA SourceRest ==
  ASSUME Source!InductiveInv,
         \/ Source!Write \/ Source!Pass \/ UNCHANGED tVars
         \/ \E r \in Readers : Source!Fire(r)
  PROVE  Source!InductiveInv' /\ Source!EarnsItsStamp
  <1>1. UNCHANGED <<tCadence, tState, tIssued, tStamp, tReach>>
    BY DEF Source!Write, Source!Pass, Source!Fire, tVars
  <1>2. tMono' \in Nat /\ tMono <= tMono' /\ tMono \in Nat
    BY DEF Source!InductiveInv, Source!TypeOK, Source!Write, Source!Pass, Source!Fire, tVars
  <1>3. /\ tDoc' \in Source!Documents \cup {Source!Unreadable}
        /\ tReading' \in [Readers -> Source!Documents \cup {Source!Unreadable, Source!Idle}]
    BY DEF Source!InductiveInv, Source!TypeOK, Source!Write, Source!Pass, Source!Fire, tVars
  <1>4. Source!TypeOK'
    BY <1>1, <1>2, <1>3 DEF Source!InductiveInv, Source!TypeOK
  <1>5. /\ tState.baseMono \in Nat /\ tStamp.mono \in Nat /\ tStamp.at \in Int
        /\ tState.baseMono <= tMono /\ tStamp.mono <= tMono
    BY DEF Source!InductiveInv, Source!TypeOK, Source!HeldIsEarned, Source!IssuedIsEarned
  <1>6. tState'.baseMono <= tMono' /\ tStamp'.mono <= tMono' /\ tStamp.at <= tStamp'.at
    BY <1>1, <1>2, <1>5
  <1>7. Source!HeldIsEarned' /\ Source!IssuedIsEarned' /\ Source!EarnsItsStamp
    BY <1>1, <1>6 DEF Source!InductiveInv, Source!HeldIsEarned, Source!IssuedIsEarned, Source!EarnsItsStamp
  <1> QED
    BY <1>4, <1>7 DEF Source!InductiveInv

LEMMA SourceNext ==
  ASSUME Source!InductiveInv, [Source!Next]_tVars
  PROVE  Source!InductiveInv' /\ Source!EarnsItsStamp
  BY SourceStart, SourceSettle, SourceStamp, SourceRest DEF Source!Next

(* gateway/src/time-source-state.ts: no stamp falls behind an earlier one,  *)
(* and none is ahead of what a document adopted so far, advanced on the     *)
(* monotonic clock, stated.                                                 *)
THEOREM StampsAreEarned == MCSpec => StampIsEarned
  <1> DEFINE Earned == Source!InductiveInv /\ Source!InductiveInv' /\ Source!EarnsItsStamp
  <1>1. MCInit => Source!InductiveInv
    BY SourceInit DEF MCInit
  <1>2. Source!InductiveInv /\ [MCNext]_<<machine, vars, bVars, gVars, aVars, eVars, tVars>>
          => Source!InductiveInv' /\ [Earned]_tVars
    <2> SUFFICES ASSUME Source!InductiveInv, [MCNext]_<<machine, vars, bVars, gVars, aVars, eVars, tVars>>
                 PROVE  Source!InductiveInv' /\ Earned
      OBVIOUS
    <2>1. [Source!Next]_tVars
      BY DEF MCNext
    <2> QED
      BY <2>1, SourceNext
  <1> QED
    BY <1>1, <1>2, PTL DEF MCSpec, StampIsEarned
=============================================================================
