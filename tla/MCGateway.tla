----------------------------- MODULE MCGateway ------------------------------
\* What the gateway keeps outside the receipts themselves: the claim on their
\* directory (DirectoryClaim), the buckets and the replay set its requests meet
\* (RateLimit, Admission), the access log under a scrub of it (AccessLogScrub),
\* the journal of signing epochs (EpochJournal) and the state file its stamps are
\* read from (TimeSource).  They share no state, so `machine` picks one at the
\* start; the claim is this module's own, the others are instances.
EXTENDS DirectoryClaim, Integers, TLC

CONSTANTS p1, p2, p3, here, there,
          Burst, Unit, Gain, Second, MaxKeys, Key, RateClock,
          Peer, Cred, Bearer, AllowBearer, Revoked, Stranger, Nonce, Tolerance, Window, MaxEntries,
          MaxPeers, AdmitClock,
          Creds, LastDay, Days, MaxLines, Slots, MaxRecords, MaxFaults, ShortAppends, Attempts,
          Procs, Epochs, SealKeys, Latest, MaxEdits, MaxIssued, StepsBack,
          Instants, Bounds, PerSecond, MaxRefresh, Band, Wall, Readers, LastUnit

VARIABLES machine,
          bClock, bBuckets, bGranted, bOpened, bOthers, bPromised,
          gClock, gPeers, gSeen, gOwn, gVerdict, gGuess, gRecent, gLater,
          aParts, aClock, aCurrent, aSize, aSwept, aTask, aNextRid, aAcked, aFaults,
          aScrub, aOwed, aErased, aOverrun,
          eJournal, eTemp, eHolder, eProc, eNow, eIssued, eStarted, eStepped, eEdits,
          tDoc, tMono, tCadence, tState, tIssued, tReading, tFired, tStamp, tReach, tFresh

bVars == <<bClock, bBuckets, bGranted, bOpened, bOthers, bPromised>>
gVars == <<gClock, gPeers, gSeen, gOwn, gVerdict, gGuess, gRecent, gLater>>
aVars == <<aParts, aClock, aCurrent, aSize, aSwept, aTask, aNextRid, aAcked, aFaults,
           aScrub, aOwed, aErased, aOverrun>>
eVars == <<eJournal, eTemp, eHolder, eProc, eNow, eIssued, eStarted, eStepped, eEdits>>
tVars == <<tDoc, tMono, tCadence, tState, tIssued, tReading, tFired, tStamp, tReach, tFresh>>

Log == INSTANCE AccessLogScrub WITH
    parts <- aParts, clock <- aClock, current <- aCurrent, size <- aSize, swept <- aSwept, task <- aTask,
    nextRid <- aNextRid, acked <- aAcked, faults <- aFaults, scrub <- aScrub, owed <- aOwed,
    erased <- aErased, overrun <- aOverrun

Journal == INSTANCE EpochJournal WITH
    Keys <- SealKeys,
    journal <- eJournal, temp <- eTemp, holder <- eHolder, proc <- eProc, now <- eNow, issued <- eIssued,
    started <- eStarted, stepped <- eStepped, edits <- eEdits

Source == INSTANCE TimeSource WITH
    doc <- tDoc, mono <- tMono, cadence <- tCadence, state <- tState, issued <- tIssued, reading <- tReading,
    fired <- tFired, stamp <- tStamp, reach <- tReach, fresh <- tFresh

Rate == INSTANCE RateLimit WITH
    MaxClock <- RateClock,
    clock <- bClock, buckets <- bBuckets, granted <- bGranted, opened <- bOpened, others <- bOthers,
    promised <- bPromised

\* The gate's buckets hold one token, a tick earns it and a tick is a second.
Gate == INSTANCE Admission WITH
    PeerBurst <- 1, Burst <- 1, Unit <- 1, Gain <- 1, Second <- 1, MaxClock <- AdmitClock,
    clock <- gClock, peers <- gPeers, seen <- gSeen, own <- gOwn, verdict <- gVerdict, guess <- gGuess,
    recent <- gRecent, later <- gLater

ASSUME MachinesAssumption ==
    /\ Rate!LimitAssumption
    /\ Gate!WindowAssumption
    /\ Log!LogAssumption
    /\ Journal!JournalAssumption
    /\ Source!SourceAssumption

\* Two processes of one machine and one of another.
MCHostOf == [p \in Proc |-> IF p = p3 THEN there ELSE here]

\* The two processes of one machine are alike.
Twins == Permutations({p1, p2})

MCInit ==
    /\ machine \in {"claim", "rate", "gate", "log", "journal", "source"}
    /\ Init /\ Rate!Init /\ Gate!Init /\ Log!Init /\ Journal!Init /\ Source!Init
    /\ machine # "source" => tDoc = Source!Unreadable

\* Behind a seizure both properties of a claim are exempt, and it rests there.
MCNext ==
    \/ machine = "claim" /\ seized = "never" /\ Next
       /\ UNCHANGED <<machine, bVars, gVars, aVars, eVars, tVars>>
    \/ machine = "rate" /\ Rate!Next /\ UNCHANGED <<machine, vars, gVars, aVars, eVars, tVars>>
    \/ machine = "gate" /\ Gate!Next /\ UNCHANGED <<machine, vars, bVars, aVars, eVars, tVars>>
    \/ machine = "log" /\ Log!Next /\ UNCHANGED <<machine, vars, bVars, gVars, eVars, tVars>>
    \/ machine = "journal" /\ Journal!Next /\ UNCHANGED <<machine, vars, bVars, gVars, aVars, tVars>>
    \/ machine = "source" /\ Source!Next /\ UNCHANGED <<machine, vars, bVars, gVars, aVars, eVars>>

MCSpec == MCInit /\ [][MCNext]_<<machine, vars, bVars, gVars, aVars, eVars, tVars>>

\* The first property of a machine carries its type invariant, or the inductive
\* invariant its proofs rest on and that one is part of.
GrantsAreEarned == Rate!InductiveInv /\ Rate!GrantsAreEarned
HintSuffices == Rate!HintSuffices
BusyKeyKept == Rate!BusyKeyKept
SpentOnce == Gate!InductiveInv /\ Gate!SpentOnce
GuessesTouchNothing == Gate!GuessesTouchNothing
LinesAreKept == Log!InductiveInv /\ Log!LinesAreKept
ErasedIsGone == Log!OwedStands /\ Log!ErasedIsGone
HistoryIsWhole == Journal!InductiveInv /\ Journal!HistoryIsWhole
EarlierReceiptsVerify == Journal!EarlierReceiptsVerify
\* No stamp falls, and none is ahead of what the documents adopted state.
StampIsEarned ==
    [][Source!InductiveInv /\ Source!InductiveInv' /\ Source!EarnsItsStamp]_tVars

=============================================================================
