------------------------------ MODULE MCReaders -----------------------------
\* The documents a receipt ends up in and the readers they are handed to: a
\* response framed for its receipt (ResponseFraming), a pack handed over and
\* redacted (Handover), an export (ExportDocument), an inventory of an epoch's
\* packs (EpochInventory) and the assessment of a retention duty
\* (RetentionAssessment).  They share no state, so `machine` picks one.
EXTENDS Integers

CONSTANTS D1, D2, E1, E2, SP, LF, CR, X, M, MaxChunks, Times,
          k1, k2, d1, d2, h1, None, MaxRecords, MaxSize, At,
          PacksRequired, MaxPacks, MaxInventory,
          Final, MaxTime, Interval, Required, MaxFaults

VARIABLES machine,
          rMarks, rBody, rChunks, rTail, rPieces, rSent, rWalk, rStamps, rList, rIat, rStage,
          hChain, hPack, hStage, hMoved, hRemoval, hSlips,
          xChain, xExport, xStage, xFiles, xMishaps,
          iPacks, iInventory, iStage, iMishaps,
          aClock, aFiled, aSeen, aAcked, aVersion, aRollbacks, aCheckpoints, aPin, aDocument, aSlipped

rVars == <<rMarks, rBody, rChunks, rTail, rPieces, rSent, rWalk, rStamps, rList, rIat, rStage>>
hVars == <<hChain, hPack, hStage, hMoved, hRemoval, hSlips>>
xVars == <<xChain, xExport, xStage, xFiles, xMishaps>>
iVars == <<iPacks, iInventory, iStage, iMishaps>>
aVars == <<aClock, aFiled, aSeen, aAcked, aVersion, aRollbacks, aCheckpoints, aPin, aDocument, aSlipped>>

\* Writes that end inside the field name, inside the sentinel, between a carriage
\* return and its line feed, behind a line and behind a frame, and several frames
\* in one write.
Chunks == {<<D1, D2, X>>, <<D1>>, <<D2, SP, E1>>, <<E2>>, <<D1, D2, E1>>, <<LF>>, <<CR>>, <<LF, LF>>,
           <<CR, LF, D1, D2, X>>, <<D1, D2, X, CR, LF, D1, D2, SP, E1, E2, LF, CR>>}

\* Receipts under two keys: none, one, or two digests in the halves.
PackReceipts ==
    {[iat |-> 1, key |-> k1, prov |-> 1, held |-> [col |-> None, val |-> None]],
     [iat |-> 2, key |-> k2, prov |-> 2, held |-> [col |-> d1, val |-> None]],
     [iat |-> 1, key |-> k1, prov |-> 1, held |-> [col |-> d1, val |-> d2]]}

ExportReceipts == {[iat |-> 1, prov |-> 1, tag |-> 1], [iat |-> 1, prov |-> 2, tag |-> 2]}

\* A manifest without names, and one seen to hold fewer, more, other and the same
\* digests under another encoding.
Manifests ==
    {[v |-> 1, names |-> {}, n |-> 1], [v |-> 2, names |-> {d1}, n |-> 1], [v |-> 2, names |-> {d1, d2}, n |-> 1],
     [v |-> 2, names |-> {d1}, n |-> 2], [v |-> 2, names |-> {d2}, n |-> 1]}

Framing == INSTANCE ResponseFraming WITH
    marks <- rMarks, body <- rBody, chunks <- rChunks, tail <- rTail, pieces <- rPieces, sent <- rSent,
    walk <- rWalk, stamps <- rStamps, list <- rList, iat <- rIat, stage <- rStage

Pack == INSTANCE Handover WITH
    Receipts <- PackReceipts, Absent <- None, Headers <- {h1}, Keys <- {k1, k2},
    chain <- hChain, pack <- hPack, stage <- hStage, moved <- hMoved, removal <- hRemoval, slips <- hSlips

Export == INSTANCE ExportDocument WITH
    Receipts <- ExportReceipts, Absent <- None,
    chain <- xChain, export <- xExport, stage <- xStage, files <- xFiles, mishaps <- xMishaps

Inventory == INSTANCE EpochInventory WITH
    Required <- PacksRequired, MaxSize <- MaxInventory,
    packs <- iPacks, inventory <- iInventory, stage <- iStage, mishaps <- iMishaps

Assessment == INSTANCE RetentionAssessment WITH
    clock <- aClock, filed <- aFiled, seen <- aSeen, acked <- aAcked, version <- aVersion,
    rollbacks <- aRollbacks, checkpoints <- aCheckpoints, pin <- aPin, document <- aDocument, slipped <- aSlipped

Init ==
    /\ machine \in {"framing", "pack", "export", "inventory", "assessment"}
    /\ Framing!Init /\ Pack!Init /\ Export!Init /\ Inventory!Init /\ Assessment!Init
    /\ machine # "framing" => ~rMarks

Next ==
    \/ machine = "framing" /\ Framing!Next /\ UNCHANGED <<machine, hVars, xVars, iVars, aVars>>
    \/ machine = "pack" /\ Pack!Next /\ UNCHANGED <<machine, rVars, xVars, iVars, aVars>>
    \/ machine = "export" /\ Export!Next /\ UNCHANGED <<machine, rVars, hVars, iVars, aVars>>
    \/ machine = "inventory" /\ Inventory!Next /\ UNCHANGED <<machine, rVars, hVars, xVars, aVars>>
    \/ machine = "assessment" /\ Assessment!Next /\ UNCHANGED <<machine, rVars, hVars, xVars, iVars>>

Spec == Init /\ [][Next]_<<machine, rVars, hVars, xVars, iVars, aVars>>

ReceiptReads == Framing!ReceiptReads
MarkStandsAlone == Framing!MarkStandsAlone /\ Framing!NothingHeldIsLost

\* A pack is sealed over what its own reader accepts, which is one run of a chain
\* whose custody and attached bytes answer the same.
PackIsARun == Pack!SealedReads /\ Pack!AcceptedIsARun /\ Pack!LookupAgrees
RemovesWhatItNames == Pack!RemovesWhatItNames

\* An export accepted is the run it states, and one sealed without companions is
\* a run that closes.
ExportIsTheRun == Export!AcceptedIsTheRun /\ Export!SealedRunCloses

\* The packs of an epoch count every second once, and a manifest is given as held
\* throughout only where every pack of the stretch names it.
EpochIsWhole == Inventory!EverySecondOnce /\ Inventory!PresentThroughout
NothingSmoothedOver == Inventory!NothingSmoothedOver

\* A duty is met exactly when what happened met it, where nothing is left open.
MetIsHeld == Assessment!MetMeansHeld /\ Assessment!HeldIsMet

=============================================================================
