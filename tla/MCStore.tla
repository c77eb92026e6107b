------------------------------ MODULE MCStore -------------------------------
\* The receipt store answering, one way at a time: the pump and the appends it
\* answers under every refusal (this module's own ReceiptLog), the index file an
\* opening reads (StoreSidecar) and the walk a caller asks for (RangeWalk).  They
\* share no state here, so `machine` picks one at the start.
EXTENDS ReceiptLog

CONSTANTS Inodes, ReceiptBytes, TrimBytes, BlockRecords, MaxUnits, MaxTrims,
          Stamps, Limit, ChunkRecords, MaxRecords,
          MaxIndexMishaps, MaxReadMishaps, Refiling, None

ASSUME WalkAssumption ==
    /\ Stamps \subseteq Int /\ MaxRecords \in Nat /\ Refiling \in BOOLEAN
    /\ Limit \in Nat \ {0} /\ ChunkRecords \in Nat \ {0}

VARIABLES machine,
          sFile, sInode, sIndex, sLive, sMem, sPrevious, sPending, sFlush, sProbe, sCopy, sNextId, sMishaps,
          rFile, rIdentity, rPath, rRecords, rNextSeq, rNextRec, rNextSlot, rWalk, rServed, rFixed, rOutcome,
          rMishaps

sVars == <<sFile, sInode, sIndex, sLive, sMem, sPrevious, sPending, sFlush, sProbe, sCopy, sNextId, sMishaps>>
rVars == <<rFile, rIdentity, rPath, rRecords, rNextSeq, rNextRec, rNextSlot, rWalk, rServed, rFixed, rOutcome,
           rMishaps>>

Sidecar == INSTANCE StoreSidecar WITH
    file <- sFile, inode <- sInode, index <- sIndex, live <- sLive, mem <- sMem, previous <- sPrevious,
    pending <- sPending, MaxMishaps <- MaxIndexMishaps, flush <- sFlush, probe <- sProbe, copy <- sCopy, nextId <- sNextId, mishaps <- sMishaps

Walked == INSTANCE RangeWalk WITH
    file <- rFile, identity <- rIdentity, path <- rPath, records <- rRecords, nextSeq <- rNextSeq,
    nextRec <- rNextRec, nextSlot <- rNextSlot, walk <- rWalk, served <- rServed, fixed <- rFixed,
    outcome <- rOutcome, mishaps <- rMishaps, MaxMishaps <- MaxReadMishaps

MCInit ==
    /\ machine \in {"pump", "sidecar", "range"}
    /\ Init /\ Sidecar!Init /\ Walked!Init
    /\ machine # "sidecar" => sInode = CHOOSE i \in Inodes : TRUE

MCNext ==
    \/ machine = "pump" /\ Next /\ UNCHANGED <<machine, sVars, rVars>>
    \/ machine = "sidecar" /\ Sidecar!Next /\ UNCHANGED <<machine, vars, rVars>>
    \/ machine = "range" /\ Walked!Next /\ UNCHANGED <<machine, vars, sVars>>

MCSpec ==
    /\ MCInit
    /\ [][MCNext]_<<machine, vars, sVars, rVars>>
    /\ WF_vars(machine = "pump" /\ Pump)
    /\ WF_rVars(machine = "range" /\ Walked!TakeBatch)
    /\ WF_rVars(machine = "range" /\ Walked!ReadChunk)

OpeningIsAWalk == Sidecar!OpeningIsAWalk
WalkEnds == Walked!WalkEnds

\* A walk hands out records that were on file when it asked, and one that ends
\* has handed out every one it was asked for; while no id is filed twice, by
\* the invariant the proof of that rests on.
WalkIsTheFile == Walked!ServedWasThere /\ Walked!EndedIsWhole /\ (Refiling \/ Walked!WalkInv)

=============================================================================
