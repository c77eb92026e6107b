----------------------------- MODULE RangeWalk ------------------------------
(***************************************************************************)
(* ReceiptStore.range over the file engine (store.ts).  The call fixes     *)
(* which receipts a walk answers for, by the index object and the next     *)
(* chain position it sees; the bytes are read late, one queued chunk at a  *)
(* time, while other callers file, retire and compact.  The index is a Map *)
(* and keeps an id at the slot it was first set in.  A compaction leaves   *)
(* the store a new Map with new chain positions, and the walk goes on over *)
(* the old one.                                                            *)
(***************************************************************************)
EXTENDS Integers, Sequences, FiniteSets, FiniteSetsExt

CONSTANTS Stamps,         \* the seconds a receipt is stamped with
          Limit,          \* serving.maxServedReceipts
          ChunkRecords,   \* READ_CHUNK_RECORDS
          MaxRecords,     \* bound: records ever filed
          MaxMishaps,     \* bound: files replaced or rewritten from outside
          Refiling,       \* whether a caller files an id again
          None

Foreign == 0      \* a record the index was not read from
Closed == -2      \* no handle
Elsewhere == -1   \* the identity of a file moved over the path from outside

VARIABLES file,      \* the file the index was read from: its records in order
          identity,  \* its identity
          path,      \* the identity the path names
          records,   \* state.records: slot, id, iat, seq, position and record
          nextSeq,   \* state.nextSeq
          nextRec, nextSlot,
          walk,      \* the walk in flight, or None
          served,    \* what it has yielded
          fixed,     \* ghost: the index entries its call matched
          outcome,   \* "none", "walking", "ended", "refused", "abandoned"
          mishaps

vars == <<file, identity, path, records, nextSeq, nextRec, nextSlot, walk, served, fixed, outcome, mishaps>>

Init ==
    /\ file = <<>> /\ records = {} /\ nextSeq = 0
    /\ nextRec = 1 /\ nextSlot = 0
    /\ identity = 0 /\ path = 0 /\ mishaps = 0
    /\ walk = None /\ served = <<>> /\ fixed = {} /\ outcome = "none"

-----------------------------------------------------------------------------
(* Filing, retiring and compacting, which one queued operation does. *)

\* The index once `rec` is filed: Map.set keeps the slot of an id it holds.
Filed(id, iat) ==
    LET old == {e \in records : e.id = id}
        slot == IF old = {} THEN nextSlot ELSE (CHOOSE e \in old : TRUE).slot
    IN  (records \ old) \cup
        {[slot |-> slot, id |-> id, iat |-> iat, seq |-> nextSeq, at |-> Len(file) + 1, rec |-> nextRec]}

\* compact: the file from the first record still indexed on, when the part in
\* front of it outweighs the rest.
DeadIn(kept) == IF kept = {} THEN Len(file) + 1 ELSE Min({e.at : e \in kept}) - 1

\* Filing a receipt, then prune, which takes the first k of the index, then the
\* compaction those leave due, with the reading it ends in.
Put(id, k) ==
    /\ nextRec <= MaxRecords
    /\ path = identity
    /\ id = nextRec \/ (Refiling /\ id < nextRec)
    /\ \E iat \in Stamps :
        LET all == Filed(id, iat)
            doomed == {e \in all : Cardinality({d \in all : d.slot < e.slot}) < k}
            kept == all \ doomed
            grown == Append(file, nextRec)
            dead == DeadIn(kept)
            compacts == dead > 0 /\ dead > Len(grown) - dead
            rest == SubSeq(grown, dead + 1, Len(grown))
            moved == {[e EXCEPT !.at = @ - dead, !.seq = e.at - dead - 1] : e \in kept}
        IN  /\ k <= Cardinality(all)
            /\ nextSlot' = nextSlot + 1
            /\ nextRec' = nextRec + 1
            /\ file' = IF compacts THEN rest ELSE grown
            /\ identity' = IF compacts THEN identity + 1 ELSE identity
            /\ path' = identity'
            /\ records' = IF compacts THEN moved ELSE kept
            /\ nextSeq' = IF compacts THEN Len(rest) ELSE nextSeq + 1
            \* A walk over the Map that is replaced keeps it as it stood, and
            \* every handle goes down before the rename.
            /\ walk' = IF compacts /\ outcome = "walking"
                       THEN [walk EXCEPT !.live = FALSE, !.old = IF walk.live THEN kept ELSE @, !.handle = Closed]
                       ELSE walk
    /\ UNCHANGED <<served, fixed, outcome, mishaps>>

\* Another file is moved over the path from outside the process.
Replace ==
    /\ mishaps < MaxMishaps
    /\ mishaps' = mishaps + 1
    /\ path' = Elsewhere
    /\ UNCHANGED <<file, identity, records, nextSeq, nextRec, nextSlot, walk, served, fixed, outcome>>

\* A record's bytes are rewritten in place from outside the process.
Rewrite ==
    /\ mishaps < MaxMishaps
    /\ mishaps' = mishaps + 1
    /\ \E i \in DOMAIN file : file' = [file EXCEPT ![i] = Foreign]
    /\ UNCHANGED <<identity, path, records, nextSeq, nextRec, nextSlot, walk, served, fixed, outcome>>

-----------------------------------------------------------------------------
(* The walk. *)

\* range: membership is fixed here.
Ask(from, to) ==
    /\ outcome = "none"
    /\ outcome' = "walking"
    /\ walk' = [live |-> TRUE, old |-> {}, from |-> from, to |-> to, through |-> nextSeq, cursor |-> -1,
                batch |-> {}, handle |-> Closed]
    /\ fixed' = {e \in records : from <= e.iat /\ e.iat < to}
    /\ UNCHANGED <<file, identity, path, records, nextSeq, nextRec, nextSlot, served, mishaps>>

WalkedIndex == IF walk.live THEN records ELSE walk.old

\* Mutant: the position served below is the one the store is at now.
Ahead_Now ==
    {e \in WalkedIndex : e.slot > walk.cursor /\ e.seq < nextSeq /\ walk.from <= e.iat /\ e.iat < walk.to}

\* The entries servedBatches has still to meet.
Ahead ==
    {e \in WalkedIndex : e.slot > walk.cursor /\ e.seq < walk.through /\ walk.from <= e.iat /\ e.iat < walk.to}

\* The first of them in the index's own order, as many as a batch holds.
Taken == {e \in Ahead : Cardinality({d \in Ahead : d.slot < e.slot}) < Limit}

\* servedBatches, run to its next yield or to its end.
TakeBatch ==
    /\ outcome = "walking" /\ walk.batch = {}
    /\ IF Taken = {}
       THEN /\ outcome' = "ended"
            /\ walk' = None
       ELSE /\ outcome' = outcome
            /\ walk' = [walk EXCEPT !.batch = Taken, !.cursor = Max({e.slot : e \in Taken})]
    /\ UNCHANGED <<file, identity, path, records, nextSeq, nextRec, nextSlot, served, fixed, mishaps>>

\* The next of a batch in the order the records were chained.
Chunk == {e \in walk.batch : Cardinality({d \in walk.batch : d.seq < e.seq}) < ChunkRecords}

\* The entry the live index holds for an id now.
Still(id) == {e \in records : e.id = id}

\* handleOn: the walk's handle when it is on the indexed file, or one on the
\* path when that is.
HandleOn ==
    IF walk.handle = identity THEN identity ELSE path

\* One record proved against the index's own digest of it.
Proved(e) == file[e.at] = e.rec

\* The stretch of a chunk the read hands over: everything in front of the first
\* record the bytes do not prove.
ProvedPart(chunk) ==
    {e \in chunk : \A d \in chunk : d.seq <= e.seq => \A now \in Still(d.id) : Proved(now)}

\* What the caller is handed for an entry of the batch: its stamp is the
\* batch's, its bytes are read where the live index says the id now is.
Yielded(e) == [id |-> e.id, iat |-> e.iat, rec |-> (CHOOSE now \in Still(e.id) : TRUE).rec]

\* chained: entries in the order their records were.
Chained(entries) ==
    [i \in 1..Cardinality(entries) |->
        CHOOSE e \in entries : Cardinality({d \in entries : d.seq < e.seq}) = i - 1]

Yields(part) ==
    LET held == Chained({e \in part : Still(e.id) # {}})
    IN  [i \in DOMAIN held |-> Yielded(held[i])]

\* Mutant: a chunk none of which is still indexed is asked for again.
ReadChunk_Stays ==
    /\ outcome = "walking" /\ walk.batch # {}
    /\ LET chunk == Chunk
           asked == \E e \in chunk : Still(e.id) # {}
       IN  /\ served' = served \o Yields(ProvedPart(chunk))
           /\ walk' = [walk EXCEPT !.batch = IF asked THEN @ \ chunk ELSE @]
    /\ UNCHANGED <<file, identity, path, records, nextSeq, nextRec, nextSlot, fixed, outcome, mishaps>>

\* One queued read, and the receipts of it yielded.
ReadChunk ==
    /\ outcome = "walking" /\ walk.batch # {}
    /\ LET chunk == Chunk
           asked == \E e \in chunk : Still(e.id) # {}
           refused == asked /\ (HandleOn # identity \/ ProvedPart(chunk) # chunk)
       IN  /\ served' = IF asked /\ HandleOn # identity THEN served
                        ELSE served \o Yields(ProvedPart(chunk))
           /\ outcome' = IF refused THEN "refused" ELSE outcome
           /\ walk' = IF refused THEN None
                      ELSE [walk EXCEPT !.batch = @ \ chunk, !.handle = IF asked THEN HandleOn ELSE @]
    /\ UNCHANGED <<file, identity, path, records, nextSeq, nextRec, nextSlot, fixed, mishaps>>

\* The caller stops asking.
Abandon ==
    /\ outcome = "walking"
    /\ outcome' = "abandoned"
    /\ walk' = None
    /\ UNCHANGED <<file, identity, path, records, nextSeq, nextRec, nextSlot, served, fixed, mishaps>>

Next ==
    \/ \E id \in 1..MaxRecords, k \in 0..MaxRecords : Put(id, k)
    \/ \E from, last \in Stamps : Ask(from, last + 1)
    \/ TakeBatch \/ ReadChunk \/ Abandon
    \/ Replace \/ Rewrite

Spec == Init /\ [][Next]_vars /\ WF_vars(TakeBatch) /\ WF_vars(ReadChunk)

-----------------------------------------------------------------------------
(***************************************************************************)
(* "Membership is fixed at the call": every receipt a walk yields is one   *)
(* the index held when it was asked for, under the id and stamp it had     *)
(* then, whatever was filed, retired or compacted since.                   *)
(***************************************************************************)
ServedWasThere ==
    \A i \in DOMAIN served :
        \E e \in fixed : e.id = served[i].id /\ e.iat = served[i].iat /\ e.rec = served[i].rec

(***************************************************************************)
(* A walk that ends without a refusal has yielded every receipt it was     *)
(* asked about that is still retained, each once, and in the order the     *)
(* chain runs: a compaction under a parked walk costs it none of them.     *)
(***************************************************************************)
EndedIsWhole ==
    outcome = "ended" =>
        /\ \A e \in fixed : (\E now \in records : now.rec = e.rec) =>
               \E i \in DOMAIN served : served[i].rec = e.rec
        /\ \A i, j \in DOMAIN served : i < j => served[i].rec < served[j].rec

(***************************************************************************)
(* A walk its caller goes on asking of ends, in an answer or a refusal.    *)
(***************************************************************************)
WalkEnds == outcome = "walking" ~> outcome # "walking"

-----------------------------------------------------------------------------
(* Why the first two hold while no id is filed twice: the inductive         *)
(* invariant the proof rests on.                                            *)

Entries == [slot : Nat, id : Nat, iat : Int, seq : Nat, at : Nat \ {0}, rec : Nat \ {0}]

(* An index is in filing order: slots, chain positions and places all run   *)
(* with the records.                                                        *)
IsIndex(entries) ==
    /\ IsFiniteSet(entries) /\ entries \subseteq Entries
    /\ \A e \in entries : e.id = e.rec /\ e.slot = e.rec - 1
    /\ \A d, e \in entries : /\ d.rec = e.rec => d = e
                             /\ d.rec < e.rec => d.seq < e.seq /\ d.at < e.at

IndexInOrder ==
    /\ file \in Seq(Nat) /\ identity \in Nat /\ path \in Int
    /\ nextRec \in Nat \ {0} /\ nextSlot = nextRec - 1 /\ nextSeq \in Nat
    /\ IsIndex(records)
    /\ \A e \in records : e.rec < nextRec /\ e.seq < nextSeq /\ e.at <= Len(file)

Climbs(seq) == \A i, j \in DOMAIN seq : i < j => seq[i].rec < seq[j].rec

(* What was handed out is in order and was matched at the call.             *)
ServedInOrder ==
    /\ fixed \subseteq Entries /\ \A e \in fixed : e.rec < nextRec
    /\ served \in Seq([id : Nat, iat : Int, rec : Nat])
    /\ ServedWasThere /\ Climbs(served)
    /\ outcome \in {"none", "walking", "ended", "refused", "abandoned"}
    /\ outcome = "none" => served = <<>>

Matched(e) == \E f \in fixed : f.id = e.id /\ f.iat = e.iat /\ f.rec = e.rec

(* The index a walk goes over answers it with what was matched at its call, *)
(* and with nothing behind the position it stood at then.                   *)
WalksItsIndex ==
    outcome = "walking" =>
        /\ walk \in [live : BOOLEAN, old : SUBSET Entries, from : Int, to : Int, through : Nat,
                      cursor : Int, batch : SUBSET Entries, handle : Int]
        /\ IsIndex(WalkedIndex) /\ \A e \in WalkedIndex : e.rec < nextRec
        /\ walk.live => walk.through <= nextSeq
        /\ \A e \in WalkedIndex :
              e.seq < walk.through /\ walk.from <= e.iat /\ e.iat < walk.to => Matched(e)

(* The batch comes behind what was served, and the cursor behind them both. *)
BatchInOrder ==
    outcome = "walking" =>
        /\ IsIndex(walk.batch)
        /\ \A e \in walk.batch : Matched(e) /\ e.slot <= walk.cursor
        /\ \A i \in DOMAIN served :
              /\ served[i].rec <= walk.cursor + 1
              /\ \A e \in walk.batch : served[i].rec < e.rec

(* A receipt matched at the call and still retained was served, or waits in *)
(* the batch or ahead of the cursor.                                        *)
NoneLost ==
    outcome \in {"walking", "ended"} =>
        \A e \in fixed : (\E now \in records : now.rec = e.rec) =>
            \/ \E i \in DOMAIN served : served[i].rec = e.rec
            \/ outcome = "walking" /\ \E d \in walk.batch \cup Ahead : d.rec = e.rec

WalkInv == IndexInOrder /\ ServedInOrder /\ WalksItsIndex /\ BatchInOrder /\ NoneLost

=============================================================================
