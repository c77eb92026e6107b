----------------------------- MODULE ReceiptLog -----------------------------
(***************************************************************************)
(* The receipt store behind one file, receipts.log (gateway/src/store.ts): *)
(* appends answered a window at a time after one sync, retention that      *)
(* retires a prefix, compaction that replaces the file by its trim run and *)
(* the kept tail, and the opening that walks what a crash left.            *)
(*                                                                         *)
(* The file is a sequence of units.  A receipt record, a trim record and   *)
(* the leftover of an unfinished write are one unit each, and a record's   *)
(* digest is the id it was minted under: ids are random, so no two records *)
(* share one.  Beside the file as the process sees it, the model keeps     *)
(* what the volume owes after a power loss.                                *)
(***************************************************************************)
EXTENDS Integers, Sequences, FiniteSets, SequencesExt

CONSTANTS
    MaxAge,     \* the age bound of the retention policy
    MaxCount,   \* its count bound
    Window,     \* APPEND_WINDOW_RECORDS
    Faults,     \* what the volume or the time source may refuse
    MaxId,      \* bound: receipts ever put
    MaxClock,   \* bound: the last instant
    MaxMishaps  \* bound: refusals, kills and power losses

ASSUME BoundsAssumption ==
    /\ MaxAge \in Nat /\ MaxCount \in Nat \ {0} /\ Window \in Nat \ {0}
    /\ MaxId \in Nat /\ MaxClock \in Nat /\ MaxMishaps \in Nat
    /\ Faults \subseteq {"short", "sync", "cut", "clock", "hold", "rescan"}

VARIABLES
    log,      \* the units of receipts.log as the running system sees it
    synced,   \* the units the last sync put on the volume
    loose,    \* the units written since, any prefix of which may survive
    shadow,   \* the file a rename replaced, until a sync settles the rename
    stage,    \* where the pump is, or "down"
    pending,  \* pendingAppends
    batch,    \* the window being answered
    index,    \* state.records, in chain order
    head,     \* state.head
    size,     \* state.size
    runEnd,   \* state.trimRunEnd
    anchor,   \* state.anchor
    trims,    \* state.trims
    dropped,  \* state.dropped
    syncedThrough,
    acked,    \* ids whose put resolved
    refused,  \* ids whose put rejected
    nextId,   \* the next id to be minted
    clock,    \* what now() reads
    mishaps,  \* refusals, kills and power losses so far
    gone,     \* history: the ids compactions took out of the file
    goneBefore \* history: what gone was before the last of them

disk == <<log, synced, loose, shadow>>
store == <<index, head, size, runEnd, anchor, trims, dropped>>
outside == <<acked, refused, nextId, clock, gone, goneBefore>>
vars == <<disk, stage, pending, batch, store, syncedThrough, outside, mishaps>>

Origin == 0  \* thirty-two zero bytes, in front of the first record

-----------------------------------------------------------------------------
(* What an opening reads off a file. *)

Receipt(id, iat, prev) == [kind |-> "receipt", id |-> id, iat |-> iat, prev |-> prev]
Trim(seam, byAge, byCount) ==
    [kind |-> "trim", seam |-> seam, byAge |-> byAge, byCount |-> byCount]
Torn == [kind |-> "torn"]
Zeros == [kind |-> "zeros"]  \* what a truncate to beyond the end fills the gap with

IsReceipt(unit) == unit.kind = "receipt"
IsTrim(unit) == unit.kind = "trim"

UnitId(unit) == IF IsReceipt(unit) THEN unit.id ELSE Origin
IdsOf(seq) == {seq[i].id : i \in DOMAIN seq}
ReceiptsIn(file) == {file[i].id : i \in {j \in DOMAIN file : IsReceipt(file[j])}}

(* A partial record at the tail is cut off; every other unit stays. *)
Whole(file) ==
    IF file # <<>> /\ file[Len(file)] = Torn THEN SubSeq(file, 1, Len(file) - 1) ELSE file

TrimRun(file) ==
    CHOOSE n \in 0..Len(file) :
        /\ \A i \in 1..n : IsTrim(file[i])
        /\ n < Len(file) => ~IsTrim(file[n + 1])

(* The digest parseRecords expects the record at a position to name: the   *)
(* record in front of it, or the seam of the trim record there.            *)
ExpectedPrev(file, i) ==
    IF i = 1 THEN Origin
    ELSE IF IsTrim(file[i - 1]) THEN file[i - 1].seam ELSE UnitId(file[i - 1])

(* A trim record in front of any receipt, and every receipt naming what is *)
(* in front of it.                                                         *)
Chained(file) ==
    \A i \in DOMAIN file :
        \/ IsTrim(file[i]) /\ (i = 1 \/ IsTrim(file[i - 1]))
        \/ IsReceipt(file[i]) /\ file[i].prev = ExpectedPrev(file, i)

HeadOf(file) == ExpectedPrev(file, Len(file) + 1)

Seam(file) == ExpectedPrev(file, TrimRun(file) + 1)

(* The receipts of a file, oldest first. *)
ChainOf(file) ==
    [k \in 1 .. Len(file) - TrimRun(file) |-> UnitId(file[TrimRun(file) + k])]

IndexOf(file) ==
    [k \in 1 .. Len(file) - TrimRun(file) |->
        [id  |-> file[TrimRun(file) + k].id,
         iat |-> file[TrimRun(file) + k].iat,
         at  |-> TrimRun(file) + k]]

(* The files an opening can make of these bytes.  An unfinished record     *)
(* with others behind it either swallows bytes up to the length it states, *)
(* and its digest refuses, or reaches past the end of the file and is cut  *)
(* off with everything behind it, as the lengths fall.                     *)
Readings(file) ==
    LET whole == Whole(file)
        leftovers == {i \in DOMAIN whole : whole[i] = Torn}
        cut == IF leftovers = {} THEN {whole}
               ELSE {SubSeq(whole, 1, i - 1) : i \in {j \in leftovers : \A k \in leftovers : j <= k}}
    IN  {reading \in cut : Chained(reading)}

-----------------------------------------------------------------------------
(* Retention. *)

Dropped(byAge, byCount) == [byAge |-> byAge, byCount |-> byCount]

(* Mutant: whatever is not aged is put down to the count. *)
retire_CreditsTheCount(seq, now) ==
    LET aged == Cardinality({i \in DOMAIN seq : seq[i].iat < now - MaxAge})
        surplus == IF Len(seq) > MaxCount THEN Len(seq) - MaxCount ELSE 0
    IN  Dropped(aged, surplus - aged)

(* Mutant: the count asks for one record fewer. *)
retire_OneTooMany(seq, now) ==
    Dropped(0, IF Len(seq) >= MaxCount THEN Len(seq) - MaxCount + 1 ELSE 0)

(* How many of the oldest records the policy retires, and for which bound. *)
(* The walk asks the age first and the count of what is left second, and   *)
(* stops at the first record either bound would keep.                      *)
retire(seq, now) ==
    LET surplus == IF Len(seq) > MaxCount THEN Len(seq) - MaxCount ELSE 0
        stop == CHOOSE n \in 0..Len(seq) :
                    /\ \A i \in 1..n : seq[i].iat < now - MaxAge \/ i <= surplus
                    /\ n < Len(seq) => ~(seq[n + 1].iat < now - MaxAge \/ n + 1 <= surplus)
        aged == Cardinality({i \in 1..stop : seq[i].iat < now - MaxAge})
    IN  Dropped(aged, stop - aged)

Total(d) == d.byAge + d.byCount
Rest(seq, n) == SubSeq(seq, n + 1, Len(seq))
(* Mutant: a prune forgets what the one before it tallied. *)
Plus_Forgets(c, d) == d

Plus(c, d) == Dropped(c.byAge + d.byAge, c.byCount + d.byCount)

-----------------------------------------------------------------------------

Serving == stage # "down"

Init ==
    /\ log = <<>> /\ synced = <<>> /\ loose = <<>> /\ shadow = <<>>
    /\ stage = "down" /\ pending = <<>> /\ batch = <<>>
    /\ index = <<>> /\ head = Origin /\ size = 0 /\ runEnd = 0 /\ anchor = Origin
    /\ trims = <<>> /\ dropped = Dropped(0, 0)
    /\ syncedThrough = 0
    /\ acked = {} /\ refused = {} /\ nextId = 1 /\ clock = 0 /\ gone = <<>> /\ goneBefore = <<>>
    /\ mishaps = 0

Mishap == mishaps < MaxMishaps /\ mishaps' = mishaps + 1
Fault(f) == f \in Faults /\ Mishap

(* The window's callers are told, one way or the other. *)
Answered ==
    /\ acked' = acked \cup IdsOf(batch)
    /\ batch' = <<>> /\ stage' = "idle"
    /\ UNCHANGED <<refused, nextId, clock, gone, goneBefore>>

(* Mutant: a refused window is neither answered nor let go. *)
Refuses_Unanswered == UNCHANGED <<stage, batch, outside>>

(* A window the volume refused: its callers get the error, and its records *)
(* are in neither the index nor, once it is rolled back, the file.         *)
Refuses ==
    /\ refused' = refused \cup IdsOf(batch)
    /\ batch' = <<>> /\ stage' = "idle"
    /\ UNCHANGED <<acked, nextId, clock, gone, goneBefore>>

(* A window whose records were filed before something behind them threw:   *)
(* its callers get that error, and its receipts are served all the same.   *)
RefusesFiled ==
    /\ batch' = <<>> /\ stage' = "idle"
    /\ UNCHANGED outside

Tick ==
    /\ clock < MaxClock
    /\ clock' = clock + 1
    /\ UNCHANGED <<disk, stage, pending, batch, store, syncedThrough, acked, refused,
                   nextId, gone, goneBefore, mishaps>>

(* A put queues its record behind the appends that arrived before it. Its  *)
(* stamp was taken when the receipt was built, so stamps may be out of     *)
(* order by the time they are chained.                                     *)
Put(iat) ==
    /\ Serving /\ nextId <= MaxId
    /\ pending' = Append(pending, [id |-> nextId, iat |-> iat])
    /\ nextId' = nextId + 1
    /\ UNCHANGED <<disk, stage, batch, store, syncedThrough, acked, refused, clock, gone,
                   goneBefore, mishaps>>

(* Mutant: the pump takes the newest appends first. *)
TakeWindow_NewestFirst ==
    /\ stage = "idle" /\ pending # <<>>
    /\ batch' = <<pending[Len(pending)]>>
    /\ pending' = SubSeq(pending, 1, Len(pending) - 1)
    /\ stage' = "write"
    /\ UNCHANGED <<disk, store, syncedThrough, outside, mishaps>>

(* The pump takes what has arrived, a window's worth at most. *)
TakeWindow ==
    /\ stage = "idle" /\ pending # <<>>
    /\ LET n == IF Len(pending) < Window THEN Len(pending) ELSE Window IN
         /\ batch' = SubSeq(pending, 1, n)
         /\ pending' = Rest(pending, n)
    /\ stage' = "write"
    /\ UNCHANGED <<disk, store, syncedThrough, outside, mishaps>>

(* Mutant: every record of a window names the head it began at. *)
Frames_OneHead == [i \in DOMAIN batch |-> Receipt(batch[i].id, batch[i].iat, head)]

(* The records of a window, each naming the one in front of it. *)
Frames ==
    [i \in DOMAIN batch |->
        Receipt(batch[i].id, batch[i].iat, IF i = 1 THEN head ELSE batch[i - 1].id)]

Leftover(torn) == IF torn THEN <<Torn>> ELSE <<>>
PartOf(frames, k, torn) == SubSeq(frames, 1, k) \o Leftover(torn)

WriteWindow ==
    /\ stage = "write"
    /\ log' = log \o Frames
    /\ loose' = loose \o Frames
    /\ stage' = "sync"
    /\ UNCHANGED <<synced, shadow, pending, batch, store, syncedThrough, outside, mishaps>>

(* The volume takes some of the bytes and refuses the rest. *)
WriteFallsShort(k, torn) ==
    /\ stage = "write" /\ Fault("short")
    /\ k < Len(Frames)
    /\ log' = log \o PartOf(Frames, k, torn)
    /\ loose' = loose \o PartOf(Frames, k, torn)
    /\ stage' = "rollback"
    /\ UNCHANGED <<synced, shadow, pending, batch, store, syncedThrough, outside>>

(* Mutant: the window is answered without its sync. *)
SyncWindow_Skipped ==
    /\ stage = "sync"
    /\ syncedThrough' = size + Len(batch)
    /\ stage' = "file"
    /\ UNCHANGED <<disk, pending, batch, store, outside, mishaps>>

SyncWindow ==
    /\ stage = "sync"
    /\ synced' = log /\ loose' = <<>> /\ shadow' = <<>>
    /\ syncedThrough' = size + Len(batch)
    /\ stage' = "file"
    /\ UNCHANGED <<log, pending, batch, store, outside, mishaps>>

SyncRefused ==
    /\ stage = "sync" /\ Fault("sync")
    /\ stage' = "rollback"
    /\ UNCHANGED <<disk, pending, batch, store, syncedThrough, outside>>

(* Mutant: the cut takes one record more. *)
CutTo_OneShort(length) ==
    IF length < Len(log) THEN SubSeq(log, 1, IF length > 0 THEN length - 1 ELSE 0) ELSE log

CutTo(length) ==
    IF length <= Len(log) THEN SubSeq(log, 1, length)
    ELSE log \o [i \in 1 .. length - Len(log) |-> Zeros]

(* Mutant: a refused window stays in the file. *)
Rollback_NoCut ==
    /\ stage = "rollback"
    /\ Refuses
    /\ UNCHANGED <<disk, pending, store, syncedThrough, mishaps>>

(* The file is cut back to the length its index speaks for, and synced. *)
Rollback ==
    /\ stage = "rollback"
    /\ log' = CutTo(size)
    /\ synced' = log' /\ loose' = <<>> /\ shadow' = <<>>
    /\ syncedThrough' = IF size < syncedThrough THEN size ELSE syncedThrough
    /\ Refuses
    /\ UNCHANGED <<pending, store, mishaps>>

(* The cut is refused and the bytes stay, or it is made and not synced. *)
RollbackRefused ==
    /\ stage = "rollback" /\ Fault("cut")
    /\ log' \in {log, CutTo(size)}
    /\ Refuses
    /\ UNCHANGED <<synced, loose, shadow, pending, store, syncedThrough>>

(* The synced records join the index, at the positions they were built for. *)
FileWindow ==
    /\ stage = "file"
    /\ anchor' = IF index = <<>> THEN head ELSE anchor
    /\ index' = index \o [i \in DOMAIN batch |->
                              [id |-> batch[i].id, iat |-> batch[i].iat, at |-> size + i]]
    /\ head' = batch[Len(batch)].id
    /\ size' = size + Len(batch)
    /\ stage' = "retire"
    /\ UNCHANGED <<disk, pending, batch, runEnd, trims, dropped, syncedThrough, outside, mishaps>>

(* The units in front of the first one the index still answers from. *)
Dead(live) == IF live = <<>> THEN size ELSE live[1].at - 1
WorthCompacting(live) == Dead(live) # runEnd /\ Dead(live) > size - Dead(live)

(* prune: what the policy retires leaves the index and is tallied. *)
Prune(doomed) ==
    /\ index' = Rest(index, Total(doomed))
    /\ dropped' = Plus(dropped, doomed)

(* prune, and the question compact begins with. *)
RetireWindow ==
    /\ stage = "retire"
    /\ Prune(retire(index, clock))
    /\ stage' = IF WorthCompacting(index') THEN "compact" ELSE "answer"
    /\ UNCHANGED <<disk, pending, batch, head, size, runEnd, anchor, trims, syncedThrough,
                   outside, mishaps>>

(* now() throws while the source's reading is stale, for the prune or for  *)
(* the compaction behind it, and the throw is what the window is told.     *)
NoInstant ==
    /\ stage = "retire" /\ Fault("clock")
    /\ Prune(retire(index, clock)) \/ UNCHANGED <<index, dropped>>
    /\ RefusesFiled
    /\ UNCHANGED <<disk, pending, head, size, runEnd, anchor, trims, syncedThrough>>

(* Mutant: the trim record seams onto the head. *)
Compacted_SeamsTheHead ==
    SubSeq(log, 1, runEnd) \o <<Trim(head, dropped.byAge, dropped.byCount)>>
        \o SubSeq(log, Dead(index) + 1, size)

(* The run, one more trim record, and the kept tail, read off the file.    *)
Compacted ==
    LET dead == Dead(index)
        tail == SubSeq(log, dead + 1, size)
        seam == IF tail = <<>> THEN head ELSE IF IsReceipt(tail[1]) THEN tail[1].prev ELSE Origin
    IN  SubSeq(log, 1, runEnd) \o <<Trim(seam, dropped.byAge, dropped.byCount)>> \o tail

(* The copy is written and synced beside the file and renamed over it. The *)
(* directory is not synced, so until the file next is, a power loss may    *)
(* find the old file at the name.                                          *)
CompactRename ==
    /\ stage = "compact" /\ size <= Len(log)
    /\ shadow' = log
    /\ log' = Compacted /\ synced' = Compacted /\ loose' = <<>>
    /\ gone' = gone \o ChainOf(SubSeq(log, 1, Dead(index)))
    /\ goneBefore' = gone
    /\ stage' = "rescan"
    /\ UNCHANGED <<pending, batch, store, syncedThrough, acked, refused, nextId, clock, mishaps>>

(* A reader outside this process holds the file through every ask, or the  *)
(* copy cannot be written.                                                 *)
CompactHeld ==
    /\ stage = "compact" /\ Fault("hold")
    /\ RefusesFiled
    /\ UNCHANGED <<disk, pending, store, syncedThrough>>

(* The file ends short of the span the index claims. *)
CompactReadsShort ==
    /\ stage = "compact" /\ size > Len(log)
    /\ RefusesFiled
    /\ UNCHANGED <<disk, pending, store, syncedThrough, mishaps>>

(* What a scan of a file puts into the index. *)
ReadsAs(file) ==
    /\ index' = IndexOf(file)
    /\ head' = HeadOf(file)
    /\ size' = Len(file)
    /\ runEnd' = TrimRun(file)
    /\ anchor' = Seam(file)
    /\ trims' = SubSeq(file, 1, TrimRun(file))

(* Mutant: the index goes on with its old positions. *)
CompactRescan_OldIndex ==
    /\ stage = "rescan"
    /\ size' = Len(log) /\ runEnd' = TrimRun(log) /\ trims' = SubSeq(log, 1, TrimRun(log))
    /\ dropped' = Dropped(0, 0)
    /\ stage' = "answer"
    /\ UNCHANGED <<disk, pending, batch, index, head, anchor, syncedThrough, outside, mishaps>>

(* The new file is scanned the way an opening scans one. *)
CompactRescan ==
    /\ stage = "rescan"
    /\ \E file \in Readings(log) : ReadsAs(file) /\ log' = file /\ synced' = file
    /\ dropped' = Dropped(0, 0)
    /\ stage' = "answer"
    /\ UNCHANGED <<loose, shadow, pending, batch, syncedThrough, outside, mishaps>>

(* The scan cannot read the new file, or what it reads is not a chain, and *)
(* the index goes on speaking for the old one.                             *)
RescanFails ==
    /\ stage = "rescan"
    /\ IF Readings(log) = {} THEN UNCHANGED mishaps ELSE Fault("rescan")
    /\ RefusesFiled
    /\ UNCHANGED <<disk, pending, store, syncedThrough>>

AnswerWindow ==
    /\ stage = "answer"
    /\ syncedThrough' = IF size < syncedThrough THEN size ELSE syncedThrough
    /\ Answered
    /\ UNCHANGED <<disk, pending, store, mishaps>>

-----------------------------------------------------------------------------
(* What a restart finds. *)

(* The process dies; what it wrote is in the page cache.  A write it was   *)
(* inside of may have landed in part.                                      *)
Kill(k, torn) ==
    /\ Serving /\ Mishap
    /\ IF stage = "write" THEN k < Len(Frames) \/ (k = Len(Frames) /\ ~torn) ELSE k = 0 /\ ~torn
    /\ LET part == IF stage = "write" THEN PartOf(Frames, k, torn) ELSE <<>>
       IN  log' = log \o part /\ loose' = loose \o part
    /\ stage' = "down" /\ pending' = <<>> /\ batch' = <<>>
    /\ UNCHANGED <<synced, shadow, store, syncedThrough, outside>>

(* The machine loses power: the synced bytes and any prefix of what was    *)
(* written since, or the file a rename had not settled over.               *)
PowerLoss(k, torn) ==
    /\ stage = "down" /\ Mishap
    /\ k < Len(loose) \/ (k = Len(loose) /\ ~torn)
    /\ \/ /\ log' = synced \o PartOf(loose, k, torn)
          /\ UNCHANGED gone
       \/ /\ shadow # <<>>
          /\ log' = shadow
          /\ gone' = goneBefore
    /\ synced' = log' /\ loose' = <<>> /\ shadow' = <<>>
    /\ UNCHANGED <<stage, pending, batch, store, syncedThrough, acked, refused, nextId, clock,
                   goneBefore>>

(* openFileReceiptStore: the file is walked, its unfinished tail cut off,  *)
(* and the retention that came due meanwhile applied.                      *)
OpenStore ==
    /\ stage = "down"
    /\ \E file \in Readings(log) :
         LET all == IndexOf(file)
             doomed == retire(all, clock)
         IN  /\ log' = file
             /\ index' = Rest(all, Total(doomed))
             /\ dropped' = doomed
             /\ head' = HeadOf(file) /\ size' = Len(file) /\ runEnd' = TrimRun(file)
             /\ anchor' = Seam(file) /\ trims' = SubSeq(file, 1, TrimRun(file))
             /\ syncedThrough' = Len(file)
    /\ synced' = Whole(synced) /\ loose' = Whole(loose)
    /\ stage' = "idle"
    /\ UNCHANGED <<shadow, pending, batch, outside, mishaps>>

Pump ==
    \/ TakeWindow \/ WriteWindow \/ SyncWindow \/ Rollback \/ FileWindow \/ RetireWindow
    \/ CompactRename \/ CompactReadsShort \/ CompactRescan \/ RescanFails \/ AnswerWindow

Refusal ==
    \/ \E k \in 0..Window, torn \in BOOLEAN : WriteFallsShort(k, torn)
    \/ SyncRefused \/ RollbackRefused \/ NoInstant \/ CompactHeld

Restart ==
    \/ \E k \in 0..MaxId, torn \in BOOLEAN : Kill(k, torn) \/ PowerLoss(k, torn)
    \/ OpenStore

Next ==
    \/ Tick
    \/ \E iat \in {clock - 1, clock} \cap Nat : Put(iat)
    \/ Pump \/ Refusal \/ Restart

Spec == Init /\ [][Next]_vars

(* The pump is a loop of awaits on one queue: nothing outside it keeps a   *)
(* window from its next step.                                              *)
FairSpec == Spec /\ WF_vars(Pump)

-----------------------------------------------------------------------------
(* What must hold. *)

Units == [kind : {"receipt"}, id : 1..MaxId, iat : 0..MaxClock, prev : 0..MaxId]
         \cup [kind : {"trim"}, seam : 0..MaxId, byAge : 0..MaxId, byCount : 0..MaxId]
         \cup {Torn, Zeros}
Entries == [id : 1..MaxId, iat : 0..MaxClock, at : Nat]
Appends == [id : 1..MaxId, iat : 0..MaxClock]

Stages == {"down", "idle", "write", "sync", "rollback", "file", "retire", "compact",
           "rescan", "answer"}

TypeOK ==
    /\ log \in Seq(Units) /\ synced \in Seq(Units) /\ loose \in Seq(Units) /\ shadow \in Seq(Units)
    /\ stage \in Stages
    /\ pending \in Seq(Appends) /\ batch \in Seq(Appends)
    /\ index \in Seq(Entries)
    /\ head \in 0..MaxId /\ anchor \in 0..MaxId
    /\ size \in Nat /\ runEnd \in Nat /\ syncedThrough \in Nat
    /\ trims \in Seq(Units)
    /\ dropped \in [byAge : 0..MaxId, byCount : 0..MaxId]
    /\ acked \subseteq 1..MaxId /\ refused \subseteq 1..MaxId
    /\ nextId \in 1..MaxId + 1 /\ clock \in 0..MaxClock /\ mishaps \in 0..MaxMishaps
    /\ gone \in Seq(1..MaxId) /\ goneBefore \in Seq(1..MaxId)

(* A receipt whose put resolved is in the file, whatever died or lost      *)
(* power since, until a compaction takes it: the promise of the one sync   *)
(* a window makes.                                                         *)
AckedOnFile == acked \subseteq ReceiptsIn(log) \cup {gone[i] : i \in DOMAIN gone}

(* Every file the store leaves behind is one the next opening reads: trim  *)
(* run first, then receipts that name each other, an unfinished record at  *)
(* the very end at most.                                                   *)
ChainWhole == Chained(Whole(log))

(* A record of a window that was refused is taken back out of the file and *)
(* is not walked in again, by a later window or by a later opening.        *)
RefusedStaysOut == refused \cap ReceiptsIn(log) = {}

(* Every id ever chained and not lost, oldest first. *)
Chain == gone \o ChainOf(Whole(log))

Ascends(ids) == \A i, j \in DOMAIN ids : i < j => ids[i] < ids[j]

(* The records are chained in the order their puts arrived in, whatever    *)
(* windows were refused in between.                                        *)
ArrivalOrder == Ascends(Chain)

Settled == Serving /\ stage # "rescan"

(* What is served plus what left is everything that was ever chained,      *)
(* through prunes, compactions, restarts and renames a power loss undid.   *)
Retired == FoldSeq(LAMBDA t, n : t.byAge + t.byCount + n, Total(dropped), trims)
Accounted ==
    Settled => Len(index) + Retired = Len(gone) + size - runEnd

(* The trim run on the volume states how many records compactions removed, *)
(* and its last seam names the newest of them.                             *)
TrimsSpeakForGone ==
    LET run == SubSeq(log, 1, TrimRun(log)) IN
    /\ FoldSeq(LAMBDA t, n : t.byAge + t.byCount + n, 0, run) = Len(gone)
    /\ gone # <<>> => Seam(log) = gone[Len(gone)]

(* Every entry of the index is found in the file where the index has it,   *)
(* so a served read never meets another record's bytes.                    *)
IndexFindsItsRecords ==
    Settled => \A i \in DOMAIN index :
                 /\ index[i].at \in DOMAIN log
                 /\ IsReceipt(log[index[i].at]) /\ log[index[i].at].id = index[i].id

(* A resolved put can be served for as long as the retention policy keeps  *)
(* it: no step of a running store drops a young record that is among the   *)
(* newest MaxCount.                                                        *)
KeepsWhatThePolicyKeeps ==
    [][Serving /\ Serving' =>
         \A i \in DOMAIN index :
            index[i].iat >= clock - MaxAge /\ i > Len(index) - MaxCount
               => index[i].id \in IdsOf(index')]_vars

(* The digest a store publishes as its anchor is the one the oldest        *)
(* retained receipt was chained from (ChainState).                         *)
AnchorPrecedesTheOldest ==
    Settled /\ stage # "retire" /\ index # <<>> => anchor = log[index[1].at].prev

(* The store keeps the ledger's promises: its chain is what compactions    *)
(* took away followed by the receipts in the file.                         *)
Ledger == INSTANCE ReceiptLedger WITH
              Id <- 1..MaxId,
              chain <- Chain,
              sealed <- Len(gone)

ImplementsLedger == Ledger!Spec

(* An append that arrived is answered, or its process died: no window and  *)
(* no refusal leaves a caller waiting.                                     *)
EveryPutAnswered ==
    \A id \in 1..MaxId :
        id \in IdsOf(pending) ~> id \notin IdsOf(pending) \cup IdsOf(batch)
-----------------------------------------------------------------------------
(* Why AckedOnFile and ChainWhole hold while no rollback and no rescan is   *)
(* refused: the inductive invariant the proofs rest on.                    *)

SetOf(seq) == {seq[i] : i \in DOMAIN seq}

AnyUnit == [kind : {"receipt"}, id : Nat, iat : Nat, prev : Nat]
           \cup [kind : {"trim"}, seam : Nat, byAge : Int, byCount : Int]
           \cup {Torn, Zeros}

Shapes ==
    /\ log \in Seq(AnyUnit) /\ synced \in Seq(AnyUnit)
    /\ loose \in Seq(AnyUnit) /\ shadow \in Seq(AnyUnit)
    /\ stage \in Stages
    /\ pending \in Seq(Appends) /\ batch \in Seq(Appends)
    /\ index \in Seq([id : Nat, iat : Nat, at : Nat])
    /\ head \in Nat /\ size \in Nat /\ runEnd \in Nat
    /\ dropped \in [byAge : Int, byCount : Int]
    /\ nextId \in 1..MaxId + 1 /\ clock \in 0..MaxClock
    /\ gone \in Seq(Nat) /\ goneBefore \in Seq(Nat)

(* The file is what was synced and what was written since, and it reads as *)
(* one chain; only a refused write leaves an unfinished record at its end. *)
DiskShape ==
    /\ log = synced \o loose
    /\ ChainWhole
    /\ stage \notin {"down", "rollback"} => Chained(log)
    /\ stage \in {"file", "retire", "compact", "rescan", "answer"} => loose = <<>>
    /\ stage \in {"file", "retire", "compact"} => shadow = <<>>

(* The index speaks for a trim run and then receipts, and the head is what *)
(* the record behind them will name.                                       *)
IndexSpan ==
    stage \notin {"down", "rescan"} =>
        /\ runEnd <= size /\ size <= Len(log)
        /\ \A i \in 1..runEnd : IsTrim(log[i])
        /\ \A i \in runEnd + 1 .. size : IsReceipt(log[i])
        /\ head = ExpectedPrev(log, size + 1)
        /\ \A i \in DOMAIN index : index[i].at \in runEnd + 1 .. size

(* Where the window being answered is in the file.                         *)
WindowPlace ==
    /\ stage \in {"idle", "write", "retire", "compact", "answer"} => size = Len(log)
    /\ stage \in {"sync", "file"} =>
          /\ Len(log) = size + Len(batch)
          /\ \A i \in DOMAIN batch : log[size + i] = Frames[i]
    /\ stage \in {"write", "sync", "rollback"} => Len(synced) <= size
    /\ stage \notin {"down", "idle"} => batch # <<>>

(* What was acknowledged, and what is about to be, is on the volume in the *)
(* file that has the name and in the one a power loss may put back.        *)
Kept(ids, before, file) == ids \subseteq SetOf(before) \cup ReceiptsIn(file)

OnVolume ==
    /\ Kept(acked, gone, synced)
    /\ stage \in {"file", "retire", "compact", "rescan", "answer"} =>
          Kept(IdsOf(batch), gone, synced)
    /\ shadow # <<>> =>
          /\ Chained(shadow)
          /\ Kept(acked, goneBefore, shadow)
          /\ stage \in {"rescan", "answer"} => Kept(IdsOf(batch), goneBefore, shadow)

(* The inductive invariant (gateway/src/store.ts, answerWindow, compact    *)
(* and openFileReceiptStore): at every step the bytes, the index and the   *)
(* window in the air agree about which records are on the volume.          *)
InductiveInv == Shapes /\ DiskShape /\ IndexSpan /\ WindowPlace /\ OnVolume

-----------------------------------------------------------------------------
(* Why the store keeps its order, its index and the ledger's promises: what *)
(* is added to InductiveInv for those.                                      *)

(* The index is the end of the chain, and the tally what went before it.   *)
IndexIsTheEnd ==
    /\ stage \notin {"down", "rescan"} =>
          /\ \A i \in DOMAIN index :
                /\ index[i].at = size - Len(index) + i
                /\ log[index[i].at].id = index[i].id
          /\ dropped.byAge \in Nat /\ dropped.byCount \in Nat
          /\ Total(dropped) = size - runEnd - Len(index)
    /\ stage = "compact" => Dead(index) > runEnd
    /\ stage = "rescan" => IdsOf(index) \subseteq ReceiptsIn(log)

Ids(seq) == [i \in DOMAIN seq |-> seq[i].id]
Before(ids, later) == \A a \in ids, b \in later : a < b

(* Ids come into the chain in the order they are minted in: what the index *)
(* speaks for, then the window in the air, then what waits.                *)
InLine ==
    /\ ArrivalOrder /\ Ascends(Ids(batch)) /\ Ascends(Ids(pending))
    /\ SetOf(Chain) \cup IdsOf(batch) \cup IdsOf(pending) \cup refused \subseteq 1 .. nextId - 1
    /\ Before(SetOf(Chain) \cup IdsOf(batch), IdsOf(pending))
    /\ stage \in {"write", "sync", "rollback"} =>
          Before(SetOf(gone \o ChainOf(SubSeq(log, 1, size))), IdsOf(batch))
    /\ refused \cap (SetOf(Chain) \cup IdsOf(batch) \cup IdsOf(pending)) = {}

(* The file a power loss may put back is where the chain was before.       *)
RenameUndone ==
    shadow # <<>> =>
        /\ IsPrefix(goneBefore \o ChainOf(shadow), Chain)
        /\ Len(goneBefore) < Len(gone)

OrderInv == IndexIsTheEnd /\ InLine /\ RenameUndone
=============================================================================
