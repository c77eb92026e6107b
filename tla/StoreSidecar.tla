---------------------------- MODULE StoreSidecar ----------------------------
(***************************************************************************)
(* The index the receipt store keeps beside its file (store.ts, "sidecar").*)
(* An opening that believes it reads the receipts out of it and only the   *)
(* tail out of the file; an opening that does not walks the file and       *)
(* writes the index again.  Neither file is ever synced with the other, so *)
(* the index on disk can be behind the file, cut, half written, or left    *)
(* over from another file, and the probe a retention report makes of it    *)
(* (readReceiptStoreCheckpoint) runs with no claim on the directory.       *)
(*                                                                         *)
(* A unit of the file is a receipt or a trim, each kind of one width.  A   *)
(* digest stands for its unit, so two units are equal exactly when their   *)
(* digests are.  A block's check is the tuple of everything it chains from.*)
(***************************************************************************)
EXTENDS Integers, Sequences, SequencesExt, FiniteSetsExt

CONSTANTS Inodes,        \* the identities a volume hands out, and reuses
          ReceiptBytes,  \* the width of a receipt record
          TrimBytes,     \* the width of a trim record
          BlockRecords,  \* SIDECAR_BLOCK_RECORDS
          MaxUnits,      \* bound: receipts and trims ever written
          MaxTrims,      \* bound: trims in a file
          MaxMishaps,    \* bound: crashes, copies put back and probes that cut
          None

VARIABLES file,      \* the store file's units, oldest first
          inode,     \* the identity the volume gives it
          index,     \* the index file: the identity in its header, its blocks
          live,      \* a store object is serving the directory
          mem,       \* what that object believes the file holds
          previous,  \* sidecar.previous: the check the next block chains from
          pending,   \* sidecar.pending
          flush,     \* "no", "due", or "half": how far appendFile has got
          probe,     \* a probe between its reading and its truncate, or None
          copy,      \* a copy of the store file an operator kept, or None
          nextId,
          mishaps

vars == <<file, inode, index, live, mem, previous, pending, flush, probe, copy, nextId, mishaps>>

Receipt(id) == [trim |-> FALSE, id |-> id]
Trim(id) == [trim |-> TRUE, id |-> id]

Trims(f) == Quantify(DOMAIN f, LAMBDA i : f[i].trim)

\* The byte unit i begins at: the trims are all in front.
Offset(f, i) ==
    LET before == i - 1
    IN  IF before <= Trims(f) THEN before * TrimBytes
        ELSE Trims(f) * TrimBytes + (before - Trims(f)) * ReceiptBytes

Size(f) == Offset(f, Len(f) + 1)

\* The entries parseRecords collects behind the first k units, in a scan at
\* chain position `seq`.
Parsed(f, k, seq) ==
    [i \in 1..Len(f) - k |->
        [start |-> Offset(f, k + i), seq |-> seq + i - 1, id |-> f[k + i].id]]

EndOf(entry) == entry.start + ReceiptBytes

WalkOf(f) ==
    [trims |-> SubSeq(f, 1, Trims(f)), entries |-> Parsed(f, Trims(f), 0), end |-> Size(f)]

-----------------------------------------------------------------------------
(* Reading the index. *)

Bodies(blocks) == [k \in DOMAIN blocks |-> blocks[k].body]

\* The check block k of an index closes with when everything up to it chains.
CheckAt(ix, k) == <<ix.identity>> \o SubSeq(Bodies(ix.blocks), 1, k)

\* Where the reading of the blocks can stop: a block that never finished ends
\* it, and bytes that are no block are met as a torn block or as a bad one.
WholeRun(blocks) == 
    LET broken == {k \in DOMAIN blocks : blocks[k].part # "whole"}
    IN  IF broken = {} THEN Len(blocks) ELSE Min(broken) - 1

Stops(blocks) ==
    LET n == WholeRun(blocks)
        torn == Len(blocks) = n \/ (Len(blocks) = n + 1 /\ blocks[n + 1].part = "half")
    IN  IF torn THEN {n} ELSE {n, 0}

EntriesTo(ix, n) == FlattenSeq(SubSeq(Bodies(ix.blocks), 1, n))

Contiguous(entries) ==
    /\ entries[1].seq = 0
    /\ \A i \in 2..Len(entries) : /\ entries[i].start = EndOf(entries[i - 1])
                                  /\ entries[i].seq = entries[i - 1].seq + 1

\* The blocks up to n are an index of this file, by everything the loop over
\* them looks at.
BlocksHold(ix, f, ino, n) ==
    /\ n > 0
    /\ ix.identity = ino
    /\ \A k \in 1..n : ix.blocks[k].after = CheckAt(ix, k - 1)
    /\ Contiguous(EntriesTo(ix, n))
    /\ EndOf(Last(EntriesTo(ix, n))) <= Size(f)

\* Mutant: the record the checkpoint ends on is not read back.
TiedToBytes_Untied(entries, f) == \E r \in 0..Trims(f) : entries[1].start = Offset(f, r + 1)

\* The two facts an index cannot vouch for, read out of the file: the run of
\* trims in front, and the record the checkpoint ends on.
TiedToBytes(entries, f) ==
    LET last == Last(entries)
    IN  /\ \E r \in 0..Trims(f) : entries[1].start = Offset(f, r + 1)
        /\ \E i \in DOMAIN f : Offset(f, i) = last.start /\ f[i] = Receipt(last.id)

Believed(ix, f, ino, n) == BlocksHold(ix, f, ino, n) /\ TiedToBytes(EntriesTo(ix, n), f)

-----------------------------------------------------------------------------
(* Writing it. *)

Cut(blocks, n) == SubSeq(blocks, 1, n)
Half == [after |-> <<>>, body |-> <<>>, part |-> "half"]
Junk == [after |-> <<>>, body |-> <<>>, part |-> "junk"]
Block(after, body) == [after |-> after, body |-> body, part |-> "whole"]

\* The index writeSidecar lays down: a header, then blocks of BlockRecords.
FreshIndex(ino, entries) ==
    LET count == (Len(entries) + BlockRecords - 1) \div BlockRecords
        upTo(k) == IF k * BlockRecords > Len(entries) THEN Len(entries) ELSE k * BlockRecords
        body(k) == SubSeq(entries, (k - 1) * BlockRecords + 1, upTo(k))
        bodies == [k \in 1..count |-> body(k)]
    IN  [identity |-> ino,
         blocks |-> [k \in 1..count |-> Block(<<ino>> \o SubSeq(bodies, 1, k - 1), bodies[k])]]

\* What an index cut short by a refused write or a lost page can be.
CutShort(blocks) ==
    {Cut(blocks, n) : n \in 0..Len(blocks)} \cup {Append(Cut(blocks, n), Half) : n \in 0..Len(blocks) - 1}

\* readStore, down the branch that believes the index to n blocks: the torn
\* end of the index goes, and the tail becomes one more block.
Resume(f, ino, n) ==
    LET loaded == EntriesTo(index, n)
        last == Last(loaded)
        read == Quantify(DOMAIN f, LAMBDA i : Offset(f, i) < EndOf(last))
        run == Quantify(DOMAIN f, LAMBDA i : Offset(f, i) < loaded[1].start)
        tail == Parsed(f, read, last.seq + 1)
        check == CheckAt(index, n)
    IN  /\ mem' = [trims |-> SubSeq(f, 1, run), entries |-> loaded \o tail, end |-> Size(f)]
        /\ pending' = <<>>
        /\ \E kept \in {Cut(index.blocks, n), index.blocks} :
             \/ /\ index' = [index EXCEPT !.blocks = IF tail = <<>> THEN kept
                                                     ELSE Append(kept, Block(check, tail))]
                /\ previous' = IF tail = <<>> THEN check ELSE Append(check, tail)
             \/ /\ tail # <<>>
                /\ index' \in {[index EXCEPT !.blocks = kept], [index EXCEPT !.blocks = Append(kept, Half)]}
                /\ previous' = None

\* readStore, down the branch that walks: the index is written whole, or is
\* left as far as the write got, or is not opened at all.
WalkAndWrite(f, ino) ==
    LET walked == WalkOf(f)
        fresh == FreshIndex(ino, walked.entries)
    IN  /\ mem' = walked
        /\ pending' = <<>>
        /\ \/ /\ index' = fresh
              /\ previous' = CheckAt(fresh, Len(fresh.blocks))
           \/ /\ index' \in {index} \cup {[fresh EXCEPT !.blocks = b] : b \in CutShort(fresh.blocks)}
              /\ previous' = None

ReadStore(f, ino) ==
    \E n \in IF index = None THEN {0} ELSE Stops(index.blocks) :
        IF index # None /\ Believed(index, f, ino, n) THEN Resume(f, ino, n) ELSE WalkAndWrite(f, ino)

-----------------------------------------------------------------------------
(* The store. *)

Init ==
    /\ file = <<>>
    /\ inode \in Inodes
    /\ index = None
    /\ live = FALSE
    /\ mem = WalkOf(<<>>)
    /\ previous = None
    /\ pending = <<>>
    /\ flush = "no"
    /\ probe = None
    /\ copy = None
    /\ nextId = 0
    /\ mishaps = 0

Mishap == mishaps < MaxMishaps /\ mishaps' = mishaps + 1

\* scan at an opening.
Open ==
    /\ ~live
    /\ live' = TRUE
    /\ ReadStore(file, inode)
    /\ UNCHANGED <<file, inode, flush, probe, copy, nextId, mishaps>>

\* A window of one record, synced, held and noted: noteEntry hands the entry to
\* flushSidecar when it fills a block.
Put ==
    /\ live /\ flush = "no" /\ nextId < MaxUnits
    /\ nextId' = nextId + 1
    /\ file' = Append(file, Receipt(nextId))
    /\ LET entry == [start |-> mem.end, seq |-> Len(mem.entries), id |-> nextId]
       IN  /\ mem' = [mem EXCEPT !.entries = Append(@, entry), !.end = @ + ReceiptBytes]
           /\ pending' = IF previous = None THEN pending ELSE Append(pending, entry)
    /\ flush' = IF Len(pending') >= BlockRecords /\ previous # None THEN "due" ELSE "no"
    /\ UNCHANGED <<inode, index, live, previous, probe, copy, mishaps>>

\* appendFile has put some of the block's bytes down.
FlushHalf ==
    /\ flush = "due"
    /\ flush' = "half"
    /\ index' = [index EXCEPT !.blocks = Append(@, Half)]
    /\ UNCHANGED <<file, inode, live, mem, previous, pending, probe, copy, nextId, mishaps>>

\* The rest of it lands: behind its own first half, unless that was cut away.
FlushLands ==
    /\ flush = "half"
    /\ flush' = "no"
    /\ index' = [index EXCEPT !.blocks =
                   IF @ # <<>> /\ Last(@) = Half
                   THEN Append(Front(@), Block(previous, pending))
                   ELSE Append(@, Junk)]
    /\ previous' = Append(previous, pending)
    /\ pending' = <<>>
    /\ UNCHANGED <<file, inode, live, mem, probe, copy, nextId, mishaps>>

FlushRefused ==
    /\ flush \in {"due", "half"}
    /\ flush' = "no"
    /\ previous' = None
    /\ pending' = <<>>
    /\ UNCHANGED <<file, inode, index, live, mem, probe, copy, nextId, mishaps>>

\* The file a compaction leaves: the run, one more trim, the receipts behind
\* the retired ones.
Compacted(dead) ==
    SubSeq(file, 1, Trims(file)) \o <<Trim(nextId)>> \o SubSeq(file, dead + 1, Len(file))

CompactsAt(dead) ==
    /\ live /\ flush = "no" /\ nextId < MaxUnits
    /\ Trims(file) < MaxTrims
    /\ dead > Trims(file)
    /\ Offset(file, dead + 1) > Size(file) - Offset(file, dead + 1)
    /\ nextId' = nextId + 1
    /\ file' = Compacted(dead)
    /\ inode' \in Inodes \ {inode}

\* compact renames the new file over the old and reads what it left.
Compact ==
    \E dead \in DOMAIN file :
        /\ CompactsAt(dead)
        /\ ReadStore(Compacted(dead), inode')
        /\ UNCHANGED <<live, flush, probe, copy, mishaps>>

\* The process goes between the rename and that reading.
CompactCut ==
    \E dead \in DOMAIN file :
        /\ Mishap
        /\ CompactsAt(dead)
        /\ live' = FALSE
        /\ mem' = WalkOf(<<>>)
        /\ previous' = None
        /\ pending' = <<>>
        /\ UNCHANGED <<index, flush, probe, copy>>

\* The process, or the machine under it, goes: the index was never synced, so
\* its last blocks may go with it.
Crash ==
    /\ Mishap
    /\ live
    /\ live' = FALSE
    /\ mem' = WalkOf(<<>>)
    /\ previous' = None
    /\ pending' = <<>>
    /\ flush' = "no"
    /\ index' \in {index} \cup IF index = None THEN {} ELSE {[index EXCEPT !.blocks = b] : b \in CutShort(index.blocks)}
    /\ UNCHANGED <<file, inode, probe, copy, nextId>>

\* An operator copies the stopped store's file, and writes the copy back
\* through the file's own name.
KeepCopy ==
    /\ ~live /\ copy = None
    /\ copy' = file
    /\ UNCHANGED <<file, inode, index, live, mem, previous, pending, flush, probe, nextId, mishaps>>

PutBack ==
    /\ Mishap
    /\ ~live /\ copy # None
    /\ file' = copy
    /\ UNCHANGED <<inode, index, live, mem, previous, pending, flush, probe, copy, nextId>>

-----------------------------------------------------------------------------
(* readReceiptStoreCheckpoint, from another process and without the claim. *)

\* It reads the index, finds its blocks sound to n, and has a torn end to cut.
ProbeReads ==
    /\ Mishap
    /\ probe = None /\ index # None
    /\ \E n \in Stops(index.blocks) :
        /\ BlocksHold(index, file, inode, n)
        /\ n < Len(index.blocks)
        /\ probe' = [whole |-> n, read |-> index]
    /\ UNCHANGED <<file, inode, index, live, mem, previous, pending, flush, copy, nextId>>

\* The truncate, by the path and to the length it read: exact when those blocks
\* are still the ones there, anywhere in another index, and an extension of a
\* shorter one.
ProbeCuts ==
    /\ probe # None
    /\ probe' = None
    /\ LET n == probe.whole
           same == /\ index.identity = probe.read.identity
                   /\ IsPrefix(Cut(probe.read.blocks, n), index.blocks)
       IN  index' \in IF same THEN {[index EXCEPT !.blocks = Cut(@, n)]}
                      ELSE {[index EXCEPT !.blocks = b] : b \in CutShort(index.blocks) \cup {Append(index.blocks, Junk)}}
    /\ UNCHANGED <<file, inode, live, mem, previous, pending, flush, copy, nextId, mishaps>>

Next ==
    \/ Open \/ Put \/ Compact \/ CompactCut \/ Crash
    \/ FlushHalf \/ FlushLands \/ FlushRefused
    \/ KeepCopy \/ PutBack
    \/ ProbeReads \/ ProbeCuts

Spec == Init /\ [][Next]_vars

-----------------------------------------------------------------------------
(***************************************************************************)
(* What a serving store holds is what a walk of the whole file would have  *)
(* given it, however its opening came by it: from an index that was cut,   *)
(* left over from before a compaction, written for a file since put back,  *)
(* or for one whose identity the volume has handed out again.              *)
(***************************************************************************)
OpeningIsAWalk == live => mem = WalkOf(file)

=============================================================================
