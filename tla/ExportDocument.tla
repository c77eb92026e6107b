--------------------------- MODULE ExportDocument ---------------------------
(***************************************************************************)
(* An export (packages/receipt/src/export.ts): originals handed over in    *)
(* one signed document, inline or as companion files beside it, as a run   *)
(* of the chain, as a plain collection or as the statement that there are  *)
(* none.  A reader may pin the endpoints it already believes.              *)
(***************************************************************************)
EXTENDS ChainWalk

CONSTANTS Receipts,   \* what an original is: [iat, prov] and whatever tells two apart
          Absent,     \* no predecessor, no file, no expectation
          MaxRecords, MaxSize   \* MaxSize bounds the records and the mishaps together

VARIABLES export,     \* the manifest being assembled
          stage,      \* "filing", "draft", "sealed", "refused"
          files,      \* the companion files a reader is handed, by name
          mishaps

vars == <<chain, export, stage, files, mishaps>>

NoExport == [k |-> "none", items |-> <<>>]

Init ==
    /\ chain = <<>>
    /\ export = NoExport
    /\ stage = "filing"
    /\ files = [name \in 1..MaxRecords |-> Absent]
    /\ mishaps = 0

File ==
    /\ stage = "filing"
    /\ Len(chain) < MaxRecords
    /\ \E receipt \in Receipts : Chained(receipt)
    /\ UNCHANGED <<export, stage, files, mishaps>>

-----------------------------------------------------------------------------
(* What the reader and the writer's own check share. *)

\* The bytes a record's digest is taken over are the original's.
Records(items, bytes) ==
    [i \in DOMAIN items |-> [id |-> items[i].id, iat |-> items[i].iat, prev |-> items[i].prev, receipt |-> bytes[i]]]

\* Mutant: the links are walked and what they left out is not counted.
walk_Half(records, anchor, head) ==
    LET end == WalkFrom(records, anchor)
    IN  IF end.forked \/ end.cursor # head THEN "EXPORT_CHAIN_BROKEN" ELSE "none"

\* walk: the run from the anchor to the head, and the count of what it reached.
walk(records, anchor, head) ==
    LET end == WalkFrom(records, anchor)
    IN  IF end.forked \/ end.cursor # head THEN "EXPORT_CHAIN_BROKEN"
        ELSE IF Len(end.run) < Len(records) THEN "EXPORT_ITEM_UNREACHED"
        ELSE "none"

Chains(m) == m.k = "anchored"

\* readItems and assertProvReduces, which a void collection has nothing to ask of.
parseManifest(m) ==
    IF m.k = "void" THEN "none"
    ELSE IF m.items = <<>> THEN "EXPORT_BAD_MANIFEST"
    ELSE Verdict(<<<<"EXPORT_BAD_MANIFEST", \E i \in DOMAIN m.items : (m.items[i].prev # Absent) # Chains(m)>>,
                   <<"EXPORT_DUPLICATE_ID", \E i, j \in DOMAIN m.items : i < j /\ m.items[i].id = m.items[j].id>>,
                   <<"EXPORT_BAD_MANIFEST", m.prov # reduceProvenance(m.items)>>>>)

\* Mutant: the writer's walk is left to the reader.
assertAnchoredRunCloses_Unwalked(m) == "none"

\* assertAnchoredRunCloses: one companion and the writer walks nothing.
assertAnchoredRunCloses(m) ==
    IF \E i \in DOMAIN m.items : m.items[i].orig.k = "companion" THEN "none"
    ELSE walk(Records(m.items, [i \in DOMAIN m.items |-> m.items[i].orig.bytes]), m.anchor, m.head)

\* signExport: what it would refuse to sign, or "none".
signExport(m) ==
    IF parseManifest(m) # "none" THEN parseManifest(m)
    ELSE IF Chains(m) THEN assertAnchoredRunCloses(m)
    ELSE "none"

-----------------------------------------------------------------------------
(* The reader. *)

Original(item) == IF item.orig.k = "inline" THEN item.orig.bytes ELSE files[item.orig.name]

checkOriginal(item) ==
    IF Original(item) = Absent THEN "EXPORT_ORIGINAL_UNAVAILABLE"
    ELSE IF Original(item) # item.d THEN "EXPORT_DIGEST_MISMATCH"
    ELSE "none"

Expectations(m, anchor, head) ==
    IF anchor = Absent /\ head = Absent THEN "none"
    ELSE IF ~Chains(m) THEN "EXPORT_ENDPOINT_MISMATCH"
    ELSE IF (anchor # Absent /\ m.anchor # anchor) \/ (head # Absent /\ m.head # head) THEN "EXPORT_ENDPOINT_MISMATCH"
    ELSE "none"

\* verifyExport behind its signature, the first item refused naming the refusal.
verifyExport(m, anchor, head) ==
    IF parseManifest(m) # "none" THEN parseManifest(m)
    ELSE IF Expectations(m, anchor, head) # "none" THEN Expectations(m, anchor, head)
    ELSE LET items == m.items
             read == Verdict([i \in DOMAIN items |-> <<checkOriginal(items[i]), checkOriginal(items[i]) # "none">>])
         IN  IF read # "none" THEN read
             ELSE IF Chains(m) THEN walk(Records(items, [i \in DOMAIN items |-> Original(items[i])]), m.anchor, m.head)
             ELSE "none"

-----------------------------------------------------------------------------
(* The assembler, which is nothing under src/, and what happens to the files. *)

Item(record, k, chained) ==
    [id |-> record.id, iat |-> record.iat, prov |-> record.prov, d |-> record.receipt,
     prev |-> IF chained THEN record.prev ELSE Absent,
     orig |-> IF k = "inline" THEN [k |-> "inline", bytes |-> record.receipt] ELSE [k |-> "companion", name |-> record.id]]

Assemble ==
    /\ stage = "filing"
    /\ \E arm \in {"anchored", "plain"}, first, last \in DOMAIN chain, travels \in [DOMAIN chain -> {"inline", "companion"}] :
        LET run == SubSeq(chain, first, last)
        IN  /\ first <= last
            /\ \A i \in DOMAIN chain \ first..last : travels[i] = "inline"
            /\ export' = [k |-> arm, prov |-> reduceProvenance(run), anchor |-> Link(first - 1), head |-> Link(last),
                          items |-> [i \in DOMAIN run |-> Item(run[i], travels[first + i - 1], arm = "anchored")]]
            /\ files' = [name \in DOMAIN files |->
                            IF name \in first..last /\ travels[name] = "companion" THEN chain[name].receipt ELSE Absent]
    /\ stage' = "draft"
    /\ UNCHANGED <<chain, mishaps>>

AssembleVoid ==
    /\ stage = "filing"
    /\ export' = [k |-> "void", items |-> <<>>]
    /\ stage' = "draft"
    /\ UNCHANGED <<chain, files, mishaps>>

\* The links of a draft as packRecordDigest frames them.
AsChain(m) == [i \in DOMAIN m.items |-> [id |-> m.items[i].id, iat |-> m.items[i].iat, prov |-> m.items[i].prov,
                                         prev |-> m.items[i].prev, receipt |-> m.items[i].d]]

Relinked(m, k) ==
    LET run == RelinkedPast(AsChain(m), m.anchor, k)
    IN  [m EXCEPT !.head = HeadOf(run, m.anchor),
                  !.items = [i \in DOMAIN run |-> [RemoveAt(m.items, k)[i] EXCEPT !.prev = run[i].prev]]]

\* What a draft may have become by one slip.
Slipped(m) ==
    {[m EXCEPT !.items = RemoveAt(m.items, k)] : k \in DOMAIN m.items}
    \cup (IF Chains(m) THEN {Relinked(m, k) : k \in DOMAIN m.items} ELSE {})
    \cup {[m EXCEPT !.items = Append(m.items, Item(chain[k], "inline", Chains(m)))] : k \in DOMAIN chain}
    \cup {[m EXCEPT !.items = Reverse(m.items)]}
    \cup {[m EXCEPT !.items[k].d = receipt] : <<k, receipt>> \in (DOMAIN m.items) \X Receipts}
    \cup {[m EXCEPT !.items[k].iat = @ + 1] : k \in DOMAIN m.items}
    \cup {[m EXCEPT !.items[k].prev = Absent] : k \in DOMAIN m.items}
    \cup {[m EXCEPT !.items[k].orig = [k |-> "inline", bytes |-> receipt]] : <<k, receipt>> \in (DOMAIN m.items) \X Receipts}
    \cup {[m EXCEPT !.items[k].prov = @ + 1] : k \in DOMAIN m.items}

Slip ==
    /\ stage = "draft"
    /\ mishaps + Len(chain) < MaxSize
    /\ mishaps' = mishaps + 1
    /\ export' \in Slipped(export)
    /\ UNCHANGED <<chain, stage, files>>

Sign ==
    /\ stage = "draft"
    /\ stage' = IF signExport(export) = "none" THEN "sealed" ELSE "refused"
    /\ UNCHANGED <<chain, export, files, mishaps>>

\* A companion is lost, or replaced by another original.
Disturb ==
    /\ stage = "sealed"
    /\ mishaps + Len(chain) < MaxSize
    /\ mishaps' = mishaps + 1
    /\ \E name \in DOMAIN files, bytes \in Receipts \cup {Absent} :
        /\ files[name] # Absent
        /\ files' = [files EXCEPT ![name] = bytes]
    /\ UNCHANGED <<chain, export, stage>>

Next == File \/ Assemble \/ AssembleVoid \/ Slip \/ Sign \/ Disturb

Spec == Init /\ [][Next]_vars

-----------------------------------------------------------------------------
(***************************************************************************)
(* "the head makes deletion detectable only against a copy the reader had   *)
(* before" (export.ts): an export a reader accepts between two links it     *)
(* knows as the deployment's hands it every original filed between them,    *)
(* byte for byte, and no other, whatever was done to the draft and to the   *)
(* files beside it; and a reader that pins a link is handed a chain.        *)
(***************************************************************************)
AcceptedIsTheRun ==
    stage = "sealed" =>
        \A first, last \in DOMAIN chain :
            verifyExport(export, Link(first - 1), Link(last)) = "none" /\ first <= last =>
                /\ Len(export.items) = last - first + 1
                /\ \A i \in first..last : \E k \in DOMAIN export.items :
                    <<export.items[k].id, Original(export.items[k])>> = <<chain[i].id, chain[i].receipt>>

(***************************************************************************)
(* "An anchored collection naming [a companion] is sealed on the structural *)
(* half": only such a one is refused for its run by the reader it is handed *)
(* to, and a document nobody's file goes with is never found unavailable.   *)
(***************************************************************************)
SealedRunCloses ==
    /\ stage = "sealed"
    /\ verifyExport(export, Absent, Absent) \in {"EXPORT_CHAIN_BROKEN", "EXPORT_ITEM_UNREACHED", "EXPORT_ORIGINAL_UNAVAILABLE"}
    => \E i \in DOMAIN export.items : export.items[i].orig.k = "companion"

(***************************************************************************)
(* export.ts:404: "only then signed, because a writer that produced bytes   *)
(* its own reader refuses has made a document that cannot be handed over":  *)
(* a sealed document that carries all it names reads back.                  *)
(***************************************************************************)
SealedReadsBack ==
    stage = "sealed" /\ (\A i \in DOMAIN export.items : export.items[i].orig.k = "inline") =>
        verifyExport(export, Absent, Absent) = "none"

=============================================================================
