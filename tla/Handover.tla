------------------------------ MODULE Handover ------------------------------
(***************************************************************************)
(* What leaves a deployment: a run of its receipt chain sealed as a pack   *)
(* (packages/receipt/src/pack.ts), a redaction naming the records of a     *)
(* pack that are to be read without (redaction.ts), and what a reader that *)
(* holds some of the signing keys answers to each.                         *)
(*                                                                         *)
(* A digest is modelled as the value it is taken over, so two are equal    *)
(* exactly when their inputs are.  An assembler (nothing under src/ is     *)
(* one) may slip before it signs; behind the signature the bytes may move. *)
(***************************************************************************)
EXTENDS ChainWalk

CONSTANTS Receipts,   \* what a receipt attests: [iat, key, held], held from slot to digest
          Absent,     \* the half states an absence, or no header is carried
          Headers,    \* digests of a header beside a document
          Keys,       \* the kids receipts and packs are signed under
          MaxRecords, MaxSize, At    \* MaxSize bounds the records and the slips together

VARIABLES pack,       \* the manifest being assembled
          stage,      \* "filing", "draft", "sealed", "refused"
          moved,      \* the bytes changed behind the signature
          removal,    \* the redaction signed over the pack, or NoRemoval
          slips

vars == <<chain, pack, stage, moved, removal, slips>>

-----------------------------------------------------------------------------
(* The held slots of a run. *)

\* heldSlotDigests.
heldSlotDigests(items) ==
    LET half(item, slot) == [item |-> item.id, slot |-> slot, b |-> item.receipt.held[slot]]
    IN  SelectSeq(FlattenSeq([i \in DOMAIN items |-> <<half(items[i], "col"), half(items[i], "val")>>]),
                  LAMBDA slot : slot.b # Absent)

Keyed(entry) == [item |-> entry.item, slot |-> entry.slot, b |-> entry.b]

-----------------------------------------------------------------------------
(* The walk, held against the head and the count. *)

\* Mutant: the links are walked and what they left out is not counted.
walk_Half(items, anchor, head) ==
    LET end == WalkFrom(items, anchor)
    IN  IF end.forked \/ end.cursor # head THEN "PACK_CHAIN_BROKEN" ELSE "none"

walk(items, anchor, head) ==
    LET end == WalkFrom(items, anchor)
    IN  IF end.forked \/ end.cursor # head THEN "PACK_CHAIN_BROKEN"
        ELSE IF Len(end.run) < Len(items) THEN "PACK_ITEM_UNREACHED"
        ELSE "none"

Walked(m) == LET run == WalkFrom(m.items, m.anchor).run IN [i \in DOMAIN run |-> m.items[run[i]]]

-----------------------------------------------------------------------------
(* The structure of a manifest: each check in the order a reader meets it. *)

Custody(m) == Range(m.custody)
Attached(m) == Range(m.attached)
Resolved(m, object) == {entry \in Custody(m) : entry.b = object.sha}

CUSTODY_SLOTS_PER_ITEM == 2

assertCustodyResolves(m) ==
    LET named == Range(heldSlotDigests(m.items))
    IN  <<<<"PACK_BAD_MANIFEST", Len(m.custody) > CUSTODY_SLOTS_PER_ITEM * Len(m.items)>>,
          <<"PACK_CUSTODY_UNNAMED", \E entry \in Custody(m) : Keyed(entry) \notin named>>,
          <<"PACK_CUSTODY_UNRESOLVED", \E slot \in named : \A entry \in Custody(m) : Keyed(entry) # slot>>,
          <<"PACK_CUSTODY_UNIT_OUTSIDE_BAND", \E entry \in Custody(m) : ~entry.inBand>>>>

\* The refusals one attached object meets; the array is walked object by object.
\* Mutant: a header is weighed against one reference of the material.
Objected_First(m, i) ==
    LET object == m.attached[i]
    IN  <<<<"PACK_ATTACHED_DIGEST_MISMATCH", object.bytes # object.sha>>,
          <<"PACK_ATTACHED_DUPLICATE", \E j \in 1..i - 1 : m.attached[j].bytes = object.bytes>>,
          <<"PACK_ATTACHED_UNNAMED", Resolved(m, object) = {}>>,
          <<"PACK_ATTACHED_DIGEST_MISMATCH", \A entry \in Resolved(m, object) : entry.c # object.header>>>>

Objected(m, i) ==
    LET object == m.attached[i]
    IN  <<<<"PACK_ATTACHED_DIGEST_MISMATCH", object.bytes # object.sha>>,
          <<"PACK_ATTACHED_DUPLICATE", \E j \in 1..i - 1 : m.attached[j].bytes = object.bytes>>,
          <<"PACK_ATTACHED_UNNAMED", Resolved(m, object) = {}>>,
          <<"PACK_ATTACHED_DIGEST_MISMATCH", \E entry \in Resolved(m, object) : entry.c # object.header>>>>

assertAttachedResolves(m) ==
    <<<<"PACK_BAD_MANIFEST", Len(m.attached) > CUSTODY_SLOTS_PER_ITEM * Len(m.items)>>>>
    \o FlattenSeq([i \in DOMAIN m.attached |-> Objected(m, i)])

readItems(m) ==
    <<<<"PACK_BAD_MANIFEST", m.items = <<>> >>,
      <<"PACK_BAD_MANIFEST", \E i \in DOMAIN m.items : m.items[i].iat \notin m.from..m.to - 1>>,
      <<"PACK_DUPLICATE_ID", \E i, j \in DOMAIN m.items : i < j /\ m.items[i].id = m.items[j].id>>>>

\* What the container says of all its items: no stronger than the weakest of
\* them, and held for no less than the oldest is old.
Summaries(m) ==
    <<<<"PACK_BAD_MANIFEST", m.prov # reduceProvenance(m.items)>>,
      <<"PACK_BAD_MANIFEST", \E i \in DOMAIN m.items : m.held < At - m.items[i].iat>>>>

\* An empty run is refused before anything is asked of its items.
parseManifest(m) ==
    LET shape == Verdict(<<<<"PACK_BAD_MANIFEST", At < m.to>>>> \o readItems(m))
    IN  IF shape # "none" THEN shape
        ELSE Verdict(Summaries(m) \o assertCustodyResolves(m) \o assertAttachedResolves(m))

\* Mutant: what is signed is read, and not walked.
signPack_Unwalked(m) == parseManifest(m)

\* signPack: what it would refuse to sign, or "none".
signPack(m) ==
    IF parseManifest(m) # "none" THEN parseManifest(m) ELSE walk(m.items, m.anchor, m.head)

-----------------------------------------------------------------------------
(* The reader, handed one key or a resolver over the ones it retained. *)

\* checkOriginals, where the first item refused names the refusal: one key
\* answers for every original, a resolver for those it knows.
Original(item, reader) ==
    IF reader.resolves /\ item.receipt.key \notin reader.keys THEN "PACK_UNKNOWN_KEY"
    ELSE IF item.receipt.key \notin reader.keys THEN "PACK_RECEIPT_INVALID"
    ELSE IF item.receipt.iat # item.iat THEN "PACK_RECEIPT_STAMP_MISMATCH"
    ELSE "none"

checkOriginals(items, reader) ==
    Verdict([i \in DOMAIN items |-> <<Original(items[i], reader), Original(items[i], reader) # "none">>])

envelopeKey(kid, reader) ==
    IF kid \in reader.keys THEN "none"
    ELSE IF reader.resolves THEN "PACK_UNKNOWN_KEY" ELSE "PACK_KID_MISMATCH"

verifyPack(reader) ==
    IF envelopeKey(pack.kid, reader) # "none" THEN envelopeKey(pack.kid, reader)
    ELSE IF moved THEN "INVALID_SIGNATURE"
    ELSE IF parseManifest(pack) # "none" THEN parseManifest(pack)
    ELSE IF checkOriginals(pack.items, reader) # "none" THEN checkOriginals(pack.items, reader)
    ELSE walk(pack.items, pack.anchor, pack.head)

Readers == [keys : SUBSET Keys \ {{}}, resolves : {TRUE}] \cup [keys : {{k} : k \in Keys}, resolves : {FALSE}]

\* resolveAttached, asked for the digest of an object the pack attaches: the first
\* held slot naming it, and the first reference for that slot.
resolveAttached(m, object) ==
    LET named == SelectSeq(heldSlotDigests(m.items), LAMBDA slot : slot.b = object.sha)
        answers == SelectSeq(m.custody, LAMBDA entry : entry.item = named[1].item /\ entry.slot = named[1].slot)
    IN  IF object.bytes # object.sha THEN "PACK_ATTACHED_DIGEST_MISMATCH"
        ELSE IF named = <<>> THEN "PACK_ATTACHED_UNNAMED"
        ELSE IF answers = <<>> THEN "PACK_CUSTODY_UNRESOLVED"
        ELSE IF answers[1].c # object.header THEN "PACK_ATTACHED_DIGEST_MISMATCH"
        ELSE "none"

-----------------------------------------------------------------------------
(* A redaction of the pack. *)

\* redactionSurvivorDigest: the records a removal leaves, linked afresh from the
\* pack's anchor.
redactionSurvivorDigest(anchor, survivors) ==
    FoldLeft(LAMBDA prev, item : packRecordDigest([item EXCEPT !.prev = prev]), anchor, survivors)

Survivors(run, ids) == SelectSeq(run, LAMBDA item : item.id \notin ids)

\* Mutant: the removal is folded over what the document says it leaves.
verifyRedaction_Believed(reader) ==
    IF envelopeKey(removal.kid, reader) # "none" \/ verifyPack(reader) # "none" THEN "unread"
    ELSE IF \E id \in removal.ids : \A i \in DOMAIN pack.items : pack.items[i].id # id THEN "REDACTION_ITEM_ABSENT"
    ELSE "none"

\* verifyRedaction, whose keys are the pack's, over the pack it names.
verifyRedaction(reader) ==
    IF envelopeKey(removal.kid, reader) # "none" \/ verifyPack(reader) # "none" THEN "unread"
    ELSE IF \E id \in removal.ids : \A i \in DOMAIN pack.items : pack.items[i].id # id THEN "REDACTION_ITEM_ABSENT"
    ELSE LET left == Survivors(Walked(pack), removal.ids)
         IN  IF left = <<>> THEN "REDACTION_SURVIVORS_EMPTY"
             ELSE IF redactionSurvivorDigest(pack.anchor, left) # removal.reduced
             THEN "REDACTION_SURVIVOR_CHAIN_MISMATCH"
             ELSE "none"

-----------------------------------------------------------------------------
(* The assembler. *)

NoPack == [items |-> <<>>]
NoRemoval == [ids |-> {}]

Init ==
    /\ chain = <<>>
    /\ pack = NoPack /\ removal = NoRemoval
    /\ stage = "filing" /\ moved = FALSE /\ slips = 0

\* The store chains a receipt under the stamp it attests, behind the last.
File ==
    /\ stage = "filing"
    /\ Len(chain) < MaxRecords
    /\ \E receipt \in Receipts : Chained(receipt)
    /\ UNCHANGED <<pack, stage, moved, removal, slips>>

Reference(slot) == [item |-> slot.item, slot |-> slot.slot, b |-> slot.b, c |-> Absent, inBand |-> TRUE]

Manifest(items, first, last, kid) ==
    LET stamps == {items[i].iat : i \in DOMAIN items}
        slots == heldSlotDigests(items)
    IN  [kid |-> kid, items |-> items, anchor |-> Link(first - 1), head |-> Link(last),
         from |-> Min(stamps), to |-> Max(stamps) + 1, held |-> At - Min(stamps),
         prov |-> reduceProvenance(items),
         custody |-> [i \in DOMAIN slots |-> Reference(slots[i])], attached |-> <<>>]

Assemble ==
    /\ stage = "filing"
    /\ \E first, last \in DOMAIN chain, kid \in Keys :
        /\ first <= last
        /\ pack' = Manifest(SubSeq(chain, first, last), first, last, kid)
    /\ stage' = "draft"
    /\ UNCHANGED <<chain, moved, removal, slips>>

Relinked(m, k) ==
    LET items == RelinkedPast(m.items, m.anchor, k) IN [m EXCEPT !.items = items, !.head = HeadOf(items, m.anchor)]

\* What a draft may have become by one slip.
Slipped(m) ==
    {[m EXCEPT !.items = RemoveAt(m.items, k)] : k \in DOMAIN m.items}
    \cup {Relinked(m, k) : k \in DOMAIN m.items}
    \cup {[m EXCEPT !.items = Append(m.items, chain[k])] : k \in DOMAIN chain}
    \cup {[m EXCEPT !.items = Reverse(m.items)]}
    \cup {[m EXCEPT !.items[k].iat = t] : <<k, t>> \in (DOMAIN m.items) \X {receipt.iat : receipt \in Receipts}}
    \cup {[m EXCEPT !.custody = RemoveAt(m.custody, k)] : k \in DOMAIN m.custody}
    \cup {[m EXCEPT !.custody = Append(m.custody, m.custody[k])] : k \in DOMAIN m.custody}
    \cup {[m EXCEPT !.custody[k].c = h] : <<k, h>> \in (DOMAIN m.custody) \X Headers}
    \cup {[m EXCEPT !.custody[k].inBand = FALSE] : k \in DOMAIN m.custody}
    \cup {[m EXCEPT !.attached = Append(m.attached, [bytes |-> b, sha |-> entry.b, header |-> h])] :
            <<entry, b, h>> \in Custody(m) \X {entry.b : entry \in Custody(m)} \X (Headers \cup {Absent})}
    \cup {[m EXCEPT !.prov = @ - 1], [m EXCEPT !.held = @ - 1], [m EXCEPT !.to = @ - 1]}

Slip ==
    /\ stage = "draft"
    /\ slips + Len(chain) < MaxSize
    /\ slips' = slips + 1
    /\ pack' \in Slipped(pack)
    /\ UNCHANGED <<chain, stage, moved, removal>>

Sign ==
    /\ stage = "draft"
    /\ stage' = IF signPack(pack) = "none" THEN "sealed" ELSE "refused"
    /\ UNCHANGED <<chain, pack, moved, removal, slips>>

\* Bytes changed behind the signature.
Alter ==
    /\ stage = "sealed"
    /\ ~moved
    /\ moved' = TRUE
    /\ UNCHANGED <<chain, pack, stage, removal, slips>>

\* signRedaction holds no pack: what it names and what it folds are its caller's.
Redact ==
    /\ stage = "sealed"
    /\ removal = NoRemoval
    /\ \E ids \in SUBSET {chain[i].id : i \in DOMAIN chain}, left \in SUBSET DOMAIN pack.items, kid \in Keys :
        /\ ids # {}
        /\ removal' = [ids |-> ids, kid |-> kid,
                       left |-> {pack.items[i].id : i \in left},
                       reduced |-> redactionSurvivorDigest(pack.anchor,
                                     SelectSeq(Walked(pack), LAMBDA item : \E i \in left : pack.items[i] = item))]
    /\ UNCHANGED <<chain, pack, stage, moved, slips>>

Next == File \/ Assemble \/ Slip \/ Sign \/ Alter \/ Redact

Spec == Init /\ [][Next]_vars

-----------------------------------------------------------------------------
(***************************************************************************)
(* "a writer that produced bytes its own reader refuses has made a         *)
(* document that cannot be handed over" (pack.ts:618): what signPack signs *)
(* is refused, unaltered, only over a key the reader does not hold or over *)
(* the stamp an original attests, which are the two a seal cannot see.     *)
(***************************************************************************)
SealedReads ==
    stage = "sealed" /\ ~moved =>
        \A reader \in Readers :
            verifyPack(reader) \in {"none", "PACK_UNKNOWN_KEY", "PACK_KID_MISMATCH",
                                    "PACK_RECEIPT_INVALID", "PACK_RECEIPT_STAMP_MISMATCH"}

(***************************************************************************)
(* A pack a reader accepts between two links it knows as the deployment's  *)
(* carries every record the deployment chained between them and no other,  *)
(* in that order, whatever order or company the array put them in.         *)
(***************************************************************************)
AcceptedIsARun ==
    stage = "sealed" =>
        \A reader \in Readers, first, last \in DOMAIN chain :
            verifyPack(reader) = "none" /\ pack.anchor = Link(first - 1) /\ pack.head = Link(last) /\ first <= last
            => /\ Len(pack.items) = last - first + 1
               /\ \A i \in first..last : \E k \in DOMAIN pack.items :
                    <<pack.items[k].id, pack.items[k].receipt>> = <<chain[i].id, chain[i].receipt>>

(***************************************************************************)
(* What the list-wide checks let through, the lookup by one digest hands   *)
(* over: a reader of an accepted pack is refused no object it attaches.    *)
(***************************************************************************)
LookupAgrees ==
    stage = "sealed" => \A i \in DOMAIN pack.attached : resolveAttached(pack, pack.attached[i]) = "none"

(***************************************************************************)
(* "a removal larger than the one named changes the survivor sequence"     *)
(* (redaction.ts): a redaction is accepted only when what it left in its   *)
(* fold is exactly what its list leaves of the pack.                       *)
(***************************************************************************)
RemovesWhatItNames ==
    removal # NoRemoval =>
        \A reader \in Readers :
            verifyRedaction(reader) = "none" =>
                removal.left = {pack.items[i].id : i \in DOMAIN pack.items} \ removal.ids

=============================================================================
