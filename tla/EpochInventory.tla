--------------------------- MODULE EpochInventory ---------------------------
(***************************************************************************)
(* The inventory of a closed epoch (packages/receipt/src/epoch-inventory.ts): *)
(* one document restating the packs the epoch sealed, the window they      *)
(* cover, where their chain breaks and which fell short of the period they *)
(* owe, and folding, where the retention manifests are handed beside it,   *)
(* the documents those observed from one end of the window to the other.   *)
(*                                                                         *)
(* The two digests of an entry are modelled as what they are taken over: a *)
(* pack by its number, a retention manifest by what it says.               *)
(***************************************************************************)
EXTENDS Integers, Sequences, FiniteSets, SequencesExt, FiniteSetsExt

CONSTANTS Manifests,   \* retention manifests: [v, names], names the digests of both families held
          Required,    \* seconds a pack's duty asks for
          MaxPacks, MaxSize    \* MaxSize bounds the packs and what went wrong together

VARIABLES packs,       \* the packs the epoch sealed, in the order it sealed them
          inventory,   \* the document being assembled
          stage,       \* "sealing", "draft", "sealed", "refused"
          mishaps

vars == <<packs, inventory, stage, mishaps>>

NoInventory == [packs |-> <<>>]

Init == packs = <<>> /\ inventory = NoInventory /\ stage = "sealing" /\ mishaps = 0

\* A window closes and its pack is sealed: where the last one ended, or not; over
\* the chain the last one left, or another; for as long as its duty asks, or not.
Seal ==
    /\ stage = "sealing"
    /\ Len(packs) < MaxPacks
    /\ \E manifest \in Manifests, off \in {-1, 0, 1}, broken \in BOOLEAN, short \in BOOLEAN :
        LET n == Len(packs) + 1
            begin == IF n = 1 THEN 1 + off ELSE Last(packs).to + off
            odd == Cardinality({i \in 1..3 : <<off # 0, broken, short>>[i]})
        IN  /\ mishaps + odd + Len(packs) < MaxSize
            /\ mishaps' = mishaps + odd
            /\ packs' = Append(packs, [sha |-> n, file |-> n, from |-> begin, to |-> begin + 1 + (n % 2), at |-> n,
                                       anchor |-> IF broken THEN -n ELSE n - 1, head |-> n,
                                       required |-> Required, held |-> IF short THEN Required - 1 ELSE Required,
                                       retention |-> manifest])
    /\ UNCHANGED <<inventory, stage>>

-----------------------------------------------------------------------------
(* The run, and the arithmetic a reader does over it. *)

\* runOrder: by the window's start, the pack's own stamp, its digest.
Precedes(a, b) ==
    \/ a.from < b.from
    \/ a.from = b.from /\ a.at < b.at
    \/ a.from = b.from /\ a.at = b.at /\ a.sha < b.sha

runOrder(entries) == SortSeq(entries, Precedes)

Follows(run, i) == run[i].from = run[i - 1].to

breakOf(run, i) == [file |-> run[i].file, afterHead |-> run[i - 1].head, anchor |-> run[i].anchor]
shortfallOf(one) == [file |-> one.file, required |-> one.required, held |-> one.held, shortBy |-> one.required - one.held]

Breaks(run) == {breakOf(run, i) : i \in {j \in 2..Len(run) : run[j].anchor # run[j - 1].head}}
Shortfalls(run) == {shortfallOf(run[i]) : i \in {j \in DOMAIN run : run[j].held < run[j].required}}

Window(run) ==
    [from |-> Min({run[i].from : i \in DOMAIN run}), to |-> Max({run[i].to : i \in DOMAIN run})]

\* A list stated beside a flag: the flag says whether it is empty, the count is the
\* run's, no row names a pack twice, and each row is the one its pack owes.
\* Mutant: the count alone stands for the set.
RowsDisagree_Counted(flag, stated, owed) ==
    \/ flag # (stated = <<>>)
    \/ Len(stated) # Cardinality(owed)
    \/ \E i \in DOMAIN stated : stated[i] \notin owed

RowsDisagree(flag, stated, owed) ==
    \/ flag # (stated = <<>>)
    \/ Len(stated) # Cardinality(owed)
    \/ Cardinality({stated[i].file : i \in DOMAIN stated}) # Len(stated)
    \/ \E i \in DOMAIN stated : stated[i] \notin owed

\* assertRun over the run its entries make: contiguity first, then the summaries.
\* Mutant: neighbours may overlap.
assertRun_Overlapping(m) ==
    LET run == runOrder(m.packs)
    IN  IF \E i \in DOMAIN run : run[i].to <= run[i].from \/ (i > 1 /\ run[i].from > run[i - 1].to)
        THEN "EPOCH_INVENTORY_RUN_NOT_CONTIGUOUS"
        ELSE IF \/ m.anchor # run[1].anchor \/ m.head # Last(run).head \/ m.window # Window(run)
                \/ RowsDisagree(m.continuous, m.breaks, Breaks(run))
                \/ RowsDisagree(m.carried, m.short, Shortfalls(run))
        THEN "EPOCH_INVENTORY_SUMMARY_DISAGREES"
        ELSE "none"

assertRun(m) ==
    LET run == runOrder(m.packs)
    IN  IF \E i \in DOMAIN run : run[i].to <= run[i].from \/ (i > 1 /\ ~Follows(run, i))
        THEN "EPOCH_INVENTORY_RUN_NOT_CONTIGUOUS"
        ELSE IF \/ m.anchor # run[1].anchor \/ m.head # Last(run).head \/ m.window # Window(run)
                \/ RowsDisagree(m.continuous, m.breaks, Breaks(run))
                \/ RowsDisagree(m.carried, m.short, Shortfalls(run))
        THEN "EPOCH_INVENTORY_SUMMARY_DISAGREES"
        ELSE "none"

\* parseManifest: an entry filed under another pack's digest, a run of none, a pack twice.
parseManifest(m) ==
    IF m.packs = <<>> THEN "EPOCH_INVENTORY_BAD_DOCUMENT"
    ELSE IF \E i \in DOMAIN m.packs : m.packs[i].file # m.packs[i].sha THEN "EPOCH_INVENTORY_PACK_MISNAMED"
    ELSE IF \E i, j \in DOMAIN m.packs : i < j /\ m.packs[i].sha = m.packs[j].sha THEN "EPOCH_INVENTORY_DUPLICATE_PACK"
    ELSE "none"

-----------------------------------------------------------------------------
(* The presence fold, over the manifests handed beside the document. *)

\* A manifest no entry seals, or two entries do, or handed twice, is refused.
Admitted(run, handed) ==
    /\ IsInjective(handed)
    /\ \A k \in DOMAIN handed : Cardinality({i \in DOMAIN run : run[i].retention = handed[k]}) = 1

\* The places of the run an observation names a digest at: a version 2 manifest handed for it.
NamedAt(run, handed, digest) ==
    {i \in DOMAIN run : run[i].retention \in Range(handed) /\ run[i].retention.v = 2 /\ digest \in run[i].retention.names}

Digests == UNION {manifest.names : manifest \in Manifests}
Stretched(run, handed) == {digest \in Digests : NamedAt(run, handed, digest) # {}}

\* Mutant: a stretch is its two ends.
Gapped_Ends(run, handed, digest) == FALSE

Gapped(run, handed, digest) ==
    LET at == NamedAt(run, handed, digest) IN \E i \in Min(at)..Max(at) : i \notin at

foldPresence(m, handed) ==
    LET run == runOrder(m.packs)
        named == Stretched(run, handed)
        from == Max({run[Min(NamedAt(run, handed, d))].from : d \in named})
        to == Min({run[Max(NamedAt(run, handed, d))].to : d \in named})
    IN  IF ~Admitted(run, handed) THEN "EPOCH_INVENTORY_PRESENCE_UNSEALED"
        ELSE IF named = {} THEN "EPOCH_INVENTORY_PRESENCE_WINDOW_TOO_WIDE"
        ELSE IF \E d \in named : Gapped(run, handed, d) THEN "EPOCH_INVENTORY_PRESENCE_GAP"
        ELSE IF m.window # [from |-> from, to |-> to] THEN "EPOCH_INVENTORY_PRESENCE_WINDOW_TOO_WIDE"
        ELSE "none"

\* signEpochInventory hands no presence here; verifyEpochInventory may.
signEpochInventory(m) == IF parseManifest(m) # "none" THEN parseManifest(m) ELSE assertRun(m)

verifyEpochInventory(m, handed) ==
    IF signEpochInventory(m) # "none" THEN signEpochInventory(m) ELSE foldPresence(m, handed)

-----------------------------------------------------------------------------
(* The assembler, which is nothing under src/. *)

Assemble ==
    /\ stage = "sealing"
    /\ packs # <<>>
    /\ LET run == runOrder(packs)
       IN  inventory' = [packs |-> packs, window |-> Window(run), anchor |-> run[1].anchor, head |-> Last(run).head,
                         continuous |-> Breaks(run) = {}, breaks |-> SetToSeq(Breaks(run)),
                         carried |-> Shortfalls(run) = {}, short |-> SetToSeq(Shortfalls(run))]
    /\ stage' = "draft"
    /\ UNCHANGED <<packs, mishaps>>

\* A list with a row dropped, repeated over another, or added.
Misstated(rows, others) ==
    {RemoveAt(rows, k) : k \in DOMAIN rows} \cup {[rows EXCEPT ![k] = rows[j]] : <<j, k>> \in (DOMAIN rows) \X (DOMAIN rows)}
    \cup {Append(rows, row) : row \in others}

Slipped(m) ==
    LET run == runOrder(m.packs)
    IN  {[m EXCEPT !.packs = RemoveAt(m.packs, k)] : k \in DOMAIN m.packs}
        \cup {[m EXCEPT !.packs = Append(m.packs, m.packs[k])] : k \in DOMAIN m.packs}
        \cup {[m EXCEPT !.packs = Reverse(m.packs)]}
        \cup {[m EXCEPT !.packs[k].file = j] : <<j, k>> \in (DOMAIN m.packs) \X (DOMAIN m.packs)}
        \cup {[m EXCEPT !.packs[k].to = @ - 1] : k \in DOMAIN m.packs}
        \cup {[m EXCEPT !.packs[k].from = @ - 1] : k \in DOMAIN m.packs}
        \cup {[m EXCEPT !.window.to = @ + 1], [m EXCEPT !.window.from = @ + 1]}
        \cup {[m EXCEPT !.breaks = rows, !.continuous = rows = <<>>] :
                rows \in Misstated(m.breaks, {breakOf(run, i) : i \in 2..Len(run)})}
        \cup {[m EXCEPT !.short = rows, !.carried = rows = <<>>] :
                rows \in Misstated(m.short, {shortfallOf(run[i]) : i \in DOMAIN run})}

Slip ==
    /\ stage = "draft"
    /\ mishaps + Len(packs) < MaxSize
    /\ mishaps' = mishaps + 1
    /\ inventory' \in Slipped(inventory)
    /\ UNCHANGED <<packs, stage>>

Sign ==
    /\ stage = "draft"
    /\ stage' = IF signEpochInventory(inventory) = "none" THEN "sealed" ELSE "refused"
    /\ UNCHANGED <<packs, inventory, mishaps>>

Next == Seal \/ Assemble \/ Slip \/ Sign

Spec == Init /\ [][Next]_vars

-----------------------------------------------------------------------------
Covers(one, t) == t \in one.from..one.to - 1

(***************************************************************************)
(* "A gap is a period this epoch states it attests and does not, and an     *)
(* overlap seals the same receipts twice under two signatures": of a sealed *)
(* inventory, exactly one pack covers each second of the window; and the    *)
(* window ends where the packs end.                                         *)
(***************************************************************************)
EverySecondOnce ==
    stage = "sealed" =>
        \A t \in inventory.window.from - 1..inventory.window.to :
            Cardinality({i \in DOMAIN inventory.packs : Covers(inventory.packs[i], t)}) =
                IF t \in inventory.window.from..inventory.window.to - 1 THEN 1 ELSE 0

(***************************************************************************)
(* "a run that breaks twice can be stated as breaking once and the break    *)
(* nobody named is never looked at": of a sealed inventory, the pack that   *)
(* takes over at a second either chains from the one that held the second   *)
(* before or is named among the breaks, and the pack that falls short of    *)
(* what it owes is named among the shortfalls.                              *)
(***************************************************************************)
NothingSmoothedOver ==
    stage = "sealed" =>
        \A i, j \in DOMAIN inventory.packs :
            LET one == inventory.packs[i]
                next == inventory.packs[j]
            IN  /\ one.to = next.from /\ next.anchor # one.head =>
                    ~inventory.continuous /\ \E k \in DOMAIN inventory.breaks : inventory.breaks[k].file = next.file
                /\ one.held < one.required =>
                    ~inventory.carried /\ \E k \in DOMAIN inventory.short : inventory.short[k].file = one.file

(***************************************************************************)
(* "was the material an anchor names there the whole way across the run     *)
(* this inventory attests?": where the fold accepts what it was handed, for *)
(* every second of the window and every digest it reports, the manifest of  *)
(* the pack that covers that second was handed and names that digest.       *)
(***************************************************************************)
PresentThroughout ==
    stage = "sealed" =>
        \A taken \in SUBSET DOMAIN inventory.packs :
            LET handed == SetToSeq({inventory.packs[i].retention : i \in taken})
                run == runOrder(inventory.packs)
            IN  verifyEpochInventory(inventory, handed) = "none" =>
                    \A t \in inventory.window.from..inventory.window.to - 1, digest \in Stretched(run, handed) :
                        \E i \in taken : Covers(inventory.packs[i], t) /\ digest \in inventory.packs[i].retention.names

=============================================================================
