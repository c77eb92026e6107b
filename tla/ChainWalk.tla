----------------------------- MODULE ChainWalk -----------------------------
(***************************************************************************)
(* A deployment's receipt chain and the walk two readers of a run of it    *)
(* make: from the anchor, along the links, never along the array           *)
(* (packages/receipt/src/pack.ts, export.ts).  A digest is modelled as the *)
(* value it is taken over.                                                 *)
(***************************************************************************)
EXTENDS Integers, Sequences, FiniteSets, SequencesExt, FiniteSetsExt

VARIABLE chain      \* the records the deployment's store filed, oldest first

Anchor == <<>>

\* packRecordDigest: the store's own framing of a record.
packRecordDigest(item) == <<item.prev, item.iat, item.id, item.receipt>>

Link(i) == IF i = 0 THEN Anchor ELSE packRecordDigest(chain[i])

\* The store chains a receipt under the stamp it attests, behind the last.
Chained(receipt) ==
    chain' = Append(chain, [id |-> Len(chain) + 1, iat |-> receipt.iat, prev |-> Link(Len(chain)),
                            receipt |-> receipt, prov |-> receipt.prov])

\* What a collection says of all its items is no stronger than the weakest.
reduceProvenance(items) == Max({items[i].prov : i \in DOMAIN items})

\* The unvisited items naming the cursor as their predecessor.
Candidates(items, at) ==
    {i \in DOMAIN items : i \notin Range(at.run) /\ items[i].prev = at.cursor}

WalkFrom(items, anchor) ==
    LET to[n \in 0..Len(items)] ==
            IF n = 0 THEN [run |-> <<>>, cursor |-> anchor, forked |-> FALSE]
            ELSE LET at == to[n - 1]
                     next == Candidates(items, at)
                 IN  IF at.forked \/ next = {} THEN at
                     ELSE IF Cardinality(next) > 1 THEN [at EXCEPT !.forked = TRUE]
                     ELSE LET i == CHOOSE i \in next : TRUE
                          IN  [run |-> Append(at.run, i), cursor |-> packRecordDigest(items[i]), forked |-> FALSE]
    IN  to[Len(items)]

\* A run relinked past an item it leaves out, as whoever links it would.
RelinkedPast(items, anchor, k) ==
    LET kept == RemoveAt(items, k)
        to[n \in 0..Len(kept)] ==
            IF n = 0 THEN <<>>
            ELSE Append(to[n - 1], [kept[n] EXCEPT !.prev = IF n = 1 THEN anchor ELSE packRecordDigest(to[n - 1][n - 1])])
    IN  to[Len(kept)]

HeadOf(items, anchor) == IF items = <<>> THEN anchor ELSE packRecordDigest(Last(items))

\* The first check that fails names the refusal.
Verdict(checks) ==
    LET hit == {i \in DOMAIN checks : checks[i][2]}
    IN  IF hit = {} THEN "none" ELSE checks[Min(hit)][1]

=============================================================================
