---------------------------- MODULE ReceiptLedger ----------------------------
(***************************************************************************)
(* What a receipt store promises, whatever file it keeps: one chain that   *)
(* only grows at the back, of which a prefix may have been sealed away,    *)
(* and which loses nothing whose put resolved (ReceiptStore.put and        *)
(* ChainState of gateway/src/store.ts).                                    *)
(***************************************************************************)
EXTENDS Naturals, Sequences

CONSTANT Id  \* the ids receipts are minted under

VARIABLES
    chain,   \* every id ever chained and not lost, oldest first
    sealed,  \* how many of the oldest a compaction has taken away
    acked    \* the ids whose put resolved

vars == <<chain, sealed, acked>>

On(c) == {c[i] : i \in DOMAIN c}

Init == chain = <<>> /\ sealed = 0 /\ acked = {}

Begins(c, d) == Len(c) <= Len(d) /\ SubSeq(d, 1, Len(c)) = c

(* Records reach the file behind the ones that are there. *)
Extend ==
    /\ Begins(chain, chain') /\ Len(chain) < Len(chain')
    /\ On(chain') \subseteq Id
    /\ \A i, j \in DOMAIN chain' : chain'[i] = chain'[j] => i = j
    /\ UNCHANGED <<sealed, acked>>

(* A put resolves once its record is in the chain. *)
Acknowledge ==
    /\ acked \subseteq acked' /\ acked # acked'
    /\ acked' \subseteq On(chain)
    /\ UNCHANGED <<chain, sealed>>

(* The end of the chain is lost or taken back: nothing acknowledged is in  *)
(* it, and nothing sealed.                                                 *)
Lose ==
    /\ Begins(chain', chain) /\ chain' # chain
    /\ acked \subseteq On(chain') /\ sealed <= Len(chain')
    /\ UNCHANGED <<sealed, acked>>

(* A compaction seals a prefix ... *)
Seal ==
    /\ sealed < sealed' /\ sealed' <= Len(chain)
    /\ UNCHANGED <<chain, acked>>

(* ... and a power loss may undo the rename it ended with, and lose what   *)
(* was unacknowledged behind it as well.                                   *)
Unseal ==
    /\ sealed' < sealed /\ sealed' \in Nat
    /\ Begins(chain', chain) /\ acked \subseteq On(chain')
    /\ UNCHANGED acked

Next == Extend \/ Acknowledge \/ Lose \/ Seal \/ Unseal

Spec == Init /\ [][Next]_vars
=============================================================================
