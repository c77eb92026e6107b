------------------------------ MODULE Evidence ------------------------------
(***************************************************************************)
(* The hardware evidence a deployment serves (gateway/src/dstack.ts): one   *)
(* document per challenge, asked of the guest agent and kept in a map of at *)
(* most MaxCached entries.  A completion asks for its challenge before it   *)
(* is answered and its receipt names the document it got; a client that     *)
(* holds the receipt asks the route for the same challenge again.           *)
(*                                                                         *)
(* The guest signs a fresh document at every call, so a document is its     *)
(* challenge and a number.                                                  *)
(***************************************************************************)
EXTENDS Naturals, Sequences, SequencesExt

CONSTANTS Challenges,   \* report data, one per completion
          MaxCached     \* MAX_CACHED_EVIDENCE

VARIABLES cache,    \* the documents kept, in the order of the map's keys
          signed,   \* how many documents the guest has signed for a challenge
          dropped   \* the documents the map has let go of

evidenceVars == <<cache, signed, dropped>>

EvidenceInit == cache = <<>> /\ signed = [rd \in Challenges |-> 0] /\ dropped = {}

Held(rd) == \E document \in Range(cache) : document.rd = rd

\* What the map holds at a key it has.
Kept(rd) == CHOOSE document \in Range(cache) : document.rd = rd

\* remember: a full map loses its oldest key first, and a key set again keeps its place.
remember(store, document) ==
    LET left == IF Len(store) >= MaxCached THEN Tail(store) ELSE store
    IN  IF \E i \in DOMAIN left : left[i].rd = document.rd
        THEN [i \in DOMAIN left |-> IF left[i].rd = document.rd THEN document ELSE left[i]]
        ELSE Append(left, document)

\* Mutant: the map is written and never read.
Looked_Never(rd) == FALSE

\* The lookup fetchEvidence begins with.
Looked(rd) == Held(rd)

\* client.attest came back: the document is measured, remembered and returned.
Attested(rd) ==
    LET document == [rd |-> rd, n |-> signed[rd] + 1]
        kept == remember(cache, document)
    IN  /\ signed' = [signed EXCEPT ![rd] = @ + 1]
        /\ cache' = kept
        /\ dropped' = dropped \cup {old \in Range(cache) : old.rd # rd /\ old \notin Range(kept)}

Freshest(rd) == [rd |-> rd, n |-> signed[rd] + 1]

\* The process was replaced, and the map with it.
Forgotten ==
    /\ cache' = <<>>
    /\ dropped' = dropped \cup Range(cache)
    /\ UNCHANGED signed

=============================================================================
