---------------------------- MODULE ClientSession ----------------------------
(***************************************************************************)
(* A client of the gateway (packages/sdk: client.ts, gateway.ts,            *)
(* verify.ts, evidence.ts, epoch.ts): the completions of one process share  *)
(* one session, whose manifest is fetched once, and each fetches its own    *)
(* receipt and, in strict mode, its own evidence.                           *)
(*                                                                         *)
(* The gateway signs and files a receipt before the body it names is whole  *)
(* (Completion), may retire it (ReceiptLog), is replaced by a process at a  *)
(* later epoch over the same store (EpochJournal), and keeps its evidence   *)
(* as Evidence says.  What stands between the two may cut a body, alter it, *)
(* deliver another call's answer, lose the header, or fail any exchange.    *)
(***************************************************************************)
EXTENDS Evidence, Integers, FiniteSets

CONSTANTS Calls,      \* the completions one session asks for
          Kinds,      \* "create", "stream"
          Mode,       \* verify: "off", "receipt" or "strict"
          MaxEpoch,
          Pinned,     \* the epochs whose keys the policy pins
          Composite   \* the epochs whose process claims a confidential device

SessionAssumption == Challenges = Calls /\ MaxCached \in Nat \ {0} /\ MaxEpoch \in Nat

VARIABLES epoch,      \* the epoch the gateway's process signs under
          receipts,   \* each call's receipt as signed, and whether it is on file
          manifest,   \* the session's manifestPromise
          call        \* each call of the client

vars == <<epoch, receipts, manifest, call, evidenceVars>>

GATEWAY_FETCH_ATTEMPTS == 3

Stages == {"idle", "answering", "reading", "receipt", "manifest", "evidence", "device", "appraising", "over"}
Results == {"open", "handed", "verified", "GATEWAY_ERROR", "BODY_FAILED", "NOT_RECEIPTED",
            "RECEIPT_NOT_FOUND", "MANIFEST_KEY_NOT_PINNED", "NONCE_MISMATCH", "RESPONSE_HASH_MISMATCH",
            "EVIDENCE_NOT_FOUND", "EVIDENCE_DIGEST_MISMATCH"}

NoDocument == [rd |-> "none", n |-> 0]
NoReceipt == [signed |-> FALSE, filed |-> FALSE, epoch |-> 0, document |-> NoDocument]

Idle == [kind |-> "create", at |-> "idle", answer |-> "none", bytes |-> "none", tries |-> 0,
         served |-> NoDocument, hit |-> FALSE, result |-> "open"]

Init ==
    /\ EvidenceInit
    /\ epoch = 0
    /\ receipts = [c \in Calls |-> NoReceipt]
    /\ manifest = [state |-> "unasked", epoch |-> 0]
    /\ call \in [Calls -> {[Idle EXCEPT !.kind = kind] : kind \in Kinds}]

Goes(c, to) == call' = [call EXCEPT ![c] = to]

Moves(c, at) == Goes(c, [call[c] EXCEPT !.at = at, !.tries = 0])

Ends(c, result) == Goes(c, [call[c] EXCEPT !.at = "over", !.result = result])

\* An exchange of this call failed: thrown by fetch, or a status that is neither.
Broken(c) == Goes(c, [call[c] EXCEPT !.at = "over", !.result = "GATEWAY_ERROR", !.hit = TRUE])

-----------------------------------------------------------------------------
(* The answer. *)

\* post: the gateway turned to the guest for this call's challenge.
Post(c) ==
    /\ call[c].at = "idle"
    /\ Moves(c, "answering") \/ Broken(c)
    /\ UNCHANGED <<epoch, receipts, manifest, evidenceVars>>

\* issue: the evidence came, and the receipt over it is signed and on file.
Issue(c) ==
    /\ call[c].at = "answering"
    /\ ~receipts[c].signed
    /\ Attested(c)
    /\ receipts' = [receipts EXCEPT ![c] = [signed |-> TRUE, filed |-> TRUE, epoch |-> epoch, document |-> Freshest(c)]]
    /\ UNCHANGED <<epoch, manifest, call>>

\* The head arrived, with the id of the call it answers or with none.
Answered(c) ==
    /\ call[c].at = "answering"
    /\ receipts[c].signed
    /\ \E answer \in {d \in Calls : receipts[d].signed} \cup {"none"} :
        Goes(c, [call[c] EXCEPT !.at = "reading", !.answer = answer])
    /\ UNCHANGED <<epoch, receipts, manifest, evidenceVars>>

AnswerFails(c) ==
    /\ call[c].at = "answering"
    /\ Broken(c)
    /\ UNCHANGED <<epoch, receipts, manifest, evidenceVars>>

\* Mutant: a stream's missing header is let through in strict mode.
Unreceipted_Streamed(c) == IF Mode = "strict" /\ call[c].kind # "stream" THEN "NOT_RECEIPTED" ELSE "handed"

\* The header named no receipt.
Unreceipted(c) == IF Mode = "strict" THEN "NOT_RECEIPTED" ELSE "handed"

\* The body ran to its end: as sent, or as something else of its shape.
Read(c) ==
    /\ call[c].at = "reading"
    /\ IF Mode = "off" THEN Ends(c, "handed")
       ELSE IF call[c].answer = "none" THEN Ends(c, Unreceipted(c))
       ELSE \E bytes \in {"whole", "altered"} :
              Goes(c, [call[c] EXCEPT !.at = "receipt", !.bytes = bytes])
    /\ UNCHANGED <<epoch, receipts, manifest, evidenceVars>>

\* The body failed, was nothing a completion parses from, or its reader stopped.
\* create rejects; a stream's iterator throws or returns, and what it would have
\* settled stays open.
ReadFails(c) ==
    /\ call[c].at = "reading"
    /\ Goes(c, [call[c] EXCEPT !.at = "over", !.hit = TRUE,
                               !.result = IF call[c].kind = "stream" THEN "open" ELSE "BODY_FAILED"])
    /\ UNCHANGED <<epoch, receipts, manifest, evidenceVars>>

-----------------------------------------------------------------------------
(* The receipt. *)

\* Mutant: an absent one is asked for for as long as it is absent.
NotFound_Again(c, code) == Goes(c, [call[c] EXCEPT !.tries = 1 - @])

\* A 404 inside fetchBytes: asked for again, and after the last attempt named.
NotFound(c, code) ==
    Goes(c, IF call[c].tries + 1 < GATEWAY_FETCH_ATTEMPTS THEN [call[c] EXCEPT !.tries = @ + 1]
            ELSE [call[c] EXCEPT !.at = "over", !.result = code])

receiptBytes(c) ==
    /\ call[c].at = "receipt"
    /\ \/ receipts[call[c].answer].filed /\ Moves(c, "manifest")
       \/ ~receipts[call[c].answer].filed /\ NotFound(c, "RECEIPT_NOT_FOUND")
    /\ UNCHANGED <<epoch, receipts, manifest, evidenceVars>>

\* readManifest: the first call to want it asks, and every call waits on one promise.
AskManifest(c) ==
    /\ call[c].at = "manifest"
    /\ manifest.state = "unasked"
    /\ manifest' = [manifest EXCEPT !.state = "asked"]
    /\ UNCHANGED <<epoch, receipts, call, evidenceVars>>

ManifestAnswers ==
    /\ manifest.state = "asked"
    /\ manifest' = [state |-> "read", epoch |-> epoch]
    /\ UNCHANGED <<epoch, receipts, call, evidenceVars>>

\* The exchange failed: the promise the session holds is the rejected one.
ManifestFails ==
    /\ manifest.state = "asked"
    /\ manifest' = [manifest EXCEPT !.state = "failed"]
    /\ call' = [c \in Calls |-> IF call[c].at = "manifest" THEN [call[c] EXCEPT !.hit = TRUE] ELSE call[c]]
    /\ UNCHANGED <<epoch, receipts, evidenceVars>>

\* resolveSigningKey: the manifest of epoch e lists the keys of every epoch to e.
resolveSigningKey(e) ==
    IF e \notin Pinned \/ e > manifest.epoch THEN "MANIFEST_KEY_NOT_PINNED" ELSE "none"

\* adjudicateReceiptEpoch, whose windows EpochJournal is about.
adjudicateEpoch(e) == IF e > manifest.epoch THEN "MANIFEST_EPOCH_UNDECLARED" ELSE "none"

\* Mutant: the digest is taken over what was sent and not what was read.
verifyCompletionReceipt_Sent(c) == IF call[c].answer # c THEN "NONCE_MISMATCH" ELSE "none"

\* verifyCompletionReceipt, in its order, over what the transport may change.
verifyCompletionReceipt(c) ==
    IF call[c].answer # c THEN "NONCE_MISMATCH"
    ELSE IF call[c].bytes # "whole" THEN "RESPONSE_HASH_MISMATCH"
    ELSE "none"

\* verifyReceipted: the key, the epoch, the receipt.
verifyReceipted(c) ==
    LET e == receipts[call[c].answer].epoch
    IN  IF resolveSigningKey(e) # "none" THEN resolveSigningKey(e)
        ELSE IF adjudicateEpoch(e) # "none" THEN adjudicateEpoch(e)
        ELSE verifyCompletionReceipt(c)

Verify(c) ==
    /\ call[c].at = "manifest"
    /\ manifest.state \in {"read", "failed"}
    /\ IF manifest.state = "failed" THEN Ends(c, "GATEWAY_ERROR")
       ELSE IF verifyReceipted(c) # "none" THEN Ends(c, verifyReceipted(c))
       ELSE IF Mode = "strict" THEN Moves(c, "evidence")
       ELSE Ends(c, "verified")
    /\ UNCHANGED <<epoch, receipts, manifest, evidenceVars>>

-----------------------------------------------------------------------------
(* The evidence, in strict mode. *)

GotEvidence(c, document) ==
    Goes(c, [call[c] EXCEPT !.served = document, !.tries = 0,
                            !.at = IF receipts[c].epoch \in Composite THEN "device" ELSE "appraising"])

\* The platform route answers from the map.
EvidenceKept(c) ==
    /\ call[c].at = "evidence"
    /\ Looked(c)
    /\ GotEvidence(c, Kept(c))
    /\ UNCHANGED <<epoch, receipts, manifest, evidenceVars>>

\* It asks the guest afresh, whoever is asking and whatever was signed before.
EvidenceFresh(c) ==
    /\ call[c].at = "evidence"
    /\ ~Looked(c)
    /\ Attested(c)
    /\ GotEvidence(c, Freshest(c))
    /\ UNCHANGED <<epoch, receipts, manifest>>

\* The device route: a deployment that makes no device claim has none.
Device(c) ==
    /\ call[c].at = "device"
    /\ IF epoch \in Composite THEN Moves(c, "appraising") ELSE NotFound(c, "EVIDENCE_NOT_FOUND")
    /\ UNCHANGED <<epoch, receipts, manifest, evidenceVars>>

\* Mutant: the document is weighed for its challenge and not against the receipt.
verifyCompletionEvidence_Challenge(c) ==
    IF call[c].served.rd # c THEN "EVIDENCE_REPORT_DATA_MISMATCH" ELSE "none"

\* verifyCompletionEvidence, as far as one guest's documents can disagree.
verifyCompletionEvidence(c) ==
    IF call[c].served # receipts[c].document THEN "EVIDENCE_DIGEST_MISMATCH"
    ELSE IF call[c].served.rd # c THEN "EVIDENCE_REPORT_DATA_MISMATCH"
    ELSE "none"

Appraise(c) ==
    /\ call[c].at = "appraising"
    /\ Ends(c, IF verifyCompletionEvidence(c) = "none" THEN "verified" ELSE verifyCompletionEvidence(c))
    /\ UNCHANGED <<epoch, receipts, manifest, evidenceVars>>

\* A fetch of this call's own that fails is not tried again.
FetchFails(c) ==
    /\ call[c].at \in {"receipt", "evidence", "device"}
    /\ Broken(c)
    /\ UNCHANGED <<epoch, receipts, manifest, evidenceVars>>

-----------------------------------------------------------------------------
(* The gateway's own. *)

Retire(c) ==
    /\ receipts[c].filed
    /\ receipts' = [receipts EXCEPT ![c].filed = FALSE]
    /\ UNCHANGED <<epoch, manifest, call, evidenceVars>>

\* A process at the next epoch takes over; what the old one was answering breaks.
Rotate ==
    /\ epoch < MaxEpoch
    /\ epoch' = epoch + 1
    /\ Forgotten
    /\ call' = [c \in Calls |-> IF call[c].at = "answering"
                                THEN [call[c] EXCEPT !.at = "over", !.result = "GATEWAY_ERROR", !.hit = TRUE]
                                ELSE call[c]]
    /\ UNCHANGED <<receipts, manifest>>

Step(c) ==
    \/ Issue(c) \/ Answered(c) \/ receiptBytes(c) \/ AskManifest(c) \/ Verify(c)
    \/ EvidenceKept(c) \/ EvidenceFresh(c) \/ Device(c) \/ Appraise(c)

Next ==
    \/ \E c \in Calls : Post(c) \/ Read(c) \/ ReadFails(c) \/ Step(c) \/ AnswerFails(c) \/ FetchFails(c) \/ Retire(c)
    \/ ManifestAnswers \/ ManifestFails
    \/ Rotate

\* Every exchange comes to an end one way or the other, and a settled promise is
\* seen; nobody has to send a request, read a body, retire or rotate.
Fairness ==
    /\ \A c \in Calls : WF_vars(Step(c) \/ FetchFails(c) \/ AnswerFails(c))
    /\ WF_vars(ManifestAnswers \/ ManifestFails)

Spec == Init /\ [][Next]_vars /\ Fairness

-----------------------------------------------------------------------------
(***************************************************************************)
(* A verification that fails rejects the call: what is handed back as       *)
(* verified is this call's own answer, whole, under a key of an epoch the   *)
(* session's manifest declares and the policy pins, and in strict mode      *)
(* beside the very document its receipt was signed over; and strict mode    *)
(* hands nothing back that is not.                                          *)
(***************************************************************************)
HandsBack(c) ==
    /\ call[c].result = "verified" =>
        /\ call[c].answer = c /\ call[c].bytes = "whole"
        /\ receipts[c].signed /\ receipts[c].epoch \in Pinned \cap 0..manifest.epoch
        /\ Mode = "strict" => call[c].served = receipts[c].document
    /\ call[c].result = "handed" => Mode # "strict"

HandsBackWhatItChecked == \A c \in Calls : HandsBack(c)

(***************************************************************************)
(* An answer that came as the gateway sent it is refused only because the   *)
(* gateway has moved on: its receipt was retired, its evidence was let go   *)
(* of, or the process was replaced by one the session, or the policy, does  *)
(* not know or that has no device.                                          *)
(***************************************************************************)
HasCause(c) ==
    call[c].answer = c /\ call[c].bytes = "whole" =>
        CASE call[c].result = "RECEIPT_NOT_FOUND" -> ~receipts[c].filed
          [] call[c].result = "EVIDENCE_DIGEST_MISMATCH" -> receipts[c].document \in dropped
          [] call[c].result = "MANIFEST_KEY_NOT_PINNED" ->
                receipts[c].epoch \notin Pinned \/ manifest.epoch < receipts[c].epoch
          [] call[c].result = "EVIDENCE_NOT_FOUND" -> receipts[c].epoch # epoch
          [] OTHER -> call[c].result \in {"open", "verified", "handed", "GATEWAY_ERROR"}

RefusedForACause == \A c \in Calls : HasCause(c)

(***************************************************************************)
(* What the two rest on.  A document signed over is kept or was dropped,    *)
(* never overwritten, because the map is asked before the guest is; a call  *)
(* past its verification stays verified, because a receipt signed and a     *)
(* manifest read do not change; and what was served past it is the document *)
(* signed over wherever that one is still kept.                             *)
(***************************************************************************)
Documents == [rd : Calls, n : Nat]

TypeOK ==
    /\ epoch \in 0..MaxEpoch
    /\ receipts \in [Calls -> [signed : BOOLEAN, filed : BOOLEAN, epoch : 0..MaxEpoch,
                              document : Documents \cup {NoDocument}]]
    /\ manifest \in [state : {"unasked", "asked", "read", "failed"}, epoch : 0..MaxEpoch]
    /\ call \in [Calls -> [kind : Kinds, at : Stages, answer : Calls \cup {"none"},
                          bytes : {"none", "whole", "altered"}, tries : 0..GATEWAY_FETCH_ATTEMPTS - 1,
                          served : Documents \cup {NoDocument}, hit : BOOLEAN, result : Results]]
    /\ cache \in Seq(Documents) /\ Len(cache) <= MaxCached
    /\ signed \in [Calls -> Nat] /\ dropped \subseteq Documents

OneEach == \A i, j \in DOMAIN cache : cache[i].rd = cache[j].rd => i = j

ReceiptStands(c) ==
    /\ receipts[c].filed => receipts[c].signed
    /\ receipts[c].epoch <= epoch
    /\ receipts[c].signed =>
        receipts[c].document.rd = c /\ receipts[c].document \in Range(cache) \cup dropped

Verified(c) ==
    /\ call[c].answer = c /\ call[c].bytes = "whole"
    /\ manifest.state = "read"
    /\ receipts[c].epoch \in Pinned \cap 0..manifest.epoch

ServedStands(c) ==
    /\ Verified(c) /\ Mode = "strict"
    /\ call[c].served.rd = c
    /\ call[c].served = receipts[c].document \/ receipts[c].document \in dropped

CallStands(c) ==
    /\ call[c].at # "over" => call[c].result = "open"
    /\ call[c].at \in {"idle", "answering", "reading"} => call[c].bytes = "none"
    /\ call[c].at \notin {"idle", "answering", "reading", "over"} => call[c].bytes # "none"
    /\ call[c].answer # "none" => call[c].answer \in Calls /\ receipts[call[c].answer].signed
    /\ call[c].bytes # "none" => call[c].answer # "none"
    /\ call[c].at = "evidence" => Verified(c) /\ Mode = "strict"
    /\ call[c].at = "device" => ServedStands(c) /\ receipts[c].epoch \in Composite
    /\ call[c].at = "appraising" => ServedStands(c)
    /\ call[c].result = "verified" => Verified(c)
    /\ call[c].result = "MANIFEST_KEY_NOT_PINNED" => manifest.state = "read"

InductiveInv ==
    /\ TypeOK
    /\ OneEach
    /\ \A c \in Calls : ReceiptStands(c) /\ CallStands(c) /\ HandsBack(c) /\ HasCause(c)

(***************************************************************************)
(* A call whose body was read to its end settles: it does not wait for ever *)
(* on a receipt that is not filed, on another call's fetch of the manifest, *)
(* or on a route a replaced process no longer has.                          *)
(***************************************************************************)
SettlesOnceRead == \A c \in Calls : call[c].at = "receipt" ~> call[c].result # "open"

(***************************************************************************)
(* docs/error-codes.md:145 gives GATEWAY_ERROR the verdict retryable: "a    *)
(* later attempt can differ without anything being fixed" (:18).  An        *)
(* attempt none of whose own exchanges failed does not end in one.          *)
(***************************************************************************)
ErrorIsItsOwn == \A c \in Calls : call[c].result = "GATEWAY_ERROR" => call[c].hit

(***************************************************************************)
(* docs/receipt-spec.md:581: "sha256 of the served bytes must equal the     *)
(* att.d of any receipt naming this URL".                                   *)
(***************************************************************************)
ServedIsAttested ==
    \A c \in Calls : receipts[c].signed /\ Held(c) => Kept(c) = receipts[c].document

=============================================================================
