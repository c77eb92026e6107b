---------------------------- MODULE MCReceiptLog ----------------------------
(* The receipt store over a few receipts, instants and mishaps.            *)
EXTENDS ReceiptLog

(* The store the theorems speak of, where neither a rollback nor the rescan *)
(* behind a compaction is refused; store_answers refuses both.              *)
MendedSpec == Init /\ [][Faults \cap {"cut", "rescan"} = {} /\ Next]_vars

(* The bytes, the index and the window in the air agree and ids come into   *)
(* the chain in line (the inductive invariants), no refused put is on file, *)
(* records are in the order their puts arrived and the index finds each     *)
(* where it is.                                                             *)
StoreIsConsistent ==
    TypeOK /\ InductiveInv /\ OrderInv /\ RefusedStaysOut /\ ArrivalOrder /\ IndexFindsItsRecords

(* What compactions took is what the trim records say they took, in number  *)
(* and up to which receipt.                                                 *)
TrimsAddUp == TrimsSpeakForGone /\ Accounted
=============================================================================
