---------------------------- MODULE EpochJournal ----------------------------
(***************************************************************************)
(* The journal of signing epochs kept beside the receipts                  *)
(* (epoch-journal.ts), the starts that append to it (cli.ts), the manifest *)
(* a serving process publishes from it (server.ts) and what a client makes *)
(* of a receipt under that manifest (the sdk's manifest.ts and epoch.ts).  *)
(* The digest an entry names of the entries before it is those entries.    *)
(* The operator follows the rule docs/receipt-spec.md states for epk: a    *)
(* start is under the newest epoch started so far or under a higher one.   *)
(***************************************************************************)
EXTENDS Integers, Sequences, SequencesExt, FiniteSetsExt

CONSTANTS Procs,      \* gateway processes, one start each at a time
          Epochs,     \* --epk values
          Keys,       \* signing keys
          Latest,     \* bound: the last instant
          MaxEdits,   \* bound: edits of the file by a hand
          MaxIssued,  \* bound: receipts on file
          StepsBack,  \* whether the source may read earlier than it did
          None

JournalAssumption ==
    /\ Epochs \subseteq Nat
    /\ Latest \in Nat
    /\ None \notin Procs

VARIABLES journal,   \* the entries of epoch-journal.json
          temp,      \* epoch-journal.json.appending
          holder,    \* the process holding the directory, or None
          proc,      \* each process: its step, deployment and entries
          now,       \* what the time source reads
          issued,    \* receipts on file: epoch, key and stamp
          started,   \* ghost: every deployment started so far
          stepped,   \* ghost: whether the source ever stepped back
          edits

vars == <<journal, temp, holder, proc, now, issued, started, stepped, edits>>

Down == [at |-> "down", epk |-> 0, kid |-> None, sealed |-> FALSE, entries |-> <<>>]

Init ==
    /\ journal = <<>> /\ temp = <<>>
    /\ holder = None
    /\ proc = [p \in Procs |-> Down]
    /\ now = 0
    /\ issued = {} /\ started = {}
    /\ stepped = FALSE
    /\ edits = 0

Stated(entry) == [epk |-> entry.epk, kid |-> entry.kid, validFrom |-> entry.validFrom]

prefixDigest(entries) == [i \in DOMAIN entries |-> Stated(entries[i])]

\* Mutant: the digests are written and never looked at.
Chains_Unread(entries) == TRUE

\* readEntries refuses a file whose entries do not name those before them.
Chains(entries) ==
    \A i \in DOMAIN entries : entries[i].prev = prefixDigest(SubSeq(entries, 1, i - 1))

Names(entries, epk, kid) == \E i \in DOMAIN entries : entries[i].epk = epk /\ entries[i].kid = kid

\* stampEntry: the instant a new entry opens at, unless it is refused.
Stampable(entries) == \A i \in DOMAIN entries : now > entries[i].validFrom

unsealedHistoryRefusal(entries, sealed) == ~sealed /\ Len(entries) >= 2

-----------------------------------------------------------------------------
(* A start. *)

Move(p, step) == proc' = [proc EXCEPT ![p] = step]

\* The process goes, and with it its claim.
Leaves(p) ==
    /\ Move(p, Down)
    /\ holder' = IF holder = p THEN None ELSE holder

\* Mutant: the journal is opened without the directory.
Claim_Unclaimed(p) ==
    /\ proc[p].at = "down"
    /\ \E epk \in Epochs, kid \in Keys, sealed \in BOOLEAN :
        /\ \A d \in started : d = <<epk, kid>> \/ d[1] < epk
        /\ started' = started \cup {<<epk, kid>>}
        /\ Move(p, [Down EXCEPT !.at = "claimed", !.epk = epk, !.kid = kid, !.sealed = sealed])
    /\ UNCHANGED <<journal, temp, holder, now, issued, stepped, edits>>

\* openFileReceiptStore claims the directory before the journal is opened.
Claim(p) ==
    /\ proc[p].at = "down"
    /\ holder = None
    /\ holder' = p
    /\ \E epk \in Epochs, kid \in Keys, sealed \in BOOLEAN :
        /\ \A d \in started : d = <<epk, kid>> \/ d[1] < epk
        /\ started' = started \cup {<<epk, kid>>}
        /\ Move(p, [Down EXCEPT !.at = "claimed", !.epk = epk, !.kid = kid, !.sealed = sealed])
    /\ UNCHANGED <<journal, temp, now, issued, stepped, edits>>

NewEntry(me, entries) ==
    [epk |-> me.epk, kid |-> me.kid, validFrom |-> now, prev |-> prefixDigest(entries)]

\* openEpochJournal up to its write: refused, served as it stands, or due to be
\* written with one entry more.
OpenJournal(p) ==
    /\ proc[p].at = "claimed"
    /\ LET me == proc[p]
           known == Names(journal, me.epk, me.kid)
           written == Append(journal, NewEntry(me, journal))
           refused == \/ ~Chains(journal)
                      \/ ~known /\ ~Stampable(journal)
                      \/ unsealedHistoryRefusal(IF known THEN journal ELSE written, me.sealed)
       IN  IF refused THEN Leaves(p)
           ELSE /\ Move(p, [me EXCEPT !.at = IF known THEN "serving" ELSE "writing",
                                      !.entries = IF known THEN journal ELSE written])
                /\ UNCHANGED holder
    /\ UNCHANGED <<journal, temp, now, issued, started, stepped, edits>>

\* The temporary file, under its one name, written and synced.
WriteTemp(p) ==
    /\ proc[p].at = "writing"
    /\ temp' = proc[p].entries
    /\ Move(p, [proc[p] EXCEPT !.at = "renaming"])
    /\ UNCHANGED <<journal, holder, now, issued, started, stepped, edits>>

\* The rename, behind which the manifest is built from what was written.
RenameTemp(p) ==
    /\ proc[p].at = "renaming"
    /\ journal' = temp
    /\ Move(p, [proc[p] EXCEPT !.at = "serving"])
    /\ UNCHANGED <<temp, holder, now, issued, started, stepped, edits>>

\* A write or a rename refused, an exit, or a kill.
Stop(p) ==
    /\ proc[p].at # "down"
    /\ Leaves(p)
    /\ UNCHANGED <<journal, temp, now, issued, started, stepped, edits>>

-----------------------------------------------------------------------------
(* Serving. *)

\* issue stamps a receipt with the same source under the process's own epoch.
Issue(p) ==
    /\ proc[p].at = "serving"
    /\ Cardinality(issued) < MaxIssued
    /\ issued' = issued \cup {[epk |-> proc[p].epk, kid |-> proc[p].kid, iat |-> now]}
    /\ UNCHANGED <<journal, temp, holder, proc, now, started, stepped, edits>>

Tick ==
    /\ \/ now < Latest /\ now' = now + 1
       \/ StepsBack /\ now > 0 /\ now' = now - 1
    /\ stepped' = (stepped \/ now' < now)
    /\ UNCHANGED <<journal, temp, holder, proc, issued, started, edits>>

\* A hand rewrites or removes an entry that another one follows.
Edit ==
    /\ edits < MaxEdits
    /\ edits' = edits + 1
    /\ \E i \in 1..Len(journal) - 1 :
        journal' \in {RemoveAt(journal, i), [journal EXCEPT ![i].validFrom = Latest]}
    /\ UNCHANGED <<temp, holder, proc, now, issued, started, stepped>>

-----------------------------------------------------------------------------
(* The client. *)

Starts(entries, epk) == {entries[i].validFrom : i \in {j \in DOMAIN entries : entries[j].epk = epk}}

EpochsOf(entries) == {entries[i].epk : i \in DOMAIN entries}

\* parseManifest and orderedWindows: one start an epoch, rising with the epochs.
Parses(entries) ==
    /\ \A e \in EpochsOf(entries) : Cardinality(Starts(entries, e)) = 1
    /\ \A e, f \in EpochsOf(entries) : e < f => Min(Starts(entries, e)) < Min(Starts(entries, f))

\* The window ends where the next epoch's begins.
InWindow(entries, epk, iat) ==
    /\ Min(Starts(entries, epk)) <= iat
    /\ \A f \in EpochsOf(entries) : epk < f => iat < Min(Starts(entries, f))

\* adjudicateReceiptEpoch
Accepts(entries, r) ==
    /\ Parses(entries)
    /\ Names(entries, r.epk, r.kid)
    /\ InWindow(entries, r.epk, r.iat)

Next ==
    \/ \E p \in Procs :
        Claim(p) \/ OpenJournal(p) \/ WriteTemp(p) \/ RenameTemp(p) \/ Issue(p) \/ Stop(p)
    \/ Tick \/ Edit

Spec == Init /\ [][Next]_vars

-----------------------------------------------------------------------------
Serving == {p \in Procs : proc[p].at = "serving"}

(***************************************************************************)
(* What a process publishes names every epoch and key a receipt was ever   *)
(* signed under, whatever starts were refused, killed half way or overlap, *)
(* and is a document every client can read, also when the source the       *)
(* instants were taken from stepped back.                                  *)
(***************************************************************************)
HistoryIsWhole ==
    \A p \in Serving : /\ \A r \in issued : Names(proc[p].entries, r.epk, r.kid)
                       /\ Parses(proc[p].entries)

\* Stamped in the second a later epoch opened at.
AtTheSeam(entries, r) == \E i \in DOMAIN entries : entries[i].epk > r.epk /\ entries[i].validFrom = r.iat

(***************************************************************************)
(* A receipt of a deployment whose source never stepped back is accepted   *)
(* under the manifest of every later process, save one stamped in the very *)
(* second its successor opened.                                            *)
(***************************************************************************)
EarlierReceiptsVerify ==
    ~stepped => \A p \in Serving, r \in issued :
                    Accepts(proc[p].entries, r) \/ AtTheSeam(proc[p].entries, r)

(***************************************************************************)
(* epoch-journal.ts:23 gives as the fault the journal is there to end that *)
(* "a receipt from before the rotation stopped verifying".                 *)
(***************************************************************************)
ReceiptsOutliveARotation ==
    ~stepped => \A p \in Serving, r \in issued : Accepts(proc[p].entries, r)

-----------------------------------------------------------------------------
(* Why the history is whole: the inductive invariant the proofs rest on. *)

Statement == [epk : Epochs, kid : Keys, validFrom : Nat]
Entry == [epk : Epochs, kid : Keys, validFrom : Nat, prev : Seq(Statement)]
Steps == {"down", "claimed", "writing", "renaming", "serving"}

TypeOK ==
    /\ journal \in Seq(Entry)
    /\ temp \in Seq(Entry)
    /\ holder \in Procs \cup {None}
    /\ proc \in [Procs -> [at : Steps, epk : Epochs \cup {0}, kid : Keys \cup {None},
                          sealed : BOOLEAN, entries : Seq(Entry)]]
    /\ now \in Nat
    /\ issued \subseteq [epk : Epochs, kid : Keys, iat : Nat]
    /\ started \subseteq Epochs \X Keys
    /\ stepped \in BOOLEAN

\* What the last entry tells of the file it was written at the end of: itself and
\* those before it.  An edit of another entry leaves it as it was.
Told(entries) ==
    IF entries = <<>> THEN <<>>
    ELSE Append(entries[Len(entries)].prev, Stated(entries[Len(entries)]))

\* A history: epochs and instants rise, every epoch was started, no receipt is
\* missing, and a source that never stepped back stamped each receipt between the
\* instants of its own epoch and the next.
Rising(history) ==
    \A i, j \in DOMAIN history :
        i < j => history[i].epk < history[j].epk /\ history[i].validFrom < history[j].validFrom

Deployed(history) == \A i \in DOMAIN history : <<history[i].epk, history[i].kid>> \in started

Dated(history) ==
    \A i \in DOMAIN history :
        /\ history[i].validFrom <= now
        /\ \A r \in issued : /\ history[i].epk <= r.epk => history[i].validFrom <= r.iat
                             /\ history[i].epk > r.epk => r.iat <= history[i].validFrom

Whole(history) ==
    /\ Rising(history)
    /\ Deployed(history)
    /\ \A r \in issued : Names(history, r.epk, r.kid)
    /\ ~stepped => Dated(history)

\* One process holds the directory, and no deployment is above the one it started.
HolderIsNewest ==
    /\ \A p \in Procs : proc[p].at # "down" =>
          /\ holder = p
          /\ <<proc[p].epk, proc[p].kid>> \in started
          /\ \A d \in started : d = <<proc[p].epk, proc[p].kid>> \/ d[1] < proc[p].epk
    /\ \A d, e \in started : d[1] = e[1] => d = e

\* What a process holds of the file, and what the file tells of itself.
HistoryIsTold ==
    /\ Whole(Told(journal))
    /\ \A p \in Procs : proc[p].at \in {"writing", "renaming", "serving"} =>
          LET entries == proc[p].entries
          IN  /\ Told(entries) = prefixDigest(entries)
              /\ Whole(prefixDigest(entries))
              /\ Names(entries, proc[p].epk, proc[p].kid)
              /\ proc[p].at = "renaming" => temp = entries
              /\ proc[p].at = "serving" => Told(journal) = prefixDigest(entries)
    /\ ~stepped => \A r \in issued : r.iat <= now

InductiveInv == TypeOK /\ HolderIsNewest /\ HistoryIsTold

=============================================================================
