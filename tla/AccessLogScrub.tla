--------------------------- MODULE AccessLogScrub ---------------------------
(***************************************************************************)
(* `ashaveri accesslog scrub` (accesslog.ts) beside a gateway that goes on *)
(* writing: it holds no lock, reads a part, filters the lines of one       *)
(* credential out of it and publishes what is left over it, comparing the  *)
(* part with what it read in the last instant before that (atomic.ts,      *)
(* writeGuarded).  The comparison and the publish are two calls.           *)
(***************************************************************************)
EXTENDS AccessLog

CONSTANTS Attempts   \* PART_ATTEMPTS

LogAssumption ==
    /\ LastDay \in Nat /\ Days \in Nat /\ Slots \in Nat /\ MaxRecords \in Nat /\ MaxFaults \in Nat
    /\ MaxLines \in Nat /\ Attempts \in Nat
    /\ None \notin Creds /\ None \notin (0..LastDay) \X Nat

VARIABLES scrub,     \* the run: where it is and what it holds, or None
          owed,      \* ghost: what its credential had on the volume when it began:
                     \* the lines the gateway had recorded, and the ones that parse
          erased,    \* ghost: the credential a run has been asked to erase, or None
          overrun    \* ghost: requests appended between a comparison and its publish

vars == <<logVars, scrub, owed, erased, overrun>>

Init == LogInit /\ scrub = None /\ owed = [recorded |-> {}, readable |-> {}] /\ erased = None /\ overrun = {}

Subject(line) == line.reads /\ \E req \in line.reqs : req.cred = scrub.cred
Held(lines) == Cardinality({i \in DOMAIN lines : Subject(lines[i])})

\* linesExceptTarget, as the text a rewrite publishes: every line ends.
Kept ==
    LET kept[i \in 0..Len(scrub.snapshot)] ==
            IF i = 0 THEN <<>>
            ELSE IF Subject(scrub.snapshot[i]) THEN kept[i - 1]
            ELSE Append(kept[i - 1], [scrub.snapshot[i] EXCEPT !.ended = TRUE])
    IN  kept[Len(scrub.snapshot)]

\* The parts are taken by name.
Name == CHOOSE n \in scrub.targets : \A m \in scrub.targets : m = n \/ Before(n, m)

OnReadableLine(req) ==
    \E name \in DOMAIN parts : \E i \in DOMAIN parts[name] :
        parts[name][i].reads /\ req \in parts[name][i].reqs

\* accesslogScrub: the listing it works from.
Begin(cred) ==
    /\ erased = None
    /\ Listed # {}
    /\ erased' = cred
    /\ owed' = [recorded |-> {req \in acked \cap OnVolume : req.cred = cred},
                readable |-> {req \in OnVolume : req.cred = cred /\ OnReadableLine(req)}]
    /\ scrub' = [at |-> "read", cred |-> cred, targets |-> Listed, snapshot |-> <<>>,
                 attempt |-> 1, seen |-> <<>>, removed |-> 0, changed |-> {}, marker |-> None]
    /\ UNCHANGED <<logVars, overrun>>

\* What follows the last part, or a failure behind parts already changed: the
\* marker, when there is something for it to state.
Closing(s) == [s EXCEPT !.at = IF s.changed = {} THEN "done" ELSE "receipt"]
Failing(s) == [s EXCEPT !.at = IF s.changed = {} THEN "failed" ELSE "failing"]

Advance(s) == IF s.targets = {Name} THEN Closing(s)
              ELSE [s EXCEPT !.targets = @ \ {Name}, !.attempt = 1, !.at = "read"]

Running(where) == scrub # None /\ scrub.at = where
Ghosts == <<owed, erased>>

\* readPart, at the top of a part or of an attempt.
ReadPart ==
    /\ Running("read")
    /\ scrub' = IF Name \notin DOMAIN parts THEN Failing(scrub)
                ELSE [scrub EXCEPT !.snapshot = parts[Name], !.at = "filter"]
    /\ UNCHANGED <<logVars, Ghosts, overrun>>

\* A part with nothing of the subject's is left untouched.
Filter ==
    /\ Running("filter")
    /\ scrub' = IF scrub.attempt > Attempts THEN Failing(scrub)
                ELSE IF \A i \in DOMAIN scrub.snapshot : ~Subject(scrub.snapshot[i]) THEN Advance(scrub)
                ELSE [scrub EXCEPT !.at = "compare"]
    /\ UNCHANGED <<logVars, Ghosts, overrun>>

\* Mutant: what was read is taken to be what is there.
HoldsStill_Trusting == TRUE

\* holdsStill, or the comparison in front of an unlink, whose own reading is the
\* next attempt's.
HoldsStill == At(Name) = scrub.snapshot

\* Mutant: a part that changed under the run is left for the next one.
Compare_MovesOn ==
    /\ Running("compare")
    /\ scrub' = IF Name \notin DOMAIN parts THEN Failing(scrub)
                ELSE IF HoldsStill THEN [scrub EXCEPT !.at = "publish", !.seen = parts[Name]]
                ELSE Advance(scrub)
    /\ UNCHANGED <<logVars, Ghosts, overrun>>

Compare ==
    /\ Running("compare")
    /\ scrub' = IF Name \notin DOMAIN parts THEN Failing(scrub)
                ELSE IF HoldsStill THEN [scrub EXCEPT !.at = "publish", !.seen = parts[Name]]
                ELSE IF Kept = <<>>
                THEN [scrub EXCEPT !.at = "filter", !.snapshot = parts[Name], !.attempt = @ + 1]
                ELSE [scrub EXCEPT !.at = "read", !.attempt = @ + 1]
    /\ UNCHANGED <<logVars, Ghosts, overrun>>

\* The rename over the part, or the unlink of one left with nothing: both act on
\* the name, whatever has been appended to it or unlinked since.
Publish ==
    /\ Running("publish")
    /\ overrun' = overrun \cup (ReqsIn(At(Name)) \ ReqsIn(scrub.seen))
    /\ IF Kept # <<>>
       THEN /\ parts' = Put(Name, Kept)
            /\ scrub' = [scrub EXCEPT !.at = "confirm", !.changed = @ \cup {Name}]
       ELSE IF Name \in DOMAIN parts
       THEN /\ parts' = Restrict(parts, DOMAIN parts \ {Name})
            /\ scrub' = [scrub EXCEPT !.at = "confirm", !.changed = @ \cup {Name}]
       ELSE /\ parts' = parts
            /\ scrub' = Failing(scrub)
    /\ UNCHANGED <<clock, current, size, swept, task, nextRid, acked, faults, Ghosts>>

\* confirmPublished and readAfterRemoval: the name read back, for the count.
Confirm ==
    /\ Running("confirm")
    /\ LET gone == Held(scrub.snapshot) - Held(At(Name))
       IN  scrub' = Advance([scrub EXCEPT !.removed = @ + IF gone > 0 THEN gone ELSE 0])
    /\ UNCHANGED <<logVars, Ghosts, overrun>>

\* writeReceipt.
Receipt ==
    /\ scrub # None /\ scrub.at \in {"receipt", "failing"}
    /\ scrub' = [scrub EXCEPT !.at = IF @ = "receipt" THEN "done" ELSE "failed",
                              !.marker = [removed |-> scrub.removed, parts |-> scrub.changed]]
    /\ UNCHANGED <<logVars, Ghosts, overrun>>

ScrubNext ==
    \/ \E cred \in Creds : Begin(cred)
    \/ ReadPart \/ Filter \/ Compare \/ Publish \/ Confirm \/ Receipt

Next == (LogNext /\ UNCHANGED <<scrub, Ghosts, overrun>>) \/ ScrubNext

Spec == Init /\ [][Next]_vars

-----------------------------------------------------------------------------
Requests == [rid : 0..MaxRecords, cred : Creds, day : 0..LastDay]
Lines == [reqs : SUBSET Requests, reads : BOOLEAN, ended : BOOLEAN]
Names == (0..LastDay) \X Nat

ScrubAt == {"read", "filter", "compare", "publish", "confirm", "receipt", "failing", "done", "failed"}
Runs == [at : ScrubAt, cred : Creds, targets : SUBSET Names, snapshot : Seq(Lines), attempt : Nat,
         seen : Seq(Lines), removed : Nat, changed : SUBSET Names,
         marker : {None} \cup [removed : Nat, parts : SUBSET Names]]

TypeOK ==
    /\ DOMAIN parts \subseteq Names
    /\ parts \in [DOMAIN parts -> Seq(Lines)]
    /\ clock \in 0..LastDay
    /\ current \in {None} \cup Names /\ size \in Nat /\ swept \in {None} \cup 0..LastDay
    /\ task \in {None} \cup [at : {"settle", "append", "sweep"}, req : Requests]
    /\ nextRid \in 0..MaxRecords /\ acked \subseteq Requests /\ faults \in 0..MaxFaults
    /\ scrub \in {None} \cup Runs
    /\ owed \in [recorded : SUBSET Requests, readable : SUBSET Requests]
    /\ erased \in {None} \cup Creds /\ overrun \subseteq Requests

(***************************************************************************)
(* What the properties rest on.  A request has a number of its own, and a   *)
(* line, part or copy holds numbers an append has been spent on; a line     *)
(* that reads holds one request, which no torn line holds; a part holds its *)
(* day's; and what a scrub publishes over a part is a reading of that part. *)
(***************************************************************************)
Writing == task # None /\ task.at \in {"settle", "append"}
Filed == IF Writing THEN nextRid - 1 ELSE nextRid
Spent == IF Writing /\ task.at = "settle" THEN nextRid - 1 ELSE nextRid

Pool == (UNION {Range(parts[name]) : name \in DOMAIN parts})
        \cup (IF scrub = None THEN {} ELSE Range(scrub.snapshot))

PoolStands ==
    /\ \A line \in Pool :
        /\ line.reads => line.ended /\ \A one, other \in line.reqs : one = other
        /\ \A req \in line.reqs : req.rid < Filed
    /\ \A line, torn \in Pool : line.reads /\ ~torn.reads => line.reqs \cap torn.reqs = {}

PartsStand ==
    /\ \A name \in DOMAIN parts : name[2] < Spent /\ \A req \in ReqsIn(parts[name]) : req.day = name[1]
    /\ current # None => current[2] < Spent

Accounted(req) == req \in OnVolume \/ req.day < clock - Days \/ req.cred = erased \/ req \in overrun

TaskStands ==
    task # None =>
        /\ task.at \in {"settle", "append"} => task.req.rid = nextRid - 1
        /\ task.at = "append" => current \in Names /\ current[1] = task.req.day
        /\ task.at = "sweep" => Accounted(task.req)

ScrubStands ==
    scrub # None =>
        /\ scrub.cred = erased
        /\ \A name \in scrub.targets : name[2] < Spent
        /\ scrub.at \in {"read", "filter", "compare", "publish", "confirm"} => scrub.targets # {}
        /\ scrub.at \in {"filter", "compare", "publish", "confirm"} =>
              \A req \in ReqsIn(scrub.snapshot) : req.day = Name[1]
        /\ scrub.at = "publish" => scrub.seen = scrub.snapshot

(***************************************************************************)
(* And for the run that ends well: what it owes is on lines that read, in a *)
(* part it has not been through, and in the copy it holds of the one it is  *)
(* at.                                                                      *)
(***************************************************************************)
Pending == IF scrub.at \in {"read", "filter", "compare", "publish"} THEN scrub.targets
           ELSE IF scrub.at = "confirm" THEN scrub.targets \ {Name} ELSE {}

OwedStands ==
    /\ \A req \in owed.readable : req.cred = erased /\ req.rid < Filed
    /\ \A line \in Pool : line.reqs \cap owed.readable # {} => line.reads
    /\ scrub # None /\ scrub.at \notin {"failing", "failed"} =>
        /\ \A name \in DOMAIN parts : ReqsIn(parts[name]) \cap owed.readable # {} => name \in Pending
        /\ scrub.at \in {"filter", "compare", "publish"} =>
              ReqsIn(At(Name)) \cap owed.readable \subseteq ReqsIn(scrub.snapshot)

(***************************************************************************)
(* A line whose record() resolved is on the volume until its day is past   *)
(* the retention, unless it names a credential being erased, or came in    *)
(* between a comparison and its publish: neither a rotation, a sweep, a    *)
(* restart nor the rest of a scrub costs one.                              *)
(***************************************************************************)
LinesAreKept == \A req \in acked : Accounted(req)

InductiveInv == TypeOK /\ PoolStands /\ PartsStand /\ TaskStands /\ ScrubStands /\ LinesAreKept

(***************************************************************************)
(* A run that ends well leaves no line on the volume that parsed as a      *)
(* record of its credential when it began, however the gateway was writing *)
(* meanwhile: a retry filters what the newer reading holds.                *)
(***************************************************************************)
ErasedIsGone == Running("done") => owed.readable \cap OnVolume = {}

(***************************************************************************)
(* "It filters one credential's records out of every part": the same of    *)
(* every record of it the gateway had resolved.                            *)
(***************************************************************************)
RecordedIsErased == Running("done") => owed.recorded \cap OnVolume = {}

=============================================================================
