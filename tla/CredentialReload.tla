-------------------------- MODULE CredentialReload --------------------------
(***************************************************************************)
(* How the credential file an operator edits reaches the records requests  *)
(* are admitted against: CredentialStore.reloadIfNeeded and install in     *)
(* gateway/src/access.ts, awaited by the preHandler of gateway/src/        *)
(* server.ts.                                                              *)
(*                                                                         *)
(* stat and readFile go to the thread pool, so edits of the file and other *)
(* requests run between them; everything after an await settles, up to the *)
(* admission of every request that awaited it, is one step of the event    *)
(* loop.                                                                   *)
(***************************************************************************)
EXTENDS Naturals

CONSTANTS
    Request,    \* the requests that may be in flight together
    None,       \* no request, no stamp, no text
    MaxText,    \* bound: the edits an operator makes
    MaxStamp    \* bound: the mtimes the edits leave

ReloadAssumption == MaxText \in Nat /\ MaxStamp \in Nat /\ None \notin Request \cup Nat

VARIABLES
    file,       \* the credential file: its text's number, mtime and condition
    wrote,      \* history: the texts the file has held under each mtime
    installed,  \* the text whose records the store serves
    watched,    \* watchedMtimeMs
    reloading,  \* the request whose load the store's promise is
    pc,         \* where each request is
    awaited,    \* the load a request waits on, None when it looked itself
    seen,       \* the mtime its stat answered
    got,        \* the text its read answered, None for one that does not parse
    answer,     \* the text a request was admitted against
    floor       \* history: the text of the file when the load it runs or
                \* awaits was asked for

vars == <<file, wrote, installed, watched, reloading, pc, awaited, seen, got,
          answer, floor>>

Text == 0..MaxText
Stamp == 0..MaxStamp
Stages == {"idle", "stat", "compare", "read", "install", "wait", "admitted",
           "refused"}
Conditions == {"whole", "torn", "gone"}

Settled(r) == pc[r] \in {"idle", "admitted", "refused"}

(* Two texts were written under one mtime, so the mtime names neither. *)
Twin(s) == \E t, u \in wrote[s] : t # u

TypeOK ==
    /\ file \in [text : Text, stamp : Stamp, how : Conditions]
    /\ wrote \in [Stamp -> SUBSET Text]
    /\ installed \in Text
    /\ watched \in Stamp
    /\ reloading \in Request \cup {None}
    /\ pc \in [Request -> Stages]
    /\ awaited \in [Request -> Request \cup {None}]
    /\ seen \in [Request -> Stamp \cup {None}]
    /\ got \in [Request -> Text \cup {None}]
    /\ answer \in [Request -> Text \cup {None}]
    /\ floor \in [Request -> Text]

(* The store after start-up, which loads the file before it serves. *)
Init ==
    /\ file = [text |-> 0, stamp |-> 0, how |-> "whole"]
    /\ wrote = [s \in Stamp |-> IF s = 0 THEN {0} ELSE {}]
    /\ installed = 0
    /\ watched = 0
    /\ reloading = None
    /\ pc = [r \in Request |-> "idle"]
    /\ awaited = [r \in Request |-> None]
    /\ seen = [r \in Request |-> None]
    /\ got = [r \in Request |-> None]
    /\ answer = [r \in Request |-> None]
    /\ floor = [r \in Request |-> 0]

-----------------------------------------------------------------------------

(* The operator saves another text, whole or half-written, under any mtime: *)
(* a restored backup carries an old one.                                    *)
Edit(s, how) ==
    /\ file.text < MaxText
    /\ file' = [text |-> file.text + 1, stamp |-> s, how |-> how]
    /\ wrote' = [wrote EXCEPT ![s] = @ \cup {file.text + 1}]
    /\ UNCHANGED <<installed, watched, reloading, pc, awaited, seen, got,
                   answer, floor>>

(* The file leaves its name, as an editor that writes a new one does. *)
Remove ==
    /\ file.text < MaxText
    /\ file' = [file EXCEPT !.text = @ + 1, !.how = "gone"]
    /\ UNCHANGED <<wrote, installed, watched, reloading, pc, awaited, seen, got,
                   answer, floor>>

(* Mutant: a request that finds a load under way does not wait for it. *)
Arrive_Passes(r) ==
    /\ Settled(r)
    /\ awaited' = [awaited EXCEPT ![r] = reloading]
    /\ pc' = [pc EXCEPT ![r] = IF reloading = None THEN "stat" ELSE "admitted"]
    /\ seen' = [seen EXCEPT ![r] = None]
    /\ got' = [got EXCEPT ![r] = None]
    /\ answer' = [answer EXCEPT ![r] = IF reloading = None THEN None ELSE installed]
    /\ floor' = [floor EXCEPT ![r] = IF reloading = None THEN file.text
                                                         ELSE floor[reloading]]
    /\ UNCHANGED <<file, wrote, installed, watched, reloading>>

(* A request arrives: it waits on the load under way, or looks at the file. *)
Arrive(r) ==
    /\ Settled(r)
    /\ awaited' = [awaited EXCEPT ![r] = reloading]
    /\ pc' = [pc EXCEPT ![r] = IF reloading = None THEN "stat" ELSE "wait"]
    /\ seen' = [seen EXCEPT ![r] = None]
    /\ got' = [got EXCEPT ![r] = None]
    /\ answer' = [answer EXCEPT ![r] = None]
    /\ floor' = [floor EXCEPT ![r] = IF reloading = None THEN file.text
                                                         ELSE floor[reloading]]
    /\ UNCHANGED <<file, wrote, installed, watched, reloading>>

Stat(r) ==
    /\ pc[r] = "stat"
    /\ seen' = [seen EXCEPT ![r] = IF file.how = "gone" THEN None ELSE file.stamp]
    /\ pc' = [pc EXCEPT ![r] = "compare"]
    /\ UNCHANGED <<file, wrote, installed, watched, reloading, awaited, got,
                   answer, floor>>

(* The stat settles: a file that cannot be looked at, or whose mtime is the *)
(* one already loaded, leaves the records as they are.                      *)
Skip(r) ==
    /\ pc[r] = "compare"
    /\ seen[r] \in {None, watched}
    /\ pc' = [pc EXCEPT ![r] = "admitted"]
    /\ answer' = [answer EXCEPT ![r] = installed]
    /\ UNCHANGED <<file, wrote, installed, watched, reloading, awaited, seen,
                   got, floor>>

(* Any other mtime starts a load, which becomes the store's one promise     *)
(* whether or not another is under way.                                     *)
Load(r) ==
    /\ pc[r] = "compare"
    /\ seen[r] \notin {None, watched}
    /\ pc' = [pc EXCEPT ![r] = "read"]
    /\ reloading' = r
    /\ UNCHANGED <<file, wrote, installed, watched, awaited, seen, got, answer,
                   floor>>

Read(r) ==
    /\ pc[r] = "read"
    /\ got' = [got EXCEPT ![r] = IF file.how = "whole" THEN file.text ELSE None]
    /\ pc' = [pc EXCEPT ![r] = "install"]
    /\ UNCHANGED <<file, wrote, installed, watched, reloading, awaited, seen,
                   answer, floor>>

(* The request that runs a load and those that wait on it. *)
Party(r) == {r} \cup {q \in Request : pc[q] = "wait" /\ awaited[q] = r}

(* Mutant: the mtime recorded is the one the file has after the read. *)
Install_StampsLate(r) ==
    /\ pc[r] = "install"
    /\ got[r] # None
    /\ installed' = got[r]
    /\ watched' = file.stamp
    /\ reloading' = None
    /\ pc' = [q \in Request |-> IF q \in Party(r) THEN "admitted" ELSE pc[q]]
    /\ answer' = [q \in Request |-> IF q \in Party(r) THEN got[r] ELSE answer[q]]
    /\ UNCHANGED <<file, wrote, awaited, seen, got, floor>>

(* Mutant: a text that does not parse is installed all the same. *)
Install_Unparsed(r) ==
    /\ pc[r] = "install"
    /\ installed' = got[r]
    /\ watched' = seen[r]
    /\ reloading' = None
    /\ pc' = [q \in Request |-> IF q \in Party(r) THEN "admitted" ELSE pc[q]]
    /\ answer' = [q \in Request |-> IF q \in Party(r) THEN got[r] ELSE answer[q]]
    /\ UNCHANGED <<file, wrote, awaited, seen, got, floor>>

(* Mutant: only the request that ran the load hears that it ended. *)
Install_Alone(r) ==
    /\ pc[r] = "install"
    /\ got[r] # None
    /\ installed' = got[r]
    /\ watched' = seen[r]
    /\ reloading' = None
    /\ pc' = [pc EXCEPT ![r] = "admitted"]
    /\ answer' = [answer EXCEPT ![r] = got[r]]
    /\ UNCHANGED <<file, wrote, awaited, seen, got, floor>>

(* The load parses: its text and the mtime seen before the read are         *)
(* recorded, the promise is cleared, and its party is admitted.             *)
Install(r) ==
    /\ pc[r] = "install"
    /\ got[r] # None
    /\ installed' = got[r]
    /\ watched' = seen[r]
    /\ reloading' = None
    /\ pc' = [q \in Request |-> IF q \in Party(r) THEN "admitted" ELSE pc[q]]
    /\ answer' = [q \in Request |-> IF q \in Party(r) THEN got[r] ELSE answer[q]]
    /\ UNCHANGED <<file, wrote, awaited, seen, got, floor>>

(* Mutant: the mtime of a file that does not parse is recorded. *)
Fail_Stamps(r) ==
    /\ pc[r] = "install"
    /\ got[r] = None
    /\ watched' = seen[r]
    /\ reloading' = None
    /\ pc' = [q \in Request |-> IF q \in Party(r) THEN "refused" ELSE pc[q]]
    /\ UNCHANGED <<file, wrote, installed, awaited, seen, got, answer,
                   floor>>

(* The load does not parse: nothing is recorded, the promise is cleared,    *)
(* and the rejection reaches every request that awaited it.                 *)
Fail(r) ==
    /\ pc[r] = "install"
    /\ got[r] = None
    /\ reloading' = None
    /\ pc' = [q \in Request |-> IF q \in Party(r) THEN "refused" ELSE pc[q]]
    /\ UNCHANGED <<file, wrote, installed, watched, awaited, seen, got, answer,
                   floor>>

Next ==
    \/ \E s \in Stamp, how \in {"whole", "torn"} : Edit(s, how)
    \/ Remove
    \/ \E r \in Request :
          \/ Arrive(r)
          \/ Stat(r)
          \/ Skip(r)
          \/ Load(r)
          \/ Read(r)
          \/ Install(r)
          \/ Fail(r)

Spec == Init /\ [][Next]_vars

(* The thread pool answers every stat and read, and the event loop runs     *)
(* what they settle; nothing makes an operator edit or a client call.       *)
Steps(r) == Stat(r) \/ Skip(r) \/ Load(r) \/ Read(r) \/ Install(r) \/ Fail(r)

FairSpec == Spec /\ \A r \in Request : WF_vars(Steps(r))

-----------------------------------------------------------------------------

(* An mtime the store takes as loaded never speaks for a text newer than    *)
(* the one it serves, unless two edits left that one mtime: the stat comes  *)
(* before the read, and loads that overtake each other keep the pair whole. *)
WatchedIsServed ==
    Twin(watched) \/ \A t \in wrote[watched] : t <= installed

(* A request is admitted against a text no older than the file was when it  *)
(* arrived or, if it waited on a load, when the request that runs the load  *)
(* arrived; a stat that failed and a shared mtime are the two exceptions.   *)
AdmittedOnFile ==
    \A r \in Request :
        /\ pc[r] = "admitted"
        /\ awaited[r] # None \/ (seen[r] # None /\ ~Twin(seen[r]))
        => answer[r] >= floor[r]

(* Every request is answered. *)
RequestsEnd == \A r \in Request : []<>Settled(r)

Arrivals == \E r \in Request : Arrive(r)
Admissions == \E r \in Request : pc[r] # "admitted" /\ pc'[r] = "admitted"

(* docs/access-control.md:276 "a reload that fails keeps the records        *)
(* already loaded answering later requests while the file is repaired": as  *)
(* long as the file rests half-written and requests go on arriving, some go *)
(* on being admitted.                                                       *)
KeepsAnswering ==
    []<><<Arrivals>>_vars /\ <>[](file.how = "torn") => []<><<Admissions>>_vars

(* A saved edit takes hold without a restart: once the file rests at a text *)
(* of its own mtime and requests go on arriving, its records are the ones   *)
(* served from some time on.                                                *)
EditTakesHold ==
    /\ []<><<Arrivals>>_vars
    /\ <>[](file.how = "whole" /\ ~Twin(file.stamp))
    => <>[](installed = file.text)

-----------------------------------------------------------------------------
(* Why the two invariants hold: the inductive invariant the proofs rest on. *)

(* Texts are numbered in the order they were saved, and a file at its name  *)
(* is the text last saved under its mtime.                                  *)
SavedInOrder ==
    /\ \A s \in Stamp : \A t \in wrote[s] : t <= file.text
    /\ file.how # "gone" => file.text \in wrote[file.stamp]

(* A text older than s names is no answer to a request that saw s, unless   *)
(* s names two.                                                             *)
Covers(t, s) == Twin(s) \/ \A u \in wrote[s] : u <= t

(* An mtime that was seen was left by an edit, so another edit that leaves  *)
(* it makes it a twin.                                                      *)
SeenWasLeft ==
    /\ wrote[watched] # {}
    /\ \A r \in Request : seen[r] # None => wrote[seen[r]] # {}

(* What a request that looks at the file itself has read of it is no older  *)
(* than the file was when it arrived, nor than the mtime it saw.            *)
ReadBehindTheStat ==
    \A r \in Request :
        /\ floor[r] <= file.text
        /\ pc[r] = "compare" /\ seen[r] # None => \E t \in wrote[seen[r]] : t >= floor[r]
        /\ pc[r] \in {"read", "install"} => seen[r] # None
        /\ pc[r] = "install" /\ got[r] # None => got[r] >= floor[r] /\ Covers(got[r], seen[r])

(* The promise, and whatever a request waits on, is a load still running,   *)
(* asked for by a request that arrived with the same file.                  *)
WaitsOnALoad ==
    /\ reloading # None => pc[reloading] \in {"read", "install"}
    /\ \A r \in Request :
          /\ pc[r] = "wait" => /\ awaited[r] # None
                               /\ pc[awaited[r]] \in {"read", "install"}
                               /\ floor[r] = floor[awaited[r]]
          /\ awaited[r] # None => pc[r] \in {"wait", "admitted", "refused"}

InductiveInv ==
    /\ TypeOK
    /\ SavedInOrder
    /\ SeenWasLeft
    /\ ReadBehindTheStat
    /\ WaitsOnALoad
    /\ WatchedIsServed
    /\ AdmittedOnFile

=============================================================================
