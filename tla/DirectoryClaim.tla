--------------------------- MODULE DirectoryClaim ---------------------------
(***************************************************************************)
(* The claim a receipt store leaves beside its log, receipts.log.owner, so *)
(* that two processes never append to one log (gateway/src/store.ts,       *)
(* claimDirectory, holderState and releaseDirectoryClaim).                 *)
(*                                                                         *)
(* A process is a pid on a host.  Every file operation of an opening is an *)
(* action of its own, because openings of different processes interleave   *)
(* between any two of them.                                                *)
(***************************************************************************)
EXTENDS Naturals, FiniteSets

CONSTANTS
    Proc,    \* the process ids that may open the directory
    Host,    \* the machines that mount the volume
    HostOf,  \* the machine each process id belongs to
    None     \* no file at a name, no claim read

ASSUME HostAssumption == HostOf \in [Proc -> Host]
ASSUME NoneAssumption == None \notin [by : Proc, text : {"empty", "line"}]

VARIABLES
    owner,     \* what is at receipts.log.owner
    stale,     \* what is at receipts.log.owner.stale
    pc,        \* where each process is in its opening
    found,     \* the claim each opening last read
    attempts,  \* the loop counter of claimDirectory
    handle,    \* which name the file a process created is at now
    claimed,   \* the openings that wrote the claim they run under
    seized     \* history: has a rename moved the claim of a running process

vars == <<owner, stale, pc, found, attempts, handle, claimed, seized>>

(* A claim names its writer once the line has been written; a file created *)
(* and not yet written is the empty text no reader can parse.              *)
Claim == [by : Proc, text : {"empty", "line"}]

Stages == {"down", "create", "write", "read", "probe", "displace", "opening",
           "serving", "relRead", "relRemove", "refused"}

Running(p) == pc[p] # "down"
Serving == {p \in Proc : pc[p] = "serving"}

(* The stages of an opening that runs under the claim at the name. *)
Holding(p) == pc[p] \in {"write", "opening", "serving", "relRead", "relRemove"}

TypeOK ==
    /\ owner \in Claim \cup {None}
    /\ stale \in Claim \cup {None}
    /\ pc \in [Proc -> Stages]
    /\ found \in [Proc -> Claim \cup {None}]
    /\ attempts \in [Proc -> 0..2]
    /\ handle \in [Proc -> {"owner", "stale", "gone"}]
    /\ claimed \subseteq Proc
    /\ seized \in {"never", "once"}

Init ==
    /\ owner = None
    /\ stale = None
    /\ pc = [p \in Proc |-> "down"]
    /\ found = [p \in Proc |-> None]
    /\ attempts = [p \in Proc |-> 0]
    /\ handle = [p \in Proc |-> "gone"]
    /\ claimed = {}
    /\ seized = "never"

-----------------------------------------------------------------------------

Goto(p, stage) == pc' = [pc EXCEPT ![p] = stage]

(* An opening starts with two attempts at the exclusive create. *)
Start(p) ==
    /\ pc[p] = "down"
    /\ Goto(p, "create")
    /\ attempts' = [attempts EXCEPT ![p] = 2]
    /\ found' = [found EXCEPT ![p] = None]
    /\ claimed' = claimed \ {p}
    /\ UNCHANGED <<owner, stale, handle, seized>>

(* Mutant: the create is not exclusive. *)
Create_Overwrites(p) ==
    /\ pc[p] = "create"
    /\ owner' = [by |-> p, text |-> "empty"]
    /\ handle' = [q \in Proc |-> IF q = p \/ handle[q] = "owner" THEN "owner" ELSE handle[q]]
    /\ Goto(p, "write")
    /\ UNCHANGED <<stale, found, attempts, claimed, seized>>

(* open(file, 'wx'): the file is created empty, or somebody is already here. *)
Create(p) ==
    /\ pc[p] = "create"
    /\ IF owner = None
       THEN /\ owner' = [by |-> p, text |-> "empty"]
            /\ handle' = [handle EXCEPT ![p] = "owner"]
            /\ Goto(p, "write")
       ELSE /\ Goto(p, "read")
            /\ UNCHANGED <<owner, handle>>
    /\ UNCHANGED <<stale, found, attempts, claimed, seized>>

(* The line is written through the handle, wherever the file is by now. *)
WriteClaim(p) ==
    /\ pc[p] = "write"
    /\ owner' = IF handle[p] = "owner" THEN [by |-> p, text |-> "line"] ELSE owner
    /\ stale' = IF handle[p] = "stale" THEN [by |-> p, text |-> "line"] ELSE stale
    /\ claimed' = claimed \cup {p}
    /\ Goto(p, "opening")
    /\ UNCHANGED <<found, attempts, handle, seized>>

(* readClaim: no file, or a text no holder can be read off. *)
Nameless(claim) == claim = None \/ claim.text = "empty"

(* Mutant: a refused claim read removes what is at the name too. *)
ReadClaim_HandsBack(p) ==
    /\ pc[p] = "read"
    /\ found' = [found EXCEPT ![p] = owner]
    /\ Goto(p, IF Nameless(owner) THEN "relRemove" ELSE "probe")
    /\ UNCHANGED <<owner, stale, attempts, handle, claimed, seized>>

(* A claim that cannot be read, or states no holder, refuses. *)
ReadClaim(p) ==
    /\ pc[p] = "read"
    /\ found' = [found EXCEPT ![p] = owner]
    /\ Goto(p, IF Nameless(owner) THEN "refused" ELSE "probe")
    /\ UNCHANGED <<owner, stale, attempts, handle, claimed, seized>>

(* The pid table answers for a holder of this machine, and nothing answers *)
(* for a holder of another.                                                *)
holderState(p, claim) ==
    CASE HostOf[claim.by] # HostOf[p] -> "unknowable"
      [] claim.by = p -> "here"
      [] HostOf[claim.by] = HostOf[p] /\ claim.by # p ->
           IF Running(claim.by) THEN "running" ELSE "exited"

(* Mutant: the claim of an exited holder is taken as it stands. *)
Probe_TakesExited(p) ==
    /\ pc[p] = "probe"
    /\ Goto(p, IF holderState(p, found[p]) \in {"here", "exited"} THEN "opening" ELSE "refused")
    /\ UNCHANGED <<owner, stale, found, attempts, handle, claimed, seized>>

(* What the holder's state decides about the claim that was read. *)
Probe(p) ==
    /\ pc[p] = "probe"
    /\ LET state == holderState(p, found[p]) IN
         Goto(p, CASE state = "here" -> "opening"
                   [] state = "exited" -> "displace"
                   [] state \in {"running", "unknowable"} -> "refused")
    /\ UNCHANGED <<owner, stale, found, attempts, handle, claimed, seized>>

(* Mutant: the loop counts down and comes round however little is left. *)
Displace_ComesRound(p) ==
    /\ pc[p] = "displace"
    /\ owner' = None
    /\ attempts' = [attempts EXCEPT ![p] = @ - 1]
    /\ Goto(p, "create")
    /\ UNCHANGED <<stale, found, handle, claimed, seized>>

(* rename(file, displaced): whatever is at the name now is moved aside. A  *)
(* name with nothing at it is not an error.  Then the loop comes round, or *)
(* gives up after its second attempt.                                      *)
Displace(p) ==
    /\ pc[p] = "displace"
    /\ IF owner = None
       THEN UNCHANGED <<owner, stale, handle>>
       ELSE /\ stale' = owner
            /\ owner' = None
            /\ handle' = [q \in Proc |-> CASE handle[q] = "owner" -> "stale"
                                           [] OTHER -> "gone"]
    /\ seized' = IF owner # None /\ Running(owner.by) THEN "once" ELSE seized
    /\ attempts' = [attempts EXCEPT ![p] = @ - 1]
    /\ Goto(p, IF attempts[p] > 1 THEN "create" ELSE "refused")
    /\ UNCHANGED <<found, claimed>>

(* The log was read, pruned and found heldable: the store serves. *)
Serve(p) ==
    /\ pc[p] = "opening"
    /\ Goto(p, "serving")
    /\ UNCHANGED <<owner, stale, found, attempts, handle, claimed, seized>>

(* The log or the configuration refused: a claim this opening wrote is     *)
(* handed back, any other is left where it is.                             *)
FailOpen(p) ==
    /\ pc[p] = "opening"
    /\ Goto(p, IF p \in claimed THEN "relRead" ELSE "refused")
    /\ UNCHANGED <<owner, stale, found, attempts, handle, claimed, seized>>

(* releaseDirectoryClaim reads the claim and goes on only if it names this *)
(* very process ...                                                        *)
ReleaseRead(p) ==
    /\ pc[p] = "relRead"
    /\ found' = [found EXCEPT ![p] = owner]
    /\ Goto(p, IF ~Nameless(owner) /\ owner.by = p THEN "relRemove" ELSE "refused")
    /\ UNCHANGED <<owner, stale, attempts, handle, claimed, seized>>

(* ... and then removes what is at the name. *)
ReleaseRemove(p) ==
    /\ pc[p] = "relRemove"
    /\ owner' = None
    /\ handle' = [q \in Proc |-> IF handle[q] = "owner" THEN "gone" ELSE handle[q]]
    /\ Goto(p, "refused")
    /\ UNCHANGED <<stale, found, attempts, claimed, seized>>

(* A process stops at any point and leaves the files as they are.  Nothing *)
(* removes the claim of a store that stops serving in good order either.   *)
Stop(p) ==
    /\ pc[p] # "down"
    /\ Goto(p, "down")
    /\ handle' = [handle EXCEPT ![p] = "gone"]
    /\ UNCHANGED <<owner, stale, found, attempts, claimed, seized>>

(* A volume that refuses a file operation ends the opening: the error is    *)
(* thrown, or read as a claim nobody can name, and a file already created  *)
(* stays.                                                                  *)
VolumeRefuses(p) ==
    /\ pc[p] \in {"create", "write", "read", "displace", "relRead", "relRemove"}
    /\ Goto(p, "refused")
    /\ UNCHANGED <<owner, stale, found, attempts, handle, claimed, seized>>

(* What an opening does of its own accord; the rest happens to it. *)
Advance(p) ==
    \/ Create(p) \/ WriteClaim(p) \/ ReadClaim(p) \/ Probe(p) \/ Displace(p)
    \/ Serve(p) \/ FailOpen(p) \/ ReleaseRead(p) \/ ReleaseRemove(p)

Step(p) == Start(p) \/ Advance(p) \/ VolumeRefuses(p) \/ Stop(p)

Next == \E p \in Proc : Step(p)

Spec == Init /\ [][Next]_vars

-----------------------------------------------------------------------------

(* Two openings that each wrote a claim never both serve: what the comment *)
(* on claimDirectory says of a takeover, that the move of a stale claim is *)
(* exclusive because only one opening can move a file that exists once.    *)
TakeoverExclusive == \A p, q \in Serving : p \in claimed /\ q \in claimed => p = q

(* One process at a time serves a directory. *)
OneServing == \A p, q \in Serving : p = q

(* Two stores serve one directory only if a takeover has moved aside the   *)
(* claim of a process that was running when the rename happened.  A        *)
(* create, a claim read, a probe, a hand-back, a restart under a pid that  *)
(* a claim already names and a crash between any two of them never lead    *)
(* to two writers on their own.                                            *)
ForkNeedsSeizure == OneServing \/ seized = "once"

(* A refused opening hands back its own claim and no other holder's, as    *)
(* long as no claim of a running process has been moved aside.             *)
HandsBackItsOwn ==
    [][\A p \in Proc : pc[p] = "relRemove" /\ owner # None /\ owner' = None
          => owner.by = p \/ seized = "once"]_vars

-----------------------------------------------------------------------------

(* Why ForkNeedsSeizure holds: until a running process loses its claim,    *)
(* every opening past its claim finds itself named in the file, an opening *)
(* about to run under a claim it found there is named by it still, and the *)
(* line being written goes to the name.                                    *)
Countdown ==
    \A p \in Proc : pc[p] \in {"create", "write", "read", "probe", "displace"}
                      => attempts[p] \in 1..2

HoldersNamed ==
    \A p \in Proc : Holding(p) => owner # None /\ owner.by = p

WritesAtTheName == \A p \in Proc : pc[p] = "write" => handle[p] = "owner"

ProbesAClaim == \A p \in Proc : pc[p] = "probe" => found[p] # None

FindsItselfNamed ==
    \A p \in Proc : pc[p] = "probe" /\ found[p] # None /\ found[p].by = p
                      => owner # None /\ owner.by = p

InductiveInv ==
    /\ TypeOK
    /\ Countdown
    /\ ProbesAClaim
    /\ seized = "never" => HoldersNamed /\ WritesAtTheName /\ FindsItselfNamed
=============================================================================
