----------------------------- MODULE Completion -----------------------------
(***************************************************************************)
(* The life of a completion request in the gateway: gateway/src/server.ts,  *)
(* from the onRequest hook to the line of the access log.  Each caller is   *)
(* one connection and sends one request after another; the handlers of the  *)
(* callers interleave at their awaits and nowhere else.                     *)
(*                                                                         *)
(* What the admission decides is Admission's business, what the store does  *)
(* with a put is ReceiptLog's, and what the bucket counts is RateLimit's.   *)
(* Here each of them answers one way or the other.  The bytes of a response *)
(* are pieces, counted; the rate the retained stamps measure is always one  *)
(* the bound is too short for, the state in which the intake guard has      *)
(* something to say.                                                        *)
(***************************************************************************)
EXTENDS Naturals, FiniteSets

CONSTANTS
  Callers,      \* the connections that send completions
  MaxPieces,    \* the most pieces an upstream sends down one stream
  MarkPieces,   \* the most pieces the mark of a stream is written in
  Keep,         \* --receipts-keep: the receipts the store retains
  Burst         \* the tokens of the deployment's completion bucket

CompletionAssumption ==
  /\ IsFiniteSet(Callers) /\ Callers # {}
  /\ MaxPieces \in Nat \ {0} /\ MarkPieces \in Nat
  /\ Keep \in Nat \ {0} /\ Burst \in Nat \ {0}

VARIABLES
  req,      \* each caller's request: its handler, its client, its log state
  held,     \* the receipts the store retains
  shed,     \* those the count retired inside the period since there was room
  tokens,   \* completionTokens, in whole tokens
  marks     \* markingScheme: the pieces this gateway's mark adds, none if 'none'

vars == <<req, held, shed, tokens, marks>>

Stages == {"idle", "reloading", "weighing", "asking", "collecting",
           "metering", "sealing", "filing", "opening", "pulling",
           "draining", "drainingMark", "over"}

Pieces == 0..MaxPieces + MarkPieces

\* One request.  at: the await its handler stands at.  arm: the way the
\* response goes out.  left: whether its client has closed the connection,
\* and whether that was before the upstream's end.  aborted: the flag the
\* stream's close listener sets.  told: how the client's reading ended.
\* noted: what RequestState holds of the admission.  line: what the access
\* log was told, once.  sent, hashed: the pieces an open socket took and
\* the pieces under the digest.  owed: the pieces of the mark to come.
\* digest: the pieces the receipt's digest was taken over.
Requests == [at: Stages, arm: {"none", "failed", "buffered", "stream"},
             left: {"no", "early", "late"}, aborted: BOOLEAN,
             told: {"nothing", "error", "cut", "whole"},
             noted: {"nothing", "admitted", "refused"},
             line: {"unwritten", "nothing", "admitted", "refused"},
             sent: Pieces, hashed: Pieces, digest: Pieces,
             owed: 0..MarkPieces, filed: BOOLEAN]

Fresh == [at |-> "idle", arm |-> "none", left |-> "no", aborted |-> FALSE,
          told |-> "nothing", noted |-> "nothing", line |-> "unwritten",
          sent |-> 0, hashed |-> 0, digest |-> 0, owed |-> 0,
          filed |-> FALSE]

\* The state of each component, and nothing about what may happen in it:
\* gateway/src/server.ts, RequestState and the handlers' own variables.
TypeOK == /\ req \in [Callers -> Requests]
          /\ held \in 0..Keep
          /\ shed \in 0..Cardinality(Callers)
          /\ tokens \in 0..Burst
          /\ marks \in {0, MarkPieces}

Init == /\ req = [c \in Callers |-> Fresh]
        /\ held = 0 /\ shed = 0 /\ tokens = Burst
        /\ marks \in {0, MarkPieces}

Here(c) == req[c].left = "no"

Becomes(c, r) == req' = [req EXCEPT ![c] = r]

\* The handler moves to its next await.
Goes(c, stage) == Becomes(c, [req[c] EXCEPT !.at = stage])

\* The reply is out of the framework's hands and its head is written.
Hijacked(r) == r.arm = "stream" /\ r.at # "opening"

\* reply.code(...).send(...), upstreamError, and the framework's own answer
\* to a handler that threw: an error instead of a completion, if there is
\* anybody to give it to.
Answered(c, r) ==
  [r EXCEPT !.at = "over", !.told = IF Here(c) THEN "error" ELSE @]

\* res.destroy(): the body never ends.  A socket its client closed is
\* destroyed already.
Destroyed(c, r) ==
  [r EXCEPT !.at = "over", !.told = IF Here(c) THEN "cut" ELSE @]

\* How a handler that meets an error lets it out.
Fails(c) ==
  /\ Becomes(c, IF Hijacked(req[c]) THEN Destroyed(c, req[c])
                ELSE Answered(c, req[c]))
  /\ UNCHANGED <<held, shed, tokens, marks>>

-----------------------------------------------------------------------------
\* The hooks ahead of the route body.

Arrive(c) == /\ req[c].at = "idle"
             /\ Becomes(c, [req[c] EXCEPT !.at = "reloading", !.owed = marks])
             /\ UNCHANGED <<held, shed, tokens, marks>>

\* The load that reloadIfNeeded awaited failed, ahead of the try.
ReloadFails(c) == req[c].at = "reloading" /\ Fails(c)

\* The record a refusal leaves: its code in deny, its caller in cred.
Refused(c) == Answered(c, [req[c] EXCEPT !.noted = "refused"])

\* access.admit ran: it refused, or the wait for the store's window began
\* and nothing of the admission is on the request yet.
Admit(c) == /\ req[c].at = "reloading"
            /\ Becomes(c, Refused(c)) \/ Goes(c, "weighing")
            /\ UNCHANGED <<held, shed, tokens, marks>>

\* Mutant: the guard waits for the set to be past its bound.
intakeGuardRefusal_Past == held > Keep

\* The guard at its default fraction, over a rate the bound is short for.
intakeGuardRefusal == held >= Keep

\* Mutant: what was admitted is not put on the request.
Weigh_Unnoted(c) ==
  /\ req[c].at = "weighing"
  /\ IF intakeGuardRefusal \/ tokens = 0
       THEN Becomes(c, Refused(c)) /\ UNCHANGED tokens
       ELSE Goes(c, "asking") /\ tokens' = tokens - 1
  /\ UNCHANGED <<held, shed, marks>>

\* The window came back: the guard, then the deployment's bucket, then what
\* the line will name.
Weigh(c) ==
  /\ req[c].at = "weighing"
  /\ IF intakeGuardRefusal \/ tokens = 0
       THEN Becomes(c, Refused(c)) /\ UNCHANGED tokens
       ELSE /\ Becomes(c, [req[c] EXCEPT !.at = "asking",
                                         !.noted = "admitted"])
            /\ tokens' = tokens - 1
  /\ UNCHANGED <<held, shed, marks>>

-----------------------------------------------------------------------------
\* The route body, up to the upstream's answer.

\* backend.respond came back, and its status and its content type chose the
\* arm.
Respond(c) ==
  /\ req[c].at = "asking"
  /\ \E arm \in {"failed", "buffered", "stream"} :
       Becomes(c, [req[c] EXCEPT !.arm = arm,
                     !.at = IF arm = "stream" THEN "opening"
                            ELSE "collecting"])
  /\ UNCHANGED <<held, shed, tokens, marks>>

\* The buffered arm has the whole body: the upstream's own failure is passed
\* on, and a completion goes to its usage.
Collect(c) ==
  /\ req[c].at = "collecting"
  /\ Becomes(c, IF req[c].arm = "failed" THEN Answered(c, req[c])
                ELSE [req[c] EXCEPT !.at = "metering"])
  /\ UNCHANGED <<held, shed, tokens, marks>>

-----------------------------------------------------------------------------
\* The streamed arm.

\* Mutant: the mark goes to the socket and not to the digest.
Written_Beside(c, r, k) ==
  [r EXCEPT !.hashed = IF r.at = "metering" THEN @ ELSE @ + k,
            !.sent = IF Here(c) THEN @ + k ELSE @]

\* k pieces through write(): the digest takes them, and a socket that is
\* still open.
Written(c, r, k) ==
  [r EXCEPT !.hashed = @ + k, !.sent = IF Here(c) THEN @ + k ELSE @]

\* Mutant: a write to a socket that was destroyed says it was taken.
Write_GoesOn(c, wait, then) ==
  \E stage \in {wait, then} :
    Becomes(c, [Written(c, req[c], 1) EXCEPT !.at = stage])

\* One piece.  An open socket takes it at once or asks for a wait until it
\* drains or closes; a socket that was destroyed takes nothing and asks for
\* the same wait.
Write(c, wait, then) ==
  \E stage \in IF Here(c) THEN {wait, then} ELSE {wait} :
    Becomes(c, [Written(c, req[c], 1) EXCEPT !.at = stage])

\* A gateway that marks holds back in its tail what might be the sentinel.
HeldBack(c) ==
  marks > 0 /\ Goes(c, IF req[c].aborted THEN "over" ELSE "pulling")

\* The first bytes came.  The head goes out with the receipt's id on it, and
\* the close listener is put on.
Open(c) ==
  /\ req[c].at = "opening"
  /\ Write(c, "draining", "pulling") \/ HeldBack(c)
  /\ UNCHANGED <<held, shed, tokens, marks>>

\* The next chunk came.  The loop looks at aborted again only behind the
\* write.
Pull(c) ==
  /\ req[c].at = "pulling" /\ req[c].hashed < MaxPieces
  /\ Write(c, "draining", "pulling") \/ HeldBack(c)
  /\ UNCHANGED <<held, shed, tokens, marks>>

\* Mutant: the flag is not looked at behind the upstream's end.
PullEnd_Metered(c) ==
  /\ req[c].at = "pulling"
  /\ Goes(c, "metering")
  /\ UNCHANGED <<held, shed, tokens, marks>>

\* The upstream is at its end: a client known to have left is let go with no
\* receipt, and every other response is metered.
PullEnd(c) ==
  /\ req[c].at = "pulling"
  /\ Goes(c, IF req[c].aborted THEN "over" ELSE "metering")
  /\ UNCHANGED <<held, shed, tokens, marks>>

\* The pieces of the mark, one after the other, until one has to wait.
Mark(c, r) ==
  \/ /\ r.left = "no"
     /\ Becomes(c, [Written(c, r, r.owed) EXCEPT !.at = "sealing", !.owed = 0])
  \/ \E k \in 1..r.owed :
       /\ r.left = "no" \/ k = 1
       /\ Becomes(c, [Written(c, r, k) EXCEPT !.at = "drainingMark",
                                              !.owed = @ - k])

\* Mutant: the mark's wait listens for the close and not for the drain.
Drain_NotMark(c) ==
  /\ Here(c) /\ req[c].at = "draining" /\ Goes(c, "pulling")
  /\ UNCHANGED <<held, shed, tokens, marks>>

\* The socket has room again.
Drain(c) ==
  /\ Here(c)
  /\ \/ req[c].at = "draining" /\ Goes(c, "pulling")
     \/ req[c].at = "drainingMark" /\ Mark(c, req[c])
  /\ UNCHANGED <<held, shed, tokens, marks>>

-----------------------------------------------------------------------------
\* What the two arms share: the usage, the receipt, the answer.

\* response.usage came and named the model that was declared.  A stream is
\* marked by pieces of its own; a buffered body is marked inside its bytes,
\* and is one piece under the digest.
Meter(c) ==
  /\ req[c].at = "metering"
  /\ IF req[c].arm = "stream" /\ marks > 0 THEN Mark(c, req[c])
     ELSE Becomes(c, [req[c] EXCEPT !.at = "sealing",
                        !.hashed = IF req[c].arm = "stream" THEN @ ELSE 1])
  /\ UNCHANGED <<held, shed, tokens, marks>>

\* Mutant: the response ends while the store is still being asked.
Seal_Ends(c) ==
  /\ req[c].at = "sealing"
  /\ \/ Becomes(c, [req[c] EXCEPT !.at = "filing", !.digest = req[c].hashed])
     \/ Becomes(c, [req[c] EXCEPT !.at = "over", !.digest = req[c].hashed,
                       !.told = IF Here(c) THEN "whole" ELSE @])
  /\ UNCHANGED <<held, shed, tokens, marks>>

\* issue(): the digest is closed, the evidence and the anchor came, and the
\* store was asked to keep the signed receipt.
Seal(c) ==
  /\ req[c].at = "sealing"
  /\ Becomes(c, [req[c] EXCEPT !.at = "filing", !.digest = req[c].hashed])
  /\ UNCHANGED <<held, shed, tokens, marks>>

\* The answer behind the put: the buffered body, or the end of the stream.
Ended(c, r) ==
  [r EXCEPT !.at = "over", !.told = IF Here(c) THEN "whole" ELSE @,
            !.sent = IF Here(c) /\ r.arm = "buffered" THEN 1 ELSE @]

\* put resolved: the receipt is on file, at the price of the oldest one when
\* the set was at its bound.
File(c) ==
  /\ req[c].at = "filing"
  /\ held' = IF held = Keep THEN Keep ELSE held + 1
  /\ shed' = IF held = Keep THEN shed + 1 ELSE shed
  /\ Becomes(c, Ended(c, [req[c] EXCEPT !.filed = TRUE]))
  /\ UNCHANGED <<tokens, marks>>

\* What the route waits for may fail wherever it waits: a body that does not
\* parse, an upstream that cannot be reached, its bytes and the time the
\* first of them is given, its usage and the model it names, a mark the body
\* cannot carry, a stream that framed no item, the evidence, the store.
Fail(c) ==
  /\ req[c].at \in {"asking", "collecting", "opening", "pulling", "metering",
                    "sealing", "filing"}
  /\ Fails(c)

-----------------------------------------------------------------------------
\* The connection, and the line.

\* What flush writes, the first time it is called.
flush(r) == [r EXCEPT !.line = IF @ = "unwritten" THEN r.noted ELSE @]

\* The close event: flush, the stream's listener if there is one, and a
\* write that waits, whose handler then goes on to what it would do next.
Leave(c) ==
  /\ Here(c) /\ req[c].at \notin {"idle", "over"}
  /\ LET r == req[c]
         late == r.at \in {"metering", "drainingMark", "sealing", "filing"}
         gone == [flush(r) EXCEPT !.left = IF late THEN "late" ELSE "early",
                                  !.aborted = Hijacked(r)]
     IN  Becomes(c,
           CASE r.at = "draining" -> [gone EXCEPT !.at = "over"]
             [] r.at = "drainingMark" /\ r.owed = 0
                  -> [gone EXCEPT !.at = "sealing"]
             [] r.at = "drainingMark" /\ r.owed > 0
                  -> [gone EXCEPT !.hashed = @ + 1, !.owed = @ - 1]
             [] OTHER -> gone)
  /\ UNCHANGED <<held, shed, tokens, marks>>

\* Mutant: only the close of a connection is listened to.
Finish_Unheard(c) ==
  /\ req[c].at = "over" /\ req[c].line = "unwritten" /\ req[c].told = "cut"
  /\ Becomes(c, flush(req[c]))
  /\ UNCHANGED <<held, shed, tokens, marks>>

\* The reply finished, or the socket the gateway destroyed closed.
Finish(c) ==
  /\ req[c].at = "over" /\ req[c].line = "unwritten"
  /\ Becomes(c, flush(req[c]))
  /\ UNCHANGED <<held, shed, tokens, marks>>

\* The caller's next request.  One that left has a connection of its own for
\* it, and a write that waits on the old one keeps nobody.
Again(c) == /\ req[c].line # "unwritten"
            /\ \/ req[c].at = "over"
               \/ ~Here(c) /\ req[c].at \in {"draining", "drainingMark"}
            /\ Becomes(c, Fresh)
            /\ UNCHANGED <<held, shed, tokens, marks>>

-----------------------------------------------------------------------------
\* Time: a receipt leaves the period, and the bucket earns a token.

Age == /\ held > 0
       /\ held' = held - 1 /\ shed' = 0
       /\ UNCHANGED <<req, tokens, marks>>

\* Mutant: the bucket has no burst.
Earn_Uncapped == tokens' = tokens + 1 /\ UNCHANGED <<req, held, shed, marks>>

Earn == /\ tokens < Burst
        /\ tokens' = tokens + 1
        /\ UNCHANGED <<req, held, shed, marks>>

Handler(c) == \/ Admit(c) \/ ReloadFails(c) \/ Weigh(c) \/ Respond(c)
              \/ Collect(c) \/ Open(c) \/ Pull(c) \/ PullEnd(c) \/ Drain(c)
              \/ Meter(c) \/ Seal(c) \/ File(c) \/ Fail(c) \/ Finish(c)

Next == \/ \E c \in Callers : Handler(c) \/ Arrive(c) \/ Leave(c) \/ Again(c)
        \/ Age \/ Earn

Spec == Init /\ [][Next]_vars

\* Every await is answered, an upstream's stream ends, and an open client
\* reads on.  Nothing is promised of when a client comes or goes.
FairSpec == Spec /\ \A c \in Callers : WF_vars(Handler(c))

-----------------------------------------------------------------------------
\* A client that read a response to its end can fetch its receipt at once, for
\* the put is awaited before the body or the closing byte goes out; and one that
\* closed before the upstream's end is given none.
ReceiptMeansWhole ==
  \A c \in Callers :
    /\ req[c].told = "whole" => req[c].filed
    /\ req[c].filed /\ req[c].arm = "stream" => req[c].left # "early"

\* The receipt of a response that ended speaks for all of it: no piece went out
\* beside the digest, and none behind it; and none speaks for a streamed piece
\* that found the socket closed.
DigestCoversTheBody ==
  \A c \in Callers :
    /\ req[c].told = "whole" => req[c].digest = req[c].sent /\ req[c].hashed = req[c].sent
    /\ req[c].filed /\ req[c].arm = "stream" => req[c].digest = req[c].sent

\* The guard reads the retained set at one await and the receipt is filed
\* several later, so other completions may fill the set in between; what that
\* costs is at most a receipt for each of the others.
OvershootIsInFlight == shed < Cardinality(Callers)

\* Whatever becomes of its handler, every request gets its line, and a client
\* that stays is answered: a completion, an error, or a cut socket.
EveryRequestEnds ==
  \A c \in Callers :
    /\ req[c].at # "idle" ~> req[c].line # "unwritten"
    /\ req[c].at # "idle" ~> req[c].told # "nothing" \/ ~Here(c)

\* The write loop reads the close listener's flag, and so a client that
\* leaves ends its request.
LeavingEndsTheRequest ==
  \A c \in Callers : ~Here(c) ~> req[c].at = "over"

-----------------------------------------------------------------------------
\* Why the three invariants hold: the inductive invariant the proofs rest on.

StreamStages == {"opening", "pulling", "draining", "drainingMark"}
AnswerStages == {"metering", "sealing", "filing"}
Admitted == {"asking", "collecting"} \cup StreamStages \cup AnswerStages

\* A handler stands only where the arm its upstream chose has an await.
ArmFits(r) ==
  /\ r.at \in {"idle", "reloading", "weighing", "asking"} => r.arm = "none"
  /\ r.at = "collecting" => r.arm \in {"failed", "buffered"}
  /\ r.at \in StreamStages => r.arm = "stream"
  /\ r.at \in AnswerStages => r.arm \in {"buffered", "stream"}

\* A piece that found the socket closed is under the digest and nowhere else,
\* and keeps its handler from ever reaching the receipt.
SocketAndDigest(r) ==
  /\ r.sent <= r.hashed
  /\ r.at \in {"idle", "reloading", "weighing", "asking", "collecting", "opening"} => r.hashed = 0
  /\ r.at \in {"pulling", "draining", "metering"} => r.hashed <= MaxPieces
  /\ r.at = "drainingMark" => r.hashed + r.owed <= MaxPieces + MarkPieces
  /\ r.arm = "buffered" /\ r.at # "over" => r.sent = 0
  /\ r.arm = "buffered" /\ r.at \in {"sealing", "filing"} => r.hashed = 1
  /\ r.arm = "stream" /\ r.left = "no" => r.hashed = r.sent
  /\ r.left = "late" => r.at \in AnswerStages \cup {"drainingMark", "over"}
  /\ r.arm = "stream" /\ r.left = "late" /\ r.at \in AnswerStages => r.hashed = r.sent
  /\ r.arm = "stream" /\ r.left = "early" =>
        /\ r.at \notin {"sealing", "filing"}
        /\ r.at = "metering" => marks > 0
        /\ r.at = "pulling" => r.aborted \/ marks > 0
  /\ r.at = "filing" => r.digest = r.hashed

\* What a client was told, and what was filed, is behind the handler's end.
EndedFiled(r) ==
  /\ r.told # "nothing" \/ r.filed => r.at = "over"
  /\ r.told = "whole" => r.filed /\ r.digest = r.sent /\ r.hashed = r.sent
  /\ r.filed /\ r.arm = "stream" => r.digest = r.sent /\ r.left # "early"

InFlight == {c \in Callers : req[c].at \in Admitted}

\* From the receipt that fills the set on, the guard admits nobody, so those
\* it retires are paid for by requests that were admitted before it.
ShedByTheAdmitted ==
  /\ held < Keep => shed = 0
  /\ held = Keep => shed + Cardinality(InFlight) < Cardinality(Callers)

InductiveInv ==
  /\ TypeOK
  /\ \A c \in Callers : ArmFits(req[c]) /\ SocketAndDigest(req[c]) /\ EndedFiled(req[c])
  /\ ShedByTheAdmitted
=============================================================================
