----------------------------- MODULE MCRequests ------------------------------
\* The life of a request, one side at a time: the records it is admitted against
\* (CredentialReload), the handler that answers it and files its receipt
\* (Completion), and the client that reads the answer and adjudicates the receipt
\* (ClientSession).  What each sees of the next is part of its own module, so
\* `machine` picks one at the start.  Of the client's completions one is streamed.
EXTENDS Integers

CONSTANTS Request, None, MaxText, MaxStamp,
          Callers, MaxPieces, MarkPieces, Keep, Burst,
          Calls, Kinds, Streaming, Mode, MaxEpoch, Pinned, Composite, MaxCached

VARIABLES machine,
          lFile, lWrote, lInstalled, lWatched, lReloading, lPc, lAwaited, lSeen, lGot, lAnswer, lFloor,
          hReq, hHeld, hShed, hTokens, hMarks,
          cEpoch, cReceipts, cManifest, cCall, cCache, cSigned, cDropped

lVars == <<lFile, lWrote, lInstalled, lWatched, lReloading, lPc, lAwaited, lSeen, lGot, lAnswer, lFloor>>
hVars == <<hReq, hHeld, hShed, hTokens, hMarks>>
cVars == <<cEpoch, cReceipts, cManifest, cCall, cCache, cSigned, cDropped>>

Reload == INSTANCE CredentialReload WITH
    file <- lFile, wrote <- lWrote, installed <- lInstalled, watched <- lWatched, reloading <- lReloading,
    pc <- lPc, awaited <- lAwaited, seen <- lSeen, got <- lGot, answer <- lAnswer, floor <- lFloor

Handling == INSTANCE Completion WITH
    req <- hReq, held <- hHeld, shed <- hShed, tokens <- hTokens, marks <- hMarks

Client == INSTANCE ClientSession WITH
    Challenges <- Calls, epoch <- cEpoch, receipts <- cReceipts, manifest <- cManifest, call <- cCall,
    cache <- cCache, signed <- cSigned, dropped <- cDropped

ASSUME RequestsAssumption ==
    Reload!ReloadAssumption /\ Handling!CompletionAssumption /\ Client!SessionAssumption

Init ==
    /\ machine \in {"reload", "handling", "client"}
    /\ Reload!Init /\ Handling!Init /\ Client!Init
    /\ machine # "handling" => hMarks = 0
    /\ \A c \in Calls : cCall[c].kind = IF c = Streaming THEN "stream" ELSE "create"

Next ==
    \/ machine = "reload" /\ Reload!Next /\ UNCHANGED <<machine, hVars, cVars>>
    \/ machine = "handling" /\ Handling!Next /\ UNCHANGED <<machine, lVars, cVars>>
    \/ machine = "client" /\ Client!Next /\ UNCHANGED <<machine, lVars, hVars>>

\* The fairness each module states of its own steps.
Spec ==
    /\ Init
    /\ [][Next]_<<machine, lVars, hVars, cVars>>
    /\ \A r \in Request : WF_lVars(machine = "reload" /\ Reload!Steps(r))
    /\ \A c \in Callers : WF_hVars(machine = "handling" /\ Handling!Handler(c))
    /\ \A c \in Calls :
          WF_cVars(machine = "client" /\ (Client!Step(c) \/ Client!FetchFails(c) \/ Client!AnswerFails(c)))
    /\ WF_cVars(machine = "client" /\ (Client!ManifestAnswers \/ Client!ManifestFails))

\* The first invariant of a machine carries its type invariant and, where there
\* is one, the inductive invariant its proofs rest on.
WatchedIsServed == Reload!InductiveInv /\ Reload!WatchedIsServed
AdmittedOnFile == Reload!AdmittedOnFile

\* Every request a reload holds up is answered, and a saved edit takes hold.
ReloadsEnd == Reload!RequestsEnd /\ Reload!EditTakesHold
ReceiptMeansWhole == Handling!InductiveInv /\ Handling!ReceiptMeansWhole
DigestCoversTheBody == Handling!DigestCoversTheBody
OvershootIsInFlight == Handling!OvershootIsInFlight
EveryRequestEnds == Handling!EveryRequestEnds
HandsBackWhatItChecked == Client!InductiveInv /\ Client!HandsBackWhatItChecked
RefusedForACause == Client!RefusedForACause
SettlesOnceRead == Client!SettlesOnceRead

=============================================================================
