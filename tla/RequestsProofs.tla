---------------------------- MODULE RequestsProofs -----------------------------
(***************************************************************************)
(* What CompletionProofs proves of the handlers holds of the composition   *)
(* the runs check: a step of MCRequests is a step of the machine it picked,*)
(* and leaves the variables of the others alone.  The invariants of the    *)
(* other two, the reload and the client, are proved here.                  *)
(***************************************************************************)
EXTENDS MCRequests, Sequences, TLAPS

HandlingProof == INSTANCE CompletionProofs WITH
    req <- hReq, held <- hHeld, shed <- hShed, tokens <- hTokens, marks <- hMarks

(* The two instances of Completion are one machine.                        *)
LEMMA SameHandling ==
  /\ Handling!Init <=> HandlingProof!Init
  /\ Handling!Next <=> HandlingProof!Next
  /\ HandlingProof!InductiveInv <=> Handling!InductiveInv
  /\ HandlingProof!CompletionAssumption
  <1>1. Handling!Init <=> HandlingProof!Init
    BY DEF Handling!Init, HandlingProof!Init, Handling!Fresh,
           HandlingProof!Fresh
  <1>2. Handling!Next <=> HandlingProof!Next
    BY DEF Handling!Stages, HandlingProof!Stages, Handling!Pieces,
           HandlingProof!Pieces, Handling!Requests, HandlingProof!Requests,
           Handling!Fresh, HandlingProof!Fresh, Handling!Init,
           HandlingProof!Init, Handling!Here, HandlingProof!Here,
           Handling!Becomes, HandlingProof!Becomes, Handling!Goes,
           HandlingProof!Goes, Handling!Hijacked, HandlingProof!Hijacked,
           Handling!Answered, HandlingProof!Answered, Handling!Destroyed,
           HandlingProof!Destroyed, Handling!Fails, HandlingProof!Fails,
           Handling!Arrive, HandlingProof!Arrive, Handling!ReloadFails,
           HandlingProof!ReloadFails, Handling!Refused,
           HandlingProof!Refused, Handling!Admit, HandlingProof!Admit,
           Handling!intakeGuardRefusal, HandlingProof!intakeGuardRefusal,
           Handling!Weigh, HandlingProof!Weigh, Handling!Respond,
           HandlingProof!Respond, Handling!Collect, HandlingProof!Collect,
           Handling!Written, HandlingProof!Written, Handling!Write,
           HandlingProof!Write, Handling!HeldBack, HandlingProof!HeldBack,
           Handling!Open, HandlingProof!Open, Handling!Pull,
           HandlingProof!Pull, Handling!PullEnd, HandlingProof!PullEnd,
           Handling!Mark, HandlingProof!Mark, Handling!Drain,
           HandlingProof!Drain, Handling!Meter, HandlingProof!Meter,
           Handling!Seal, HandlingProof!Seal, Handling!Ended,
           HandlingProof!Ended, Handling!File, HandlingProof!File,
           Handling!Fail, HandlingProof!Fail, Handling!flush,
           HandlingProof!flush, Handling!Leave, HandlingProof!Leave,
           Handling!Finish, HandlingProof!Finish, Handling!Again,
           HandlingProof!Again, Handling!Age, HandlingProof!Age,
           Handling!Earn, HandlingProof!Earn, Handling!Handler,
           HandlingProof!Handler, Handling!Next, HandlingProof!Next,
           Handling!vars, HandlingProof!vars
  <1>3. HandlingProof!InductiveInv <=> Handling!InductiveInv
    BY DEF Handling!Cardinality, HandlingProof!Cardinality, Handling!IsFiniteSet, HandlingProof!IsFiniteSet,
           Handling!TypeOK, HandlingProof!TypeOK, Handling!ArmFits,
           HandlingProof!ArmFits, Handling!StreamStages,
           HandlingProof!StreamStages, Handling!AnswerStages,
           HandlingProof!AnswerStages, Handling!Admitted,
           HandlingProof!Admitted, Handling!SocketAndDigest,
           HandlingProof!SocketAndDigest, Handling!EndedFiled,
           HandlingProof!EndedFiled, Handling!InFlight,
           HandlingProof!InFlight, Handling!ShedByTheAdmitted,
           HandlingProof!ShedByTheAdmitted, Handling!InductiveInv,
           HandlingProof!InductiveInv, Handling!Stages, HandlingProof!Stages,
           Handling!Pieces, HandlingProof!Pieces, Handling!Requests,
           HandlingProof!Requests
  <1>4. HandlingProof!CompletionAssumption
    BY RequestsAssumption DEF Handling!CompletionAssumption, HandlingProof!CompletionAssumption,
           Handling!IsFiniteSet, HandlingProof!IsFiniteSet
  <1> QED
    BY <1>1, <1>2, <1>3, <1>4

(* Every behaviour of the composition is, in the variables of the handlers, *)
(* one of Completion.                                                       *)
LEMMA IsHandling == Spec => HandlingProof!Spec
  <1>1. Init => HandlingProof!Init
    BY SameHandling DEF Init
  <1>2. [Next]_<<machine, lVars, hVars, cVars>> => [HandlingProof!Next]_(HandlingProof!vars)
    BY SameHandling DEF Next, hVars, HandlingProof!vars
  <1> QED
    BY <1>1, <1>2, PTL DEF Spec, HandlingProof!Spec

-----------------------------------------------------------------------------
(* The reload: CredentialReload's invariant over the variables of this      *)
(* module.                                                                  *)

LEMMA ReloadStarts ==
  ASSUME Reload!ReloadAssumption, Reload!Init
  PROVE  Reload!InductiveInv
  <1> USE DEF Reload!ReloadAssumption, Reload!Init, Reload!Text, Reload!Stamp, Reload!Stages,
              Reload!Conditions, Reload!Settled
  <1>1. Reload!TypeOK
    BY DEF Reload!TypeOK
  <1>2. Reload!SavedInOrder /\ Reload!SeenWasLeft /\ Reload!WatchedIsServed
    BY DEF Reload!SavedInOrder, Reload!SeenWasLeft, Reload!WatchedIsServed
  <1>3. Reload!ReadBehindTheStat /\ Reload!WaitsOnALoad /\ Reload!AdmittedOnFile
    BY DEF Reload!ReadBehindTheStat, Reload!WaitsOnALoad, Reload!AdmittedOnFile
  <1> QED
    BY <1>1, <1>2, <1>3 DEF Reload!InductiveInv

(* A saved edit: the text is newer than every one before it, so it turns    *)
(* the mtime it leaves into a twin wherever that mtime had been seen.       *)
LEMMA ReloadEdit ==
  ASSUME Reload!ReloadAssumption, Reload!InductiveInv,
         NEW s \in Reload!Stamp, NEW how \in {"whole", "torn"}, Reload!Edit(s, how)
  PROVE  Reload!InductiveInv'
  <1> USE DEF Reload!ReloadAssumption, Reload!InductiveInv, Reload!Text, Reload!Stamp, Reload!Stages,
              Reload!Conditions, Reload!Settled
  <1>1. Reload!TypeOK'
    BY DEF Reload!TypeOK, Reload!Edit
  <1> DEFINE new == lFile.text + 1
  <1>2. /\ lFile' = [text |-> new, stamp |-> s, how |-> how]
        /\ new \in Nat
        /\ lWrote'[s] = lWrote[s] \cup {new}
        /\ \A u \in Reload!Stamp : u # s => lWrote'[u] = lWrote[u]
        /\ \A u \in Reload!Stamp : \A t \in lWrote[u] : t \in Nat /\ t < new
    <2>1. lFile.text \in Nat
      BY DEF Reload!TypeOK
    <2>2. \A u \in Reload!Stamp : \A t \in lWrote[u] : t \in Nat /\ t <= lFile.text
      BY DEF Reload!TypeOK, Reload!SavedInOrder
    <2> QED
      BY <2>1, <2>2 DEF Reload!TypeOK, Reload!Edit
  <1> HIDE DEF new
  <1>3. Reload!SavedInOrder'
    <2>1. ASSUME NEW u \in Reload!Stamp, NEW t \in lWrote'[u]
          PROVE  t <= new
      BY <1>2, <2>1
    <2> QED
      BY <1>2, <2>1 DEF Reload!SavedInOrder
  <1>4. ASSUME NEW u \in Reload!Stamp, lWrote[u] # {}
        PROVE  /\ Reload!Twin(u)' <=> Reload!Twin(u) \/ u = s
               /\ lWrote'[u] # {}
    <2>1. PICK t \in lWrote[u] : TRUE
      BY <1>4
    <2>2. CASE u = s
      <3>1. t \in lWrote'[u] /\ new \in lWrote'[u] /\ t # new
        BY <1>2, <2>1, <2>2
      <3> QED
        BY <2>2, <3>1 DEF Reload!Twin
    <2>3. CASE u # s
      BY <1>2, <1>4, <2>3 DEF Reload!Twin
    <2> QED
      BY <2>2, <2>3
  <1>5. Reload!SeenWasLeft'
    BY <1>4 DEF Reload!SeenWasLeft, Reload!TypeOK, Reload!Edit
  <1>6. Reload!WatchedIsServed'
    BY <1>2, <1>4 DEF Reload!SeenWasLeft, Reload!WatchedIsServed, Reload!TypeOK, Reload!Edit
  <1>7. ASSUME NEW t \in Reload!Text, NEW u \in Reload!Stamp, lWrote[u] # {}, Reload!Covers(t, u)
        PROVE  Reload!Covers(t, u)'
    BY <1>2, <1>4, <1>7 DEF Reload!Covers
  <1>8. Reload!ReadBehindTheStat'
    BY <1>2, <1>7 DEF Reload!ReadBehindTheStat, Reload!SeenWasLeft, Reload!TypeOK, Reload!Edit
  <1>9. Reload!WaitsOnALoad'
    BY DEF Reload!WaitsOnALoad, Reload!Edit
  <1>10. Reload!AdmittedOnFile'
    BY <1>4 DEF Reload!AdmittedOnFile, Reload!SeenWasLeft, Reload!TypeOK, Reload!Edit
  <1> QED
    BY <1>1, <1>3, <1>5, <1>6, <1>8, <1>9, <1>10

LEMMA ReloadRemove ==
  ASSUME Reload!ReloadAssumption, Reload!InductiveInv, Reload!Remove
  PROVE  Reload!InductiveInv'
  <1> USE DEF Reload!ReloadAssumption, Reload!InductiveInv, Reload!Text, Reload!Stamp, Reload!Stages,
              Reload!Conditions, Reload!Settled
  <1>1. /\ lFile'.text = lFile.text + 1 /\ lFile'.how = "gone"
        /\ lFile' \in [text : Reload!Text, stamp : Reload!Stamp, how : Reload!Conditions]
    <2>1. lFile \in [text : Reload!Text, stamp : Reload!Stamp, how : Reload!Conditions]
      BY DEF Reload!TypeOK
    <2>2. lFile.text + 1 \in Reload!Text
      BY <2>1 DEF Reload!Remove
    <2> QED
      BY <2>1, <2>2 DEF Reload!Remove
  <1>2. Reload!TypeOK'
    BY <1>1 DEF Reload!TypeOK, Reload!Remove
  <1>3. Reload!SavedInOrder' /\ Reload!ReadBehindTheStat'
    <2>1. UNCHANGED <<lWrote, lPc, lSeen, lGot, lFloor>>
      BY DEF Reload!Remove
    <2>2. lFile.text \in Nat /\ lFile'.text \in Nat /\ lFile.text <= lFile'.text
      BY <1>1 DEF Reload!TypeOK
    <2>3. Reload!SavedInOrder'
      <3>1. \A s \in Reload!Stamp : \A t \in lWrote[s] : t \in Nat /\ t <= lFile.text
        BY DEF Reload!SavedInOrder, Reload!TypeOK
      <3>2. \A s \in Reload!Stamp : \A t \in lWrote[s] : t <= lFile'.text
        BY <2>2, <3>1
      <3> QED
        BY <1>1, <2>1, <3>2 DEF Reload!SavedInOrder
    <2>4. \A q \in Request : Reload!Covers(lGot[q], lSeen[q])' <=> Reload!Covers(lGot[q], lSeen[q])
      BY <2>1 DEF Reload!Covers, Reload!Twin
    <2> QED
      BY <2>1, <2>2, <2>3, <2>4 DEF Reload!ReadBehindTheStat, Reload!TypeOK
  <1>4. Reload!SeenWasLeft' /\ Reload!WatchedIsServed' /\ Reload!WaitsOnALoad' /\ Reload!AdmittedOnFile'
    BY DEF Reload!SeenWasLeft, Reload!WatchedIsServed, Reload!WaitsOnALoad, Reload!AdmittedOnFile,
           Reload!Remove, Reload!Twin
  <1> QED
    BY <1>2, <1>3, <1>4

(* Whether a text covers an mtime changes with the edits alone.             *)
LEMMA CoversStays ==
  ASSUME UNCHANGED lWrote, NEW q \in Request, UNCHANGED <<lGot[q], lSeen[q]>>
  PROVE  Reload!Covers(lGot[q], lSeen[q])' <=> Reload!Covers(lGot[q], lSeen[q])
  BY DEF Reload!Covers, Reload!Twin

(* A request that starts over: it looks at the file, whose text is its      *)
(* floor, or waits on a running load and takes that load's floor.           *)
LEMMA ReloadArrive ==
  ASSUME Reload!ReloadAssumption, Reload!InductiveInv, NEW r \in Request, Reload!Arrive(r)
  PROVE  Reload!InductiveInv'
  <1> USE DEF Reload!ReloadAssumption, Reload!InductiveInv, Reload!Text, Reload!Stamp, Reload!Stages,
              Reload!Conditions, Reload!Settled
  <1>1. Reload!TypeOK'
    BY DEF Reload!TypeOK, Reload!Arrive
  <1>2. Reload!SavedInOrder' /\ Reload!SeenWasLeft' /\ Reload!WatchedIsServed'
    BY DEF Reload!SavedInOrder, Reload!SeenWasLeft, Reload!WatchedIsServed, Reload!TypeOK, Reload!Arrive,
           Reload!Twin
  <1>3. Reload!ReadBehindTheStat'
    <2>1. lFloor'[r] <= lFile.text
      BY DEF Reload!ReadBehindTheStat, Reload!TypeOK, Reload!Arrive
    <2>2. lPc'[r] \in {"stat", "wait"}
      BY DEF Reload!TypeOK, Reload!Arrive
    <2>3. \A q \in Request : q # r => UNCHANGED <<lPc[q], lSeen[q], lGot[q], lFloor[q]>>
      BY DEF Reload!TypeOK, Reload!Arrive
    <2>4. \A q \in Request : q # r => (Reload!Covers(lGot[q], lSeen[q])' <=> Reload!Covers(lGot[q], lSeen[q]))
      BY <2>3, CoversStays DEF Reload!Arrive
    <2> QED
      BY <2>1, <2>2, <2>3, <2>4 DEF Reload!ReadBehindTheStat, Reload!Arrive
  <1>4. Reload!WaitsOnALoad'
    BY DEF Reload!WaitsOnALoad, Reload!TypeOK, Reload!Arrive
  <1>5. Reload!AdmittedOnFile'
    BY DEF Reload!AdmittedOnFile, Reload!TypeOK, Reload!Arrive, Reload!Twin
  <1> QED
    BY <1>1, <1>2, <1>3, <1>4, <1>5

(* The stat: the file it finds at its name is no older than the one the     *)
(* request arrived with.                                                    *)
LEMMA ReloadStat ==
  ASSUME Reload!ReloadAssumption, Reload!InductiveInv, NEW r \in Request, Reload!Stat(r)
  PROVE  Reload!InductiveInv'
  <1> USE DEF Reload!ReloadAssumption, Reload!InductiveInv, Reload!Text, Reload!Stamp, Reload!Stages,
              Reload!Conditions, Reload!Settled
  <1>1. Reload!TypeOK'
    BY DEF Reload!TypeOK, Reload!Stat
  <1>2. Reload!SavedInOrder' /\ Reload!SeenWasLeft' /\ Reload!WatchedIsServed'
    BY DEF Reload!SavedInOrder, Reload!SeenWasLeft, Reload!WatchedIsServed, Reload!TypeOK, Reload!Stat,
           Reload!Twin
  <1>3. Reload!ReadBehindTheStat'
    BY DEF Reload!ReadBehindTheStat, Reload!SavedInOrder, Reload!TypeOK, Reload!Stat, Reload!Covers,
           Reload!Twin
  <1>4. Reload!WaitsOnALoad'
    BY DEF Reload!WaitsOnALoad, Reload!TypeOK, Reload!Stat
  <1>5. Reload!AdmittedOnFile'
    BY DEF Reload!AdmittedOnFile, Reload!TypeOK, Reload!Stat, Reload!Twin
  <1> QED
    BY <1>1, <1>2, <1>3, <1>4, <1>5

(* Nothing is loaded: what is served covers the mtime that was seen, and    *)
(* with it the text the request must not fall behind.                       *)
LEMMA ReloadSkip ==
  ASSUME Reload!ReloadAssumption, Reload!InductiveInv, NEW r \in Request, Reload!Skip(r)
  PROVE  Reload!InductiveInv'
  <1> USE DEF Reload!ReloadAssumption, Reload!InductiveInv, Reload!Text, Reload!Stamp, Reload!Stages,
              Reload!Conditions, Reload!Settled
  <1>1. Reload!TypeOK'
    BY DEF Reload!TypeOK, Reload!Skip
  <1>2. Reload!SavedInOrder' /\ Reload!SeenWasLeft' /\ Reload!WatchedIsServed' /\ Reload!WaitsOnALoad'
    BY DEF Reload!SavedInOrder, Reload!SeenWasLeft, Reload!WatchedIsServed, Reload!WaitsOnALoad,
           Reload!TypeOK, Reload!Skip, Reload!Twin
  <1>3. Reload!ReadBehindTheStat'
    BY CoversStays DEF Reload!ReadBehindTheStat, Reload!TypeOK, Reload!Skip
  <1>4. Reload!AdmittedOnFile'
    <2>1. ASSUME lSeen[r] # None, ~Reload!Twin(lSeen[r])
          PROVE  lInstalled >= lFloor[r]
      <3>1. lSeen[r] = lWatched /\ \A t \in lWrote[lWatched] : t <= lInstalled
        BY <2>1 DEF Reload!Skip, Reload!WatchedIsServed
      <3>2. PICK t \in lWrote[lSeen[r]] : t >= lFloor[r]
        BY <2>1 DEF Reload!Skip, Reload!ReadBehindTheStat
      <3> QED
        BY <3>1, <3>2 DEF Reload!TypeOK
    <2>2. lAwaited[r] = None
      BY DEF Reload!Skip, Reload!WaitsOnALoad
    <2> QED
      BY <2>1, <2>2 DEF Reload!AdmittedOnFile, Reload!TypeOK, Reload!Skip, Reload!Twin
  <1> QED
    BY <1>1, <1>2, <1>3, <1>4

LEMMA ReloadLoad ==
  ASSUME Reload!ReloadAssumption, Reload!InductiveInv, NEW r \in Request, Reload!Load(r)
  PROVE  Reload!InductiveInv'
  <1> USE DEF Reload!ReloadAssumption, Reload!InductiveInv, Reload!Text, Reload!Stamp, Reload!Stages,
              Reload!Conditions, Reload!Settled
  <1>1. Reload!TypeOK'
    BY DEF Reload!TypeOK, Reload!Load
  <1>2. Reload!SavedInOrder' /\ Reload!SeenWasLeft' /\ Reload!WatchedIsServed' /\ Reload!ReadBehindTheStat'
    BY DEF Reload!SavedInOrder, Reload!SeenWasLeft, Reload!WatchedIsServed, Reload!ReadBehindTheStat,
           Reload!TypeOK, Reload!Load, Reload!Covers, Reload!Twin
  <1>3. Reload!WaitsOnALoad' /\ Reload!AdmittedOnFile'
    BY DEF Reload!WaitsOnALoad, Reload!AdmittedOnFile, Reload!TypeOK, Reload!Load, Reload!Twin
  <1> QED
    BY <1>1, <1>2, <1>3

(* The read: no text is newer than the one the file holds now.              *)
LEMMA ReloadRead ==
  ASSUME Reload!ReloadAssumption, Reload!InductiveInv, NEW r \in Request, Reload!Read(r)
  PROVE  Reload!InductiveInv'
  <1> USE DEF Reload!ReloadAssumption, Reload!InductiveInv, Reload!Text, Reload!Stamp, Reload!Stages,
              Reload!Conditions, Reload!Settled
  <1>1. Reload!TypeOK'
    BY DEF Reload!TypeOK, Reload!Read
  <1>2. Reload!SavedInOrder' /\ Reload!SeenWasLeft' /\ Reload!WatchedIsServed'
    BY DEF Reload!SavedInOrder, Reload!SeenWasLeft, Reload!WatchedIsServed, Reload!TypeOK, Reload!Read,
           Reload!Twin
  <1>3. Reload!ReadBehindTheStat'
    <2>1. lSeen[r] # None /\ \A u \in lWrote[lSeen[r]] : u <= lFile.text
      BY DEF Reload!Read, Reload!ReadBehindTheStat, Reload!SavedInOrder, Reload!TypeOK
    <2>2. Reload!Covers(lFile.text, lSeen[r])
      BY <2>1 DEF Reload!Covers
    <2>3. /\ lGot'[r] \in {None, lFile.text} /\ lPc'[r] = "install"
          /\ UNCHANGED <<lSeen, lFloor, lFile, lWrote>>
      BY DEF Reload!Read, Reload!TypeOK
    <2>4. lGot'[r] # None => Reload!Covers(lGot[r], lSeen[r])'
      BY <2>2, <2>3 DEF Reload!Covers, Reload!Twin
    <2>5. \A q \in Request : q # r => UNCHANGED <<lPc[q], lGot[q]>>
      BY DEF Reload!Read, Reload!TypeOK
    <2>6. \A q \in Request : q # r => (Reload!Covers(lGot[q], lSeen[q])' <=> Reload!Covers(lGot[q], lSeen[q]))
      BY <2>3, <2>5, CoversStays
    <2> QED
      BY <2>1, <2>3, <2>4, <2>5, <2>6 DEF Reload!ReadBehindTheStat
  <1>4. Reload!WaitsOnALoad' /\ Reload!AdmittedOnFile'
    BY DEF Reload!WaitsOnALoad, Reload!AdmittedOnFile, Reload!TypeOK, Reload!Read, Reload!Twin
  <1> QED
    BY <1>1, <1>2, <1>3, <1>4

(* The load settles: what it read covers the mtime it saw, which is what    *)
(* the store will take as loaded, and everyone it admits arrived with a     *)
(* file no newer.                                                           *)
LEMMA ReloadInstall ==
  ASSUME Reload!ReloadAssumption, Reload!InductiveInv, NEW r \in Request, Reload!Install(r)
  PROVE  Reload!InductiveInv'
  <1> USE DEF Reload!ReloadAssumption, Reload!InductiveInv, Reload!Text, Reload!Stamp, Reload!Stages,
              Reload!Conditions, Reload!Settled
  <1>0. /\ Reload!Party(r) \subseteq Request /\ r \in Reload!Party(r)
        /\ \A q \in Reload!Party(r) : q # r => lPc[q] = "wait" /\ lAwaited[q] = r
        /\ \A q \in Request : lPc[q] = "wait" /\ lAwaited[q] = r => q \in Reload!Party(r)
    BY DEF Reload!Party
  <1>1. /\ \A q \in Reload!Party(r) : lPc'[q] = "admitted" /\ lAnswer'[q] = lGot[r]
        /\ \A q \in Request \ Reload!Party(r) : lPc'[q] = lPc[q] /\ lAnswer'[q] = lAnswer[q]
        /\ lPc[r] = "install" /\ lGot[r] # None /\ lSeen[r] # None
    BY <1>0 DEF Reload!Install, Reload!ReadBehindTheStat
  <1>2. Reload!TypeOK'
    BY <1>1 DEF Reload!TypeOK, Reload!Install
  <1>3. Reload!SavedInOrder' /\ Reload!SeenWasLeft'
    BY <1>1 DEF Reload!SavedInOrder, Reload!SeenWasLeft, Reload!TypeOK, Reload!Install
  <1>4. Reload!WatchedIsServed'
    BY <1>1 DEF Reload!WatchedIsServed, Reload!ReadBehindTheStat, Reload!Install, Reload!Covers, Reload!Twin
  <1>5. Reload!ReadBehindTheStat'
    BY <1>0, <1>1 DEF Reload!ReadBehindTheStat, Reload!TypeOK, Reload!Install, Reload!Covers, Reload!Twin
  <1>6. Reload!WaitsOnALoad'
    BY <1>0, <1>1 DEF Reload!WaitsOnALoad, Reload!TypeOK, Reload!Install
  <1>7. Reload!AdmittedOnFile'
    <2>1. \A q \in Reload!Party(r) : lAnswer'[q] >= lFloor[q]
      BY <1>0, <1>1 DEF Reload!WaitsOnALoad, Reload!ReadBehindTheStat
    <2> QED
      BY <1>1, <2>1 DEF Reload!AdmittedOnFile, Reload!Install, Reload!Twin
  <1> QED
    BY <1>2, <1>3, <1>4, <1>5, <1>6, <1>7

LEMMA ReloadFail ==
  ASSUME Reload!ReloadAssumption, Reload!InductiveInv, NEW r \in Request, Reload!Fail(r)
  PROVE  Reload!InductiveInv'
  <1> USE DEF Reload!ReloadAssumption, Reload!InductiveInv, Reload!Text, Reload!Stamp, Reload!Stages,
              Reload!Conditions, Reload!Settled
  <1>0. /\ Reload!Party(r) \subseteq Request /\ r \in Reload!Party(r)
        /\ \A q \in Reload!Party(r) : q # r => lPc[q] = "wait" /\ lAwaited[q] = r
        /\ \A q \in Request : lPc[q] = "wait" /\ lAwaited[q] = r => q \in Reload!Party(r)
    BY DEF Reload!Party
  <1>1. /\ \A q \in Reload!Party(r) : lPc'[q] = "refused"
        /\ \A q \in Request \ Reload!Party(r) : lPc'[q] = lPc[q]
        /\ lPc[r] = "install"
    BY <1>0 DEF Reload!Fail
  <1>2. Reload!TypeOK'
    BY DEF Reload!TypeOK, Reload!Fail
  <1>3. Reload!SavedInOrder' /\ Reload!SeenWasLeft' /\ Reload!WatchedIsServed'
    BY DEF Reload!SavedInOrder, Reload!SeenWasLeft, Reload!WatchedIsServed, Reload!Fail, Reload!Twin
  <1>4. Reload!ReadBehindTheStat'
    BY <1>0, <1>1 DEF Reload!ReadBehindTheStat, Reload!TypeOK, Reload!Fail, Reload!Covers, Reload!Twin
  <1>5. Reload!WaitsOnALoad'
    BY <1>0, <1>1 DEF Reload!WaitsOnALoad, Reload!TypeOK, Reload!Fail
  <1>6. Reload!AdmittedOnFile'
    BY <1>1 DEF Reload!AdmittedOnFile, Reload!Fail, Reload!Twin
  <1> QED
    BY <1>2, <1>3, <1>4, <1>5, <1>6

LEMMA ReloadStep ==
  ASSUME Reload!ReloadAssumption, Reload!InductiveInv, Reload!Next \/ UNCHANGED Reload!vars
  PROVE  Reload!InductiveInv'
  <1>1. CASE \E s \in Reload!Stamp, how \in {"whole", "torn"} : Reload!Edit(s, how)
    BY <1>1, ReloadEdit
  <1>2. CASE Reload!Remove
    BY <1>2, ReloadRemove
  <1>3. CASE \E r \in Request : Reload!Arrive(r) \/ Reload!Stat(r) \/ Reload!Skip(r) \/ Reload!Load(r)
    BY <1>3, ReloadArrive, ReloadStat, ReloadSkip, ReloadLoad
  <1>4. CASE \E r \in Request : Reload!Read(r) \/ Reload!Install(r) \/ Reload!Fail(r)
    BY <1>4, ReloadRead, ReloadInstall, ReloadFail
  <1>5. CASE UNCHANGED Reload!vars
    BY <1>5 DEF Reload!vars, Reload!InductiveInv, Reload!TypeOK, Reload!SavedInOrder, Reload!SeenWasLeft,
                Reload!ReadBehindTheStat,
                Reload!WaitsOnALoad, Reload!WatchedIsServed, Reload!AdmittedOnFile, Reload!Covers, Reload!Twin
  <1> QED
    BY <1>1, <1>2, <1>3, <1>4, <1>5 DEF Reload!Next

LEMMA ReloadInductive == Spec => []Reload!InductiveInv
  <1>0. Reload!ReloadAssumption
    BY RequestsAssumption
  <1>1. Init => Reload!InductiveInv
    BY <1>0, ReloadStarts DEF Init
  <1>2. Reload!InductiveInv /\ [Next]_<<machine, lVars, hVars, cVars>> => Reload!InductiveInv'
    <2>1. [Next]_<<machine, lVars, hVars, cVars>> => Reload!Next \/ UNCHANGED Reload!vars
      BY DEF Next, lVars, Reload!vars
    <2> QED
      BY <1>0, <2>1, ReloadStep
  <1> QED
    BY <1>1, <1>2, PTL DEF Spec

-----------------------------------------------------------------------------
(* The client: ClientSession's invariant over the variables of this module. *)

\* What the rest of the session may do to a call that takes no step itself.
SessionOnward ==
    /\ \A d \in Calls : cReceipts[d].signed =>
          cReceipts'[d] \in {cReceipts[d], [cReceipts[d] EXCEPT !.filed = FALSE]}
    /\ cManifest.state = "read" => cManifest' = cManifest
    /\ cDropped \subseteq cDropped'
    /\ cEpoch <= cEpoch'

\* A call that takes no step keeps what it stands on while the session goes onward.
LEMMA CallSettled ==
  ASSUME Client!InductiveInv, Client!TypeOK', SessionOnward, NEW c \in Calls,
         \A d \in Calls : Client!ReceiptStands(d)',
         \/ cCall'[c] = cCall[c]
         \/ cCall'[c] = [cCall[c] EXCEPT !.hit = TRUE]
  PROVE  Client!CallStands(c)' /\ Client!HandsBack(c)' /\ Client!HasCause(c)'
  <1>1. /\ cReceipts[c].signed => /\ cReceipts'[c].signed
                                  /\ cReceipts'[c].epoch = cReceipts[c].epoch
                                  /\ cReceipts'[c].document = cReceipts[c].document
                                  /\ cReceipts'[c].filed => cReceipts[c].filed
        /\ \A d \in Calls : cReceipts[d].signed => cReceipts'[d].signed
    BY DEF SessionOnward, Client!InductiveInv, Client!TypeOK
  <1>2. /\ cCall'[c].at = cCall[c].at /\ cCall'[c].answer = cCall[c].answer /\ cCall'[c].bytes = cCall[c].bytes
        /\ cCall'[c].served = cCall[c].served /\ cCall'[c].result = cCall[c].result
    BY DEF Client!InductiveInv, Client!TypeOK
  <1>3. Client!CallStands(c) /\ Client!HandsBack(c) /\ Client!HasCause(c) /\ Client!ReceiptStands(c)
    BY DEF Client!InductiveInv
  <1>4. cReceipts[c].epoch \in Int /\ cEpoch \in Int /\ cEpoch' \in Int
    BY DEF Client!InductiveInv, Client!TypeOK
  <1>5. Client!Verified(c) => cReceipts[c].signed
    BY <1>3 DEF Client!CallStands, Client!Verified
  <1>6. cManifest.state = "read" => cManifest' = cManifest
    BY DEF SessionOnward
  <1>7. Client!Verified(c) => Client!Verified(c)'
    BY <1>1, <1>2, <1>5, <1>6 DEF Client!Verified
  <1>8. Client!ServedStands(c) => Client!ServedStands(c)' /\ cReceipts'[c].epoch = cReceipts[c].epoch
    BY <1>1, <1>2, <1>5, <1>7 DEF Client!ServedStands, SessionOnward
  <1>9. Client!CallStands(c)'
    BY <1>1, <1>2, <1>3, <1>6, <1>7, <1>8 DEF Client!CallStands
  <1>10. Client!HandsBack(c)'
    BY <1>1, <1>2, <1>3, <1>5, <1>7 DEF Client!HandsBack, Client!CallStands, Client!Verified
  <1>11. Client!HasCause(c)'
    <2>1. SUFFICES ASSUME cCall[c].answer = c, cCall[c].bytes = "whole" PROVE Client!HasCause(c)'
      BY <1>2 DEF Client!HasCause
    <2>2. cReceipts[c].signed
      BY <1>3, <2>1 DEF Client!CallStands
    <2>3. /\ cReceipts'[c].epoch = cReceipts[c].epoch /\ cReceipts'[c].document = cReceipts[c].document
          /\ cReceipts'[c].filed => cReceipts[c].filed
          /\ cReceipts[c].document \in cDropped => cReceipts[c].document \in cDropped'
      BY <1>1, <2>2 DEF SessionOnward
    <2>4. cReceipts[c].epoch # cEpoch => cReceipts[c].epoch # cEpoch'
      BY <1>3, <1>4 DEF SessionOnward, Client!ReceiptStands
    <2>5. cCall[c].result = "MANIFEST_KEY_NOT_PINNED" => cManifest' = cManifest
      BY <1>3, <1>6 DEF Client!CallStands
    <2> QED
      BY <1>2, <1>3, <2>1, <2>3, <2>4, <2>5 DEF Client!HasCause
  <1> QED
    BY <1>9, <1>10, <1>11

\* remember, over a map that has every key once: it still has, and has the new one.
LEMMA EvidenceRemembered ==
  ASSUME Client!SessionAssumption, Client!TypeOK, Client!OneEach, NEW c \in Calls, Client!Attested(c)
  PROVE  /\ cCache' \in Seq(Client!Documents) /\ Len(cCache') <= MaxCached
         /\ Client!OneEach'
         /\ Client!Freshest(c) \in Client!Documents /\ Client!Freshest(c).rd = c
         /\ Client!Freshest(c) \in Client!Range(cCache')
         /\ cSigned' \in [Calls -> Nat]
         /\ cDropped' \subseteq Client!Documents /\ cDropped \subseteq cDropped'
         /\ \A old \in Client!Range(cCache) : old.rd # c => old \in Client!Range(cCache') \cup cDropped'
  <1> DEFINE left == IF Len(cCache) >= MaxCached THEN Tail(cCache) ELSE cCache
  <1>1. Client!Freshest(c) \in Client!Documents /\ Client!Freshest(c).rd = c
    BY DEF Client!Freshest, Client!Documents, Client!TypeOK
  <1>2. /\ left \in Seq(Client!Documents) /\ Len(left) < MaxCached /\ Len(left) \in Nat
        /\ \A i, j \in 1..Len(left) : left[i].rd = left[j].rd => i = j
    <2>1. CASE Len(cCache) >= MaxCached
      <3>1. cCache # <<>> /\ Len(cCache) = MaxCached /\ MaxCached \in Nat
        BY <2>1 DEF Client!SessionAssumption, Client!TypeOK
      <3>2. Tail(cCache) \in Seq(Client!Documents) /\ Len(Tail(cCache)) = Len(cCache) - 1
        BY <3>1 DEF Client!TypeOK
      <3>3. \A i \in 1..Len(Tail(cCache)) : Tail(cCache)[i] = cCache[i + 1] /\ i + 1 \in DOMAIN cCache
        BY <3>1, <3>2 DEF Client!TypeOK
      <3> QED
        BY <2>1, <3>1, <3>2, <3>3 DEF Client!OneEach
    <2>2. CASE ~(Len(cCache) >= MaxCached)
      <3>1. left = cCache /\ DOMAIN cCache = 1..Len(cCache)
        BY <2>2 DEF Client!TypeOK
      <3>2. cCache \in Seq(Client!Documents) /\ Len(cCache) \in Nat /\ MaxCached \in Nat
        BY DEF Client!TypeOK, Client!SessionAssumption
      <3>3. Len(cCache) < MaxCached
        BY <2>2, <3>2
      <3>4. \A i, j \in 1..Len(cCache) : cCache[i].rd = cCache[j].rd => i = j
        BY <3>1 DEF Client!OneEach
      <3> QED
        BY <3>1, <3>2, <3>3, <3>4
    <2> QED
      BY <2>1, <2>2
  <1>3. cCache' = IF \E i \in DOMAIN left : left[i].rd = Client!Freshest(c).rd
                 THEN [i \in DOMAIN left |-> IF left[i].rd = Client!Freshest(c).rd THEN Client!Freshest(c) ELSE left[i]]
                 ELSE Append(left, Client!Freshest(c))
    BY DEF Client!Attested, Client!Freshest, Client!remember
  <1> HIDE DEF left
  <1>4. /\ cCache' \in Seq(Client!Documents) /\ Len(cCache') <= MaxCached
        /\ \A i, j \in 1..Len(cCache') : cCache'[i].rd = cCache'[j].rd => i = j
        /\ \E i \in 1..Len(cCache') : cCache'[i] = Client!Freshest(c)
    <2>0. DOMAIN left = 1..Len(left)
      BY <1>2
    <2>1. CASE \E i \in DOMAIN left : left[i].rd = Client!Freshest(c).rd
      <3>1. cCache' = [i \in 1..Len(left) |-> IF left[i].rd = Client!Freshest(c).rd THEN Client!Freshest(c) ELSE left[i]]
        BY <2>0, <2>1, <1>3
      <3>2. \A i \in 1..Len(left) : left[i] \in Client!Documents
        BY <1>2
      <3>3. cCache' \in [1..Len(left) -> Client!Documents]
        BY <3>1, <3>2, <1>1
      <3>4. cCache' \in Seq(Client!Documents) /\ Len(cCache') = Len(left)
        BY <3>3, <1>2
      <3>5. \A i \in 1..Len(left) : cCache'[i].rd = left[i].rd
        BY <3>1
      <3>6. \E i \in 1..Len(left) : cCache'[i] = Client!Freshest(c)
        BY <2>0, <2>1, <3>1
      <3>7. MaxCached \in Nat
        BY DEF Client!SessionAssumption
      <3> QED
        BY <3>4, <3>5, <3>6, <3>7, <1>2
    <2>2. CASE ~(\E i \in DOMAIN left : left[i].rd = Client!Freshest(c).rd)
      <3>1. cCache' = Append(left, Client!Freshest(c))
        BY <2>2, <1>3
      <3>2. cCache' \in Seq(Client!Documents) /\ Len(cCache') = Len(left) + 1
        BY <3>1, <1>1, <1>2
      <3>3. \A i \in 1..Len(left) : cCache'[i] = left[i] /\ left[i].rd # Client!Freshest(c).rd
        BY <3>1, <1>1, <1>2, <2>0, <2>2
      <3>4. cCache'[Len(left) + 1] = Client!Freshest(c)
        BY <3>1, <1>1, <1>2
      <3>5. \A i \in 1..Len(left) + 1 : i \in 1..Len(left) \/ i = Len(left) + 1
        BY <1>2
      <3>6. MaxCached \in Nat
        BY DEF Client!SessionAssumption
      <3>7. \A i, j \in 1..Len(left) + 1 : cCache'[i].rd = cCache'[j].rd => i = j
        BY <3>3, <3>4, <3>5, <1>2
      <3> QED
        BY <3>2, <3>4, <3>6, <3>7, <1>2
    <2> QED
      BY <2>1, <2>2
  <1>5. DOMAIN cCache' = 1..Len(cCache') /\ DOMAIN cCache = 1..Len(cCache)
    BY <1>4 DEF Client!TypeOK
  <1>6. Client!OneEach' /\ Client!Freshest(c) \in Client!Range(cCache')
    BY <1>4, <1>5 DEF Client!OneEach, Client!Range
  <1>7. cSigned' \in [Calls -> Nat]
    BY DEF Client!Attested, Client!TypeOK
  <1>8. cDropped' = cDropped \cup {old \in Client!Range(cCache) : old.rd # c /\ old \notin Client!Range(cCache')}
    BY DEF Client!Attested
  <1>9. Client!Range(cCache) \subseteq Client!Documents
    BY DEF Client!TypeOK, Client!Range
  <1>10. cDropped' \subseteq Client!Documents
    BY <1>8, <1>9 DEF Client!TypeOK
  <1> QED
    BY <1>1, <1>4, <1>6, <1>7, <1>8, <1>10

\* The client starts in its invariant.
LEMMA ClientInit ==
  ASSUME Client!SessionAssumption, Client!Init
  PROVE  Client!InductiveInv
  <1>1. \A c \in Calls : \E kind \in Kinds : cCall[c] = [Client!Idle EXCEPT !.kind = kind]
    BY DEF Client!Init
  <1>2. cCall \in [Calls -> {[Client!Idle EXCEPT !.kind = kind] : kind \in Kinds}]
    BY DEF Client!Init
  <1>2a. \A kind \in Kinds : [Client!Idle EXCEPT !.kind = kind] \in
                         [kind : Kinds, at : Client!Stages, answer : Calls \cup {"none"},
                          bytes : {"none", "whole", "altered"}, tries : 0..Client!GATEWAY_FETCH_ATTEMPTS - 1,
                          served : Client!Documents \cup {Client!NoDocument}, hit : BOOLEAN, result : Client!Results]
    <2>1. Client!Idle \in [kind : {"create"}, at : Client!Stages, answer : Calls \cup {"none"},
                   bytes : {"none", "whole", "altered"}, tries : 0..Client!GATEWAY_FETCH_ATTEMPTS - 1,
                   served : Client!Documents \cup {Client!NoDocument}, hit : BOOLEAN, result : Client!Results]
      BY DEF Client!Idle, Client!Stages, Client!Results, Client!GATEWAY_FETCH_ATTEMPTS
    <2> QED
      BY <2>1
  <1>2b. cCall \in [Calls -> [kind : Kinds, at : Client!Stages, answer : Calls \cup {"none"},
                          bytes : {"none", "whole", "altered"}, tries : 0..Client!GATEWAY_FETCH_ATTEMPTS - 1,
                          served : Client!Documents \cup {Client!NoDocument}, hit : BOOLEAN, result : Client!Results]]
    BY <1>2, <1>2a
  <1>3. Client!TypeOK
    BY <1>2b DEF Client!TypeOK, Client!Init, Client!EvidenceInit, Client!NoReceipt, Client!SessionAssumption
  <1>4. \A c \in Calls : /\ cCall[c].at = "idle" /\ cCall[c].result = "open" /\ cCall[c].bytes = "none" /\ cCall[c].answer = "none"
                         /\ cReceipts[c] = Client!NoReceipt
    BY <1>1 DEF Client!Init, Client!Idle
  <1>5. \A c \in Calls : Client!ReceiptStands(c) /\ Client!CallStands(c) /\ Client!HandsBack(c) /\ Client!HasCause(c)
    BY <1>4 DEF Client!ReceiptStands, Client!CallStands, Client!HandsBack, Client!HasCause,
                Client!NoReceipt, Client!Init
  <1>6. Client!OneEach
    BY DEF Client!OneEach, Client!Init, Client!EvidenceInit
  <1> QED
    BY <1>3, <1>5, <1>6 DEF Client!InductiveInv

\* A call with two of its fields set is a call.
LEMMA CallMovedOn ==
  ASSUME NEW T, NEW t \in T, NEW at \in Client!Stages,
         NEW r \in [kind : Kinds, at : Client!Stages, answer : Calls \cup {"none"},
                    bytes : {"none", "whole", "altered"}, tries : T,
                    served : Client!Documents \cup {Client!NoDocument}, hit : BOOLEAN, result : Client!Results]
  PROVE  LET to == [r EXCEPT !.at = at, !.tries = t]
         IN  /\ to \in [kind : Kinds, at : Client!Stages, answer : Calls \cup {"none"},
                       bytes : {"none", "whole", "altered"}, tries : T,
                       served : Client!Documents \cup {Client!NoDocument}, hit : BOOLEAN, result : Client!Results]
             /\ to.at = at /\ to.result = r.result /\ to.served = r.served
             /\ to.bytes = r.bytes /\ to.answer = r.answer
  OBVIOUS

\* The same of three.
LEMMA CallServed ==
  ASSUME NEW T, NEW t \in T, NEW at \in Client!Stages, NEW document \in Client!Documents,
         NEW r \in [kind : Kinds, at : Client!Stages, answer : Calls \cup {"none"},
                    bytes : {"none", "whole", "altered"}, tries : T,
                    served : Client!Documents \cup {Client!NoDocument}, hit : BOOLEAN, result : Client!Results]
  PROVE  LET to == [r EXCEPT !.served = document, !.tries = t, !.at = at]
         IN  /\ to \in [kind : Kinds, at : Client!Stages, answer : Calls \cup {"none"},
                       bytes : {"none", "whole", "altered"}, tries : T,
                       served : Client!Documents \cup {Client!NoDocument}, hit : BOOLEAN, result : Client!Results]
             /\ to.at = at /\ to.result = r.result /\ to.served = document
             /\ to.bytes = r.bytes /\ to.answer = r.answer
  OBVIOUS

\* Every step of the client keeps it.
LEMMA ClientStep ==
  ASSUME Client!SessionAssumption, Client!InductiveInv, [Client!Next]_(Client!vars)
  PROVE  Client!InductiveInv'
  <1> USE DEF Client!evidenceVars
  <1>0. /\ Client!TypeOK /\ Client!OneEach
        /\ \A c \in Calls : /\ Client!ReceiptStands(c) /\ Client!CallStands(c)
                             /\ Client!HandsBack(c) /\ Client!HasCause(c)
    BY DEF Client!InductiveInv
  <1> DEFINE Calling == [kind : Kinds, at : Client!Stages, answer : Calls \cup {"none"},
                          bytes : {"none", "whole", "altered"}, tries : 0..Client!GATEWAY_FETCH_ATTEMPTS - 1,
                          served : Client!Documents \cup {Client!NoDocument}, hit : BOOLEAN, result : Client!Results]
  <1>t. cCall \in [Calls -> Calling]
    BY <1>0 DEF Client!TypeOK
  \* A step of one call that leaves the gateway as it is.
  <1>1. ASSUME NEW c \in Calls, NEW to, Client!Goes(c, to), UNCHANGED <<cEpoch, cReceipts, cManifest, Client!evidenceVars>>,
               to \in Calling, Client!CallStands(c)', Client!HandsBack(c)', Client!HasCause(c)'
        PROVE  Client!InductiveInv'
    <2>1. cCall' \in [Calls -> Calling] /\ \A d \in Calls : d # c => cCall'[d] = cCall[d]
      BY <1>1, <1>t DEF Client!Goes
    <2>2. Client!TypeOK'
      BY <1>0, <1>1, <2>1 DEF Client!TypeOK
    <2>3. Client!OneEach' /\ \A d \in Calls : Client!ReceiptStands(d)'
      BY <1>0, <1>1 DEF Client!OneEach, Client!ReceiptStands
    <2>4. SessionOnward
      BY <1>0, <1>1 DEF SessionOnward, Client!TypeOK
    <2>5. \A d \in Calls : d # c => Client!CallStands(d)' /\ Client!HandsBack(d)' /\ Client!HasCause(d)'
      BY <2>1, <2>2, <2>3, <2>4, CallSettled
    <2> QED
      BY <1>1, <2>2, <2>3, <2>5 DEF Client!InductiveInv
  \* A step of the session or the gateway that moves no call on.
  <1>2. ASSUME Client!TypeOK', Client!OneEach', SessionOnward, \A d \in Calls : Client!ReceiptStands(d)',
               \A d \in Calls : cCall'[d] = cCall[d] \/ cCall'[d] = [cCall[d] EXCEPT !.hit = TRUE]
        PROVE  Client!InductiveInv'
    BY <1>0, <1>2, CallSettled DEF Client!InductiveInv
  <1>3. \A c \in Calls : cCall[c] \in Calling /\ cReceipts[c] \in [signed : BOOLEAN, filed : BOOLEAN, epoch : 0..MaxEpoch,
                              document : Client!Documents \cup {Client!NoDocument}]
    BY <1>0, <1>t DEF Client!TypeOK
  <1>n. ASSUME NEW c \in Calls, NEW at \in Client!Stages
        PROVE  LET to == [cCall[c] EXCEPT !.at = at, !.tries = 0]
               IN  /\ to \in Calling /\ to.at = at /\ to.result = cCall[c].result /\ to.served = cCall[c].served
                   /\ to.bytes = cCall[c].bytes /\ to.answer = cCall[c].answer
    <2>1. 0 \in 0..Client!GATEWAY_FETCH_ATTEMPTS - 1
      BY DEF Client!GATEWAY_FETCH_ATTEMPTS
    <2>2. cCall[c] \in Calling
      BY <1>3
    <2> QED
      BY <2>1, <2>2, CallMovedOn
  <1>s. /\ "answering" \in Client!Stages /\ "manifest" \in Client!Stages
        /\ "evidence" \in Client!Stages /\ "appraising" \in Client!Stages
    BY DEF Client!Stages
  <1>4. ASSUME NEW c \in Calls, NEW to, Client!Goes(c, to) PROVE cCall'[c] = to
    BY <1>4, <1>t DEF Client!Goes
  <1>5. ASSUME NEW c \in Calls, Client!Broken(c), cCall[c].at \notin {"idle", "over"} \/ cCall[c].at = "idle",
               UNCHANGED <<cEpoch, cReceipts, cManifest, Client!evidenceVars>>
        PROVE  Client!InductiveInv'
    <2> DEFINE to == [cCall[c] EXCEPT !.at = "over", !.result = "GATEWAY_ERROR", !.hit = TRUE]
    <2>1. Client!Goes(c, to) /\ cCall'[c] = to
      BY <1>4, <1>5 DEF Client!Broken
    <2>2. to \in Calling /\ to.at = "over" /\ to.result = "GATEWAY_ERROR"
          /\ to.bytes = cCall[c].bytes /\ to.answer = cCall[c].answer
      BY <1>3 DEF Client!Stages, Client!Results
    <2>3. Client!CallStands(c)' /\ Client!HandsBack(c)' /\ Client!HasCause(c)'
      BY <1>0, <1>5, <2>1, <2>2 DEF Client!CallStands, Client!HandsBack, Client!HasCause
    <2> QED
      BY <1>1, <1>5, <2>1, <2>2, <2>3
  <1>6. ASSUME NEW c \in Calls, Client!Post(c) PROVE Client!InductiveInv'
    <2>1. CASE Client!Broken(c)
      BY <1>5, <1>6, <2>1 DEF Client!Post
    <2>2. CASE Client!Moves(c, "answering")
      <3> DEFINE to == [cCall[c] EXCEPT !.at = "answering", !.tries = 0]
      <3>1. Client!Goes(c, to) /\ cCall'[c] = to
        BY <1>4, <2>2 DEF Client!Moves
      <3>2. to \in Calling /\ to.at = "answering" /\ to.result = cCall[c].result
            /\ to.bytes = cCall[c].bytes /\ to.answer = cCall[c].answer
        BY <1>n, <1>s
      <3>3. Client!CallStands(c)' /\ Client!HandsBack(c)' /\ Client!HasCause(c)'
        BY <1>0, <1>6, <3>1, <3>2 DEF Client!CallStands, Client!HandsBack, Client!HasCause, Client!Post
      <3> QED
        BY <1>1, <1>6, <3>1, <3>2, <3>3 DEF Client!Post
    <2> QED
      BY <1>6, <2>1, <2>2 DEF Client!Post
  <1>7. ASSUME NEW c \in Calls, Client!Answered(c) PROVE Client!InductiveInv'
    <2>1. PICK answer \in {d \in Calls : cReceipts[d].signed} \cup {"none"} :
             Client!Goes(c, [cCall[c] EXCEPT !.at = "reading", !.answer = answer])
      BY <1>7 DEF Client!Answered
    <2> DEFINE to == [cCall[c] EXCEPT !.at = "reading", !.answer = answer]
    <2>2. Client!Goes(c, to) /\ cCall'[c] = to
      BY <1>4, <2>1
    <2>3. to \in Calling /\ to.at = "reading" /\ to.result = cCall[c].result /\ to.bytes = cCall[c].bytes
      BY <1>3 DEF Client!Stages
    <2>4. Client!CallStands(c)' /\ Client!HandsBack(c)' /\ Client!HasCause(c)'
      BY <1>0, <1>7, <2>2, <2>3 DEF Client!CallStands, Client!HandsBack, Client!HasCause, Client!Answered
    <2> QED
      BY <1>1, <1>7, <2>2, <2>3, <2>4 DEF Client!Answered
  <1>8. ASSUME NEW c \in Calls, Client!AnswerFails(c) PROVE Client!InductiveInv'
    BY <1>5, <1>8 DEF Client!AnswerFails
  <1>9. ASSUME NEW c \in Calls, Client!FetchFails(c) PROVE Client!InductiveInv'
    BY <1>5, <1>9 DEF Client!FetchFails
  \* A call that ends: what its result claims is what is left to show.
  <1>10. ASSUME NEW c \in Calls, NEW result \in Client!Results, Client!Ends(c, result), cCall[c].at # "over",
                UNCHANGED <<cEpoch, cReceipts, cManifest, Client!evidenceVars>>,
                result = "verified" => /\ Client!Verified(c) /\ cReceipts[c].signed
                                       /\ Mode = "strict" => cCall[c].served = cReceipts[c].document,
                result = "handed" => Mode # "strict",
                result = "MANIFEST_KEY_NOT_PINNED" => cManifest.state = "read",
                cCall[c].answer = c /\ cCall[c].bytes = "whole" =>
                   \/ result \in {"open", "verified", "handed", "GATEWAY_ERROR"}
                   \/ result = "EVIDENCE_DIGEST_MISMATCH" /\ cReceipts[c].document \in cDropped
                   \/ result = "MANIFEST_KEY_NOT_PINNED"
                      /\ (cReceipts[c].epoch \notin Pinned \/ cManifest.epoch < cReceipts[c].epoch)
         PROVE  Client!InductiveInv'
    <2> DEFINE to == [cCall[c] EXCEPT !.at = "over", !.result = result]
    <2>1. Client!Goes(c, to) /\ cCall'[c] = to
      BY <1>4, <1>10 DEF Client!Ends
    <2>2. to \in Calling /\ to.at = "over" /\ to.result = result /\ to.served = cCall[c].served
          /\ to.bytes = cCall[c].bytes /\ to.answer = cCall[c].answer
      BY <1>3 DEF Client!Stages
    <2>3. Client!CallStands(c)'
      BY <1>0, <1>10, <2>1, <2>2 DEF Client!CallStands, Client!Verified
    <2>4. Client!HandsBack(c)'
      BY <1>0, <1>10, <2>1, <2>2 DEF Client!HandsBack, Client!Verified
    <2>5. Client!HasCause(c)'
      BY <1>0, <1>10, <2>1, <2>2 DEF Client!HasCause
    <2> QED
      BY <1>1, <1>10, <2>1, <2>2, <2>3, <2>4, <2>5
  <1>11. ASSUME NEW c \in Calls, Client!Read(c) PROVE Client!InductiveInv'
    <2>0. cCall[c].at = "reading" /\ cCall[c].bytes = "none" /\ cCall[c].result = "open"
          /\ UNCHANGED <<cEpoch, cReceipts, cManifest, Client!evidenceVars>>
      BY <1>0, <1>11 DEF Client!Read, Client!CallStands
    <2>1. CASE Mode = "off"
      <3>1. Client!Ends(c, "handed") /\ "handed" \in Client!Results
        BY <1>11, <2>1 DEF Client!Read, Client!Results
      <3> QED
        BY <1>10, <2>0, <2>1, <3>1
    <2>2. CASE Mode # "off" /\ cCall[c].answer = "none"
      <3>1. Client!Ends(c, Client!Unreceipted(c)) /\ Client!Unreceipted(c) \in Client!Results
        BY <1>11, <2>2 DEF Client!Read, Client!Results, Client!Unreceipted
      <3>2. Client!Unreceipted(c) \in {"handed", "NOT_RECEIPTED"} /\ (Client!Unreceipted(c) = "handed" => Mode # "strict")
        BY DEF Client!Unreceipted
      <3> QED
        BY <1>10, <2>0, <3>1, <3>2
    <2>3. CASE Mode # "off" /\ cCall[c].answer # "none"
      <3>1. PICK bytes \in {"whole", "altered"} :
              Client!Goes(c, [cCall[c] EXCEPT !.at = "receipt", !.bytes = bytes])
        BY <1>11, <2>3 DEF Client!Read
      <3> DEFINE to == [cCall[c] EXCEPT !.at = "receipt", !.bytes = bytes]
      <3>2. Client!Goes(c, to) /\ cCall'[c] = to
        BY <1>4, <3>1
      <3>3. to \in Calling /\ to.at = "receipt" /\ to.result = "open" /\ to.answer = cCall[c].answer
            /\ to.bytes \in {"whole", "altered"}
        BY <1>3, <2>0 DEF Client!Stages
      <3>4. cCall[c].answer # "none" /\ cCall[c].answer \in Calls /\ cReceipts[cCall[c].answer].signed
        BY <1>0, <1>3, <2>0, <2>3 DEF Client!CallStands
      <3>5. Client!CallStands(c)' /\ Client!HandsBack(c)' /\ Client!HasCause(c)'
        BY <2>0, <3>2, <3>3, <3>4 DEF Client!CallStands, Client!HandsBack, Client!HasCause
      <3> QED
        BY <1>1, <2>0, <3>2, <3>3, <3>5
    <2> QED
      BY <2>1, <2>2, <2>3
  <1>12. ASSUME NEW c \in Calls, Client!ReadFails(c) PROVE Client!InductiveInv'
    <2> DEFINE to == [cCall[c] EXCEPT !.at = "over", !.hit = TRUE,
                                     !.result = IF cCall[c].kind = "stream" THEN "open" ELSE "BODY_FAILED"]
    <2>1. Client!Goes(c, to) /\ cCall'[c] = to
      BY <1>4, <1>12 DEF Client!ReadFails
    <2>2. to \in Calling /\ to.at = "over" /\ to.result \in {"open", "BODY_FAILED"}
          /\ to.bytes = cCall[c].bytes /\ to.answer = cCall[c].answer
      BY <1>3 DEF Client!Stages, Client!Results
    <2>3. Client!CallStands(c)' /\ Client!HandsBack(c)' /\ Client!HasCause(c)'
      BY <1>0, <1>12, <2>1, <2>2 DEF Client!CallStands, Client!HandsBack, Client!HasCause, Client!ReadFails
    <2> QED
      BY <1>1, <1>12, <2>1, <2>2, <2>3 DEF Client!ReadFails
  <1>13. ASSUME NEW c \in Calls, Client!receiptBytes(c) PROVE Client!InductiveInv'
    <2>0. /\ cCall[c].at = "receipt" /\ cCall[c].result = "open" /\ cCall[c].bytes # "none"
          /\ cCall[c].answer # "none" /\ cCall[c].answer \in Calls /\ cReceipts[cCall[c].answer].signed
          /\ UNCHANGED <<cEpoch, cReceipts, cManifest, Client!evidenceVars>>
      BY <1>0, <1>13 DEF Client!receiptBytes, Client!CallStands
    <2>1. CASE cReceipts[cCall[c].answer].filed /\ Client!Moves(c, "manifest")
      <3> DEFINE to == [cCall[c] EXCEPT !.at = "manifest", !.tries = 0]
      <3>1. Client!Goes(c, to) /\ cCall'[c] = to
        BY <1>4, <2>1 DEF Client!Moves
      <3>2. to \in Calling /\ to.at = "manifest" /\ to.result = "open"
            /\ to.bytes = cCall[c].bytes /\ to.answer = cCall[c].answer
        BY <1>n, <1>s, <2>0
      <3>3. Client!CallStands(c)' /\ Client!HandsBack(c)' /\ Client!HasCause(c)'
        BY <2>0, <3>1, <3>2 DEF Client!CallStands, Client!HandsBack, Client!HasCause
      <3> QED
        BY <1>1, <2>0, <3>1, <3>2, <3>3
    <2>2. CASE ~cReceipts[cCall[c].answer].filed /\ cCall[c].tries + 1 < Client!GATEWAY_FETCH_ATTEMPTS
      <3> DEFINE to == [cCall[c] EXCEPT !.tries = @ + 1]
      <3>1. Client!Goes(c, to) /\ cCall'[c] = to
        BY <1>4, <1>13, <2>2 DEF Client!NotFound, Client!receiptBytes
      <3>2. to \in Calling /\ to.at = "receipt" /\ to.result = "open"
            /\ to.bytes = cCall[c].bytes /\ to.answer = cCall[c].answer
        BY <1>3, <2>0, <2>2 DEF Client!GATEWAY_FETCH_ATTEMPTS
      <3>3. Client!CallStands(c)' /\ Client!HandsBack(c)' /\ Client!HasCause(c)'
        BY <2>0, <3>1, <3>2 DEF Client!CallStands, Client!HandsBack, Client!HasCause
      <3> QED
        BY <1>1, <2>0, <3>1, <3>2, <3>3
    <2>3. CASE ~cReceipts[cCall[c].answer].filed /\ ~(cCall[c].tries + 1 < Client!GATEWAY_FETCH_ATTEMPTS)
      <3> DEFINE to == [cCall[c] EXCEPT !.at = "over", !.result = "RECEIPT_NOT_FOUND"]
      <3>1. Client!Goes(c, to) /\ cCall'[c] = to
        BY <1>4, <1>13, <2>3 DEF Client!NotFound, Client!receiptBytes
      <3>2. to \in Calling /\ to.at = "over" /\ to.result = "RECEIPT_NOT_FOUND"
            /\ to.bytes = cCall[c].bytes /\ to.answer = cCall[c].answer
        BY <1>3 DEF Client!Stages, Client!Results
      <3>3. Client!CallStands(c)' /\ Client!HandsBack(c)' /\ Client!HasCause(c)'
        BY <2>0, <2>3, <3>1, <3>2 DEF Client!CallStands, Client!HandsBack, Client!HasCause
      <3> QED
        BY <1>1, <2>0, <3>1, <3>2, <3>3
    <2> QED
      BY <1>13, <2>1, <2>2, <2>3 DEF Client!receiptBytes
  <1>14. ASSUME NEW c \in Calls, Client!Verify(c) PROVE Client!InductiveInv'
    <2>0. /\ cCall[c].at = "manifest" /\ cCall[c].result = "open" /\ cCall[c].bytes # "none"
          /\ cCall[c].answer # "none" /\ cCall[c].answer \in Calls /\ cReceipts[cCall[c].answer].signed
          /\ UNCHANGED <<cEpoch, cReceipts, cManifest, Client!evidenceVars>>
      BY <1>0, <1>14 DEF Client!Verify, Client!CallStands
    <2>1. CASE cManifest.state = "failed"
      <3>1. Client!Ends(c, "GATEWAY_ERROR") /\ "GATEWAY_ERROR" \in Client!Results
        BY <1>14, <2>1 DEF Client!Verify, Client!Results
      <3> QED
        BY <1>10, <2>0, <3>1
    <2> DEFINE e == cReceipts[cCall[c].answer].epoch
    <2>2. /\ e \in 0..MaxEpoch /\ cManifest.epoch \in 0..MaxEpoch
          /\ cCall[c].bytes \in {"whole", "altered"}
      BY <1>0, <1>3, <2>0 DEF Client!TypeOK
    <2>3. CASE cManifest.state = "read" /\ Client!verifyReceipted(c) # "none"
      <3>1. Client!Ends(c, Client!verifyReceipted(c))
        BY <1>14, <2>3 DEF Client!Verify
      <3>2. \/ Client!verifyReceipted(c) = "MANIFEST_KEY_NOT_PINNED" /\ (e \notin Pinned \/ e > cManifest.epoch)
            \/ Client!verifyReceipted(c) = "NONCE_MISMATCH" /\ cCall[c].answer # c
            \/ Client!verifyReceipted(c) = "RESPONSE_HASH_MISMATCH" /\ cCall[c].bytes # "whole"
        BY <2>2, <2>3 DEF Client!verifyReceipted, Client!resolveSigningKey, Client!adjudicateEpoch,
                          Client!verifyCompletionReceipt
      <3>3. Client!verifyReceipted(c) \in Client!Results
        BY <3>2 DEF Client!Results
      <3>4. cCall[c].answer = c => e = cReceipts[c].epoch
        OBVIOUS
      <3> QED
        BY <1>10, <2>0, <2>2, <2>3, <3>1, <3>2, <3>3, <3>4
    <2>4. CASE cManifest.state = "read" /\ Client!verifyReceipted(c) = "none"
      <3>1. /\ cCall[c].answer = c /\ cCall[c].bytes = "whole"
            /\ cReceipts[c].epoch \in Pinned \cap 0..cManifest.epoch
        BY <2>2, <2>4 DEF Client!verifyReceipted, Client!resolveSigningKey, Client!adjudicateEpoch,
                          Client!verifyCompletionReceipt
      <3>2. Client!Verified(c) /\ cReceipts[c].signed
        BY <2>0, <2>4, <3>1 DEF Client!Verified
      <3>3. CASE Mode = "strict"
        <4> DEFINE to == [cCall[c] EXCEPT !.at = "evidence", !.tries = 0]
        <4>1. Client!Goes(c, to) /\ cCall'[c] = to
          BY <1>4, <1>14, <2>4, <3>3 DEF Client!Verify, Client!Moves
        <4>2. to \in Calling /\ to.at = "evidence" /\ to.result = "open"
              /\ to.bytes = cCall[c].bytes /\ to.answer = cCall[c].answer
          BY <1>n, <1>s, <2>0
        <4>3. Client!CallStands(c)' /\ Client!HandsBack(c)' /\ Client!HasCause(c)'
          BY <2>0, <3>2, <3>3, <4>1, <4>2
             DEF Client!CallStands, Client!HandsBack, Client!HasCause, Client!Verified
        <4> QED
          BY <1>1, <2>0, <4>1, <4>2, <4>3
      <3>4. CASE Mode # "strict"
        <4>1. Client!Ends(c, "verified") /\ "verified" \in Client!Results
          BY <1>14, <2>4, <3>4 DEF Client!Verify, Client!Results
        <4> QED
          BY <1>10, <2>0, <3>2, <3>4, <4>1
      <3> QED
        BY <3>3, <3>4
    <2> QED
      BY <1>14, <2>1, <2>3, <2>4 DEF Client!Verify
  <1>15. ASSUME NEW c \in Calls, Client!Device(c) PROVE Client!InductiveInv'
    <2>0. /\ cCall[c].at = "device" /\ cCall[c].result = "open"
          /\ Client!ServedStands(c) /\ cReceipts[c].epoch \in Composite /\ cReceipts[c].signed
          /\ cCall[c].answer # "none" /\ cCall[c].bytes # "none"
          /\ UNCHANGED <<cEpoch, cReceipts, cManifest, Client!evidenceVars>>
      BY <1>0, <1>15 DEF Client!Device, Client!CallStands, Client!ServedStands, Client!Verified
    <2>1. CASE cEpoch \in Composite
      <3> DEFINE to == [cCall[c] EXCEPT !.at = "appraising", !.tries = 0]
      <3>1. Client!Goes(c, to) /\ cCall'[c] = to
        BY <1>4, <1>15, <2>1 DEF Client!Moves, Client!Device
      <3>2. to \in Calling /\ to.at = "appraising" /\ to.result = "open" /\ to.served = cCall[c].served
            /\ to.bytes = cCall[c].bytes /\ to.answer = cCall[c].answer
        BY <1>n, <1>s, <2>0
      <3>3. Client!CallStands(c)' /\ Client!HandsBack(c)' /\ Client!HasCause(c)'
        BY <2>0, <3>1, <3>2 DEF Client!CallStands, Client!HandsBack, Client!HasCause,
                                Client!ServedStands, Client!Verified
      <3> QED
        BY <1>1, <2>0, <3>1, <3>2, <3>3
    <2>2. CASE cEpoch \notin Composite /\ cCall[c].tries + 1 < Client!GATEWAY_FETCH_ATTEMPTS
      <3> DEFINE to == [cCall[c] EXCEPT !.tries = @ + 1]
      <3>1. Client!Goes(c, to) /\ cCall'[c] = to
        BY <1>4, <1>15, <2>2 DEF Client!NotFound, Client!Device
      <3>2. to \in Calling /\ to.at = "device" /\ to.result = "open" /\ to.served = cCall[c].served
            /\ to.bytes = cCall[c].bytes /\ to.answer = cCall[c].answer
        BY <1>3, <2>0, <2>2 DEF Client!GATEWAY_FETCH_ATTEMPTS
      <3>3. Client!CallStands(c)' /\ Client!HandsBack(c)' /\ Client!HasCause(c)'
        BY <2>0, <3>1, <3>2 DEF Client!CallStands, Client!HandsBack, Client!HasCause,
                                Client!ServedStands, Client!Verified
      <3> QED
        BY <1>1, <2>0, <3>1, <3>2, <3>3
    <2>3. CASE cEpoch \notin Composite /\ ~(cCall[c].tries + 1 < Client!GATEWAY_FETCH_ATTEMPTS)
      <3> DEFINE to == [cCall[c] EXCEPT !.at = "over", !.result = "EVIDENCE_NOT_FOUND"]
      <3>1. Client!Goes(c, to) /\ cCall'[c] = to
        BY <1>4, <1>15, <2>3 DEF Client!NotFound, Client!Device
      <3>2. to \in Calling /\ to.at = "over" /\ to.result = "EVIDENCE_NOT_FOUND"
            /\ to.bytes = cCall[c].bytes /\ to.answer = cCall[c].answer
        BY <1>3 DEF Client!Stages, Client!Results
      <3>3. cReceipts[c].epoch # cEpoch
        BY <2>0, <2>3
      <3>4. Client!CallStands(c)' /\ Client!HandsBack(c)' /\ Client!HasCause(c)'
        BY <2>0, <3>1, <3>2, <3>3 DEF Client!CallStands, Client!HandsBack, Client!HasCause,
                                      Client!ServedStands, Client!Verified
      <3> QED
        BY <1>1, <2>0, <3>1, <3>2, <3>4
    <2> QED
      BY <2>1, <2>2, <2>3
  <1>16. ASSUME NEW c \in Calls, Client!Appraise(c) PROVE Client!InductiveInv'
    <2>0. /\ cCall[c].at = "appraising" /\ Client!ServedStands(c) /\ cReceipts[c].signed
          /\ UNCHANGED <<cEpoch, cReceipts, cManifest, Client!evidenceVars>>
      BY <1>0, <1>16 DEF Client!Appraise, Client!CallStands, Client!ServedStands, Client!Verified
    <2>1. CASE cCall[c].served = cReceipts[c].document
      <3>1. Client!Ends(c, "verified") /\ "verified" \in Client!Results
        BY <1>16, <2>0, <2>1 DEF Client!Appraise, Client!Results, Client!verifyCompletionEvidence,
                                 Client!ServedStands
      <3> QED
        BY <1>10, <2>0, <2>1, <3>1 DEF Client!ServedStands
    <2>2. CASE cCall[c].served # cReceipts[c].document
      <3>1. Client!Ends(c, "EVIDENCE_DIGEST_MISMATCH") /\ "EVIDENCE_DIGEST_MISMATCH" \in Client!Results
        BY <1>16, <2>2 DEF Client!Appraise, Client!Results, Client!verifyCompletionEvidence
      <3> QED
        BY <1>10, <2>0, <2>2, <3>1 DEF Client!ServedStands
    <2> QED
      BY <2>1, <2>2
  <1> DEFINE Receipt == [signed : BOOLEAN, filed : BOOLEAN, epoch : 0..MaxEpoch,
                         document : Client!Documents \cup {Client!NoDocument}]
  <1>r. cReceipts \in [Calls -> Receipt] /\ cEpoch \in 0..MaxEpoch
    BY <1>0 DEF Client!TypeOK
  <1>e. ASSUME NEW c \in Calls, NEW document \in Client!Documents, Client!GotEvidence(c, document)
        PROVE  LET to == cCall'[c]
               IN  /\ Client!Goes(c, to) /\ to \in Calling
                   /\ to.at = IF cReceipts[c].epoch \in Composite THEN "device" ELSE "appraising"
                   /\ to.served = document /\ to.result = cCall[c].result
                   /\ to.bytes = cCall[c].bytes /\ to.answer = cCall[c].answer
    <2> DEFINE to == [cCall[c] EXCEPT !.served = document, !.tries = 0,
                            !.at = IF cReceipts[c].epoch \in Composite THEN "device" ELSE "appraising"]
    <2>1. Client!Goes(c, to) /\ cCall'[c] = to
      BY <1>4, <1>e DEF Client!GotEvidence
    <2>2. PICK at \in Client!Stages : at = IF cReceipts[c].epoch \in Composite THEN "device" ELSE "appraising"
      BY DEF Client!Stages
    <2>3. to = [cCall[c] EXCEPT !.served = document, !.tries = 0, !.at = at]
      BY <2>2
    <2>4. 0 \in 0..Client!GATEWAY_FETCH_ATTEMPTS - 1 /\ cCall[c] \in Calling
      BY <1>3 DEF Client!GATEWAY_FETCH_ATTEMPTS
    <2>5. LET q == [cCall[c] EXCEPT !.served = document, !.tries = 0, !.at = at]
          IN  /\ q \in Calling /\ q.at = at /\ q.result = cCall[c].result /\ q.served = document
              /\ q.bytes = cCall[c].bytes /\ q.answer = cCall[c].answer
      BY <2>4, CallServed
    <2> QED
      BY <2>1, <2>2, <2>3, <2>5
  <1>17. ASSUME NEW c \in Calls, Client!EvidenceKept(c) PROVE Client!InductiveInv'
    <2>0. /\ cCall[c].at = "evidence" /\ Client!Verified(c) /\ Mode = "strict" /\ cReceipts[c].signed
          /\ cCall[c].result = "open" /\ cCall[c].answer # "none" /\ cCall[c].bytes # "none"
          /\ UNCHANGED <<cEpoch, cReceipts, cManifest, Client!evidenceVars>>
      BY <1>0, <1>17 DEF Client!EvidenceKept, Client!CallStands, Client!Verified
    <2>1. Client!Kept(c) \in Client!Range(cCache) /\ Client!Kept(c).rd = c
      BY <1>17 DEF Client!EvidenceKept, Client!Looked, Client!Held, Client!Kept
    <2>2. DOMAIN cCache = 1..Len(cCache) /\ \A i \in DOMAIN cCache : cCache[i] \in Client!Documents
      BY <1>0 DEF Client!TypeOK
    <2>3. Client!Kept(c) \in Client!Documents
      BY <2>1, <2>2 DEF Client!Range
    <2>4. Client!Kept(c) = cReceipts[c].document \/ cReceipts[c].document \in cDropped
      BY <1>0, <2>0, <2>1 DEF Client!ReceiptStands, Client!OneEach, Client!Range
    <2>5. /\ Client!Goes(c, cCall'[c]) /\ cCall'[c] \in Calling
          /\ cCall'[c].at = IF cReceipts[c].epoch \in Composite THEN "device" ELSE "appraising"
          /\ cCall'[c].served = Client!Kept(c) /\ cCall'[c].result = "open"
          /\ cCall'[c].bytes = cCall[c].bytes /\ cCall'[c].answer = cCall[c].answer
      BY <1>17, <1>e, <2>0, <2>3 DEF Client!EvidenceKept
    <2>6. Client!CallStands(c)' /\ Client!HandsBack(c)' /\ Client!HasCause(c)'
      BY <2>0, <2>1, <2>4, <2>5 DEF Client!CallStands, Client!HandsBack, Client!HasCause,
                                    Client!ServedStands, Client!Verified
    <2> QED
      BY <1>1, <2>0, <2>5, <2>6
  <1>18. ASSUME NEW c \in Calls, Client!EvidenceFresh(c) PROVE Client!InductiveInv'
    <2>0. /\ cCall[c].at = "evidence" /\ Client!Verified(c) /\ Mode = "strict" /\ cReceipts[c].signed
          /\ cCall[c].result = "open" /\ cCall[c].answer # "none" /\ cCall[c].bytes # "none"
          /\ Client!Attested(c) /\ ~Client!Held(c) /\ Client!GotEvidence(c, Client!Freshest(c)) /\ UNCHANGED <<cEpoch, cReceipts, cManifest>>
      BY <1>0, <1>18 DEF Client!EvidenceFresh, Client!CallStands, Client!Verified, Client!Looked
    <2>1. /\ cCache' \in Seq(Client!Documents) /\ Len(cCache') <= MaxCached
          /\ Client!OneEach'
          /\ Client!Freshest(c) \in Client!Documents /\ Client!Freshest(c).rd = c
          /\ cSigned' \in [Calls -> Nat]
          /\ cDropped' \subseteq Client!Documents /\ cDropped \subseteq cDropped'
          /\ \A old \in Client!Range(cCache) : old.rd # c => old \in Client!Range(cCache') \cup cDropped'
      BY <1>0, <2>0, EvidenceRemembered
    <2>2. cReceipts[c].document \in cDropped
      BY <1>0, <2>0 DEF Client!ReceiptStands, Client!Held
    <2>3. /\ Client!Goes(c, cCall'[c]) /\ cCall'[c] \in Calling
          /\ cCall'[c].at = IF cReceipts[c].epoch \in Composite THEN "device" ELSE "appraising"
          /\ cCall'[c].served = Client!Freshest(c) /\ cCall'[c].result = "open"
          /\ cCall'[c].bytes = cCall[c].bytes /\ cCall'[c].answer = cCall[c].answer
      BY <1>e, <2>0, <2>1
    <2>4. cCall' \in [Calls -> Calling] /\ \A d \in Calls : d # c => cCall'[d] = cCall[d]
      BY <1>t, <2>3 DEF Client!Goes
    <2>5. Client!TypeOK'
      BY <1>0, <2>0, <2>1, <2>4 DEF Client!TypeOK
    <2>6. \A d \in Calls : Client!ReceiptStands(d)'
      BY <1>0, <2>0, <2>1, <2>2 DEF Client!ReceiptStands
    <2>7. SessionOnward
      BY <1>r, <2>0, <2>1 DEF SessionOnward
    <2>8. \A d \in Calls : d # c => Client!CallStands(d)' /\ Client!HandsBack(d)' /\ Client!HasCause(d)'
      BY <2>4, <2>5, <2>6, <2>7, CallSettled
    <2>9. Client!CallStands(c)' /\ Client!HandsBack(c)' /\ Client!HasCause(c)'
      BY <2>0, <2>1, <2>2, <2>3 DEF Client!CallStands, Client!HandsBack, Client!HasCause,
                                    Client!ServedStands, Client!Verified
    <2> QED
      BY <2>1, <2>5, <2>6, <2>8, <2>9 DEF Client!InductiveInv
  <1>19. ASSUME NEW c \in Calls, Client!Issue(c) PROVE Client!InductiveInv'
    <2>0. /\ ~cReceipts[c].signed /\ Client!Attested(c) /\ UNCHANGED <<cEpoch, cManifest, cCall>>
          /\ cReceipts' = [cReceipts EXCEPT ![c] = [signed |-> TRUE, filed |-> TRUE, epoch |-> cEpoch, document |-> Client!Freshest(c)]]
      BY <1>19 DEF Client!Issue
    <2>1. /\ cCache' \in Seq(Client!Documents) /\ Len(cCache') <= MaxCached
          /\ Client!OneEach'
          /\ Client!Freshest(c) \in Client!Documents /\ Client!Freshest(c).rd = c
          /\ Client!Freshest(c) \in Client!Range(cCache')
          /\ cSigned' \in [Calls -> Nat]
          /\ cDropped' \subseteq Client!Documents /\ cDropped \subseteq cDropped'
          /\ \A old \in Client!Range(cCache) : old.rd # c => old \in Client!Range(cCache') \cup cDropped'
      BY <1>0, <2>0, EvidenceRemembered
    <2>2. [signed |-> TRUE, filed |-> TRUE, epoch |-> cEpoch, document |-> Client!Freshest(c)] \in Receipt
      BY <1>r, <2>1
    <2>3. cReceipts' \in [Calls -> Receipt] /\ \A d \in Calls : d # c => cReceipts'[d] = cReceipts[d]
      BY <1>r, <2>0, <2>2
    <2>4. /\ cReceipts'[c].signed /\ cReceipts'[c].filed /\ cReceipts'[c].epoch = cEpoch
          /\ cReceipts'[c].document = Client!Freshest(c)
      BY <1>r, <2>0
    <2>5. Client!TypeOK'
      BY <1>0, <2>0, <2>1, <2>3 DEF Client!TypeOK
    <2>6. \A d \in Calls : Client!ReceiptStands(d)'
      BY <1>0, <1>r, <2>0, <2>1, <2>3, <2>4 DEF Client!ReceiptStands
    <2>7. SessionOnward
      BY <1>r, <2>0, <2>1, <2>3 DEF SessionOnward
    <2> QED
      BY <1>2, <2>0, <2>1, <2>5, <2>6, <2>7
  <1>20. ASSUME NEW c \in Calls, Client!AskManifest(c) PROVE Client!InductiveInv'
    <2>1. Client!TypeOK' /\ Client!OneEach' /\ \A d \in Calls : Client!ReceiptStands(d)'
      BY <1>0, <1>20 DEF Client!AskManifest, Client!TypeOK, Client!OneEach, Client!ReceiptStands
    <2>2. SessionOnward
      BY <1>20, <1>r DEF Client!AskManifest, SessionOnward
    <2> QED
      BY <1>2, <1>20, <2>1, <2>2 DEF Client!AskManifest
  <1>21. ASSUME Client!ManifestAnswers PROVE Client!InductiveInv'
    <2>1. Client!TypeOK' /\ Client!OneEach' /\ \A d \in Calls : Client!ReceiptStands(d)'
      BY <1>0, <1>21 DEF Client!ManifestAnswers, Client!TypeOK, Client!OneEach, Client!ReceiptStands
    <2>2. SessionOnward
      BY <1>21, <1>r DEF Client!ManifestAnswers, SessionOnward
    <2> QED
      BY <1>2, <1>21, <2>1, <2>2 DEF Client!ManifestAnswers
  <1>22. ASSUME Client!ManifestFails PROVE Client!InductiveInv'
    <2>1. /\ cCall' \in [Calls -> Calling]
          /\ \A d \in Calls : cCall'[d] = cCall[d] \/ cCall'[d] = [cCall[d] EXCEPT !.hit = TRUE]
      BY <1>3, <1>22 DEF Client!ManifestFails
    <2>2. Client!TypeOK' /\ Client!OneEach' /\ \A d \in Calls : Client!ReceiptStands(d)'
      BY <1>0, <1>22, <2>1 DEF Client!ManifestFails, Client!TypeOK, Client!OneEach, Client!ReceiptStands
    <2>3. SessionOnward
      BY <1>22, <1>r DEF Client!ManifestFails, SessionOnward
    <2> QED
      BY <1>2, <2>1, <2>2, <2>3
  <1>23. ASSUME NEW c \in Calls, Client!Retire(c) PROVE Client!InductiveInv'
    <2>1. /\ cReceipts' \in [Calls -> Receipt]
          /\ \A d \in Calls : cReceipts'[d] \in {cReceipts[d], [cReceipts[d] EXCEPT !.filed = FALSE]}
      BY <1>r, <1>23 DEF Client!Retire
    <2>2. Client!TypeOK' /\ Client!OneEach'
      BY <1>0, <1>23, <2>1 DEF Client!Retire, Client!TypeOK, Client!OneEach
    <2>3. \A d \in Calls : /\ cReceipts'[d].signed = cReceipts[d].signed /\ cReceipts'[d].epoch = cReceipts[d].epoch
                           /\ cReceipts'[d].document = cReceipts[d].document
                           /\ cReceipts'[d].filed => cReceipts[d].filed
      BY <1>r, <2>1
    <2>4. \A d \in Calls : Client!ReceiptStands(d)'
      BY <1>0, <1>23, <2>3 DEF Client!Retire, Client!ReceiptStands
    <2>5. SessionOnward
      BY <1>23, <1>r, <2>1 DEF Client!Retire, SessionOnward
    <2> QED
      BY <1>2, <1>23, <2>2, <2>4, <2>5 DEF Client!Retire
  <1>24. ASSUME Client!Rotate PROVE Client!InductiveInv'
    <2> DEFINE Broke(d) == [cCall[d] EXCEPT !.at = "over", !.result = "GATEWAY_ERROR", !.hit = TRUE]
    <2>0. /\ cEpoch' = cEpoch + 1 /\ cEpoch < MaxEpoch /\ MaxEpoch \in Nat
          /\ UNCHANGED <<cReceipts, cManifest, cSigned>>
          /\ cCache' = <<>> /\ cDropped' = cDropped \cup Client!Range(cCache)
      BY <1>24 DEF Client!Rotate, Client!Forgotten, Client!SessionAssumption
    <2>1. \A d \in Calls : Broke(d) \in Calling /\ Broke(d).at = "over" /\ Broke(d).result = "GATEWAY_ERROR"
                           /\ Broke(d).bytes = cCall[d].bytes /\ Broke(d).answer = cCall[d].answer
      BY <1>3 DEF Client!Stages, Client!Results
    <2>2. /\ cCall' \in [Calls -> Calling]
          /\ \A d \in Calls : cCall'[d] = IF cCall[d].at = "answering" THEN Broke(d) ELSE cCall[d]
      BY <1>3, <1>24, <2>1 DEF Client!Rotate
    <2>3. cEpoch' \in 0..MaxEpoch
      BY <1>r, <2>0
    <2>4. DOMAIN cCache = 1..Len(cCache) /\ \A i \in DOMAIN cCache : cCache[i] \in Client!Documents
      BY <1>0 DEF Client!TypeOK
    <2>5. cDropped' \subseteq Client!Documents
      BY <1>0, <2>0, <2>4 DEF Client!TypeOK, Client!Range
    <2>a. cCache' \in Seq(Client!Documents) /\ Len(cCache') <= MaxCached
      BY <2>0 DEF Client!SessionAssumption
    <2> HIDE DEF Broke
    <2>6. Client!TypeOK'
      BY <1>0, <2>0, <2>2, <2>3, <2>5, <2>a DEF Client!TypeOK
    <2>7. Client!OneEach'
      BY <2>0 DEF Client!OneEach
    <2>8. \A d \in Calls : Client!ReceiptStands(d)'
      BY <1>0, <1>r, <2>0 DEF Client!ReceiptStands
    <2>9. SessionOnward
      BY <1>r, <2>0 DEF SessionOnward
    <2>10. ASSUME NEW d \in Calls PROVE Client!CallStands(d)' /\ Client!HandsBack(d)' /\ Client!HasCause(d)'
      <3>1. CASE cCall[d].at = "answering"
        <4>1. /\ cCall'[d].at = "over" /\ cCall'[d].result = "GATEWAY_ERROR"
              /\ cCall'[d].bytes = "none" /\ cCall'[d].answer = cCall[d].answer
          BY <1>0, <2>1, <2>2, <3>1 DEF Client!CallStands
        <4> QED
          BY <1>0, <2>0, <4>1 DEF Client!CallStands, Client!HandsBack, Client!HasCause
      <3>2. CASE cCall[d].at # "answering"
        BY <2>2, <2>6, <2>8, <2>9, <3>2, CallSettled
      <3> QED
        BY <3>1, <3>2
    <2> QED
      BY <2>6, <2>7, <2>8, <2>10 DEF Client!InductiveInv
  <1>25. CASE UNCHANGED (Client!vars)
    BY <1>0, <1>25 DEF Client!vars, Client!InductiveInv, Client!TypeOK, Client!OneEach,
                       Client!ReceiptStands, Client!CallStands, Client!ServedStands, Client!Verified,
                       Client!HandsBack, Client!HasCause
  <1> QED
    BY <1>6, <1>7, <1>8, <1>9, <1>11, <1>12, <1>13, <1>14, <1>15, <1>16, <1>17, <1>18, <1>19, <1>20,
       <1>21, <1>22, <1>23, <1>24, <1>25 DEF Client!Next, Client!Step

(* Every behaviour of the composition is, in the variables of the client,   *)
(* one in which its invariant holds.                                        *)
LEMMA ClientInductive == Spec => []Client!InductiveInv
  <1>0. Client!SessionAssumption
    BY RequestsAssumption
  <1>1. Init => Client!InductiveInv
    BY <1>0, ClientInit DEF Init
  <1>2. Client!InductiveInv /\ [Next]_<<machine, lVars, hVars, cVars>> => Client!InductiveInv'
    <2> SUFFICES ASSUME Client!InductiveInv, [Next]_<<machine, lVars, hVars, cVars>>
                 PROVE  [Client!Next]_(Client!vars)
      BY <1>0, ClientStep
    <2> QED
      BY DEF Next, cVars, Client!vars, Client!evidenceVars
  <1> QED
    BY <1>1, <1>2, PTL DEF Spec

-----------------------------------------------------------------------------
(* gateway/src/access.ts, reloadIfNeeded: an mtime taken as loaded never    *)
(* speaks for a text newer than the one served.                             *)
THEOREM ServedInRequests == Spec => []WatchedIsServed
  <1>1. Reload!InductiveInv => WatchedIsServed
    BY DEF WatchedIsServed, Reload!InductiveInv
  <1> QED
    BY <1>1, ReloadInductive, PTL

(* gateway/src/access.ts: a request is admitted against a text no older     *)
(* than the file was when the load it ran or awaited was asked for.         *)
THEOREM AdmittedInRequests == Spec => []AdmittedOnFile
  <1>1. Reload!InductiveInv => AdmittedOnFile
    BY DEF AdmittedOnFile, Reload!InductiveInv
  <1> QED
    BY <1>1, ReloadInductive, PTL

(* gateway/src/server.ts awaits store.put before the answer: whoever read a *)
(* response to its end finds its receipt on file, and a client that left    *)
(* before the upstream's end is given none.                                 *)
THEOREM WholeInRequests == Spec => []ReceiptMeansWhole
  <1>1. HandlingProof!Spec => []HandlingProof!InductiveInv
    BY SameHandling, HandlingProof!CompletionInductive
  <1>2. HandlingProof!InductiveInv => ReceiptMeansWhole
    BY SameHandling DEF ReceiptMeansWhole, Handling!ReceiptMeansWhole, Handling!InductiveInv,
                        Handling!EndedFiled
  <1> QED
    BY <1>1, <1>2, IsHandling, PTL

(* gateway/src/server.ts, write(): what the socket took the digest took,    *)
(* and nothing else is signed for, whenever the client goes.                *)
THEOREM DigestInRequests == Spec => []DigestCoversTheBody
  <1>1. HandlingProof!Spec => []HandlingProof!InductiveInv
    BY SameHandling, HandlingProof!CompletionInductive
  <1>2. HandlingProof!InductiveInv => DigestCoversTheBody
    BY SameHandling DEF DigestCoversTheBody, Handling!DigestCoversTheBody, Handling!InductiveInv,
                        Handling!EndedFiled
  <1> QED
    BY <1>1, <1>2, IsHandling, PTL

(* gateway/src/server.ts reads the retained set at the guard and files at   *)
(* the end: what other completions fill in between costs fewer receipts     *)
(* than there are callers.                                                  *)
THEOREM OvershootInRequests == Spec => []OvershootIsInFlight
  <1>1. HandlingProof!Spec => []HandlingProof!OvershootIsInFlight
    BY SameHandling, HandlingProof!OvershootBounded
  <1>2. HandlingProof!OvershootIsInFlight => OvershootIsInFlight
    BY DEF OvershootIsInFlight, Handling!OvershootIsInFlight, HandlingProof!OvershootIsInFlight,
           Handling!Cardinality, HandlingProof!Cardinality
  <1> QED
    BY <1>1, <1>2, IsHandling, PTL

(* packages/sdk, verify.ts: what a call hands back as verified is its own   *)
(* answer, whole, under a key of an epoch the manifest declares and the     *)
(* policy pins, beside the document its receipt was signed over where the   *)
(* mode is strict, however the manifest, the evidence map and the gateway's *)
(* process changed between the fetches.                                     *)
THEOREM VerifiedInRequests == Spec => []HandsBackWhatItChecked
  <1>1. Client!InductiveInv => HandsBackWhatItChecked
    BY DEF HandsBackWhatItChecked, Client!HandsBackWhatItChecked, Client!InductiveInv
  <1> QED
    BY <1>1, ClientInductive, PTL

(* packages/sdk, verify.ts beside gateway/src/dstack.ts: an answer that     *)
(* came as sent is refused only because its receipt was retired, its        *)
(* evidence let go of, or the process replaced; a document signed over is   *)
(* never overwritten in the map, only dropped.                              *)
THEOREM RefusedInRequests == Spec => []RefusedForACause
  <1>1. Client!InductiveInv => RefusedForACause
    BY DEF RefusedForACause, Client!RefusedForACause, Client!InductiveInv
  <1> QED
    BY <1>1, ClientInductive, PTL
=============================================================================
