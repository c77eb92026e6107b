----------------------------- MODULE Admission ------------------------------
(***************************************************************************)
(* The checks a proof-of-possession request meets, in the order            *)
(* CredentialStore.admit of gateway/src/access.ts makes them, over the     *)
(* state they keep: the peer buckets, the replay set and the credentials'  *)
(* buckets.  admit awaits nothing, so a request is one step; requests of   *)
(* any client arrive in any order, with the clock stepping between them.   *)
(***************************************************************************)
EXTENDS Integers, Sequences, SequencesExt, FiniteSets

CONSTANTS
    Peer,        \* the connection addresses
    Cred,        \* the credential ids the file holds
    Revoked,     \* those of them the operator has revoked
    Bearer,      \* those that are bearer records and carry no key
    AllowBearer, \* --allow-bearer, "on" or "off"
    Stranger,    \* an id the file does not hold
    Nonce,       \* the decoded nonces
    Tolerance,   \* --pop-tolerance, in seconds
    Window,      \* REPLAY_WINDOW_SECONDS
    MaxEntries,  \* REPLAY_MAX_ENTRIES
    MaxPeers,    \* MAX_TRACKED_PEERS
    PeerBurst,   \* the burst of a peer
    Burst,       \* the burst of a credential
    Unit,        \* the parts of one token
    Gain,        \* the parts a tick refills
    Second,      \* the ticks of one second
    MaxClock     \* bound: the instants of a run

(* The window outlasts any stamp the tolerance accepts twice, as the        *)
(* defaults of 120 and 900 seconds do; the command line does not hold an    *)
(* operator's --pop-tolerance to it.                                        *)
WindowAssumption ==
    /\ Tolerance \in Nat
    /\ Window \in Nat
    /\ {Second, PeerBurst, Burst, Unit, Gain, MaxPeers} \subseteq Nat \ {0}
    /\ Window >= 2 * Tolerance + 1
    /\ MaxEntries \in Nat \ {0}
    /\ MaxClock \in Nat
    /\ Revoked \subseteq Cred
    /\ Bearer \subseteq Cred
    /\ Stranger \notin Cred
    /\ IsFiniteSet(Cred)

(* A bucket per address, capped, and one per credential, which the file     *)
(* bounds.                                                                  *)
Peers == INSTANCE TokenBucket WITH Burst <- PeerBurst, MaxKeys <- MaxPeers
Own == INSTANCE TokenBucket WITH MaxKeys <- Cardinality(Cred)

VARIABLES
    clock,     \* nowMillis, in ticks
    peers,     \* peerBuckets
    seen,      \* the replay set, in insertion order
    own,       \* the credentials' buckets; the file bounds their number
    verdict,   \* the answer of the last request
    guess,     \* history: of a request that proves nothing, what is read of it
               \* ahead of its name, while it is the last step
    recent,    \* history: the stamps a pair passed the replay check under,
               \* forgotten once MaxEntries other pairs passed it
    later      \* history: how many did, up to MaxEntries

vars == <<clock, peers, seen, own, verdict, guess, recent, later>>

Pair == Cred \X Nonce
Stamps == 0..MaxClock \div Second

(* What a client signs and sends: the signature verifies when signed is     *)
(* "own", the key of the credential it names.                               *)
Request == [peer : Peer, cred : Cred \cup {Stranger}, ts : Stamps, nonce : Nonce,
            signed : {"own", "other"}, route : {"granted", "denied"}]

PairOf(r) == <<r.cred, r.nonce>>

(* A bearer request carries no stamp. *)
Unstamped == -1
Guesses == [peer : Peer, ts : Stamps \cup {Unstamped}]

Verdicts == {"none", "RATE_LIMITED", "AUTH_STALE", "AUTH_SIGNATURE",
             "AUTH_REVOKED", "NONCE_SEEN", "SCOPE_DENIED", "AUTH_SCHEME",
             "AUTH_UNKNOWN", "admitted"}

TypeOK ==
    /\ clock \in 0..MaxClock
    /\ Peers!Keys(peers) \subseteq Peer
    /\ Len(peers) <= MaxPeers
    /\ seen \in Seq([pair : Pair, expiry : Nat])
    /\ Len(seen) <= MaxEntries
    /\ \A i, j \in DOMAIN seen : seen[i].pair = seen[j].pair => i = j
    /\ Own!Keys(own) \subseteq Cred
    /\ verdict \in Verdicts
    /\ guess \in SUBSET Guesses
    /\ recent \in [Pair -> SUBSET Stamps]
    /\ later \in [Pair -> 0..MaxEntries]

Init ==
    /\ clock = 0
    /\ peers = <<>>
    /\ seen = <<>>
    /\ own = <<>>
    /\ verdict = "none"
    /\ guess = {}
    /\ recent = [p \in Pair |-> {}]
    /\ later = [p \in Pair |-> MaxEntries]

-----------------------------------------------------------------------------

(* The skew is weighed in whole seconds of this clock. *)
StaleStamp(ts) ==
    LET now == clock \div Second
    IN  now - ts > Tolerance \/ ts - now > Tolerance

Stale(r) == StaleStamp(r.ts)

(* A name the file does not hold, or holds as a bearer record, is verified  *)
(* against a key nobody has.                                                *)
Verifies(r) == r.cred \in Cred \ Bearer /\ r.signed = "own"

(* ReplaySet.see: a pair is seen while the entry it left has not expired. *)
Replayed(pair) == \E i \in DOMAIN seen : seen[i].pair = pair /\ seen[i].expiry > clock

(* Mutant: an entry lasts only as long as the tolerance. *)
Remembered_Briefly == Tolerance * Second
Remembered == Window * Second

(* The set without the expired entry of a pair that comes back. *)
Without(pair) ==
    IF \E i \in DOMAIN seen : seen[i].pair = pair
    THEN RemoveAt(seen, CHOOSE i \in DOMAIN seen : seen[i].pair = pair)
    ELSE seen

Grown(pair) == Append(Without(pair), [pair |-> pair, expiry |-> clock + Remembered])

(* The set is over its cap by one entry at most: the first one goes. *)
Recorded(pair) ==
    SubSeq(Grown(pair), IF Len(Grown(pair)) > MaxEntries THEN 2 ELSE 1, Len(Grown(pair)))

(* The peer's token is taken before anything of the header is read. *)
PeerAllows(peer) == Peers!Allowed(peers, peer, clock)
PeerCharged(peer) == peers' = Peers!Taken(peers, peer, clock)
Asked(r) ==
    /\ PeerCharged(r.peer)
    /\ guess' = IF Verifies(r) THEN {} ELSE {[peer |-> r.peer, ts |-> r.ts]}

(* A public route is admitted on the peer's token alone. *)
Public(peer) ==
    /\ PeerCharged(peer)
    /\ guess' = {}
    /\ verdict' = IF PeerAllows(peer) THEN "admitted" ELSE "RATE_LIMITED"
    /\ UNCHANGED <<clock, seen, own, recent, later>>

PeerRefuses(r) ==
    /\ ~PeerAllows(r.peer)
    /\ Asked(r)
    /\ verdict' = "RATE_LIMITED"
    /\ UNCHANGED <<clock, seen, own, recent, later>>

(* Mutant: locate answers with the code it logs, and nothing is collapsed. *)
Refusal_Uncollapsed(r) ==
    IF Stale(r) THEN {"AUTH_STALE"}
    ELSE IF r.cred \notin Cred THEN {"AUTH_UNKNOWN"}
    ELSE IF r.cred \in Bearer THEN {"AUTH_SCHEME"}
    ELSE IF ~Verifies(r) THEN {"AUTH_SIGNATURE"}
    ELSE IF r.cred \in Revoked THEN {"AUTH_REVOKED"}
    ELSE IF Replayed(PairOf(r)) THEN {"NONCE_SEEN"}
    ELSE {}

(* The refusals that leave the replay set and the credentials' buckets be,  *)
(* each behind the ones before it.                                          *)
Refusal(r) ==
    IF Stale(r) THEN {"AUTH_STALE"}
    ELSE IF ~Verifies(r) THEN {"AUTH_SIGNATURE"}
    ELSE IF r.cred \in Revoked THEN {"AUTH_REVOKED"}
    ELSE IF Replayed(PairOf(r)) THEN {"NONCE_SEEN"}
    ELSE {}

Refuses(r) ==
    /\ PeerAllows(r.peer)
    /\ Asked(r)
    /\ verdict' \in Refusal(r)
    /\ UNCHANGED <<clock, seen, own, recent, later>>

(* A fresh request leaves its nonce behind, whatever the scope and the      *)
(* rate say of it afterwards.                                               *)
Passes(r) ==
    /\ PeerAllows(r.peer)
    /\ Asked(r)
    /\ Refusal(r) = {}
    /\ seen' = Recorded(PairOf(r))
    /\ later' = [p \in Pair |-> IF p = PairOf(r) THEN 0
                               ELSE IF later[p] < MaxEntries THEN later[p] + 1
                               ELSE MaxEntries]
    /\ recent' = [p \in Pair |-> IF p = PairOf(r) THEN recent[p] \cup {r.ts}
                                ELSE IF later'[p] < MaxEntries THEN recent[p]
                                ELSE {}]
    /\ UNCHANGED clock

ScopeDenies(r) ==
    /\ Passes(r)
    /\ r.route = "denied"
    /\ verdict' = "SCOPE_DENIED"
    /\ UNCHANGED own

Charge(r) ==
    /\ Passes(r)
    /\ r.route = "granted"
    /\ verdict' = IF Own!Allowed(own, r.cred, clock) THEN "admitted" ELSE "RATE_LIMITED"
    /\ own' = Own!Taken(own, r.cred, clock)

(* A bearer request: the scan passes over revoked records, no stamp and no  *)
(* nonce is read, and the scope comes before the record's rate.             *)
BearerRefuses(peer, c, route) ==
    /\ PeerCharged(peer)
    /\ guess' = IF c \in Bearer THEN {} ELSE {[peer |-> peer, ts |-> Unstamped]}
    /\ verdict' \in
          IF ~PeerAllows(peer) THEN {"RATE_LIMITED"}
          ELSE IF AllowBearer = "off" THEN {"AUTH_SCHEME"}
          ELSE IF c \notin Bearer \ Revoked THEN {"AUTH_UNKNOWN"}
          ELSE IF route = "denied" THEN {"SCOPE_DENIED"}
          ELSE {}
    /\ UNCHANGED <<clock, seen, own, recent, later>>

BearerCharge(peer, c) ==
    /\ PeerAllows(peer)
    /\ AllowBearer = "on"
    /\ c \in Bearer \ Revoked
    /\ PeerCharged(peer)
    /\ guess' = {}
    /\ verdict' = IF Own!Allowed(own, c, clock) THEN "admitted" ELSE "RATE_LIMITED"
    /\ own' = Own!Taken(own, c, clock)
    /\ UNCHANGED <<clock, seen, recent, later>>

Step ==
    /\ clock' \in 0..MaxClock \ {clock}
    /\ guess' = {}
    /\ UNCHANGED <<peers, seen, own, verdict, recent, later>>

Next ==
    \/ Step
    \/ \E r \in Request :
          \/ PeerRefuses(r)
          \/ Refuses(r)
          \/ ScopeDenies(r)
          \/ Charge(r)
    \/ \E peer \in Peer :
          \/ Public(peer)
          \/ \E c \in Cred \cup {Stranger} :
                \/ \E route \in {"granted", "denied"} : BearerRefuses(peer, c, route)
                \/ BearerCharge(peer, c)

Spec == Init /\ [][Next]_vars

-----------------------------------------------------------------------------

(* A signature passes the replay check once, however the clock moves: until *)
(* MaxEntries other pairs have passed it, the stamp a pair passed under is  *)
(* stale or the pair's entry has not expired.                               *)
SpentOnce ==
    \A p \in Pair : \A ts \in recent[p] : StaleStamp(ts) \/ Replayed(p)

(* The answer owed to whoever proved nothing.  No name, key or nonce is in  *)
(* it: a peer, the stamp it wrote, and what this deployment allows.         *)
Told(g) ==
    IF ~PeerAllows(g.peer) THEN "RATE_LIMITED"
    ELSE IF g.ts = Unstamped THEN IF AllowBearer = "off" THEN "AUTH_SCHEME" ELSE "AUTH_UNKNOWN"
    ELSE IF StaleStamp(g.ts) THEN "AUTH_STALE"
    ELSE "AUTH_SIGNATURE"

(* What the file says about a credential is told to the party that proved   *)
(* its key, and a guess costs its holder nothing: a request that does not   *)
(* verify changes neither the replay set nor a credential's bucket, and is  *)
(* answered alike whether the name it gives is held, revoked, replayed, of  *)
(* a bearer record or unknown.                                              *)
GuessesTouchNothing ==
    [][\A g \in guess' : seen' = seen /\ own' = own /\ verdict' = Told(g)]_vars

-----------------------------------------------------------------------------
(* Why a pair is spent once: the inductive invariant the proof rests on.    *)

(* A pair whose stamps still count has its entry in the set, which lasts    *)
(* until every one of them is stale, and no more entries behind it than     *)
(* pairs passed after it.                                                   *)
EntryOutlastsItsStamps ==
    /\ \A p \in Pair : recent[p] # {} => /\ later[p] < MaxEntries
                                         /\ \E i \in DOMAIN seen : seen[i].pair = p
    /\ \A i \in DOMAIN seen :
          /\ Len(seen) - i <= later[seen[i].pair]
          /\ \A ts \in recent[seen[i].pair] : seen[i].expiry >= (ts + Tolerance + 1) * Second

(* The buckets, whatever they hold. *)
BucketsAreBuckets ==
    /\ peers \in Seq([key : Peer, tokens : Int, updated : Int])
    /\ own \in Seq([key : Cred, tokens : Int, updated : Int])

InductiveInv ==
    /\ TypeOK
    /\ BucketsAreBuckets
    /\ EntryOutlastsItsStamps

=============================================================================
