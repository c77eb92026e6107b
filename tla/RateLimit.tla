----------------------------- MODULE RateLimit ------------------------------
(***************************************************************************)
(* One TokenBucket under any sequence of presentations and any clock: what *)
(* a key is granted, what a refusal promises, and which keys the cap gives *)
(* up (gateway/src/access.ts, TokenBucket; the clock is Date.now, which an *)
(* operator or a time daemon may step back).                               *)
(***************************************************************************)
EXTENDS TokenBucket, FiniteSets

CONSTANTS
    Key,        \* what is counted: credentials, addresses or the deployment
    MaxClock    \* bound: the instants of a run

(* There are as many keys as the map holds, or its cap would never bite.    *)
LimitAssumption ==
    /\ RateAssumption
    /\ MaxClock \in Nat
    /\ IsFiniteSet(Key)
    /\ MaxKeys <= Cardinality(Key)

VARIABLES
    clock,      \* nowMillis
    buckets,    \* the map, in the order keys were last presented
    granted,    \* history: the requests a key was granted since it was new
    opened,     \* history: when its bucket was opened
    others,     \* history: the keys presented since it was
    promised    \* history: when the last refusal was told, and the instant it
                \* said to come back at, 0 for none

vars == <<clock, buckets, granted, opened, others, promised>>

(* What a presentation leaves: a token of the burst was taken, or less than *)
(* one was there.                                                           *)
Rest == 0..Most((Burst - 1) * Unit, Unit - 1)

TypeOK ==
    /\ clock \in 0..MaxClock
    /\ buckets \in Seq([key : Key, tokens : Rest, updated : 0..MaxClock])
    /\ Len(buckets) <= MaxKeys
    /\ \A i, j \in DOMAIN buckets : buckets[i].key = buckets[j].key => i = j
    /\ granted \in [Key -> Nat]
    /\ opened \in [Key -> 0..MaxClock]
    /\ others \in [Key -> SUBSET Key]
    /\ promised \in [Key -> [told : 0..MaxClock, due : Nat]]

NoPromise == [told |-> 0, due |-> 0]

Init ==
    /\ clock = 0
    /\ buckets = <<>>
    /\ granted = [k \in Key |-> 0]
    /\ opened = [k \in Key |-> 0]
    /\ others = [k \in Key |-> Key]
    /\ promised = [k \in Key |-> NoPromise]

-----------------------------------------------------------------------------

(* The clock is read anew at each request and may have been set back. *)
Move ==
    /\ clock' \in 0..MaxClock \ {clock}
    /\ UNCHANGED <<buckets, granted, opened, others, promised>>

Presented(k) ==
    /\ buckets' = Taken(buckets, k, clock)
    /\ others' = [q \in Key |-> IF q = k THEN {} ELSE others[q] \cup {k}]
    /\ UNCHANGED clock

(* A key the map does not hold is granted a request out of a full bucket. *)
Open(k) ==
    /\ k \notin Keys(buckets)
    /\ Presented(k)
    /\ granted' = [granted EXCEPT ![k] = 1]
    /\ opened' = [opened EXCEPT ![k] = clock]
    /\ promised' = [promised EXCEPT ![k] = NoPromise]

Grant(k) ==
    /\ k \in Keys(buckets)
    /\ Allowed(buckets, k, clock)
    /\ granted[k] < MaxClock * Gain + Burst * Unit
    /\ Presented(k)
    /\ granted' = [granted EXCEPT ![k] = @ + 1]
    /\ promised' = [promised EXCEPT ![k] = NoPromise]
    /\ UNCHANGED opened

Refuse(k) ==
    /\ ~Allowed(buckets, k, clock)
    /\ Presented(k)
    /\ promised' = [promised EXCEPT
          ![k] = [told |-> clock,
                  due |-> clock + RetryAfter(BucketOf(buckets, k), clock) * Second]]
    /\ UNCHANGED <<granted, opened>>

Next ==
    \/ Move
    \/ \E k \in Key : Open(k) \/ Grant(k) \/ Refuse(k)

Spec == Init /\ [][Next]_vars

-----------------------------------------------------------------------------

(* However the clock moves, what a key was granted since its bucket opened  *)
(* and what the bucket still holds never exceed the burst and one refill of *)
(* the time between its opening and the latest instant it has counted; and  *)
(* a step back takes no token nobody spent: a bucket is refused only when   *)
(* the requests granted account for what it is missing, and never in debt.  *)
GrantsAreEarned ==
    \A i \in DOMAIN buckets :
        LET b == buckets[i]
            spent == granted[b.key] * Unit
        IN  /\ spent + b.tokens <= Burst * Unit + Gain * (b.updated - opened[b.key])
            /\ b.tokens >= 0
            /\ spent + b.tokens >= Burst * Unit

Waited(k) == promised[k].due > 0 /\ promised[k].due <= clock

(* A client that waits the seconds its refusal states is not refused again  *)
(* by the same bucket, when the bucket had counted no later instant than    *)
(* the one the refusal was told at.                                         *)
HintSuffices ==
    \A k \in Keys(buckets) :
        Waited(k) /\ BucketOf(buckets, k).updated <= promised[k].told
        => Allowed(buckets, k, clock)

(* The cap gives up quiet keys: one presented after which fewer than        *)
(* MaxKeys other keys came keeps its bucket.                                *)
BusyKeyKept ==
    \A k \in Key : Cardinality(others[k]) < MaxKeys => k \in Keys(buckets)

-----------------------------------------------------------------------------
(* Why the three invariants hold: the inductive invariant the proofs rest on. *)

(* What a bucket holds and what it earns up to the instant its refusal named *)
(* is a token.                                                              *)
PromiseIsCovered ==
    \A i \in DOMAIN buckets :
        LET b == buckets[i]
            p == promised[b.key]
        IN  p.due > 0 /\ b.updated <= p.told
            => p.told <= p.due /\ b.tokens + Gain * (p.due - b.updated) >= Unit

(* The keys behind a key in the map came after it, and a key the map gave   *)
(* up had as many come after it as the map holds.                           *)
LatestAtTheBack ==
    /\ \A i, j \in DOMAIN buckets : i < j => buckets[j].key \in others[buckets[i].key]
    /\ \A k \in Key \ Keys(buckets) : MaxKeys <= Cardinality(others[k])

InductiveInv == TypeOK /\ GrantsAreEarned /\ PromiseIsCovered /\ LatestAtTheBack

=============================================================================
