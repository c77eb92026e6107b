---------------------------- MODULE TokenBucket -----------------------------
(***************************************************************************)
(* The request counters of the gateway (class TokenBucket in               *)
(* gateway/src/access.ts): one bucket per key, held in the order keys were *)
(* last presented and given up oldest first past MaxKeys.                  *)
(*                                                                         *)
(* A token is Unit parts, the fraction one millisecond of refill resolves, *)
(* so a rate of Gain parts per tick is exact where the code has a double.  *)
(***************************************************************************)
EXTENDS Integers, Sequences, SequencesExt

CONSTANTS
    Burst,      \* the tokens a full bucket holds
    Unit,       \* the parts of one token
    Gain,       \* the parts a tick of the clock refills
    Second,     \* the ticks of one second
    MaxKeys     \* the keys the map holds

RateAssumption ==
    /\ Burst \in Nat \ {0}
    /\ Unit \in Nat \ {0}
    /\ Gain \in Nat \ {0}
    /\ Second \in Nat \ {0}
    /\ MaxKeys \in Nat \ {0}

Bucket(key, tokens, updated) == [key |-> key, tokens |-> tokens, updated |-> updated]

Keys(buckets) == {buckets[i].key : i \in DOMAIN buckets}
Position(buckets, k) == CHOOSE i \in DOMAIN buckets : buckets[i].key = k
BucketOf(buckets, k) == buckets[Position(buckets, k)]
Others(buckets, k) == RemoveAt(buckets, Position(buckets, k))

Least(a, b) == IF a <= b THEN a ELSE b
Most(a, b) == IF a >= b THEN a ELSE b

(* Mutant: a quiet bucket goes on filling. *)
Refilled_Uncapped(b, now) == b.tokens + Most(0, (now - b.updated) * Gain)

(* Mutant: a clock behind the base earns a debt. *)
Refilled_Owes(b, now) == Least(Burst * Unit, b.tokens + (now - b.updated) * Gain)

(* What a bucket holds at an instant: a clock behind its base earns nothing. *)
Refilled(b, now) == Least(Burst * Unit, b.tokens + Most(0, (now - b.updated) * Gain))

Allowed(buckets, k, now) ==
    k \in Keys(buckets) => Refilled(BucketOf(buckets, k), now) >= Unit

(* Mutant: the base follows the clock back. *)
Base_Follows(b, now) == now

(* The base a bucket counts from moves forward and never back. *)
Base(b, now) == Most(b.updated, now)

(* Mutant: the newest key is given up. *)
Trimmed_Newest(buckets) == SubSeq(buckets, 1, Least(MaxKeys, Len(buckets)))

(* The map after a key is presented: a key it does not hold opens a bucket  *)
(* at full burst, and the map is trimmed back to its cap; a key it holds    *)
(* moves to the back, one token poorer if it had one.                       *)
Trimmed(buckets) ==
    SubSeq(buckets, Most(1, Len(buckets) - MaxKeys + 1), Len(buckets))

Taken(buckets, k, now) ==
    IF k \notin Keys(buckets)
    THEN Trimmed(Append(buckets, Bucket(k, (Burst - 1) * Unit, now)))
    ELSE LET b == BucketOf(buckets, k)
             held == Refilled(b, now)
         IN  Append(Others(buckets, k),
                    Bucket(k, IF held < Unit THEN held ELSE held - Unit, Base(b, now)))

(* Mutant: the wait is rounded down. *)
RetryAfter_Floor(b, now) ==
    Most(1, (Unit - Refilled(b, now)) \div (Gain * Second))

(* The whole seconds a refusal tells the client to wait. *)
RetryAfter(b, now) ==
    LET missing == Unit - Refilled(b, now)
        perSecond == Gain * Second
    IN  Most(1, (missing + perSecond - 1) \div perSecond)

=============================================================================
