----------------------------- MODULE TimeSource -----------------------------
(***************************************************************************)
(* openTimeSourceState (time-source-state.ts): stamps taken from a         *)
(* document another process writes, read on a timer and advanced between   *)
(* two readings on the monotonic clock.  The clock counts PerSecond units  *)
(* a second, so a reading can settle between two whole seconds, and a slow *)
(* one behind the next.  A document that states no bound states `Unknown`. *)
(***************************************************************************)
EXTENDS Integers, FiniteSets

CONSTANTS Instants,   \* what a document can state as measuredAtSeconds
          Bounds,     \* what it can state as uncertaintySeconds
          PerSecond,  \* units of the monotonic clock in a second
          MaxRefresh, \* MAX_TIME_SOURCE_STATE_REFRESH_SECONDS
          Band,       \* TIME_SOURCE_STATE_PLAUSIBILITY_BAND_SECONDS
          Wall,       \* the host's own claim at the start
          Readers,    \* readings in flight at once
          LastUnit    \* bound: the last unit of the clock

SourceAssumption ==
    /\ Instants \subseteq Nat
    /\ Bounds \subseteq Nat
    /\ PerSecond \in Nat \ {0}
    /\ MaxRefresh \in Nat \ {0}

VARIABLES doc,      \* the document on file, or Unreadable
          mono,     \* performance.now()
          cadence,  \* refreshSeconds, fixed at the start; 0 before it
          state,    \* the reading in force
          issued,   \* the highest instant answered
          reading,  \* what each reading in flight read, or Idle
          fired,    \* the clock when the timer last fired
          stamp,    \* the last answer: its instant and the clock when given
          reach,    \* ghost: the most a stated instant was ahead of the clock
          fresh     \* ghost: the clock when a new instant was last adopted

vars == <<doc, mono, cadence, state, issued, reading, fired, stamp, reach, fresh>>

Unknown == -1

Documents == [at : Instants, bound : Bounds \cup {Unknown}]

\* A file that is missing, torn, or refused by parseTimeSourceState.
Unreadable == [at |-> -1, bound |-> -1]
Idle == [at |-> -2, bound |-> -2]

Greater(a, b) == IF a > b THEN a ELSE b
Lesser(a, b) == IF a < b THEN a ELSE b

refreshSecondsFor(bound) ==
    IF bound = Unknown THEN MaxRefresh ELSE Lesser(MaxRefresh, Greater(1, bound \div 2))

stalenessCeilingSeconds(bound, refresh) == (IF bound = Unknown THEN 0 ELSE bound) + 2 * refresh

heldAt(s) == s.base + (mono - s.baseMono) \div PerSecond

Reading(d, base, refresh) ==
    [declared |-> d.at, base |-> base, baseMono |-> mono, ceiling |-> stalenessCeilingSeconds(d.bound, refresh)]

Init ==
    /\ doc \in Documents \cup {Unreadable}
    /\ mono = 0 /\ cadence = 0 /\ issued = 0 /\ fired = 0
    /\ state = [declared |-> 0, base |-> 0, baseMono |-> 0, ceiling |-> 0]
    /\ reading = [r \in Readers |-> Idle]
    /\ stamp = [at |-> 0, mono |-> 0]
    /\ reach = 0 /\ fresh = 0

\* The reading a start is refused without.
Start ==
    /\ cadence = 0
    /\ doc # Unreadable
    /\ doc.at - Wall <= Band /\ Wall - doc.at <= Band
    /\ cadence' = refreshSecondsFor(doc.bound)
    /\ state' = Reading(doc, doc.at, cadence')
    /\ issued' = doc.at
    /\ fired' = mono
    /\ stamp' = [at |-> doc.at, mono |-> mono]
    /\ reach' = doc.at * PerSecond - mono
    /\ fresh' = mono
    /\ UNCHANGED <<doc, mono, reading>>

Write ==
    /\ doc' \in Documents \cup {Unreadable}
    /\ UNCHANGED <<mono, cadence, state, issued, reading, fired, stamp, reach, fresh>>

\* The timer fires on its cadence and a reading of the file is under way.
TimerDue == cadence > 0 /\ mono - fired >= cadence * PerSecond

Fire(r) ==
    /\ TimerDue
    /\ reading[r] = Idle
    /\ fired' = mono
    /\ reading' = [reading EXCEPT ![r] = doc]
    /\ UNCHANGED <<doc, mono, cadence, state, issued, stamp, reach, fresh>>

\* Mutant: the instant moves and the clock reading it started from does not.
Adopted_Twice(d) ==
    [Reading(d, Greater(d.at, heldAt(state)), cadence) EXCEPT !.baseMono = state.baseMono]

\* The reading in force once document d is adopted.
Adopted(d) == Reading(d, Greater(d.at, heldAt(state)), cadence)

\* refresh, behind its await; one that could not be read leaves all as it was.
Settle(r) ==
    /\ reading[r] # Idle
    /\ reading' = [reading EXCEPT ![r] = Idle]
    /\ IF reading[r] = Unreadable THEN UNCHANGED <<state, reach, fresh>>
       ELSE /\ state' = Adopted(reading[r])
            /\ reach' = Greater(reach, reading[r].at * PerSecond - mono)
            /\ fresh' = IF reading[r].at = state.declared THEN fresh ELSE mono
    /\ UNCHANGED <<doc, mono, cadence, issued, fired, stamp>>

\* source.nowSeconds
Held == Greater(heldAt(state), issued)

Stamp ==
    /\ cadence > 0
    /\ Held - state.declared <= state.ceiling
    /\ issued' = Held
    /\ stamp' = [at |-> Held, mono |-> mono]
    /\ UNCHANGED <<doc, mono, cadence, state, reading, fired, reach, fresh>>

\* The timer is not missed by more than the readers under way allow.
Pass ==
    /\ mono < LastUnit
    /\ TimerDue => \A r \in Readers : reading[r] # Idle
    /\ mono' = mono + 1
    /\ UNCHANGED <<doc, cadence, state, issued, reading, fired, stamp, reach, fresh>>

Next ==
    \/ Start \/ Write \/ Stamp \/ Pass
    \/ \E r \in Readers : Fire(r) \/ Settle(r)

Spec == Init /\ [][Next]_vars

-----------------------------------------------------------------------------
(***************************************************************************)
(* A stamp never falls, and is never ahead of the furthest a document      *)
(* adopted so far, advanced on the monotonic clock, would have it: neither *)
(* a document adopted out of order nor one read again counts time twice.   *)
(***************************************************************************)
EarnsItsStamp ==
    /\ stamp.at <= stamp'.at
    /\ stamp'.at * PerSecond <= reach' + stamp'.mono

(***************************************************************************)
(* time-source-state.ts:36: "a state that goes stale mid-run is a refusal  *)
(* to stamp", and its ceiling is the bound and the intervals the reader    *)
(* cannot see inside (:244).  A document unchanged for longer than that,   *)
(* and the second a stamp is cut to, signs nothing.                        *)
(***************************************************************************)
StaleStopsStamping ==
    [][stamp'.mono # stamp.mono => stamp'.mono - fresh' <= (state'.ceiling + 1) * PerSecond]_vars

-----------------------------------------------------------------------------
(* Why a stamp is earned: the inductive invariant the proof rests on. *)

TypeOK ==
    /\ doc \in Documents \cup {Unreadable}
    /\ mono \in Nat
    /\ cadence \in Nat
    /\ state \in [declared : Nat, base : Int, baseMono : Nat, ceiling : Nat]
    /\ issued \in Int
    /\ reading \in [Readers -> Documents \cup {Unreadable, Idle}]
    /\ stamp \in [at : Int, mono : Nat]
    /\ reach \in Int

\* The reading in force reaches no further than the documents adopted so far.
HeldIsEarned ==
    /\ state.baseMono <= mono
    /\ state.base * PerSecond <= reach + state.baseMono

\* The last answer is the highest one, and was within that reach when given.
IssuedIsEarned ==
    /\ stamp.at = issued
    /\ cadence = 0 => issued = 0
    /\ stamp.mono <= mono
    /\ stamp.at * PerSecond <= reach + stamp.mono

InductiveInv == TypeOK /\ HeldIsEarned /\ IssuedIsEarned

=============================================================================
