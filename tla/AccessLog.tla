----------------------------- MODULE AccessLog ------------------------------
(***************************************************************************)
(* The gateway's file access log (aclog.ts, openFileAccessLog).  One line  *)
(* per request, filed under the day the request arrived on, appended to a  *)
(* part the writer settles first; parts past the retention are swept by    *)
(* name.  The tasks of record() run one at a time, but every step of one   *)
(* is a call into the file system that another process can come between.   *)
(*                                                                         *)
(* A line is the set of requests whose bytes are on it, each with the      *)
(* credential it names: one when it was appended whole, more when an append*)
(* that stopped short left it without its newline and the next one went on *)
(* where it ended.                                                         *)
(***************************************************************************)
EXTENDS Integers, Sequences, SequencesExt, FiniteSetsExt, Functions

CONSTANTS Creds,        \* the credentials lines name
          LastDay,      \* bound: days the clock reaches
          Days,         \* how many days a part is kept
          MaxLines,     \* how many lines a part takes (maxBytesPerFile)
          Slots,        \* how many parts of a day the name patterns match
          MaxRecords,   \* bound: requests recorded
          MaxFaults,    \* bound: restarts, failed sweeps and short appends
          ShortAppends, \* whether an append can stop short
          None

VARIABLES parts,      \* the directory: what stands at each name
          clock,      \* the day it is
          current,    \* <<currentDay, currentPart>>, or None
          size,       \* sizeOfCurrent
          swept,      \* sweptDay, or None
          task,       \* the record() at the head of the queue, or None
          nextRid,
          acked,      \* ghost: requests whose record() resolved
          faults

logVars == <<parts, clock, current, size, swept, task, nextRid, acked, faults>>

Before(a, b) == a[1] < b[1] \/ (a[1] = b[1] /\ a[2] < b[2])

\* Names the writer makes past the ones a pattern of three digits matches are
\* names nothing else lists.
Matched(name) == name[2] < Slots
Listed == {name \in DOMAIN parts : Matched(name)}

Line(req) == [reqs |-> {req}, reads |-> TRUE, ended |-> TRUE]
Torn(req) == [reqs |-> {req}, reads |-> FALSE, ended |-> FALSE]

\* What an append leaves in a part: bytes put behind a line with no end run on
\* into it, and what that makes is nobody's record.
Appended(lines, line) ==
    IF lines # <<>> /\ ~Last(lines).ended
    THEN Append(Front(lines), [reqs |-> Last(lines).reqs \cup line.reqs, reads |-> FALSE, ended |-> line.ended])
    ELSE Append(lines, line)

ReqsIn(lines) == UNION {lines[i].reqs : i \in DOMAIN lines}
OnVolume == UNION {ReqsIn(parts[name]) : name \in DOMAIN parts}

LogInit ==
    /\ parts = << >>
    /\ clock = 0 /\ current = None /\ size = 0 /\ swept = None
    /\ task = None /\ nextRid = 0 /\ acked = {} /\ faults = 0

Fault == faults < MaxFaults /\ faults' = faults + 1

-----------------------------------------------------------------------------

Tick ==
    /\ clock < LastDay
    /\ clock' = clock + 1
    /\ UNCHANGED <<parts, current, size, swept, task, nextRid, acked, faults>>

\* record: a request that arrived today or, its response having been long, the
\* day before.
Record(cred, day) ==
    /\ task = None /\ nextRid < MaxRecords
    /\ day \in {clock, clock - 1} \ {-1}
    /\ task' = [at |-> "settle", req |-> [rid |-> nextRid, cred |-> cred, day |-> day]]
    /\ nextRid' = nextRid + 1
    /\ UNCHANGED <<parts, clock, current, size, swept, acked, faults>>

\* The part the writer takes up after a start: the newest listed, at its size.
Resumed ==
    IF current # None \/ Listed = {} THEN [name |-> current, size |-> size]
    ELSE LET newest == CHOOSE n \in Listed : \A m \in Listed : m = n \/ Before(m, n)
         IN  [name |-> newest, size |-> Len(parts[newest])]

\* The first part of a day with no file of its own.
FreePart(day) == Min({k \in 0..MaxRecords : <<day, k>> \notin DOMAIN parts})

\* rotateIfNeeded.
Settle ==
    /\ task # None /\ task.at = "settle"
    /\ LET r == Resumed
           newDay == r.name = None \/ r.name[1] # task.req.day
           full == r.size + 1 > MaxLines
       IN  /\ current' = IF newDay THEN <<task.req.day, FreePart(task.req.day)>>
                         ELSE IF full THEN <<task.req.day, r.name[2] + 1>> ELSE r.name
           /\ size' = IF newDay \/ full THEN 0 ELSE r.size
    /\ task' = [task EXCEPT !.at = "append"]
    /\ UNCHANGED <<parts, clock, swept, nextRid, acked, faults>>

At(name) == IF name \in DOMAIN parts THEN parts[name] ELSE <<>>
Put(name, lines) == [n \in DOMAIN parts \cup {name} |-> IF n = name THEN lines ELSE parts[n]]

AppendLine ==
    /\ task # None /\ task.at = "append"
    /\ parts' = Put(current, Appended(At(current), Line(task.req)))
    /\ size' = size + 1
    /\ task' = [task EXCEPT !.at = "sweep"]
    /\ UNCHANGED <<clock, current, swept, nextRid, acked, faults>>

\* The append stops partway, on a full volume or with the process: the bytes
\* that landed stay, and the caller is refused.
AppendShort ==
    /\ ShortAppends /\ Fault
    /\ task # None /\ task.at = "append"
    /\ parts' = Put(current, Appended(At(current), Torn(task.req)))
    /\ task' = None
    /\ UNCHANGED <<clock, current, size, swept, nextRid, acked>>

Aged(name) == name[1] < clock - Days

\* pruneOnNewDay, which resolves the record.
Sweep ==
    /\ task # None /\ task.at = "sweep"
    /\ parts' = IF swept = task.req.day THEN parts
                ELSE Restrict(parts, {n \in DOMAIN parts : ~(Matched(n) /\ Aged(n))})
    /\ swept' = task.req.day
    /\ acked' = acked \cup {task.req}
    /\ task' = None
    /\ UNCHANGED <<clock, current, size, nextRid, faults>>

\* A part that cannot be unlinked stops the sweep: some went before it, and the
\* record is refused with its line on the volume.
SweepFails ==
    /\ Fault
    /\ task # None /\ task.at = "sweep" /\ swept # task.req.day
    /\ \E gone \in SUBSET {n \in Listed : Aged(n)} :
        parts' = Restrict(parts, DOMAIN parts \ gone)
    /\ task' = None
    /\ UNCHANGED <<clock, current, size, swept, nextRid, acked>>

\* The gateway goes and comes back: everything but the volume is new.
Restart ==
    /\ Fault
    /\ current' = None /\ size' = 0 /\ swept' = None /\ task' = None
    /\ UNCHANGED <<parts, clock, nextRid, acked>>

LogNext ==
    \/ Tick \/ Settle \/ AppendLine \/ AppendShort \/ Sweep \/ SweepFails \/ Restart
    \/ \E cred \in Creds, day \in 0..LastDay : Record(cred, day)

=============================================================================
