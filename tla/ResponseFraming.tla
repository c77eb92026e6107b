-------------------------- MODULE ResponseFraming --------------------------
(* A streamed completion on its way through the gateway to its receipt          *)
(* (packages/receipt/src/response-items.ts, gateway/src/item-stamps.ts,         *)
(* gateway/src/marking.ts, and the write loop of gateway/src/server.ts).        *)
(*                                                                              *)
(* The upstream's bytes arrive cut wherever the transport likes.  Three walks   *)
(* read them: MarkedStreamTail holds back what may be the start of the closing  *)
(* sentinel, so that the gateway's mark goes out ahead of it; StreamedItemStamps *)
(* dates every item at the write that finished its line; ResponseItemWalk frames *)
(* the whole response, which is what a reader of the receipt runs again.        *)
(*                                                                              *)
(* Bytes are tokens, as coarse as the walks allow: the field name and the       *)
(* sentinel are two tokens each, so that a cut can fall inside either.          *)
EXTENDS Naturals, FiniteSets, SequencesExt

CONSTANTS
    D1, D2,     \* the two halves of "data:"
    E1, E2,     \* the two halves of "[DONE]"
    SP, LF, CR,
    X,          \* any other text
    M,          \* the completion chunk that carries the marking member
    Chunks,     \* the pieces an upstream may write
    MaxChunks,
    Times       \* the instants the stamps' source may read

VARIABLES
    marks,      \* whether this gateway marks
    body,       \* what the upstream has sent
    chunks,     \* how many writes it took
    tail,       \* MarkedStreamTail: held, and the window over what it wrote
    pieces,     \* what finishing() still owes the client
    sent,       \* what went to the socket
    walk,       \* the authoritative ResponseItemDigestFramer
    stamps,     \* StreamedItemStamps: carry, stamped, highest
    list,       \* the item stamps of the payload
    iat,
    stage

vars == <<marks, body, chunks, tail, pieces, sent, walk, stamps, list, iat, stage>>

Field == <<D1, D2>>
Done == <<E1, E2>>
FrameEnd == <<LF, LF>>
MarkLine == Field \o <<SP, M>>
Endings == {LF, CR}

From(s, i) == SubSeq(s, i, Len(s))
EndsWith(s, t) == Len(t) <= Len(s) /\ From(s, Len(s) - Len(t) + 1) = t

-----------------------------------------------------------------------------
(* response-items.ts *)

Fresh == [buffer |-> <<>>, items |-> <<>>]

\* The first line ending of buf, with the carriage return and the line feed
\* behind it read as one; 0 when no line of it has ended.
EndingAt(buf) == IF \E i \in 1..Len(buf) : buf[i] \in Endings
                 THEN CHOOSE i \in 1..Len(buf) : buf[i] \in Endings /\ \A j \in 1..(i - 1) : buf[j] \notin Endings
                 ELSE 0

Width(buf, at) == IF buf[at] = CR /\ at < Len(buf) /\ buf[at + 1] = LF THEN 2 ELSE 1

\* Every line of buf that ended, and what is left behind the last ending.
RECURSIVE Drained(_)
Drained(buf) ==
    LET at == EndingAt(buf)
        after == Drained(From(buf, at + Width(buf, at)))
    IN  IF at = 0 THEN [lines |-> <<>>, rest |-> buf]
        ELSE [lines |-> <<SubSeq(buf, 1, at - 1)>> \o after.lines, rest |-> after.rest]

\* What a line states: its payload, unless it is no data line or is the sentinel.
Value(line) == IF Len(line) > Len(Field) /\ line[Len(Field) + 1] = SP
               THEN From(line, Len(Field) + 2) ELSE From(line, Len(Field) + 1)
IsItem(line) == IsPrefix(Field, line) /\ Value(line) # Done

takeLine(items, line) == IF IsItem(line) THEN Append(items, Value(line)) ELSE items

feed(w, chunk) ==
    LET d == Drained(w.buffer \o chunk)
    IN  [buffer |-> d.rest, items |-> FoldLeft(takeLine, w.items, d.lines)]

finish(w) == takeLine(w.items, w.buffer)

\* What a reader who holds the whole response makes of it.
frameResponse(bytes) == finish(feed(Fresh, bytes))

-----------------------------------------------------------------------------
(* item-stamps.ts *)

pastLastLineEnding(bytes) ==
    IF \E i \in 1..Len(bytes) : bytes[i] \in Endings
    THEN CHOOSE i \in 1..Len(bytes) : bytes[i] \in Endings /\ \A j \in (i + 1)..Len(bytes) : bytes[j] \notin Endings
    ELSE 0

\* No stamp below the one before it, whatever the source reads.
stampFor(s, read) == IF read > s.highest THEN read ELSE s.highest

\* The items of one write are dated in one turn of the process, so that the readings
\* taken for them, one an item, are one here.
Dated(s, ds, read) ==
    [s EXCEPT !.stamped = @ \o [i \in 1..Len(ds) |-> [t |-> stampFor(s, read), d |-> ds[i]]],
              !.highest = IF ds = <<>> THEN @ ELSE stampFor(s, read)]

\* Mutant: a write that ends no line is not carried to the next.
written_Dropped(s, chunk, read) ==
    LET combined == s.carry \o chunk
        closed == pastLastLineEnding(combined)
        digests == IF closed = 0 THEN <<>> ELSE frameResponse(SubSeq(combined, 1, closed))
    IN  [Dated(s, digests, read) EXCEPT !.carry = IF closed = 0 THEN <<>> ELSE From(combined, closed + 1)]

written(s, chunk, read) ==
    LET combined == s.carry \o chunk
        closed == pastLastLineEnding(combined)
        digests == IF closed = 0 THEN <<>> ELSE frameResponse(SubSeq(combined, 1, closed))
    IN  [Dated(s, digests, read) EXCEPT !.carry = From(combined, closed + 1)]

\* The items the writes dated have to be the ones the whole response holds.
Agrees(s, digests) ==
    /\ Len(s.stamped) <= Len(digests)
    /\ \A i \in 1..Len(s.stamped) : s.stamped[i].d = digests[i]

boundStampsAt(framing, at) ==
    [i \in 1..Len(framing) |-> [framing[i] EXCEPT !.t = IF @ < at THEN @ ELSE at]]

-----------------------------------------------------------------------------
(* marking.ts *)

\* Where the sentinel starts when bytes end with it and with nothing but line
\* endings behind it, in either spelling; 0 otherwise.
sentinelStart(bytes) ==
    LET textEnd == CHOOSE n \in 0..Len(bytes) :
                       /\ \A i \in (n + 1)..Len(bytes) : bytes[i] \in Endings
                       /\ n > 0 => bytes[n] \notin Endings
        text == SubSeq(bytes, 1, textEnd)
    IN  CASE EndsWith(text, Field \o <<SP>> \o Done) -> textEnd - 4
          [] EndsWith(text, Field \o Done) -> textEnd - 3
          [] OTHER -> 0

SentinelFrame == Field \o <<SP>> \o Done

\* The longest end of bytes that could still become the sentinel.
unsettledSuffix(bytes) ==
    CHOOSE n \in 0..(Len(SentinelFrame) - 1) :
        /\ EndsWith(bytes, SubSeq(SentinelFrame, 1, n))
        /\ \A k \in (n + 1)..(Len(SentinelFrame) - 1) : ~EndsWith(bytes, SubSeq(SentinelFrame, 1, k))

\* Three tokens tell whether a frame is open.
windowOf(bytes) == IF Len(bytes) <= 3 THEN bytes ELSE From(bytes, Len(bytes) - 2)

lineEndingBefore(bytes, at) ==
    IF at = 0 \/ bytes[at] \notin Endings THEN 0
    ELSE IF bytes[at] = LF /\ at > 1 /\ bytes[at - 1] = CR THEN 2 ELSE 1

\* Mutant: a frame is taken to be closed when its last line is.
closesFrame_ByALine(bytes) == bytes = <<>> \/ lineEndingBefore(bytes, Len(bytes)) > 0

closesFrame(bytes) ==
    LET first == lineEndingBefore(bytes, Len(bytes))
    IN  \/ bytes = <<>>
        \/ first > 0 /\ lineEndingBefore(bytes, Len(bytes) - first) > 0

\* Mutant: what was held is not put ahead of the write that settled it.
writable_Forgets(t, chunk) ==
    LET at == sentinelStart(chunk)
        keep == IF at > 0 THEN Len(chunk) - at + 1 ELSE unsettledSuffix(chunk)
        ready == SubSeq(chunk, 1, Len(chunk) - keep)
    IN  [ready |-> ready,
         tail |-> [held |-> From(chunk, Len(chunk) - keep + 1),
                   written |-> windowOf(t.written \o ready)]]

\* What a write makes safe to send, and what is held.
writable(t, chunk) ==
    LET combined == t.held \o chunk
        at == sentinelStart(combined)
        keep == IF at > 0 THEN Len(combined) - at + 1 ELSE unsettledSuffix(combined)
        ready == SubSeq(combined, 1, Len(combined) - keep)
    IN  [ready |-> ready,
         tail |-> [held |-> From(combined, Len(combined) - keep + 1),
                   written |-> windowOf(t.written \o ready)]]

\* The pieces still owed: what is held and is no sentinel, the frame end the
\* upstream owed, the mark, the sentinel.
finishing(t) ==
    LET at == sentinelStart(t.held)
        before == IF at > 0 THEN SubSeq(t.held, 1, at - 1) ELSE t.held
        after == IF at > 0 THEN From(t.held, at) ELSE <<>>
        owed == IF closesFrame(windowOf(t.written \o before)) THEN <<>> ELSE <<FrameEnd>>
    IN  <<before>> \o owed \o <<MarkLine \o FrameEnd>> \o <<after>>

-----------------------------------------------------------------------------
(* server.ts *)

Init ==
    /\ marks \in BOOLEAN
    /\ body = <<>> /\ sent = <<>> /\ chunks = 0 /\ pieces = <<>>
    /\ tail = [held |-> <<>>, written |-> <<>>]
    /\ walk = Fresh
    /\ stamps = [carry |-> <<>>, stamped |-> <<>>, highest |-> 0]
    /\ list = <<>> /\ iat = 0
    /\ stage = "streaming"

\* The one closure that puts bytes on the socket: the framing and the stamps see
\* what the client sees.
Write(bytes, now) ==
    /\ sent' = sent \o bytes
    /\ walk' = feed(walk, bytes)
    /\ stamps' = written(stamps, bytes, now)

\* A piece of the upstream's answer is forwarded, through the tail when this
\* gateway marks; a write the tail empties is not made.
Forward(chunk, now) ==
    /\ stage = "streaming" /\ chunks < MaxChunks
    /\ body' = body \o chunk /\ chunks' = chunks + 1
    /\ IF marks
       THEN LET w == writable(tail, chunk)
            IN  /\ tail' = w.tail
                /\ IF w.ready = <<>> THEN UNCHANGED <<sent, walk, stamps>> ELSE Write(w.ready, now)
       ELSE UNCHANGED tail /\ Write(chunk, now)
    /\ UNCHANGED <<marks, pieces, list, iat, stage>>

\* The upstream is done; an answer with no bytes in it was refused before this.
Finish ==
    /\ stage = "streaming" /\ chunks > 0
    /\ stage' = "closing"
    /\ pieces' = IF marks THEN finishing(tail) ELSE <<>>
    /\ UNCHANGED <<marks, body, chunks, tail, sent, walk, stamps, list, iat>>

WritePiece(now) ==
    /\ stage = "closing" /\ pieces # <<>>
    /\ Write(pieces[1], now)
    /\ pieces' = Tail(pieces)
    /\ UNCHANGED <<marks, body, chunks, tail, list, iat, stage>>

\* StreamedItemStamps.answer: the whole response framed, held against what the
\* writes dated, and what no write finished dated now.  A disagreement throws and
\* the response is destroyed with nothing filed.
Answer(now) ==
    /\ stage = "closing" /\ pieces = <<>>
    /\ LET digests == finish(walk)
           rest == Dated(stamps, From(digests, Len(stamps.stamped) + 1), now)
       IN  IF Agrees(stamps, digests)
           THEN stamps' = rest /\ list' = rest.stamped /\ stage' = "answered"
           ELSE stage' = "torn" /\ UNCHANGED <<stamps, list>>
    /\ UNCHANGED <<marks, body, chunks, tail, pieces, sent, walk, iat>>

\* issue: the payload's instant is read, and bounds every stamp of the list.  A
\* response of no item has no receipt.
Issue(now) ==
    /\ stage = "answered"
    /\ iat' = now
    /\ list' = boundStampsAt(list, now)
    /\ stage' = IF list = <<>> THEN "unreceipted" ELSE "issued"
    /\ UNCHANGED <<marks, body, chunks, tail, pieces, sent, walk, stamps>>

Next ==
    \/ \E chunk \in Chunks, now \in Times : Forward(chunk, now)
    \/ Finish
    \/ \E now \in Times : WritePiece(now)
    \/ \E now \in Times : Answer(now)
    \/ \E now \in Times : Issue(now)

Spec == Init /\ [][Next]_vars

-----------------------------------------------------------------------------
(* What it promises.  Its readers are stated apart from its walks.              *)

\* The lines of a body by the rule of docs/receipt-spec.md section 3.1: a position
\* ends a line when it holds a line feed, or a carriage return no line feed follows.
LineEnds(s) == {i \in 1..Len(s) : s[i] = LF \/ (s[i] = CR /\ ~(i < Len(s) /\ s[i + 1] = LF))}
LineOf(s, i) ==
    LET before == {j \in LineEnds(s) : j < i}
        start == IF before = {} THEN 1 ELSE 1 + CHOOSE j \in before : \A k \in before : k <= j
        upTo == IF i <= Len(s) /\ s[i] = LF /\ i > start /\ s[i - 1] = CR THEN i - 2 ELSE i - 1
    IN  SubSeq(s, start, upTo)

\* Every line, the one the body never closed included.
Lines(s) ==
    LET ends == LineEnds(s) \union {Len(s) + 1}
    IN  [n \in 1..Cardinality(ends) |->
            LineOf(s, CHOOSE i \in ends : Cardinality({j \in ends : j <= i}) = n)]

Items(s) == LET ls == SelectSeq(Lines(s), IsItem) IN [n \in 1..Len(ls) |-> Value(ls[n])]

\* The receipt a gateway files for a stream is one its own readers accept, however
\* the transport cut the stream and whatever its source of time read: the items it
\* states are the response's, in order, never dated backwards and never after the
\* receipt itself; and no cut makes the two framings of the gateway disagree, which
\* would destroy a response the client was handed the id of.
ReceiptReads ==
    /\ stage # "torn"
    /\ stage = "issued" =>
           /\ [n \in 1..Len(list) |-> list[n].d] = Items(sent)
           /\ \A n \in 1..Len(list) : list[n].t <= iat
           /\ \A n \in 1..(Len(list) - 1) : list[n].t <= list[n + 1].t

\* A line whose field name is not at its head: a body may end in the sentinel's text
\* inside a line of something else.
Astray(s) == \E n \in 1..Len(Lines(s)) : \E i \in 2..Len(Lines(s)[n]) :
                 IsPrefix(Field, From(Lines(s)[n], i))

\* A mark is a frame of its own: the line before it and the line behind it are blank
\* (or it opens the body), the reader finds exactly its one line, and what the
\* upstream sent still frames as it did, so that no client takes the mark for a part
\* of an item or an item for a part of the mark.
MarkStandsAlone ==
    (stage \in {"answered", "issued"} /\ marks) =>
        LET ls == Lines(sent)
            at == {n \in 1..Len(ls) : ls[n] = MarkLine}
            n == CHOOSE k \in at : TRUE
        IN  /\ Cardinality(at) = 1
            /\ n = 1 \/ ls[n - 1] = <<>>
            /\ n < Len(ls) /\ ls[n + 1] = <<>>
            /\ ~Astray(body) => SelectSeq(Items(sent), LAMBDA v : v # <<M>>) = Items(body)
            \* ahead of the sentinel, in the spelling the tail holds back for
            /\ LET start == sentinelStart(body)
               IN  (~Astray(body) /\ start > 0 /\ body[start + 2] = SP)
                       => EndsWith(sent, MarkLine \o FrameEnd \o From(body, start))

\* Holding back loses nothing and repeats nothing: at every moment what was sent, the
\* pieces owed and what is held are the upstream's bytes in their order, with nothing
\* but the frame end it owed and the mark between them.
NothingHeldIsLost ==
    LET owed == sent \o FlattenSeq(pieces)
    IN  CASE stage = "streaming" -> sent \o tail.held = body
          [] ~marks -> owed = body
          [] OTHER -> \E i \in 0..Len(body), gap \in {<<>>, FrameEnd} :
                          owed = SubSeq(body, 1, i) \o gap \o MarkLine \o FrameEnd \o From(body, i + 1)

=============================================================================
