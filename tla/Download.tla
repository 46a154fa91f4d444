------------------------------ MODULE Download ------------------------------
(***************************************************************************)
(* DownloadHandler over gRPC and over HTTP.  A handler finds the metadata  *)
(* (redis, then the database), settles the range, and then reads a channel *)
(* that something else fills: a goroutine that reads the object step by    *)
(* step, a ring of goroutines that read its parts in turn, or the stream   *)
(* of another node, relayed.  One object, one handler at a time: handlers  *)
(* share nothing but the metadata in redis.  A byte is its offset, what is  *)
(* read at once a block of them, and a part of the object lies between two  *)
(* offsets.                                                                 *)
(***************************************************************************)
EXTENDS Integers, Sequences

CONSTANTS
    Objects,    \* what may be stored: [multi, count (rows of parts), offset (of
                \* each part, and the size at last), num (what its row says)]
    Fronts,     \* the front ends: "rpc", "http"
    Ranges,     \* Range headers: NoRange or [first, last], last may be Open
    Places,     \* where they are read: "store" (the back end, or this disk),
                \* "away" (at another node) or "nowhere"
    NoRange,    \* no Range header
    Open,       \* a range without a last byte
    None,
    Step,       \* what the single reader asks for at once
    Ring,       \* MultiPartDownload
    MaxAsks,    \* bound: requests
    MaxFaults   \* bound: failing calls

ASSUME DownloadAssumption ==
    /\ Step \in Nat \ {0} /\ Ring \in Nat \ {0}
    /\ MaxAsks \in Nat /\ MaxFaults \in Nat
    /\ \A o \in Objects :
          /\ o.multi \in BOOLEAN /\ o.num \in Nat /\ o.count \in Nat \ {0}
          /\ ~o.multi => o.count = 1
          /\ o.offset \in [0 .. o.count -> Nat] /\ o.offset[0] = 0
          /\ \A i \in 0 .. o.count - 1 : o.offset[i] <= o.offset[i + 1]
    /\ \A r \in Ranges : r.first \in Nat
    /\ NoRange \notin Ranges
    /\ None \notin {"pending", "uploaded"}
    /\ None \notin [via : Fronts, range : Ranges \cup {NoRange}, place : Places, acked : BOOLEAN]

VARIABLES
    object,     \* what the upload stores
    upload,     \* "pending"; "marked": the row says uploaded; "acked"
    cache,      \* redis <uid>-meta: the row's state when it was read, or None
    early,      \* a download has read the row while it was pending
    req,        \* the request: [via, range, place, acked (the upload had ended)]
    pc,         \* where the handler is
    meta,       \* the row the handler goes by
    first, end, \* the range it settled on
    reader,     \* what fills the channel: "off", "single", "ring", "relay", "over"
    cursor,     \* the single reader's start, the relay's count
    index, total, turn, \* the ring's shared locals (turn is j)
    tokens,     \* the members of the ring whose channel holds a token
    worker,     \* each member: "wait", "read", "put", "pass", "gone"
    hand,       \* what each has read and not yet put
    ch, closed, \* the channel
    panicked,   \* a send to or a close of the closed channel
    sent,       \* the blocks the client was sent, in order
    written,    \* how many bytes that is (net/http keeps the count)
    holes,      \* the bytes that reads did not get
    client,     \* "here" or "gone"
    result,     \* of the last handler: "none", "ok", "error", "broken"
    asks, faults

ringVars == <<index, total, turn, tokens, worker, hand>>
chanVars == <<ch, closed, panicked>>
rowVars  == <<object, upload, cache, early>>
vars == <<rowVars, req, pc, meta, first, end, reader, cursor, ringVars, chanVars,
          sent, written, holes, client, result, asks, faults>>

Members == 0 .. Ring - 1
Block(from, n) == [from |-> from, upto |-> from + n]
Length(b) == b.upto - b.from
In(byte, b) == b.from <= byte /\ byte < b.upto
Size(m) == IF m = "uploaded" THEN object.offset[object.count] ELSE 0
Multi(m) == m = "uploaded" /\ object.multi
Fault == faults < MaxFaults /\ faults' = faults + 1
NoFault == UNCHANGED faults

Init ==
    /\ object \in Objects
    /\ upload = "pending" /\ cache = None /\ early = FALSE
    /\ req = None /\ pc = "ended" /\ meta = None
    /\ first = 0 /\ end = 0
    /\ reader = "off" /\ cursor = 0
    /\ index = 0 /\ total = 0 /\ turn = 0 /\ tokens = {}
    /\ worker = [i \in Members |-> "wait"]
    /\ hand = [i \in Members |-> Block(0, 0)]
    /\ ch = <<>> /\ closed = FALSE /\ panicked = FALSE
    /\ sent = <<>> /\ written = 0 /\ holes = {} /\ client = "here" /\ result = "none"
    /\ asks = 0 /\ faults = 0

-----------------------------------------------------------------------------
(* The upload, and the metadata in redis *)

SetNX(v) == IF cache = None THEN v ELSE cache
Row == IF upload = "pending" THEN "pending" ELSE "uploaded"

\* The upload updates the row, then caches what it reads again, and answers.
UploadMarks ==
    /\ upload = "pending" /\ upload' = "marked"
    /\ UNCHANGED <<object, cache, early, req, pc, meta, first, end, reader, cursor,
                   ringVars, chanVars, sent, written, holes, client, result, asks, faults>>

\* a slip: what is cached was read before the row was updated
UploadCachesOld ==
    /\ upload = "marked" /\ upload' = "acked"
    /\ cache' = SetNX("pending")
    /\ UNCHANGED <<object, early, req, pc, meta, first, end, reader, cursor,
                   ringVars, chanVars, sent, written, holes, client, result, asks, faults>>

UploadCaches ==
    /\ upload = "marked" /\ upload' = "acked"
    /\ cache' = SetNX("uploaded")
    /\ UNCHANGED <<object, early, req, pc, meta, first, end, reader, cursor,
                   ringVars, chanVars, sent, written, holes, client, result, asks, faults>>

CacheExpires ==
    /\ cache # None /\ cache' = None
    /\ UNCHANGED <<object, upload, early, req, pc, meta, first, end, reader, cursor,
                   ringVars, chanVars, sent, written, holes, client, result, asks, faults>>

-----------------------------------------------------------------------------
(* The handler, up to the channel *)

Quiet == pc = "ended" /\ reader \in {"off", "over"}

Ask(via, range, place) ==
    /\ Quiet /\ asks < MaxAsks /\ asks' = asks + 1
    /\ via = "rpc" => range = NoRange
    /\ req' = [via |-> via, range |-> range, place |-> place, acked |-> upload = "acked"]
    /\ pc' = "check" /\ meta' = None
    /\ first' = 0 /\ end' = 0
    /\ reader' = "off" /\ cursor' = 0
    /\ index' = 0 /\ total' = 0 /\ turn' = 0 /\ tokens' = {}
    /\ worker' = [i \in Members |-> "wait"]
    /\ hand' = [i \in Members |-> Block(0, 0)]
    /\ ch' = <<>> /\ closed' = FALSE
    /\ sent' = <<>> /\ written' = 0 /\ holes' = {} /\ client' = "here" /\ result' = "none"
    /\ UNCHANGED <<rowVars, panicked, faults>>

Fail(from) ==
    /\ pc = from /\ pc' = "ended" /\ result' = "error"
    /\ UNCHANGED <<rowVars, req, meta, first, end, reader, cursor, ringVars, chanVars,
                   sent, written, holes, client, asks>>

\* a bad parameter, an expired link or a wrong signature
Refuse == Fail("check") /\ NoFault

Look(m, next) ==
    /\ pc = "check" /\ pc' = next /\ meta' = m
    /\ UNCHANGED <<object, upload, req, first, end, reader, cursor, ringVars,
                   chanVars, sent, written, holes, client, result, asks, faults>>

MetaHit == cache # None /\ Look(cache, "range") /\ UNCHANGED <<cache, early>>
MetaMiss ==
    /\ cache = None /\ Look(Row, "fill")
    /\ early' = (early \/ Row = "pending") /\ UNCHANGED cache
MetaFault == Fail("check") /\ Fault

MetaFill ==
    /\ pc = "fill" /\ pc' = "range"
    /\ cache' = SetNX(meta)
    /\ UNCHANGED <<object, upload, early, req, meta, first, end, reader, cursor,
                   ringVars, chanVars, sent, written, holes, client, result, asks, faults>>

\* The last byte asked for is looked at only to see whether there is one.
GetRange(range, size) ==
    IF range = NoRange THEN <<0, size - 1>>
    ELSE LET e == IF range.last = Open THEN 0 ELSE range.first
         IN  <<range.first, IF e >= size \/ e = 0 THEN size - 1 ELSE e>>

Settle ==
    /\ pc = "range"
    /\ LET r == GetRange(req.range, Size(meta)) IN
       /\ first' = r[1] /\ end' = r[2]
       /\ IF req.via = "http" /\ r[1] = Size(meta)
          THEN pc' = "ended" /\ result' = "ok"
          ELSE pc' = "route" /\ UNCHANGED result
    /\ UNCHANGED <<rowVars, req, meta, reader, cursor, ringVars, chanVars,
                   sent, written, holes, client, asks, faults>>

\* what the answer's Content-Length says
Promise == end - first + 1

-----------------------------------------------------------------------------
(* What fills the channel *)

\* There are as many rows of parts, in redis or else in the database, as the
\* metadata says.
Complete == object.num = object.count

\* The search for the first byte goes past part i (parts are counted from 0), and
\* ends at the first it does not go past.
GoesPast(i) == object.offset[i] < first /\ object.offset[i + 1] <= first
StartsIn(i) == ~GoesPast(i) /\ \A j \in 0 .. i - 1 : GoesPast(j)

Start(kind) ==
    /\ reader' = kind
    /\ cursor' = IF kind = "relay" THEN 0 ELSE first
    /\ pc' = IF kind = "relay" THEN "relay" ELSE "stream"
    /\ UNCHANGED <<rowVars, req, meta, first, end, turn, worker, hand, chanVars,
                   sent, written, holes, client, result, asks, faults>>

StartSingle ==
    /\ pc = "route" /\ req.place = "store" /\ ~Multi(meta)
    /\ Start("single") /\ UNCHANGED <<index, total, tokens>>

\* a slip: every member is given a token
StartRingAll ==
    /\ pc = "route" /\ req.place = "store" /\ Multi(meta)
    /\ Complete /\ Start("ring")
    /\ \E i \in 0 .. object.count - 1 :
          StartsIn(i) /\ index' = i /\ total' = object.offset[i]
    /\ tokens' = Members

StartRing ==
    /\ pc = "route" /\ req.place = "store" /\ Multi(meta)
    /\ Complete /\ Start("ring")
    /\ \E i \in 0 .. object.count - 1 :
          StartsIn(i) /\ index' = i /\ total' = object.offset[i]
    /\ tokens' = {0}

\* The first byte lies behind the last part: the search for its part reads past
\* the end of their list, and the handler recovers from the panic.
NoPartStarts ==
    /\ pc = "route" /\ req.place = "store" /\ Multi(meta)
    /\ Complete /\ \A i \in 0 .. object.count - 1 : GoesPast(i)
    /\ pc' = "ended" /\ result' = "broken"
    /\ UNCHANGED <<rowVars, req, meta, first, end, reader, cursor, ringVars, chanVars,
                   sent, written, holes, client, asks, faults>>

StartRelay ==
    /\ pc = "route" /\ req.place = "away"
    /\ Start("relay") /\ UNCHANGED <<index, total, tokens>>

\* No node has the directory; the number of parts is wrong; a call fails.
RouteFails ==
    /\ pc = "route" /\ Fail("route")
    /\ \/ req.place = "nowhere" /\ NoFault
       \/ Multi(meta) /\ ~Complete /\ NoFault
       \/ Fault

Send(data) ==
    IF closed THEN panicked' = TRUE /\ UNCHANGED <<ch, closed>>
    ELSE ch' = Append(ch, data) /\ UNCHANGED <<closed, panicked>>
Close == /\ closed' = TRUE /\ panicked' = (panicked \/ closed) /\ UNCHANGED ch

handlerVars == <<rowVars, req, meta, first, end, sent, written, client, asks>>

\* What a read of n bytes may give.
Given(from, n) == {Block(from, k) : k \in 0 .. n}

\* A read that fails, or meets the end of the object early, is logged at most: what
\* was read before is sent (MinIO, OSS), or the whole buffer, zeros at its end (the
\* local disk).
Reads(from, n, data) ==
    \/ data = Block(from, n) /\ UNCHANGED <<holes, faults>>
    \/ \E k \in 0 .. n - 1 :
          /\ Fault /\ holes' = holes \cup (from + k .. from + n - 1)
          /\ data \in {Block(from, k), Block(from, n)}

\* One read and its send.
ReadAndSend(from, n) ==
    \E data \in Given(from, n) : Reads(from, n, data) /\ Send(data)

\* a slip: the last read stops short of the last byte
SingleLengthShort(at, last) == IF at + Step > last THEN last - at ELSE Step

SingleLength(at, last) == IF at + Step > last THEN last - at + 1 ELSE Step

SingleReads ==
    /\ reader = "single" /\ cursor < end
    /\ ReadAndSend(cursor, SingleLength(cursor, end))
    /\ cursor' = cursor + Step
    /\ UNCHANGED <<handlerVars, pc, result, reader, ringVars>>

SingleEnds ==
    /\ reader = "single" /\ cursor >= end
    /\ Close /\ reader' = "over"
    /\ UNCHANGED <<handlerVars, pc, result, cursor, ringVars, holes, faults>>

\* The ring.  A member waits for its token, which covers index, total and turn.
Grab(i) ==
    /\ reader = "ring" /\ worker[i] = "wait" /\ i \in tokens
    /\ tokens' = tokens \ {i}
    /\ worker' = [worker EXCEPT ![i] = "read"]
    /\ UNCHANGED <<handlerVars, pc, result, reader, cursor, index, total, turn, hand,
                   chanVars, holes, faults>>

\* a slip: the member that finishes passes the token on
FinishAll(i) ==
    /\ worker[i] = "read" /\ index >= object.num
    /\ Close
    /\ worker' = [worker EXCEPT ![i] = "gone"]
    /\ tokens' = tokens \cup {(i + 1) % Ring}
    /\ UNCHANGED <<handlerVars, pc, result, reader, cursor, index, total, turn, hand,
                   holes, faults>>

\* The member that finds no part left closes the channel and keeps its token:
\* the others wait for ever.
Finish(i) ==
    /\ worker[i] = "read" /\ index >= object.num
    /\ Close
    /\ worker' = [worker EXCEPT ![i] = "gone"] /\ reader' = "over"
    /\ UNCHANGED <<handlerVars, pc, result, cursor, index, total, turn, tokens, hand,
                   holes, faults>>

Fetch(i) ==
    /\ worker[i] = "read" /\ index < object.num
    /\ LET size == object.offset[index + 1] - object.offset[index]
           skip == IF total >= first THEN 0 ELSE first - total
       IN  /\ \E data \in Given(total + skip, size - skip) :
                Reads(total + skip, size - skip, data) /\ hand' = [hand EXCEPT ![i] = data]
           /\ total' = total + size
    /\ worker' = [worker EXCEPT ![i] = "put"]
    /\ UNCHANGED <<handlerVars, pc, result, reader, cursor, index, turn, tokens, chanVars>>

PutPart(i) ==
    /\ worker[i] = "put" /\ worker' = [worker EXCEPT ![i] = "pass"]
    /\ Send(hand[i])
    /\ UNCHANGED <<handlerVars, pc, result, reader, cursor, index, total, turn, tokens,
                   hand, holes, faults>>

Pass(i) ==
    /\ worker[i] = "pass" /\ worker' = [worker EXCEPT ![i] = "wait"]
    /\ index' = index + 1
    /\ turn' = IF turn = Ring - 1 THEN 0 ELSE turn + 1
    /\ tokens' = tokens \cup {turn'}
    /\ UNCHANGED <<handlerVars, pc, result, reader, cursor, total, hand, chanVars,
                   holes, faults>>

RingStep(i) == Grab(i) \/ Finish(i) \/ Fetch(i) \/ PutPart(i) \/ Pass(i)

\* With OSS a read that fails ends the process, and so it does with COS if there
\* is no answer to close.
ReadKills ==
    /\ (reader = "single" /\ cursor < end) \/ \E i \in Members : worker[i] = "read" /\ index < object.num
    /\ Fault /\ reader' = "over"
    /\ pc' = "ended" /\ result' = (IF pc = "ended" THEN result ELSE "broken")
    /\ worker' = [i \in Members |-> "gone"]
    /\ UNCHANGED <<handlerVars, cursor, index, total, turn, tokens, hand, chanVars, holes>>

\* The node asked sends what the same handler over gRPC sends, which knows no
\* range; its reads may fail as well.  The handler relays all of it into the channel
\* before it sends any.
RelayMore == IF Multi(meta) THEN cursor < object.count ELSE cursor < Size(meta) - 1

RelayNext ==
    /\ pc = "relay" /\ RelayMore
    /\ \/ /\ Multi(meta) /\ Complete /\ cursor' = cursor + 1
          /\ ReadAndSend(object.offset[cursor],
                         object.offset[cursor + 1] - object.offset[cursor])
       \/ /\ ~Multi(meta) /\ cursor' = cursor + Step
          /\ ReadAndSend(cursor, SingleLength(cursor, Size(meta) - 1))
    /\ UNCHANGED <<handlerVars, pc, result, reader, ringVars>>

\* a slip: the channel stays open
RelayEndsOpen ==
    /\ pc = "relay" /\ ~RelayMore /\ pc' = "stream"
    /\ reader' = "over"
    /\ UNCHANGED <<handlerVars, result, cursor, ringVars, chanVars, holes, faults>>

RelayEnds ==
    /\ pc = "relay" /\ ~RelayMore /\ pc' = "stream"
    /\ Close /\ reader' = "over"
    /\ UNCHANGED <<handlerVars, result, cursor, ringVars, holes, faults>>

RelayBreaks ==
    /\ pc = "relay" /\ pc' = "ended" /\ result' = "error" /\ reader' = "over"
    /\ IF Multi(meta) /\ ~Complete THEN NoFault ELSE Fault
    /\ UNCHANGED <<handlerVars, cursor, ringVars, chanVars, holes>>

-----------------------------------------------------------------------------
(* The handler sends; the client may leave *)

Deliver ==
    /\ pc = "stream" /\ ch # <<>> /\ ch' = Tail(ch)
    /\ LET size == Length(Head(ch)) IN
       IF client = "here" /\ (req.via = "http" => written + size <= Promise)
       THEN /\ sent' = Append(sent, Head(ch)) /\ written' = written + size
            /\ UNCHANGED <<pc, result>>
       ELSE pc' = "ended" /\ result' = "broken" /\ UNCHANGED <<sent, written>>
    /\ UNCHANGED <<rowVars, req, meta, first, end, reader, cursor, ringVars, closed,
                   panicked, holes, client, asks, faults>>

Finished ==
    /\ pc = "stream" /\ ch = <<>> /\ closed
    /\ pc' = "ended" /\ result' = "ok"
    /\ UNCHANGED <<handlerVars, reader, cursor, ringVars, chanVars, holes, faults>>

\* Only the HTTP handler looks whether the client is there before it receives.
NoticesGone ==
    /\ pc = "stream" /\ req.via = "http" /\ client = "gone"
    /\ pc' = "ended" /\ result' = "broken"
    /\ UNCHANGED <<handlerVars, reader, cursor, ringVars, chanVars, holes, faults>>

ClientLeaves ==
    /\ pc # "ended" /\ client = "here" /\ client' = "gone"
    /\ UNCHANGED <<rowVars, req, pc, meta, first, end, reader, cursor, ringVars, chanVars,
                   sent, written, holes, result, asks, faults>>

Handle ==
    \/ Refuse \/ MetaHit \/ MetaMiss \/ MetaFault \/ MetaFill \/ Settle
    \/ StartSingle \/ StartRing \/ NoPartStarts \/ StartRelay \/ RouteFails
    \/ RelayNext \/ RelayEnds \/ RelayBreaks
    \/ Deliver \/ Finished \/ NoticesGone

Next ==
    \/ UploadMarks \/ UploadCaches \/ CacheExpires \/ ClientLeaves
    \/ \E via \in Fronts, range \in Ranges \cup {NoRange}, place \in Places :
          Ask(via, range, place)
    \/ ~panicked /\ (Handle \/ SingleReads \/ SingleEnds \/ ReadKills
                    \/ \E i \in Members : RingStep(i))

Spec == Init /\ [][Next]_vars

\* Goroutines run, and the node asked sends, ends its stream or breaks it off.
Fairness ==
    /\ WF_vars(Handle) /\ WF_vars(SingleReads \/ SingleEnds)
    /\ \A i \in Members : WF_vars(RingStep(i))
FairSpec == Spec /\ Fairness

-----------------------------------------------------------------------------
(* Properties *)

Blocks == [from : Nat, upto : Nat]

TypeOK ==
    /\ object \in Objects /\ upload \in {"pending", "marked", "acked"}
    /\ cache \in {None, "pending", "uploaded"} /\ meta \in {None, "pending", "uploaded"}
    /\ early \in BOOLEAN
    /\ req \in {None} \cup [via : Fronts, range : Ranges \cup {NoRange}, place : Places,
                            acked : BOOLEAN]
    /\ pc \in {"check", "fill", "range", "route", "relay", "stream", "ended"}
    /\ reader \in {"off", "single", "ring", "relay", "over"}
    /\ worker \in [Members -> {"wait", "read", "put", "pass", "gone"}]
    /\ hand \in [Members -> Blocks]
    /\ tokens \subseteq Members /\ turn \in Members
    /\ index \in Nat /\ total \in Nat
    /\ cursor \in Nat /\ first \in Nat /\ end \in Int
    /\ ch \in Seq(Blocks) /\ sent \in Seq(Blocks) /\ written \in Int
    /\ closed \in BOOLEAN /\ panicked \in BOOLEAN /\ holes \subseteq Int
    /\ client \in {"here", "gone"} /\ result \in {"none", "ok", "error", "broken"}
    /\ asks \in 0 .. MaxAsks /\ faults \in 0 .. MaxFaults

\* Of the goroutines that share a channel one closes it, after the last send:
\* a second close or a late send would end the process (rpc/download.go:196, 290).
ClosedOnce == ~panicked

Asked == req # None
\* A relayed request has lost its Range header (DownloadWebForward).
FromStart == req.place # "away" \/ first = 0

\* The blocks s go up from byte `from`, and what lies between two is in lost.
Ordered(s, from, lost) ==
    \A k \in 1 .. Len(s) :
        LET done == IF k = 1 THEN from ELSE s[k - 1].upto
        IN  done <= s[k].from /\ (done .. s[k].from - 1) \subseteq lost

\* Whatever the ring, the reads and their failures do, what goes to the client, and
\* what waits in the channel for it, is in order from the first byte of the range,
\* and lacks only what could not be read.
OrderKept ==
    Asked /\ FromStart =>
        Ordered(IF result = "broken" THEN sent ELSE sent \o ch, first, holes)

\* The last byte, when the reader's steps fall on it (start >= end, rpc/download.go:195).
StepsEndOn(byte) ==
    /\ ~Multi(meta) /\ byte = end
    /\ \E k \in 0 .. end - first : first + k * Step = end

\* A download that ended well lacks what could not be read, and that byte.
LosesAtMostLast ==
    Asked /\ pc = "ended" /\ result = "ok" /\ FromStart =>
        \A byte \in first .. end :
            \/ \E k \in 1 .. Len(sent) : In(byte, sent[k])
            \/ byte \in holes \/ StepsEndOn(byte)

\* A download asked for after the upload was acknowledged goes by the old row only
\* if one before it looked too early and left that row in redis (upload.go:271).
StaleNeedsEarlyReader == Asked /\ req.acked /\ meta = "pending" => early

\* Every request is answered and every reader comes to its end, client or no client.
Drains == ~Quiet ~> Quiet

\* What the tests of the repository compare: the bytes sent are the file.
WholeObject ==
    Asked /\ pc = "ended" /\ result = "ok" /\ req.range = NoRange /\ req.acked
          /\ meta = "uploaded" /\ faults = 0
        => \A byte \in 0 .. Size(meta) - 1 : \E k \in 1 .. Len(sent) : In(byte, sent[k])
=============================================================================
