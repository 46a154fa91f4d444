------------------------- MODULE LinksDownloadProofs -------------------------
(* Theorems about the links a client is handed and about what it downloads    *)
(* through them, in two parts: Links for any requests, uids and failures, and *)
(* Download for any objects, ranges, steps and rings.                         *)
EXTENDS Links, Download, FiniteSetTheorems, SequenceTheorems, TLAPS

-----------------------------------------------------------------------------
(* Upload and download links *)

\* A goroutine sends its row after its url, and its url after the directory
\* is made.
Sent ==
    \A q \in UpReqs :
        /\ metas[q] \subseteq urls[q] /\ urls[q] \subseteq MadeBy(q)
        /\ \A u \in MadeBy(q) : maker[u] = "meta" => u \in urls[q]
        /\ at[q] # "err" => urls[q] \subseteq dirs
        /\ at[q] # "err" => \A u \in MadeBy(q) : maker[u] = "url" => u \in dirs

\* Only what a failed request made is cleaned.
CleansFailed == \A u \in todo : \E q \in UpReqs : u \in MadeBy(q) /\ at[q] = "err"

\* A request that comes to its insert has made everything.
InsertsAll == \A q \in UpReqs : at[q] \in {"insert", "ok"} => AllSent(q)

\* The rows are those of the requests that were answered.
RowsOfAnswered ==
    \A q \in UpReqs : MadeBy(q) \cap rows = IF at[q] = "ok" THEN MadeBy(q) ELSE {}

\* The inductive invariant.
LinkInv == LinkTypeOK /\ Sent /\ CleansFailed /\ InsertsAll /\ RowsOfAnswered

-----------------------------------------------------------------------------
\* Nothing is asked for yet.
LEMMA LinkInvInit == LinkInit => LinkInv
  BY LinkAssumption
  DEF LinkInit, LinkInv, LinkTypeOK, Sent, CleansFailed, InsertsAll, RowsOfAnswered

\* Two requests make different uids: an id is made for each file.
LEMMA OneMaker ==
  \A q, r \in UpReqs : \A u \in Uids : u \in MadeBy(q) /\ u \in MadeBy(r) => q = r
  BY LinkAssumption

\* A step of one upload request leaves what the others have made.
LEMMA UpKeeps ==
  ASSUME LinkInv, NEW q \in UpReqs,
         UpStep(q) \/ \E u \in Uids : MakeFails(q, u)
  PROVE  LinkInv'
<1> USE LinkAssumption, OneMaker DEF LinkInv, LinkTypeOK, Goto, Move, CallFails
<1>1. CASE Launch(q)
  BY <1>1 DEF Launch, up, down, Sent, CleansFailed, InsertsAll, AllSent, RowsOfAnswered
<1>2. ASSUME NEW u \in Uids, MakeDir(q, u) PROVE LinkInv'
  BY <1>2 DEF MakeDir, Making, down, Sent, CleansFailed, InsertsAll, AllSent, RowsOfAnswered
<1>3. ASSUME NEW u \in Uids, MakeFails(q, u) PROVE LinkInv'
  BY <1>3 DEF MakeFails, Making, down, Sent, CleansFailed, InsertsAll, AllSent, RowsOfAnswered
<1>4. ASSUME NEW u \in Uids, SendUrl(q, u) PROVE LinkInv'
  <2>1. /\ at[q] = "wait" /\ u \in MadeBy(q) /\ maker[u] = "url"
        /\ urls' = [urls EXCEPT ![q] = @ \cup {u}] /\ maker' = [maker EXCEPT ![u] = "meta"]
        /\ UNCHANGED <<rows, dirs, links, at, metas, todo, missing, found, room, getter, answer, failures>>
    BY <1>4 DEF SendUrl, Making, down
  <2>2. u \in dirs
    BY <2>1 DEF Sent
  <2>3. LinkTypeOK' /\ CleansFailed' /\ RowsOfAnswered'
    BY <2>1 DEF CleansFailed, RowsOfAnswered
  <2>4. \A r \in UpReqs : r # q => urls'[r] = urls[r] /\ u \notin MadeBy(r)
    BY <2>1
  <2>5. urls'[q] = urls[q] \cup {u}
    BY <2>1
  <2>6. Sent'
    BY <2>1, <2>2, <2>4, <2>5 DEF Sent
  <2>7. InsertsAll'
    BY <2>1, <2>4 DEF InsertsAll, AllSent
  <2> QED
    BY <2>3, <2>6, <2>7
<1>5. ASSUME NEW u \in Uids, SendMeta(q, u) PROVE LinkInv'
  <2>1. /\ at[q] = "wait" /\ u \in MadeBy(q) /\ maker[u] = "meta"
        /\ metas' = [metas EXCEPT ![q] = @ \cup {u}] /\ maker' = [maker EXCEPT ![u] = "done"]
        /\ UNCHANGED <<rows, dirs, links, at, urls, todo, missing, found, room, getter, answer, failures>>
    BY <1>5 DEF SendMeta, Making, down
  <2>2. LinkTypeOK' /\ CleansFailed' /\ RowsOfAnswered'
    BY <2>1 DEF CleansFailed, RowsOfAnswered
  <2>3. \A r \in UpReqs : r # q => metas'[r] = metas[r] /\ u \notin MadeBy(r)
    BY <2>1
  <2>4. metas'[q] = metas[q] \cup {u} /\ u \in urls[q]
    BY <2>1 DEF Sent
  <2>5. Sent'
    BY <2>1, <2>3, <2>4 DEF Sent
  <2>6. InsertsAll'
    BY <2>1, <2>3 DEF InsertsAll, AllSent
  <2> QED
    BY <2>2, <2>5, <2>6
<1>6. CASE Gather(q)
  <2>1. /\ at[q] = "wait" /\ \A u \in MadeBy(q) : maker[u] = "done"
        /\ UNCHANGED <<rows, dirs, links, maker, urls, metas, missing, found, room, getter, answer,
                       failures>>
    BY <1>6 DEF Gather, down
  <2>2. CASE AllSent(q)
    <3>1. at' = [at EXCEPT ![q] = "insert"] /\ todo' = todo
      BY <1>6, <2>2 DEF Gather
    <3>2. LinkTypeOK' /\ CleansFailed' /\ RowsOfAnswered'
      BY <2>1, <3>1 DEF CleansFailed, RowsOfAnswered
    <3>3. Sent'
      BY <2>1, <3>1 DEF Sent
    <3>4. InsertsAll'
      BY <2>1, <2>2, <3>1 DEF InsertsAll, AllSent
    <3> QED
      BY <3>2, <3>3, <3>4
  <2>3. CASE ~AllSent(q)
    <3>1. at' = [at EXCEPT ![q] = "err"] /\ todo' = todo \cup urls[q]
      BY <1>6, <2>3 DEF Gather
    <3>2. urls[q] \subseteq MadeBy(q)
      BY DEF Sent
    <3>3. LinkTypeOK' /\ RowsOfAnswered'
      BY <2>1, <3>1 DEF RowsOfAnswered
    <3>4. Sent'
      BY <2>1, <3>1 DEF Sent
    <3>5. CleansFailed'
      BY <2>1, <3>1, <3>2 DEF CleansFailed
    <3>6. InsertsAll'
      BY <2>1, <3>1 DEF InsertsAll, AllSent
    <3> QED
      BY <3>3, <3>4, <3>5, <3>6
  <2> QED
    BY <2>2, <2>3
<1>7. CASE InsertRows(q)
  <2>1. at[q] = "insert" /\ metas[q] = MadeBy(q)
    BY <1>7 DEF InsertRows, InsertsAll, AllSent
  <2>2. UNCHANGED <<dirs, links, maker, urls, metas, todo, missing, found, room, getter, answer>>
    BY <1>7 DEF InsertRows, up, down
  <2>3. CASE rows' = rows \cup metas[q] /\ at' = [at EXCEPT ![q] = "ok"] /\ UNCHANGED failures
    <3>1. \A r \in UpReqs : MadeBy(r) \cap rows' = IF at'[r] = "ok" THEN MadeBy(r) ELSE {}
      BY <2>1, <2>3 DEF RowsOfAnswered
    <3> QED
      BY <2>1, <2>2, <2>3, <3>1 DEF Sent, CleansFailed, InsertsAll, AllSent, RowsOfAnswered
  <2>4. CASE CallFails /\ at' = [at EXCEPT ![q] = "err"] /\ UNCHANGED rows
    BY <2>1, <2>2, <2>4 DEF Sent, CleansFailed, InsertsAll, AllSent, RowsOfAnswered
  <2> QED
    BY <1>7, <2>3, <2>4 DEF InsertRows
<1> QED
  BY <1>1, <1>2, <1>3, <1>4, <1>5, <1>6, <1>7 DEF UpStep

\* A cleaning removes no directory but a failed request's.
LEMMA CleanKeeps ==
  ASSUME LinkInv, NEW u \in Uids, Clean(u)
  PROVE  LinkInv'
<1> USE LinkAssumption DEF LinkInv, LinkTypeOK
<1>1. PICK r \in UpReqs : u \in MadeBy(r) /\ at[r] = "err"
  BY DEF Clean, CleansFailed
<1>2. \A q \in UpReqs : at[q] # "err" => u \notin MadeBy(q)
  BY <1>1, OneMaker
<1>3. /\ dirs' = dirs \ {u} /\ todo' = todo \ {u}
      /\ UNCHANGED <<rows, links, at, maker, urls, metas, missing, found, room, getter, answer, failures>>
  BY DEF Clean, down
<1>4. Sent'
  BY <1>2, <1>3 DEF Sent
<1> QED
  BY <1>3, <1>4 DEF CleansFailed, InsertsAll, AllSent, RowsOfAnswered

\* A request for download links, and the time to live of one, write nothing of
\* an upload's.
LEMMA DownKeeps ==
  ASSUME LinkInv, \/ \E d \in DownReqs : DownStep(d) \/ LinkFault(d)
                  \/ \E u \in Uids : LinkExpires(u)
  PROVE  LinkInv'
<1> USE LinkAssumption DEF LinkInv, LinkTypeOK, Goto, CallFails
<1>1. ASSUME NEW d \in DownReqs, LookUp(d) PROVE LinkTypeOK'
  BY <1>1 DEF LookUp, up
<1>2. ASSUME NEW d \in DownReqs, Query(d) PROVE LinkTypeOK'
  <2>1. IsFiniteSet(GetByUidList(missing[d]))
    BY FS_Subset DEF GetByUidList
  <2>2. Slots(GetByUidList(missing[d])) \in Nat
    BY <2>1, FS_CardinalityType DEF Slots
  <2>3. UNCHANGED <<rows, dirs, links, maker, urls, metas, todo, missing, answer, failures>>
    BY <1>2 DEF Query, up
  <2>4. room' = room \/ room' = [room EXCEPT ![d] = Slots(GetByUidList(missing[d]))]
    BY <1>2 DEF Query
  <2>5. getter' = getter \/ \E f \in [Uids -> {"none", "send"}] : getter' = [getter EXCEPT ![d] = f]
    <3>1. [u \in Uids |-> IF u \in missing[d] THEN "send" ELSE "none"]
            \in [Uids -> {"none", "send"}]
      OBVIOUS
    <3> QED
      BY <1>2, <3>1 DEF Query
  <2>9. found' \in [DownReqs -> SUBSET Uids]
    <3>1. GetByUidList(missing[d]) \in SUBSET Uids
      BY DEF GetByUidList
    <3> QED
      BY <1>2, <3>1 DEF Query
  <2>6. at' \in [UpReqs \cup DownReqs -> {"start", "wait", "insert", "query", "ok", "err"}]
    BY <1>2 DEF Query
  <2>7. room' \in [DownReqs -> Nat]
    BY <2>2, <2>4
  <2>8. ASSUME NEW f \in [Uids -> {"none", "send"}], getter' = [getter EXCEPT ![d] = f]
        PROVE  getter' \in [DownReqs -> [Uids -> {"none", "send", "cache", "done"}]]
    <3>1. f \in [Uids -> {"none", "send", "cache", "done"}]
      OBVIOUS
    <3> QED
      BY <2>8, <3>1
  <2> QED
    BY <2>3, <2>5, <2>6, <2>7, <2>8, <2>9
<1>3. ASSUME NEW d \in DownReqs, NEW u \in Uids, SendLink(d, u) PROVE LinkTypeOK'
  BY <1>3 DEF SendLink, Getting, up
<1>4. ASSUME NEW d \in DownReqs, NEW u \in Uids, CacheLink(d, u) PROVE LinkTypeOK'
  BY <1>4 DEF CacheLink, Getting, up
<1>5. ASSUME NEW d \in DownReqs, Answer(d) PROVE LinkTypeOK'
  BY <1>5 DEF Answer, up
<1>6. ASSUME NEW d \in DownReqs, LinkFault(d) PROVE LinkTypeOK'
  BY <1>6 DEF LinkFault, up, down
<1>7. ASSUME NEW u \in Uids, LinkExpires(u) PROVE LinkTypeOK'
  BY <1>7 DEF LinkExpires, up, down
<1>8. LinkTypeOK'
  BY <1>1, <1>2, <1>3, <1>4, <1>5, <1>6, <1>7 DEF DownStep
<1>9. UNCHANGED <<rows, dirs, maker, urls, metas, todo>>
  BY DEF DownStep, LookUp, Query, SendLink, CacheLink, Answer, LinkFault, LinkExpires, up
<1>10. \A q \in UpReqs : at'[q] = at[q]
  BY DEF DownStep, LookUp, Query, SendLink, CacheLink, Answer, LinkFault, LinkExpires
<1> QED
  BY <1>8, <1>9, <1>10 DEF Sent, CleansFailed, InsertsAll, AllSent, RowsOfAnswered

-----------------------------------------------------------------------------
LEMMA LinkInductive == LinkInv /\ [LinkNext]_linkVars => LinkInv'
<1>1. ASSUME LinkInv, UNCHANGED linkVars PROVE LinkInv'
  BY <1>1 DEF linkVars, LinkInv, LinkTypeOK, Sent, CleansFailed, InsertsAll, AllSent, RowsOfAnswered
<1> QED
  BY <1>1, UpKeeps, CleanKeeps, DownKeeps DEF LinkNext

THEOREM LinkInvariance == LinkSpec => []LinkInv
  BY LinkInvInit, LinkInductive, PTL DEF LinkSpec

\* The variables keep their types for any number of requests.
THEOREM LinkTypeCorrect == LinkSpec => []LinkTypeOK
<1>1. LinkInv => LinkTypeOK
  BY DEF LinkInv
<1> QED
  BY <1>1, LinkInvariance, PTL

\* For any requests, files and failures (link.go:37-80): what a request that was
\* answered links to has its row and its directory, and no cleaning of another
\* request takes it away; of one that failed there is no row.
THEOREM LinksStayUsable == LinkSpec => []LinksUsable
<1>1. ASSUME LinkInv, NEW q \in UpReqs
      PROVE  /\ at[q] = "ok" => MadeBy(q) \subseteq rows \cap (dirs \ todo)
             /\ MadeBy(q) \cap rows \in {{}, MadeBy(q)}
  <2>1. ASSUME at[q] = "ok" PROVE MadeBy(q) \subseteq dirs \ todo
    <3>1. MadeBy(q) \subseteq dirs
      BY <1>1, <2>1 DEF LinkInv, Sent, InsertsAll, AllSent
    <3>2. \A u \in MadeBy(q) : u \notin todo
      BY <1>1, <2>1, OneMaker, LinkAssumption DEF LinkInv, CleansFailed
    <3> QED
      BY <3>1, <3>2
  <2> QED
    BY <1>1, <2>1 DEF LinkInv, RowsOfAnswered
<1>2. LinkInv => LinksUsable
  BY <1>1 DEF LinksUsable
<1> QED
  BY <1>2, LinkInvariance, PTL

-----------------------------------------------------------------------------
(* The download *)

\* What is on its way to the client, and what has got there.
Full == sent \o ch

\* Before the reader starts nothing is under way; after it has, one thing is.
Stages ==
    /\ pc \in {"check", "fill", "range", "route"} => reader = "off"
    /\ reader = "off" =>
          /\ pc \notin {"relay", "stream"} /\ ~closed
          /\ ch = <<>> /\ sent = <<>> /\ tokens = {}
          /\ \A i \in Members : worker[i] = "wait"
    /\ pc = "relay" <=> reader = "relay"
    /\ pc # "ended" => Asked /\ result = "none"
    /\ reader # "off" => Asked

\* The channel is closed by the reader's last step, and nothing ends well before.
Ending ==
    /\ closed => reader = "over"
    /\ pc = "stream" /\ reader = "over" => closed
    /\ pc = "ended" /\ reader \in {"single", "ring"} => result = "broken"
    /\ pc = "ended" /\ result = "ok" =>
          \/ reader = "over" /\ closed /\ ch = <<>>
          \/ reader = "off" /\ end < first

\* Old metadata comes from who looked early.
OldIsEarly == cache = "pending" \/ meta = "pending" => early

\* The members of the ring that have a token or are at work.
Busy(i) == i \in tokens \/ worker[i] \in {"read", "put", "pass"}

\* One at a time, and only while the ring runs.
Turns ==
    /\ \A i, j \in Members : Busy(i) /\ Busy(j) => i = j
    /\ \A i \in tokens : worker[i] = "wait"
    /\ reader # "ring" => \A i \in Members : ~Busy(i)
    /\ reader = "ring" => \A i \in Members : worker[i] # "gone"

\* What each reader is for, and where its range ends.
Ranged ==
    /\ pc \in {"route", "relay", "stream"} \/ reader # "off" =>
          /\ end < Size(meta)
          /\ req.place = "away" /\ first = 0 => end = Size(meta) - 1
    /\ reader = "single" => ~Multi(meta) /\ req.place = "store"
    /\ reader = "ring" => Multi(meta) /\ Complete /\ req.place = "store"
    /\ reader = "relay" => req.place = "away"

\* The ring's index and total: total is ahead once the part is read.
Placed ==
    reader = "ring" =>
        /\ index \in 0 .. object.count
        /\ (\A i \in Members : worker[i] \notin {"put", "pass"}) => total = object.offset[index]
        /\ \A i \in Members : worker[i] \in {"put", "pass"} =>
              index < object.count /\ total = object.offset[index + 1]
        /\ index < object.count => first <= object.offset[index + 1]

\* The blocks s, from the first byte on, with the bytes lost, are all before p.
Covers(s, byte) == \E k \in 1 .. Len(s) : In(byte, s[k])
Reaches(s, from, p, lost) ==
    LET done == IF s = <<>> THEN from ELSE s[Len(s)].upto
    IN  /\ Ordered(s, from, lost)
        /\ done <= p /\ (done .. p - 1) \subseteq lost
        /\ \A byte \in from .. p - 1 : Covers(s, byte) \/ byte \in lost

\* The next byte of a reader that goes by steps; its last read may go past the end.
Edge == IF cursor > end /\ cursor # first THEN end + 1 ELSE cursor

Stepping == reader = "single" \/ (reader = "relay" /\ ~Multi(meta))

\* What the reader that goes by steps, the one that relays parts and the ring have put
\* in the channel, and what has been put there when it is closed.
StepsReach ==
    Stepping =>
        /\ Reaches(Full, first, Edge, holes)
        /\ \E k \in 0 .. cursor - first : cursor = first + k * Step
PartsReach ==
    reader = "relay" /\ Multi(meta) =>
        cursor \in 0 .. object.count /\ Reaches(Full, first, object.offset[cursor], holes)
NextByte == IF total >= first THEN total ELSE first
RingReaches ==
    reader = "ring" =>
        /\ (\A i \in Members : worker[i] # "put") => Reaches(Full, first, NextByte, holes)
        /\ \A i \in Members : worker[i] = "put" =>
              /\ Reaches(Full, first, hand[i].from, holes)
              /\ hand[i].from <= hand[i].upto /\ hand[i].upto <= total
              /\ (hand[i].upto .. total - 1) \subseteq holes
AllReached ==
    closed =>
        \A byte \in first .. end : Covers(Full, byte) \/ byte \in holes \/ StepsEndOn(byte)

\* They hold of an answer from the first byte of its range until it is broken off.
Reached ==
    Ordered(Full, first, holes) /\ StepsReach /\ PartsReach /\ RingReaches /\ AllReached
Unbroken == Asked /\ FromStart /\ result # "broken"
Progress == Unbroken => Reached

\* What was sent stays in order, whatever becomes of the channel.
SentInOrder == Asked /\ FromStart => Ordered(sent, first, holes)

\* What holds of the control: the readers, their channel, and the row they go by.
Orderly == Stages /\ Ending /\ OldIsEarly /\ Turns /\ Ranged /\ Placed /\ ClosedOnce
Control == TypeOK /\ Orderly

\* The inductive invariant.
DownloadInv == Control /\ Progress /\ SentInOrder

-----------------------------------------------------------------------------
\* The rows of an object: how many there are, and their offsets.
LEMMA ObjectShape ==
  ASSUME object \in Objects
  PROVE  /\ object.multi \in BOOLEAN /\ object.num \in Nat /\ object.count \in Nat \ {0}
         /\ object.offset \in [0 .. object.count -> Nat] /\ object.offset[0] = 0
         /\ ~object.multi => object.count = 1
         /\ \A i \in 0 .. object.count - 1 : object.offset[i] <= object.offset[i + 1]
  BY DownloadAssumption

\* How many parts there are, and how many its row says.
LEMMA CountType == object \in Objects => object.count \in Nat \ {0} /\ object.num \in Nat
  BY DownloadAssumption

\* A part begins at an offset, and does not end before it.
LEMMA OffsetsRise ==
  ASSUME object \in Objects, NEW i \in 0 .. object.count - 1
  PROVE  /\ i \in Nat /\ i + 1 \in 0 .. object.count
         /\ object.offset[i] \in Nat /\ object.offset[i + 1] \in Nat
         /\ object.offset[i] <= object.offset[i + 1]
<1>1. /\ object.count \in Nat
      /\ object.offset \in [0 .. object.count -> Nat]
      /\ object.offset[i] <= object.offset[i + 1]
  BY ObjectShape
<1>2. i \in 0 .. object.count /\ i + 1 \in 0 .. object.count
  BY <1>1
<1> QED
  BY <1>1, <1>2

\* The size the row gives is a number, whatever the row.
LEMMA SizeType ==
  ASSUME object \in Objects
  PROVE  object.offset[object.count] \in Nat /\ \A m : Size(m) \in Nat
<1>1. object.count \in 0 .. object.count /\ object.offset \in [0 .. object.count -> Nat]
  BY ObjectShape
<1> QED
  BY <1>1 DEF Size

\* A byte not behind a part is not behind the next.
LEMMA StillAhead ==
  ASSUME object \in Objects, NEW i \in Nat, i + 1 < object.count,
         NEW f \in Nat, f <= object.offset[i + 1]
  PROVE  f <= object.offset[(i + 1) + 1]
<1>1. i + 1 \in 0 .. object.count - 1
  BY ObjectShape
<1>2. /\ object.offset[i + 1] \in Nat /\ object.offset[(i + 1) + 1] \in Nat
      /\ object.offset[i + 1] <= object.offset[(i + 1) + 1]
  BY <1>1, OffsetsRise
<1> QED
  BY <1>2

\* What is read from a byte on is a block.
LEMMA BlockType == \A a, n \in Nat : Block(a, n) \in Blocks
  BY DEF Block, Blocks

\* What the constants are.
LEMMA Bounds ==
  /\ Step \in Nat \ {0} /\ Ring \in Nat \ {0} /\ MaxAsks \in Nat /\ MaxFaults \in Nat
  /\ None \notin {"pending", "uploaded"}
  BY DownloadAssumption

\* A read gives a block from its first byte on, and counts as lost what the block lacks.
LEMMA ReadLoses ==
  ASSUME NEW from \in Nat, NEW n \in Nat, NEW data \in Given(from, n), Reads(from, n, data),
         faults \in 0 .. MaxFaults, holes \subseteq Int
  PROVE  /\ data \in Blocks /\ data.from = from /\ from <= data.upto /\ data.upto <= from + n
         /\ holes \subseteq holes' /\ (data.upto .. from + n - 1) \subseteq holes'
         /\ holes' \subseteq Int /\ faults' \in 0 .. MaxFaults
<1>1. PICK m \in 0 .. n : data = Block(from, m)
  BY DEF Given
<1>2. data \in Blocks /\ data.from = from /\ data.upto = from + m
  BY <1>1, BlockType DEF Block
<1>3. CASE data = Block(from, n) /\ UNCHANGED <<holes, faults>>
  <2>1. data.upto = from + n
    BY <1>3 DEF Block
  <2> QED
    BY <1>2, <1>3, <2>1
<1>4. ASSUME NEW k \in 0 .. n - 1, Fault, holes' = holes \cup (from + k .. from + n - 1),
             data \in {Block(from, k), Block(from, n)}
      PROVE  /\ holes \subseteq holes' /\ (data.upto .. from + n - 1) \subseteq holes'
             /\ holes' \subseteq Int /\ faults' \in 0 .. MaxFaults
  <2>1. data.upto \in {from + k, from + n}
    BY <1>4 DEF Block
  <2>2. (data.upto .. from + n - 1) \subseteq (from + k .. from + n - 1)
    BY <2>1
  <2>3. faults' \in 0 .. MaxFaults
    BY <1>4, Bounds DEF Fault
  <2>4. (from + k .. from + n - 1) \subseteq Int
    OBVIOUS
  <2> QED
    BY <1>4, <2>2, <2>3, <2>4
<1> QED
  BY <1>2, <1>3, <1>4 DEF Reads

\* A read and its send keep the types of what they touch.
LEMMA SendTypes ==
  ASSUME TypeOK, NEW from \in Nat, NEW n \in Nat, ReadAndSend(from, n)
  PROVE  /\ ch' \in Seq(Blocks) /\ closed' \in BOOLEAN /\ panicked' \in BOOLEAN
         /\ holes' \subseteq Int /\ faults' \in 0 .. MaxFaults
<1>1. PICK data \in Given(from, n) : Reads(from, n, data) /\ Send(data)
  BY DEF ReadAndSend
<1>2. data \in Blocks /\ holes' \subseteq Int /\ faults' \in 0 .. MaxFaults
  BY <1>1, ReadLoses DEF TypeOK
<1>5. CASE closed
  BY <1>1, <1>2, <1>5 DEF TypeOK, Send
<1>6. CASE ~closed
  <2>1. ch' = Append(ch, data) /\ UNCHANGED <<closed, panicked>>
    BY <1>1, <1>6 DEF Send
  <2> QED
    BY <1>2, <2>1 DEF TypeOK
<1> QED
  BY <1>5, <1>6

\* Where the ring begins.
LEMMA RingStart ==
  ASSUME TypeOK, NEW i \in 0 .. object.count - 1, StartsIn(i)
  PROVE  /\ i \in 0 .. object.count /\ first <= object.offset[i + 1]
         /\ object.offset[i] \in Nat /\ object.offset[i] <= first
<1>1. object \in Objects /\ first \in Nat
  BY DEF TypeOK
<1>2. /\ i \in 0 .. object.count
      /\ object.offset[i] \in Nat /\ object.offset[i + 1] \in Nat
      /\ object.offset[i] <= object.offset[i + 1]
  BY <1>1, CountType, OffsetsRise
<1>3. first <= object.offset[i] \/ first <= object.offset[i + 1]
  BY <1>1, <1>2 DEF StartsIn, GoesPast
<1>4. object.offset[i] <= first
  <2>1. CASE i = 0
    BY <1>1, <2>1, ObjectShape
  <2>2. CASE i # 0
    <3>1. i - 1 \in 0 .. i - 1 /\ (i - 1) + 1 = i
      BY <2>2, CountType, <1>1
    <3>2. GoesPast(i - 1)
      BY <3>1 DEF StartsIn
    <3> QED
      BY <3>1, <3>2 DEF GoesPast
  <2> QED
    BY <2>1, <2>2
<1> QED
  BY <1>1, <1>2, <1>3, <1>4

\* Where the ring is when a member reads the next part.
LEMMA FetchPlace ==
  ASSUME TypeOK, Turns, Ranged, Placed, NEW i \in Members, Fetch(i)
  PROVE  /\ reader = "ring" /\ \A k \in Members : worker[k] \notin {"put", "pass"}
         /\ index \in 0 .. object.count - 1 /\ total = object.offset[index]
         /\ index \in 0 .. object.count /\ index < object.count
         /\ object.offset[index] \in Nat /\ object.offset[index + 1] \in Nat
         /\ object.offset[index] <= object.offset[index + 1]
         /\ first <= object.offset[index + 1]
<1>1. worker[i] = "read" /\ index < object.num
  BY DEF Fetch
<1>2. reader = "ring" /\ \A k \in Members : worker[k] \notin {"put", "pass"}
  BY <1>1 DEF Turns, Busy
<1>3. /\ index \in 0 .. object.count - 1 /\ total = object.offset[index]
      /\ index \in 0 .. object.count /\ index < object.count
  BY <1>1, <1>2, CountType DEF TypeOK, Ranged, Placed, Complete
<1>4. /\ object.offset[index] \in Nat /\ object.offset[index + 1] \in Nat
      /\ object.offset[index] <= object.offset[index + 1]
  BY <1>3, OffsetsRise DEF TypeOK
<1>5. first <= object.offset[index + 1]
  BY <1>2, <1>3 DEF Placed
<1> QED
  BY <1>2, <1>3, <1>4, <1>5

\* What is skipped of the part from a to b, when f is the first byte, fits in it.
LEMMA SkipFits ==
  \A a, b, f \in Nat :
      a <= b /\ f <= b =>
          /\ b - a \in Nat
          /\ (IF a >= f THEN 0 ELSE f - a) \in Nat
          /\ (b - a) - (IF a >= f THEN 0 ELSE f - a) \in Nat
  OBVIOUS

\* No step breaks a type.
LEMMA TypeKept == Control /\ Next => TypeOK'
<1> SUFFICES ASSUME TypeOK, Stages, Turns, Ranged, Placed, Next PROVE TypeOK'
  BY DEF Control, Orderly
<1> USE Bounds DEF TypeOK, handlerVars, rowVars, chanVars, ringVars
<1>1. CASE UploadMarks
  BY <1>1 DEF UploadMarks
<1>2. CASE UploadCaches
  BY <1>2 DEF UploadCaches, SetNX
<1>3. CASE CacheExpires
  BY <1>3 DEF CacheExpires
<1>4. CASE ClientLeaves
  BY <1>4 DEF ClientLeaves
<1>5. CASE Refuse
  BY <1>5 DEF Refuse, Fail, NoFault
<1>6. CASE MetaHit
  BY <1>6 DEF MetaHit, Look
<1>7. CASE MetaMiss
  BY <1>7 DEF MetaMiss, Look, Row
<1>8. CASE MetaFault
  BY <1>8 DEF MetaFault, Fail, Fault
<1>9. CASE MetaFill
  BY <1>9 DEF MetaFill, SetNX
<1>10. CASE Settle
  <2>1. Size(meta) \in Nat
    BY SizeType
  <2>2. req.range = NoRange \/ req.range.first \in Nat
    BY <1>10, DownloadAssumption DEF Settle, Stages, Asked
  <2> QED
    BY <1>10, <2>1, <2>2 DEF Settle, GetRange
<1>11. CASE StartSingle
  BY <1>11 DEF StartSingle, Start
<1>12. CASE StartRing
  <2>1. PICK i \in 0 .. object.count - 1 : index' = i /\ total' = object.offset[i]
    BY <1>12 DEF StartRing
  <2>2. index' \in Nat /\ total' \in Nat /\ tokens' \subseteq Members
    <3>1. index' \in Nat /\ total' \in Nat
      BY <2>1, OffsetsRise
    <3>2. tokens' = {0} /\ 0 \in Members
      BY <1>12 DEF StartRing, Members
    <3> QED
      BY <3>1, <3>2
  <2> QED
    BY <1>12, <2>2 DEF StartRing, Start
<1>13. CASE NoPartStarts
  BY <1>13 DEF NoPartStarts
<1>14. CASE StartRelay
  BY <1>14 DEF StartRelay, Start
<1>15. CASE RouteFails
  BY <1>15 DEF RouteFails, Fail, Fault, NoFault
<1>16. CASE RelayNext
  <2>1. cursor' \in Nat
    BY <1>16 DEF RelayNext
  <2>2. \E from, n \in Nat : ReadAndSend(from, n)
    <3>1. CASE Multi(meta)
      <4>1. cursor \in 0 .. object.count - 1
        BY <1>16, <3>1, CountType DEF RelayNext, RelayMore
      <4>2. /\ object.offset[cursor] \in Nat
            /\ object.offset[cursor + 1] - object.offset[cursor] \in Nat
        BY <4>1, OffsetsRise
      <4> QED
        BY <1>16, <3>1, <4>2 DEF RelayNext
    <3>2. CASE ~Multi(meta)
      <4>1. Size(meta) \in Nat /\ cursor < Size(meta) - 1
        BY <1>16, <3>2, SizeType DEF RelayNext, RelayMore
      <4>2. SingleLength(cursor, Size(meta) - 1) \in Nat
        BY <4>1 DEF SingleLength
      <4> QED
        BY <1>16, <3>2, <4>2 DEF RelayNext
    <3> QED
      BY <3>1, <3>2
  <2>3. PICK from, n \in Nat : ReadAndSend(from, n)
    BY <2>2
  <2>4. /\ ch' \in Seq(Blocks) /\ closed' \in BOOLEAN /\ panicked' \in BOOLEAN
        /\ holes' \subseteq Int /\ faults' \in 0 .. MaxFaults
    BY <2>3, SendTypes
  <2> QED
    BY <1>16, <2>1, <2>4 DEF RelayNext
<1>17. CASE RelayEnds
  BY <1>17 DEF RelayEnds, Close, RelayMore
<1>18. CASE RelayBreaks
  BY <1>18 DEF RelayBreaks, NoFault, Fault
<1>19. CASE Deliver
  <2>1. Head(ch) \in Blocks /\ Tail(ch) \in Seq(Blocks)
    BY <1>19 DEF Deliver
  <2>2. Length(Head(ch)) \in Int
    BY <2>1 DEF Length, Blocks
  <2>3. sent' = Append(sent, Head(ch)) \/ sent' = sent
    BY <1>19 DEF Deliver
  <2>4. sent' \in Seq(Blocks)
    BY <2>1, <2>3
  <2>5. written' = written + Length(Head(ch)) \/ written' = written
    BY <1>19 DEF Deliver
  <2> QED
    BY <1>19, <2>1, <2>2, <2>4, <2>5 DEF Deliver
<1>20. CASE Finished
  BY <1>20 DEF Finished
<1>21. CASE NoticesGone
  BY <1>21 DEF NoticesGone
<1>22. CASE SingleReads
  <2>1. cursor' \in Nat /\ SingleLength(cursor, end) \in Nat
    BY <1>22 DEF SingleReads, SingleLength
  <2>2. ReadAndSend(cursor, SingleLength(cursor, end))
    BY <1>22 DEF SingleReads
  <2> QED
    BY <1>22, <2>1, <2>2, SendTypes DEF SingleReads
<1>23. CASE SingleEnds
  BY <1>23 DEF SingleEnds, Close
<1>24. CASE ReadKills
  BY <1>24 DEF ReadKills, Fault
<1>25. ASSUME NEW i \in Members, Fetch(i) PROVE TypeOK'
  <2> DEFINE size == object.offset[index + 1] - object.offset[index]
             skip == IF total >= first THEN 0 ELSE first - total
  <2>1. size \in Nat /\ skip \in Nat /\ size - skip \in Nat
    <3>2. total = object.offset[index]
      BY <1>25, FetchPlace
    <3>3. /\ first <= object.offset[index + 1]
          /\ object.offset[index] \in Nat /\ object.offset[index + 1] \in Nat
          /\ object.offset[index] <= object.offset[index + 1]
      BY <1>25, FetchPlace
    <3> QED
      BY <3>2, <3>3, SkipFits
  <2>2. PICK data \in Given(total + skip, size - skip) :
           Reads(total + skip, size - skip, data) /\ hand' = [hand EXCEPT ![i] = data]
    BY <1>25 DEF Fetch
  <2>3. data \in Blocks /\ holes' \subseteq Int /\ faults' \in 0 .. MaxFaults
    <3>1. total + skip \in Nat
      BY <2>1
    <3> HIDE DEF size, skip
    <3> QED
      BY <2>1, <2>2, <3>1, ReadLoses
  <2>4. total' \in Nat
    BY <1>25, <2>1 DEF Fetch
  <2> QED
    BY <1>25, <2>2, <2>3, <2>4 DEF Fetch
<1>26. ASSUME NEW i \in Members, Finish(i) PROVE TypeOK'
  BY <1>26 DEF Finish, Close
<1>27. ASSUME NEW i \in Members, Grab(i) PROVE TypeOK'
  BY <1>27 DEF Grab
<1>28. ASSUME NEW i \in Members, Pass(i) PROVE TypeOK'
  BY <1>28 DEF Pass, Members
<1>29. ASSUME NEW i \in Members, PutPart(i) PROVE TypeOK'
  <2>1. ch' \in Seq(Blocks) /\ closed' \in BOOLEAN /\ panicked' \in BOOLEAN
    <3>1. hand[i] \in Blocks /\ Send(hand[i])
      BY <1>29 DEF PutPart
    <3>2. CASE closed
      BY <3>1, <3>2 DEF Send
    <3>3. CASE ~closed
      <4>1. ch' = Append(ch, hand[i]) /\ UNCHANGED <<closed, panicked>>
        BY <3>1, <3>3 DEF Send
      <4> QED
        BY <3>1, <4>1
    <3> QED
      BY <3>2, <3>3
  <2> QED
    BY <1>29, <2>1 DEF PutPart
<1>30. ASSUME NEW via \in Fronts, NEW range \in Ranges \cup {NoRange}, NEW place \in Places,
             Ask(via, range, place)
      PROVE  TypeOK'
  <2>1. hand' \in [Members -> Blocks]
    BY <1>30, BlockType DEF Ask
  <2>2. worker' \in [Members -> {"wait", "read", "put", "pass", "gone"}] /\ turn' \in Members
    BY <1>30 DEF Ask, Members
  <2>3. req' \in [via : Fronts, range : Ranges \cup {NoRange}, place : Places, acked : BOOLEAN]
    BY <1>30 DEF Ask
  <2>4. ch' \in Seq(Blocks) /\ sent' \in Seq(Blocks)
    BY <1>30 DEF Ask
  <2>5. /\ closed' \in BOOLEAN /\ panicked' \in BOOLEAN /\ early' \in BOOLEAN
        /\ faults' \in 0 .. MaxFaults
    BY <1>30 DEF Ask
  <2>6. /\ index' \in Nat /\ total' \in Nat /\ cursor' \in Nat /\ first' \in Nat /\ end' \in Int
        /\ written' \in Int /\ holes' \subseteq Int /\ tokens' \subseteq Members
        /\ asks' \in 0 .. MaxAsks
    BY <1>30 DEF Ask
  <2> QED
    BY <1>30, <2>1, <2>2, <2>3, <2>4, <2>5, <2>6 DEF Ask
<1> QED
  BY <1>1, <1>2, <1>3, <1>4, <1>5, <1>6, <1>7, <1>8, <1>9, <1>10, <1>11, <1>12, <1>13, <1>14,
     <1>15, <1>16, <1>17, <1>18, <1>19, <1>20, <1>21, <1>22, <1>23, <1>24, <1>25, <1>26, <1>27,
     <1>28, <1>29, <1>30
     DEF Next, Handle, RingStep

\* No step breaks the order in which the readers, the channel and the handler go on.
LEMMA ControlKept == Control /\ Next => Control'
<1> SUFFICES ASSUME Control, Next
             PROVE  Orderly'
  BY TypeKept DEF Control, Orderly
<1> USE Bounds
    DEF Control, Orderly, Stages, Ending, OldIsEarly, Turns, Ranged, Placed, ClosedOnce,
        Asked, Busy, Size, Multi, Complete, handlerVars, rowVars, chanVars, ringVars
<1> TypeOK /\ TypeOK'
  BY TypeKept
<1>1. CASE UploadMarks
  BY <1>1 DEF UploadMarks, TypeOK
<1>2. CASE UploadCaches
  BY <1>2 DEF UploadCaches, SetNX, TypeOK
<1>3. CASE CacheExpires
  BY <1>3 DEF CacheExpires, TypeOK
<1>4. CASE ClientLeaves
  BY <1>4 DEF ClientLeaves, TypeOK
<1>5. CASE Refuse
  BY <1>5 DEF Refuse, Fail, NoFault, TypeOK
<1>6. CASE MetaHit
  BY <1>6 DEF MetaHit, Look, TypeOK
<1>7. CASE MetaMiss
  BY <1>7 DEF MetaMiss, Look, Row, TypeOK
<1>8. CASE MetaFault
  BY <1>8 DEF MetaFault, Fail, Fault, TypeOK
<1>9. CASE MetaFill
  BY <1>9 DEF MetaFill, SetNX, TypeOK
<1>10. CASE Settle
  <2>1. Size(meta) \in Nat /\ pc = "range" /\ req # None
    BY <1>10, SizeType DEF Settle, TypeOK
  <2>2. /\ end' < Size(meta)
        /\ first' = 0 => end' = Size(meta) - 1
    <3>1. CASE req.range = NoRange
      BY <1>10, <2>1, <3>1 DEF Settle, GetRange
    <3>2. CASE req.range # NoRange
      <4>1. req.range.first \in Nat
        BY <2>1, <3>2, DownloadAssumption DEF TypeOK
      <4>2. /\ first' = req.range.first
            /\ \/ end' = Size(meta) - 1
               \/ end' = req.range.first /\ end' < Size(meta) /\ end' # 0
        BY <1>10, <2>1, <3>2, <4>1 DEF Settle, GetRange
      <4> QED
        BY <2>1, <4>1, <4>2
    <3> QED
      BY <3>1, <3>2
  <2>3. \/ pc' = "route" /\ result' = result
        \/ pc' = "ended" /\ first' = Size(meta)
    BY <1>10 DEF Settle
  <2>4. UNCHANGED <<rowVars, req, meta, reader, cursor, ringVars, chanVars, sent>>
    BY <1>10 DEF Settle
  <2>5. Ranged'
    BY <2>1, <2>2, <2>4
  <2>6. Ending'
    BY <1>10, <2>1, <2>2, <2>3, <2>4 DEF Settle, TypeOK
  <2>7. (Stages /\ OldIsEarly /\ Turns /\ Placed /\ ClosedOnce)'
    BY <1>10, <2>1, <2>3, <2>4
  <2> QED
    BY <2>5, <2>6, <2>7
<1>11. CASE StartSingle
  BY <1>11 DEF StartSingle, Start, TypeOK
<1>12. CASE StartRing
  <2>1. PICK i \in 0 .. object.count - 1 :
           StartsIn(i) /\ index' = i /\ total' = object.offset[i]
    BY <1>12 DEF StartRing
  <2>2. Placed'
    <3>1. i \in 0 .. object.count /\ first <= object.offset[i + 1]
      BY <2>1, RingStart
    <3> QED
      BY <1>12, <2>1, <3>1 DEF StartRing, Start
  <2>3. Turns'
    BY <1>12 DEF StartRing, Start, Members
  <2>4. (Stages /\ Ending /\ OldIsEarly /\ Ranged /\ ClosedOnce)'
    BY <1>12 DEF StartRing, Start
  <2> QED
    BY <2>2, <2>3, <2>4
<1>13. CASE NoPartStarts
  BY <1>13 DEF NoPartStarts, TypeOK
<1>14. CASE StartRelay
  BY <1>14 DEF StartRelay, Start, TypeOK
<1>15. CASE RouteFails
  BY <1>15 DEF RouteFails, Fail, Fault, NoFault, TypeOK
<1>16. CASE RelayNext
  BY <1>16 DEF RelayNext, ReadAndSend, Reads, Send, RelayMore, SingleLength, TypeOK
<1>17. CASE RelayEnds
  BY <1>17 DEF RelayEnds, Close, RelayMore, TypeOK
<1>18. CASE RelayBreaks
  BY <1>18 DEF RelayBreaks, NoFault, Fault, TypeOK
<1>19. CASE Deliver
  BY <1>19 DEF Deliver, TypeOK
<1>20. CASE Finished
  BY <1>20 DEF Finished, TypeOK
<1>21. CASE NoticesGone
  BY <1>21 DEF NoticesGone, TypeOK
<1>22. CASE SingleReads
  BY <1>22 DEF SingleReads, ReadAndSend, Reads, Send, SingleLength, TypeOK
<1>23. CASE SingleEnds
  BY <1>23 DEF SingleEnds, Close, TypeOK
<1>24. CASE ReadKills
  BY <1>24 DEF ReadKills, Fault, TypeOK
<1>25. ASSUME NEW i \in Members, Fetch(i) PROVE Orderly'
  <2>1. /\ worker[i] = "read" /\ worker' = [worker EXCEPT ![i] = "put"]
        /\ total' = total + (object.offset[index + 1] - object.offset[index])
        /\ UNCHANGED <<handlerVars, pc, result, reader, cursor, index, turn, tokens, chanVars>>
        /\ index < object.num
    BY <1>25 DEF Fetch
  <2>2. reader = "ring" /\ \A k \in Members : k # i => worker[k] \notin {"read", "put", "pass"}
    BY <2>1
  <2>3. index \in 0 .. object.count - 1 /\ total = object.offset[index]
    BY <1>25, FetchPlace
  <2>4. total' = object.offset[index + 1]
    <3>1. object.offset[index] \in Nat /\ object.offset[index + 1] \in Nat
      BY <1>25, FetchPlace
    <3>2. \A a, b \in Nat : a + (b - a) = b
      OBVIOUS
    <3> QED
      BY <2>1, <2>3, <3>1, <3>2
  <2>5. \A k \in Members : worker'[k] = IF k = i THEN "put" ELSE worker[k]
    BY <2>1 DEF TypeOK
  <2>6. Placed'
    <3>1. /\ reader' = "ring" /\ index' = index /\ object' = object /\ first' = first
          /\ worker'[i] = "put"
      BY <2>1, <2>2, <2>5
    <3>2. /\ index \in 0 .. object.count /\ index < object.count
          /\ first <= object.offset[index + 1]
      BY <1>25, FetchPlace
    <3> QED
      BY <2>4, <3>1, <3>2
  <2>7. (Stages /\ Ending /\ OldIsEarly /\ Turns /\ Ranged /\ ClosedOnce)'
    BY <2>1, <2>2, <2>5 DEF TypeOK
  <2> QED
    BY <2>6, <2>7
<1>26. ASSUME NEW i \in Members, Finish(i) PROVE Orderly'
  BY <1>26 DEF Finish, Close, TypeOK
<1>27. ASSUME NEW i \in Members, Grab(i) PROVE Orderly'
  BY <1>27 DEF Grab, TypeOK
<1>28. ASSUME NEW i \in Members, Pass(i) PROVE Orderly'
  <2>1. /\ worker[i] = "pass" /\ worker' = [worker EXCEPT ![i] = "wait"]
        /\ index' = index + 1 /\ tokens' = tokens \cup {turn'}
        /\ UNCHANGED <<handlerVars, pc, result, reader, cursor, total, hand, chanVars>>
    BY <1>28 DEF Pass
  <2>2. reader = "ring" /\ \A k \in Members : k # i => ~Busy(k)
    BY <2>1
  <2>3. \A k \in Members : worker'[k] = IF k = i THEN "wait" ELSE worker[k]
    BY <2>1 DEF TypeOK
  <2>4. tokens = {}
    BY <2>1, <2>2 DEF TypeOK
  <2>5. Turns'
    <3>1. tokens' = {turn'}
      BY <2>1, <2>4
    <3>2. \A k \in Members : worker'[k] \notin {"read", "put", "pass"}
      BY <2>2, <2>3
    <3>3. worker'[turn'] = "wait"
      BY <2>2, <2>3 DEF TypeOK
    <3> QED
      BY <2>1, <2>2, <3>1, <3>2, <3>3
  <2>6. index < object.count /\ total = object.offset[index + 1]
    BY <2>1, <2>2
  <2>7. index + 1 < object.count => first <= object.offset[(index + 1) + 1]
    BY <2>2, <2>6, StillAhead DEF TypeOK
  <2>8. Placed'
    <3>1. \A k \in Members : worker'[k] \notin {"put", "pass"}
      BY <2>2, <2>3
    <3>2. index' \in 0 .. object.count /\ total' = object.offset[index']
      BY <2>1, <2>6, CountType DEF TypeOK
    <3>3. index' < object.count => first <= object.offset[index' + 1]
      BY <2>1, <2>7
    <3> QED
      BY <2>1, <3>1, <3>2, <3>3
  <2>9. (Stages /\ Ending /\ OldIsEarly /\ Ranged /\ ClosedOnce)'
    BY <2>1, <2>2
  <2> QED
    BY <2>5, <2>8, <2>9
<1>29. ASSUME NEW i \in Members, PutPart(i) PROVE Orderly'
  BY <1>29 DEF PutPart, Send, TypeOK
<1>30. ASSUME NEW via \in Fronts, NEW range \in Ranges \cup {NoRange}, NEW place \in Places,
             Ask(via, range, place)
      PROVE  Orderly'
  <2>0. req' # None
    <3>1. req' = [via |-> via, range |-> range, place |-> place, acked |-> (upload = "acked")]
      BY <1>30 DEF Ask
    <3>2. req' \in [via : Fronts, range : Ranges \cup {NoRange}, place : Places, acked : BOOLEAN]
      BY <3>1
    <3> QED
      BY <3>2, DownloadAssumption
  <2>1. /\ pc' = "check" /\ meta' = None /\ req' # None /\ result' = "none"
        /\ reader' = "off" /\ tokens' = {} /\ ch' = <<>> /\ sent' = <<>> /\ closed' = FALSE
        /\ worker' = [k \in Members |-> "wait"]
        /\ UNCHANGED <<rowVars, panicked>>
    BY <1>30, <2>0 DEF Ask
  <2>2. (Stages /\ Ending)'
    BY <2>1
  <2>3. (OldIsEarly /\ Turns /\ Ranged /\ Placed /\ ClosedOnce)'
    BY <2>1
  <2> QED
    BY <2>2, <2>3
<1> QED
  BY <1>1, <1>2, <1>3, <1>4, <1>5, <1>6, <1>7, <1>8, <1>9, <1>10, <1>11, <1>12, <1>13, <1>14,
     <1>15, <1>16, <1>17, <1>18, <1>19, <1>20, <1>21, <1>22, <1>23, <1>24, <1>25, <1>26, <1>27,
     <1>28, <1>29, <1>30
     DEF Next, Handle, RingStep

-----------------------------------------------------------------------------
(* Blocks in a row *)

\* What is in order, or reaches a byte, still does when more is lost.
LEMMA MoreLost ==
  ASSUME NEW s, NEW from, NEW p, NEW lost, NEW more, lost \subseteq more
  PROVE  /\ Ordered(s, from, lost) => Ordered(s, from, more)
         /\ Reaches(s, from, p, lost) => Reaches(s, from, p, more)
<1>1. Ordered(s, from, lost) => Ordered(s, from, more)
  BY DEF Ordered
<1> QED
  BY <1>1 DEF Reaches

\* The block that begins where the others end goes on from them.
LEMMA GoesOn ==
  ASSUME NEW s \in Seq(Blocks), NEW from \in Nat, NEW p \in Nat, NEW q \in Nat,
         NEW lost, NEW more, lost \subseteq more, Reaches(s, from, p, lost),
         NEW b \in Blocks, b.from = p, p <= b.upto, b.upto <= q,
         (b.upto .. q - 1) \subseteq more
  PROVE  Reaches(Append(s, b), from, q, more)
<1> DEFINE t == Append(s, b)
           done == IF s = <<>> THEN from ELSE s[Len(s)].upto
<1>0. b.upto \in Nat
  BY DEF Blocks
<1>1. /\ t \in Seq(Blocks) /\ Len(s) \in Nat /\ Len(t) = Len(s) + 1
      /\ t[Len(t)] = b /\ \A k \in 1 .. Len(s) : t[k] = s[k]
  OBVIOUS
<1>2. s = <<>> <=> Len(s) = 0
  OBVIOUS
<1>3. /\ Ordered(s, from, more) /\ done <= p /\ (done .. p - 1) \subseteq more
      /\ \A byte \in from .. p - 1 : Covers(s, byte) \/ byte \in more
  BY MoreLost DEF Reaches
<1> HIDE DEF t
<1>4. Ordered(t, from, more)
  <2> SUFFICES ASSUME NEW k \in 1 .. Len(t)
               PROVE  LET before == IF k = 1 THEN from ELSE t[k - 1].upto
                      IN  before <= t[k].from /\ (before .. t[k].from - 1) \subseteq more
    BY DEF Ordered
  <2>1. CASE k <= Len(s)
    <3>1. k \in 1 .. Len(s) /\ t[k] = s[k] /\ (k # 1 => t[k - 1] = s[k - 1])
      BY <1>1, <2>1
    <3>2. LET before == IF k = 1 THEN from ELSE s[k - 1].upto
          IN  before <= s[k].from /\ (before .. s[k].from - 1) \subseteq more
      BY <1>3, <3>1 DEF Ordered
    <3> QED
      BY <3>1, <3>2
  <2>2. CASE k = Len(s) + 1
    <3>1. done = IF k = 1 THEN from ELSE t[k - 1].upto
      BY <1>1, <1>2, <2>2
    <3> QED
      BY <1>1, <1>3, <2>2, <3>1
  <2> QED
    BY <1>1, <2>1, <2>2
<1>5. ASSUME NEW byte \in from .. q - 1 PROVE Covers(t, byte) \/ byte \in more
  <2>1. CASE byte < p
    <3>1. Covers(s, byte) \/ byte \in more
      BY <1>3, <2>1
    <3> QED
      BY <1>1, <3>1 DEF Covers
  <2>2. CASE p <= byte /\ byte < b.upto
    BY <1>1, <2>2 DEF Covers, In
  <2>3. CASE b.upto <= byte
    BY <1>0, <2>3
  <2> QED
    BY <1>0, <2>1, <2>2, <2>3
<1>6. t # <<>> /\ t[Len(t)].upto = b.upto
  BY <1>1 DEF t
<1>7. Reaches(t, from, q, more)
  BY <1>4, <1>5, <1>6 DEF Reaches
<1> QED
  BY <1>7 DEF t

\* Nothing reaches the byte it begins with.
LEMMA Begins ==
  ASSUME NEW from \in Nat, NEW lost
  PROVE  Ordered(<<>>, from, lost) /\ Reaches(<<>>, from, from, lost)
  BY DEF Ordered, Reaches

\* What a sequence in order begins with is in order.
LEMMA BeginsInOrder ==
  ASSUME NEW s \in Seq(Blocks), NEW c \in Seq(Blocks), NEW from, NEW lost,
         Ordered(s \o c, from, lost)
  PROVE  Ordered(s, from, lost)
<1>1. /\ Len(s \o c) = Len(s) + Len(c) /\ Len(s) \in Nat /\ Len(c) \in Nat
      /\ \A k \in 1 .. Len(s) : (s \o c)[k] = s[k]
  OBVIOUS
<1> SUFFICES ASSUME NEW k \in 1 .. Len(s)
             PROVE  LET before == IF k = 1 THEN from ELSE s[k - 1].upto
                    IN  before <= s[k].from /\ (before .. s[k].from - 1) \subseteq lost
  BY DEF Ordered
<1>2. k \in 1 .. Len(s \o c) /\ (k # 1 => k - 1 \in 1 .. Len(s))
  BY <1>1
<1> QED
  BY <1>1, <1>2 DEF Ordered

\* What is put in the channel comes last of all.
LEMMA OneMore ==
  ASSUME NEW s \in Seq(Blocks), NEW c \in Seq(Blocks), NEW b \in Blocks
  PROVE  s \o Append(c, b) = Append(s \o c, b)
  OBVIOUS

\* What is received from the channel and sent to the client stays in its place.
LEMMA HandedOn ==
  ASSUME NEW s \in Seq(Blocks), NEW c \in Seq(Blocks), c # <<>>
  PROVE  Append(s, Head(c)) \o Tail(c) = s \o c
  OBVIOUS

-----------------------------------------------------------------------------
(* The data *)

\* What a reader adds to the blocks when it reads and sends: they reach on.
LEMMA ReaderGoesOn ==
  ASSUME TypeOK, ~closed, NEW p \in Nat, NEW n \in Nat,
         Reaches(Full, first, p, holes), ReadAndSend(p, n), sent' = sent
  PROVE  Reaches(Full', first, p + n, holes')
<1>1. PICK data \in Given(p, n) : Reads(p, n, data) /\ Send(data)
  BY DEF ReadAndSend
<1>2. /\ data \in Blocks /\ data.from = p /\ p <= data.upto /\ data.upto <= p + n
      /\ holes \subseteq holes' /\ (data.upto .. p + n - 1) \subseteq holes'
  BY <1>1, ReadLoses DEF TypeOK
<1>3. Full \in Seq(Blocks) /\ Full' = Append(Full, data)
  <2>1. ch' = Append(ch, data)
    BY <1>1 DEF Send
  <2>2. sent \in Seq(Blocks) /\ ch \in Seq(Blocks)
    BY DEF TypeOK
  <2>3. sent \o Append(ch, data) = Append(sent \o ch, data)
    BY <1>2, <2>2, OneMore
  <2> QED
    BY <2>1, <2>2, <2>3 DEF Full
<1>4. first \in Nat /\ p + n \in Nat
  BY DEF TypeOK
<1> QED
  BY <1>2, <1>3, <1>4, GoesOn

\* An action that moves nothing keeps what has been reached.
LEMMA DataRests ==
  ASSUME Progress, SentInOrder,
         UNCHANGED <<object, meta, req, first, end, cursor, total, hand, ch, closed, sent, holes>>,
         result = "broken" => result' = "broken",
         \/ reader' = "over"
         \/ reader' = reader /\ \A i \in Members : worker'[i] = "put" <=> worker[i] = "put"
  PROVE  Progress' /\ SentInOrder'
<1> USE DEF Unbroken, Asked, FromStart, Full, Size, Multi
<1>1. SentInOrder'
  BY DEF SentInOrder
<1>2. SUFFICES ASSUME Unbroken' PROVE Reached'
  BY <1>1 DEF Progress, Reached
<1>3. Reached
  BY <1>2 DEF Progress, Reached
<1>4. Ordered(Full, first, holes)' /\ AllReached'
  BY <1>3 DEF Reached, AllReached, StepsEndOn
<1>5. StepsReach' /\ PartsReach'
  BY <1>3 DEF Reached, StepsReach, PartsReach, Stepping, Edge
<1>6. RingReaches'
  BY <1>3 DEF Reached, RingReaches, NextByte
<1> QED
  BY <1>4, <1>5, <1>6 DEF Reached

\* Before the reader starts there is nothing to keep.
LEMMA NothingYet ==
  ASSUME TypeOK', Stages', reader' = "off"
  PROVE  Progress' /\ SentInOrder'
<1>1. ch' = <<>> /\ sent' = <<>> /\ Full' = <<>> /\ ~closed'
  BY DEF Stages, Full
<1>2. Ordered(<<>>, first', holes')
  BY Begins DEF TypeOK
<1>3. SentInOrder' /\ Ordered(Full', first', holes')
  BY <1>1, <1>2 DEF SentInOrder
<1>4. (StepsReach /\ PartsReach /\ RingReaches /\ AllReached)'
  BY <1>1 DEF StepsReach, PartsReach, RingReaches, AllReached, Stepping
<1> QED
  BY <1>3, <1>4 DEF Progress, Reached

\* At the end of a reader that goes by steps all is reached but a byte its steps end on.
LEMMA StepsReachAll ==
  ASSUME TypeOK, StepsReach, Stepping, cursor >= end, ~Multi(meta)
  PROVE  \A byte \in first .. end : Covers(Full, byte) \/ byte \in holes \/ StepsEndOn(byte)
<1> SUFFICES ASSUME NEW byte \in first .. end
             PROVE  Covers(Full, byte) \/ byte \in holes \/ StepsEndOn(byte)
  OBVIOUS
<1>1. first \in Nat /\ cursor \in Nat /\ end \in Int /\ byte \in Int
  BY DEF TypeOK
<1>2. \A b \in first .. Edge - 1 : Covers(Full, b) \/ b \in holes
  BY DEF StepsReach, Reaches
<1>3. CASE byte < Edge
  BY <1>1, <1>2, <1>3 DEF Edge
<1>4. CASE byte >= Edge
  <2>1. cursor = end /\ byte = end
    BY <1>1, <1>4 DEF Edge
  <2>2. \E k \in 0 .. end - first : first + k * Step = end
    BY <2>1 DEF StepsReach
  <2> QED
    BY <2>1, <2>2 DEF StepsEndOn
<1> QED
  BY <1>1, <1>3, <1>4 DEF Edge

\* A step of such a reader goes on from what it has reached.
LEMMA StepReaches ==
  ASSUME TypeOK, ~closed, StepsReach, Stepping, cursor < end, first <= cursor,
         ReadAndSend(cursor, SingleLength(cursor, end)), cursor' = cursor + Step,
         UNCHANGED <<sent, first, end>>
  PROVE  /\ Reaches(Full', first, Edge', holes')
         /\ \E k \in 0 .. cursor' - first : cursor' = first + k * Step
<1>1. /\ first \in Nat /\ cursor \in Nat /\ end \in Int /\ Step \in Nat \ {0}
      /\ cursor' \in Nat
  BY Bounds DEF TypeOK
<1>2. Edge = cursor
  BY <1>1 DEF Edge
<1>3. SingleLength(cursor, end) \in Nat /\ cursor + SingleLength(cursor, end) = Edge'
  BY <1>1 DEF SingleLength, Edge
<1>4. Reaches(Full', first, Edge', holes')
  BY <1>1, <1>2, <1>3, ReaderGoesOn DEF StepsReach
<1>5. PICK k \in 0 .. cursor - first : cursor = first + k * Step
  BY DEF StepsReach
<1>6. k + 1 \in 0 .. cursor' - first /\ cursor' = first + (k + 1) * Step
  BY <1>1, <1>5
<1> QED
  BY <1>4, <1>6

\* A reader that goes by steps keeps what it has reached when it takes one.
LEMMA SteppingKept ==
  ASSUME TypeOK, ~closed, Progress, SentInOrder, reader' = reader, Stepping, ~Multi(meta),
         cursor < end, ReadAndSend(cursor, SingleLength(cursor, end)), cursor' = cursor + Step,
         UNCHANGED <<object, meta, req, first, end, sent, result>>
  PROVE  Progress' /\ SentInOrder'
<1>1. holes \subseteq holes' /\ ~closed'
  BY DEF ReadAndSend, Reads, Send
<1>2. SentInOrder'
  BY <1>1, MoreLost DEF SentInOrder, Asked, FromStart
<1>3. ASSUME Unbroken' PROVE Reached'
  <2>1. StepsReach
    BY <1>3 DEF Progress, Reached, Unbroken, Asked, FromStart
  <2>2. first <= cursor
    BY <2>1 DEF StepsReach, TypeOK
  <2>3. /\ Reaches(Full', first, Edge', holes')
        /\ \E k \in 0 .. cursor' - first : cursor' = first + k * Step
    BY <2>1, <2>2, StepReaches
  <2>4. Ordered(Full', first', holes') /\ StepsReach'
    BY <2>3 DEF Reaches, StepsReach
  <2>5. PartsReach' /\ RingReaches' /\ AllReached'
    BY <1>1 DEF PartsReach, RingReaches, AllReached, Stepping, Multi
  <2> QED
    BY <2>4, <2>5 DEF Reached
<1> QED
  BY <1>2, <1>3 DEF Progress, Reached

\* The step that closes the channel leaves all reached.
LEMMA ReaderOver ==
  ASSUME Progress, SentInOrder, reader' = "over",
         UNCHANGED <<object, meta, req, first, end, sent, ch, holes, result>>,
         Unbroken' => AllReached'
  PROVE  Progress' /\ SentInOrder'
<1>1. SentInOrder'
  BY DEF SentInOrder, Asked, FromStart
<1>2. Unbroken' => Ordered(Full', first', holes')
  BY DEF Unbroken, Asked, FromStart, Progress, Reached, Full
<1>3. (StepsReach /\ PartsReach /\ RingReaches)'
  BY DEF StepsReach, PartsReach, RingReaches, Stepping
<1> QED
  BY <1>1, <1>2, <1>3 DEF Progress, Reached

\* The relay of a part keeps what has been reached.
LEMMA PartRelayed ==
  ASSUME TypeOK, ~closed, Progress, SentInOrder, Multi(meta), reader = "relay", reader' = "relay",
         cursor \in 0 .. object.count - 1, cursor' = cursor + 1,
         ReadAndSend(object.offset[cursor], object.offset[cursor + 1] - object.offset[cursor]),
         UNCHANGED <<object, meta, req, first, end, sent, result>>
  PROVE  Progress' /\ SentInOrder'
<1> DEFINE start == object.offset[cursor]
           size == object.offset[cursor + 1] - object.offset[cursor]
<1>1. holes \subseteq holes' /\ ~closed'
  BY DEF ReadAndSend, Reads, Send
<1>2. SentInOrder'
  BY <1>1, MoreLost DEF SentInOrder, Asked, FromStart
<1>3. ASSUME Unbroken' PROVE Reached'
  <2>1. PartsReach
    BY <1>3 DEF Progress, Reached, Unbroken, Asked, FromStart
  <2>2. /\ start \in Nat /\ size \in Nat /\ start + size = object.offset[cursor + 1]
        /\ cursor + 1 \in 0 .. object.count
    BY OffsetsRise DEF TypeOK
  <2>3. Reaches(Full', first, start + size, holes')
    BY <2>1, <2>2, ReaderGoesOn DEF PartsReach
  <2>4. Ordered(Full', first', holes') /\ PartsReach'
    BY <2>2, <2>3 DEF Reaches, PartsReach
  <2>5. StepsReach' /\ RingReaches' /\ AllReached'
    BY <1>1 DEF StepsReach, RingReaches, AllReached, Stepping, Multi
  <2> QED
    BY <2>4, <2>5 DEF Reached
<1> QED
  BY <1>2, <1>3 DEF Progress, Reached

\* The member that reads a part holds what goes on from what has been reached.
LEMMA FetchKept ==
  ASSUME Control, Progress, SentInOrder, Control', NEW i \in Members, Fetch(i)
  PROVE  Progress' /\ SentInOrder'
<1> DEFINE size == object.offset[index + 1] - object.offset[index]
           skip == IF total >= first THEN 0 ELSE first - total
<1>1. TypeOK /\ Turns /\ Placed /\ Ranged /\ Turns' /\ TypeOK' /\ Placed' /\ Ending
  BY DEF Control, Orderly
<1>2. /\ worker[i] = "read" /\ index < object.num /\ total' = total + size
      /\ worker' = [worker EXCEPT ![i] = "put"]
      /\ UNCHANGED <<object, req, meta, first, end, sent, result, reader, cursor, index, ch,
                     closed>>
  BY DEF Fetch, handlerVars, rowVars, chanVars
<1>3. PICK data \in Given(total + skip, size - skip) :
         Reads(total + skip, size - skip, data) /\ hand' = [hand EXCEPT ![i] = data]
  BY DEF Fetch
<1>4. reader = "ring" /\ \A k \in Members : worker[k] # "put"
  BY <1>1, <1>2 DEF Turns, Busy
<1>5. \A k \in Members : worker'[k] = "put" => k = i
  BY <1>1, <1>2 DEF Turns, Busy
<1>6. /\ total \in Nat /\ first \in Nat /\ total' \in Nat
      /\ total <= total' /\ first <= total' /\ total' = total + size
  <2>1. /\ total = object.offset[index] /\ object.offset[index] <= object.offset[index + 1]
        /\ object.offset[index + 1] \in Nat /\ first <= object.offset[index + 1]
    BY <1>1, FetchPlace
  <2>2. total \in Nat /\ first \in Nat
    BY <1>1 DEF TypeOK
  <2>3. total' = total + (object.offset[index + 1] - total)
    BY <1>2, <2>1
  <2> QED
    BY <1>2, <2>1, <2>2, <2>3
<1>7. /\ NextByte = total + skip /\ total + skip \in Nat
      /\ total + skip + (size - skip) = total' /\ total + skip <= total'
      /\ total + skip + (size - skip) - 1 = total' - 1
  <2>1. total + (total' - total) = total' /\ size = total' - total
    BY <1>1, <1>6, FetchPlace
  <2>2. CASE total >= first
    BY <1>6, <2>1, <2>2 DEF NextByte
  <2>3. CASE total < first
    BY <1>6, <2>1, <2>3 DEF NextByte
  <2> QED
    BY <1>6, <2>2, <2>3
<1>8. /\ holes \subseteq holes' /\ hand'[i] = data
       /\ data.from = total + skip /\ data.from <= data.upto /\ data.upto <= total'
       /\ (data.upto .. total' - 1) \subseteq holes'
  <2>1. hand'[i] = data
    BY <1>1, <1>3 DEF TypeOK
  <2>2. total + skip \in Nat /\ size - skip \in Nat
    <3>1. /\ total = object.offset[index] /\ object.offset[index] <= object.offset[index + 1]
          /\ object.offset[index] \in Nat /\ object.offset[index + 1] \in Nat
          /\ first <= object.offset[index + 1]
      BY <1>1, FetchPlace
    <3>2. first \in Nat /\ total + skip \in Nat
      BY <1>6, <1>7
    <3>3. size - skip \in Nat
      BY <3>1, <3>2, SkipFits
    <3> QED
      BY <3>2, <3>3
  <2>3. /\ data.from = total + skip /\ data.from <= data.upto
        /\ data.upto <= total + skip + (size - skip)
        /\ holes \subseteq holes'
        /\ (data.upto .. total + skip + (size - skip) - 1) \subseteq holes'
    <3>1. faults \in 0 .. MaxFaults /\ holes \subseteq Int
      BY <1>1 DEF TypeOK
    <3> DEFINE from == total + skip
               n == size - skip
    <3>2. from \in Nat /\ n \in Nat /\ data \in Given(from, n) /\ Reads(from, n, data)
      BY <1>3, <2>2
    <3> HIDE DEF from, n
    <3>3. /\ data.from = from /\ from <= data.upto /\ data.upto <= from + n
          /\ holes \subseteq holes' /\ (data.upto .. from + n - 1) \subseteq holes'
      BY <3>1, <3>2, ReadLoses
    <3> QED
      BY <3>3 DEF from, n
  <2> QED
    BY <1>7, <2>1, <2>3
<1>9. SentInOrder'
  BY <1>2, <1>8, MoreLost DEF SentInOrder, Asked, FromStart
<1>10. ASSUME Unbroken' PROVE Reached'
  <2>1. Reaches(Full, first, total + skip, holes)
    BY <1>2, <1>4, <1>6, <1>7, <1>10 DEF Progress, Reached, Unbroken, Asked, FromStart, RingReaches
  <2>2. Reaches(Full', first', hand'[i].from, holes')
    BY <1>2, <1>8, <2>1, MoreLost DEF Full
  <2>3. RingReaches'
    <3>1. \E k \in Members : worker'[k] = "put"
      BY <1>1, <1>2 DEF TypeOK
    <3> QED
      BY <1>2, <1>4, <1>5, <1>8, <2>2, <3>1 DEF RingReaches
  <2>4. Ordered(Full', first', holes')
    BY <2>2 DEF Reaches
  <2>5. StepsReach' /\ PartsReach' /\ AllReached'
    BY <1>1, <1>2, <1>4 DEF StepsReach, PartsReach, AllReached, Stepping, Ending
  <2> QED
    BY <2>3, <2>4, <2>5 DEF Reached
<1> QED
  BY <1>9, <1>10 DEF Progress, Reached

\* When it puts that in the channel, what has been reached goes up to the next part.
LEMMA PutKept ==
  ASSUME Control, Progress, SentInOrder, Control', NEW i \in Members, PutPart(i)
  PROVE  Progress' /\ SentInOrder'
<1>1. TypeOK /\ Turns /\ Placed /\ Ending /\ Turns' /\ TypeOK'
  BY DEF Control, Orderly
<1>2. /\ worker[i] = "put" /\ worker' = [worker EXCEPT ![i] = "pass"]
      /\ UNCHANGED <<object, req, meta, first, end, sent, result, reader, cursor, index, total,
                     hand, holes>>
  BY DEF PutPart, handlerVars, rowVars
<1>3. reader = "ring" /\ ~closed
  BY <1>1, <1>2 DEF Turns, Busy, Ending
<1>4. ch' = Append(ch, hand[i]) /\ closed' = closed
  BY <1>3 DEF PutPart, Send
<1>5. \A k \in Members : worker'[k] # "put"
  BY <1>1, <1>2 DEF Turns, Busy, TypeOK
<1>6. /\ hand[i] \in Blocks /\ sent \in Seq(Blocks) /\ ch \in Seq(Blocks)
      /\ first \in Nat /\ total \in Nat
  BY <1>1 DEF TypeOK
<1>7. first <= total
  BY <1>1, <1>2, <1>3 DEF Placed
<1>8. SentInOrder'
  BY <1>2 DEF SentInOrder, Asked, FromStart
<1>9. ASSUME Unbroken' PROVE Reached'
  <2>1. /\ Reaches(Full, first, hand[i].from, holes)
        /\ hand[i].from <= hand[i].upto /\ hand[i].upto <= total
        /\ (hand[i].upto .. total - 1) \subseteq holes
    BY <1>2, <1>3, <1>9 DEF Progress, Reached, Unbroken, Asked, FromStart, RingReaches
  <2>2. Full \in Seq(Blocks) /\ Full' = Append(Full, hand[i])
    <3>1. sent \o Append(ch, hand[i]) = Append(sent \o ch, hand[i])
      BY <1>6, OneMore
    <3> QED
      BY <1>2, <1>4, <1>6, <3>1 DEF Full
  <2>3. hand[i].from \in Nat
    BY <1>6 DEF Blocks
  <2>4. Reaches(Full', first, total, holes)
    BY <1>6, <2>1, <2>2, <2>3, GoesOn
  <2>5. NextByte' = total
    BY <1>2, <1>6, <1>7 DEF NextByte
  <2>6. RingReaches'
    BY <1>2, <1>5, <2>4, <2>5 DEF RingReaches
  <2>7. Ordered(Full', first', holes')
    BY <1>2, <2>4 DEF Reaches
  <2>8. StepsReach' /\ PartsReach' /\ AllReached'
    BY <1>2, <1>3, <1>4 DEF StepsReach, PartsReach, AllReached, Stepping
  <2> QED
    BY <2>6, <2>7, <2>8 DEF Reached
<1> QED
  BY <1>8, <1>9 DEF Progress, Reached

\* No step breaks what has been reached.
LEMMA DataKept == DownloadInv /\ Next => Progress' /\ SentInOrder'
<1> SUFFICES ASSUME Control, Progress, SentInOrder, Control', Next
             PROVE  Progress' /\ SentInOrder'
  BY ControlKept DEF DownloadInv
<1> TypeOK /\ Stages /\ Ending /\ Turns /\ Ranged /\ Placed /\ TypeOK' /\ Stages'
  BY DEF Control, Orderly
<1> object \in Objects
  BY DEF TypeOK
<1> USE DEF handlerVars, rowVars, chanVars, ringVars
<1>1. ASSUME NEW via \in Fronts, NEW range \in Ranges \cup {NoRange}, NEW place \in Places,
             Ask(via, range, place)
      PROVE  Progress' /\ SentInOrder'
  BY <1>1, NothingYet DEF Ask
<1>2. CASE Refuse \/ MetaFault \/ RouteFails
  <2>1. reader' = "off"
    BY <1>2 DEF Refuse, MetaFault, RouteFails, Fail, Stages
  <2> QED
    BY <2>1, NothingYet
<1>3. CASE MetaHit \/ MetaMiss \/ MetaFill \/ Settle \/ NoPartStarts
  <2>1. reader' = "off"
    BY <1>3 DEF MetaHit, MetaMiss, MetaFill, Settle, NoPartStarts, Look, Stages
  <2> QED
    BY <2>1, NothingYet
<1>4. CASE UploadMarks \/ UploadCaches \/ CacheExpires \/ ClientLeaves
  <2>1. UNCHANGED <<object, meta, req, first, end, cursor, total, hand, ch, closed, sent, holes,
                    result, reader, worker>>
    BY <1>4 DEF UploadMarks, UploadCaches, CacheExpires, ClientLeaves
  <2> QED
    BY <2>1, DataRests
<1>5. CASE Finished \/ NoticesGone
  <2>1. /\ UNCHANGED <<object, meta, req, first, end, cursor, total, hand, ch, closed, sent,
                       holes, reader, worker>>
        /\ result = "none"
    BY <1>5 DEF Finished, NoticesGone, Stages
  <2> QED
    BY <2>1, DataRests
<1>6. CASE RelayBreaks
  <2>1. /\ UNCHANGED <<object, meta, req, first, end, cursor, total, hand, ch, closed, sent, holes>>
        /\ reader' = "over" /\ result = "none"
    BY <1>6 DEF RelayBreaks, Stages
  <2> QED
    BY <2>1, DataRests
<1>7. CASE ReadKills
  <2>1. /\ UNCHANGED <<object, meta, req, first, end, cursor, total, hand, ch, closed, sent, holes>>
        /\ reader' = "over" /\ (result = "broken" => result' = "broken")
    BY <1>7 DEF ReadKills
  <2> QED
    BY <2>1, DataRests
<1>8. ASSUME NEW i \in Members, Grab(i) \/ Pass(i) PROVE Progress' /\ SentInOrder'
  <2>1. UNCHANGED <<object, meta, req, first, end, cursor, total, hand, ch, closed, sent, holes,
                    result, reader>>
    BY <1>8 DEF Grab, Pass
  <2>2. \A k \in Members : worker'[k] = "put" <=> worker[k] = "put"
    BY <1>8 DEF Grab, Pass, TypeOK
  <2> QED
    BY <2>1, <2>2, DataRests
<1>9. CASE StartSingle \/ StartRelay
  <2>1. /\ \/ reader' = "single" /\ cursor' = first
           \/ reader' = "relay" /\ cursor' = 0
        /\ UNCHANGED <<object, meta, req, first, end, ch, closed, sent, holes>>
        /\ reader' = "relay" => req.place = "away"
        /\ reader' = "single" => ~Multi(meta)
    <3>1. CASE StartSingle
      BY <3>1 DEF StartSingle, Start
    <3>2. CASE StartRelay
      BY <3>2 DEF StartRelay, Start
    <3> QED
      BY <1>9, <3>1, <3>2
  <2>2. Full' = <<>> /\ ~closed'
    BY <1>9, <2>1 DEF StartSingle, StartRelay, Stages, Full
  <2>3. first \in Nat /\ first' = first
    BY <2>1 DEF TypeOK
  <2>4. Ordered(Full', first', holes') /\ Reaches(Full', first', first', holes')
    BY <2>2, <2>3, Begins
  <2>5. SentInOrder'
    BY <2>1 DEF SentInOrder, Asked, FromStart
  <2>6. Unbroken' => cursor' = first'
    BY <2>1 DEF Unbroken, FromStart
  <2>7. cursor' = first' => StepsReach'
    <3>1. cursor' = first' => Edge' = first'
      BY DEF Edge
    <3>2. cursor' = first' => 0 \in 0 .. cursor' - first' /\ cursor' = first' + 0 * Step
      BY <2>3, Bounds
    <3> QED
      BY <2>4, <3>1, <3>2 DEF StepsReach
  <2>8. cursor' = first' => PartsReach'
    <3>1. reader' = "relay" => cursor' = 0
      BY <2>1
    <3>2. object'.offset[0] = 0 /\ 0 \in 0 .. object'.count
      BY <2>1, ObjectShape DEF TypeOK
    <3> QED
      BY <2>4, <3>1, <3>2 DEF PartsReach
  <2>9. RingReaches' /\ AllReached'
    BY <2>1, <2>2 DEF RingReaches, AllReached
  <2> QED
    BY <2>4, <2>5, <2>6, <2>7, <2>8, <2>9 DEF Progress, Reached
<1>10. CASE StartRing
  <2>1. PICK i \in 0 .. object.count - 1 : StartsIn(i) /\ index' = i /\ total' = object.offset[i]
    BY <1>10 DEF StartRing
  <2>2. /\ reader' = "ring"
        /\ UNCHANGED <<object, meta, req, first, end, worker, ch, closed, sent, holes>>
        /\ pc = "route"
    BY <1>10 DEF StartRing, Start
  <2>3. Full' = <<>> /\ ~closed' /\ \A k \in Members : worker'[k] = "wait"
    BY <2>2 DEF Stages, Full
  <2>4. first \in Nat /\ first' = first
    BY <2>2 DEF TypeOK
  <2>5. Ordered(Full', first', holes') /\ Reaches(Full', first', first', holes')
    BY <2>3, <2>4, Begins
  <2>6. NextByte' = first'
    <3>1. object.offset[i] \in Nat /\ object.offset[i] <= first
      BY <2>1, RingStart
    <3>2. total' <= first' /\ total' \in Nat /\ first' \in Nat
      BY <2>1, <2>4, <3>1
    <3> QED
      BY <3>2 DEF NextByte
  <2>7. SentInOrder'
    BY <2>2 DEF SentInOrder, Asked, FromStart
  <2>8. (StepsReach /\ PartsReach /\ RingReaches /\ AllReached)'
    BY <2>2, <2>3, <2>5, <2>6 DEF StepsReach, PartsReach, RingReaches, AllReached, Stepping
  <2> QED
    BY <2>5, <2>7, <2>8 DEF Progress, Reached
<1>11. CASE SingleReads
  <2>1. /\ reader = "single" /\ reader' = "single" /\ cursor < end /\ ~closed /\ ~Multi(meta)
        /\ UNCHANGED <<object, meta, req, first, end, sent, result>>
        /\ cursor' = cursor + Step
    BY <1>11 DEF SingleReads, Ending, Ranged
  <2>2. ReadAndSend(cursor, SingleLength(cursor, end))
    BY <1>11 DEF SingleReads
  <2> QED
    BY <2>1, <2>2, SteppingKept DEF Stepping
<1>12. CASE SingleEnds
  <2>1. /\ reader = "single" /\ reader' = "over" /\ cursor >= end /\ ~Multi(meta)
        /\ UNCHANGED <<object, meta, req, first, end, sent, ch, holes, result>>
    BY <1>12 DEF SingleEnds, Close, Ranged
  <2>2. Unbroken' => AllReached'
    <3> SUFFICES ASSUME Unbroken' PROVE AllReached'
      OBVIOUS
    <3>1. StepsReach
      BY <2>1 DEF Unbroken, Asked, FromStart, Progress, Reached
    <3>2. \A byte \in first .. end : Covers(Full, byte) \/ byte \in holes \/ StepsEndOn(byte)
      BY <2>1, <3>1, StepsReachAll DEF Stepping
    <3> QED
      BY <2>1, <3>2 DEF AllReached, Full, StepsEndOn, Multi, Size
  <2> QED
    BY <2>1, <2>2, ReaderOver
<1>13. CASE RelayNext
  <2>1. /\ pc = "relay" /\ reader = "relay" /\ reader' = "relay" /\ ~closed
        /\ UNCHANGED <<object, meta, req, first, end, sent, result>>
        /\ end < Size(meta) /\ (first = 0 => end = Size(meta) - 1) /\ req.place = "away"
        /\ RelayMore
    BY <1>13 DEF RelayNext, Stages, Ending, Ranged
  <2>2. CASE Multi(meta)
    <3>1. cursor \in 0 .. object.count - 1 /\ cursor' = cursor + 1
      BY <1>13, <2>1, <2>2, CountType DEF RelayNext, RelayMore, TypeOK
    <3>2. ReadAndSend(object.offset[cursor], object.offset[cursor + 1] - object.offset[cursor])
      BY <1>13, <2>2 DEF RelayNext
    <3> QED
      BY <2>1, <2>2, <3>1, <3>2, PartRelayed
  <2>3. CASE ~Multi(meta)
    <3>1. cursor < Size(meta) - 1 /\ cursor' = cursor + Step
      BY <1>13, <2>1, <2>3 DEF RelayNext, RelayMore
    <3>2. ReadAndSend(cursor, SingleLength(cursor, Size(meta) - 1))
      BY <1>13, <2>3 DEF RelayNext
    <3>3. Unbroken' => first = 0 /\ end = Size(meta) - 1
      BY <2>1 DEF Unbroken, FromStart
    <3>4. SentInOrder'
      <4>1. holes \subseteq holes'
        BY <3>2 DEF ReadAndSend, Reads
      <4> QED
        BY <2>1, <4>1, MoreLost DEF SentInOrder, Asked, FromStart
    <3>5. Unbroken' => Progress'
      BY <2>1, <2>3, <3>1, <3>2, <3>3, SteppingKept DEF Stepping
    <3> QED
      BY <3>4, <3>5 DEF Progress, Reached
  <2> QED
    BY <2>2, <2>3
<1>14. CASE RelayEnds
  <2>1. /\ reader = "relay" /\ reader' = "over" /\ req.place = "away" /\ ~RelayMore
        /\ UNCHANGED <<object, meta, req, first, end, sent, ch, holes, result>>
        /\ first = 0 => end = Size(meta) - 1
    BY <1>14 DEF RelayEnds, Close, Stages, Ranged
  <2>2. Unbroken' => AllReached'
    <3> SUFFICES ASSUME Unbroken' PROVE AllReached'
      OBVIOUS
    <3>1. StepsReach /\ PartsReach /\ first = 0 /\ end = Size(meta) - 1
      BY <2>1 DEF Unbroken, Asked, FromStart, Progress, Reached
    <3>2. \A byte \in first .. end : Covers(Full, byte) \/ byte \in holes \/ StepsEndOn(byte)
      <4>1. CASE Multi(meta)
        <5>1. cursor = object.count
          <6>1. cursor \in 0 .. object.count /\ ~(cursor < object.count)
            BY <2>1, <3>1, <4>1 DEF RelayMore, PartsReach
          <6> QED
            BY <6>1, CountType
        <5>2. object.offset[cursor] = end + 1
          <6>1. object.offset[object.count] \in Nat
            BY SizeType
          <6> QED
            BY <3>1, <4>1, <5>1, <6>1 DEF Size, Multi
        <5> QED
          <6>1. Reaches(Full, first, end + 1, holes)
            BY <2>1, <3>1, <4>1, <5>2 DEF PartsReach
          <6>2. first .. end = first .. (end + 1) - 1
            BY DEF TypeOK
          <6> QED
            BY <6>1, <6>2 DEF Reaches
      <4>2. CASE ~Multi(meta)
        <5>1. cursor >= end
          <6>1. Size(meta) \in Nat /\ cursor \in Nat /\ ~(cursor < Size(meta) - 1)
            BY <2>1, <4>2, SizeType DEF RelayMore, TypeOK
          <6> QED
            BY <3>1, <6>1
        <5> QED
          BY <2>1, <3>1, <4>2, <5>1, StepsReachAll DEF Stepping
      <4> QED
        BY <4>1, <4>2
    <3> QED
      BY <2>1, <3>2 DEF AllReached, Full, StepsEndOn, Multi, Size
  <2> QED
    BY <2>1, <2>2, ReaderOver
<1>15. ASSUME NEW i \in Members, Fetch(i) PROVE Progress' /\ SentInOrder'
  BY <1>15, FetchKept
<1>16. ASSUME NEW i \in Members, PutPart(i) PROVE Progress' /\ SentInOrder'
  BY <1>16, PutKept
<1>17. ASSUME NEW i \in Members, Finish(i) PROVE Progress' /\ SentInOrder'
  <2>1. /\ worker[i] = "read" /\ index >= object.num /\ reader' = "over"
        /\ UNCHANGED <<object, meta, req, first, end, sent, ch, holes, result>>
    BY <1>17 DEF Finish, Close
  <2>2. reader = "ring" /\ \A k \in Members : worker[k] \notin {"put", "pass"}
    BY <2>1 DEF Turns, Busy
  <2>3. Multi(meta) /\ object.num = object.count /\ end < Size(meta)
    BY <2>2 DEF Ranged, Complete
  <2>4. index = object.count /\ total = Size(meta)
    <3>1. index \in 0 .. object.count /\ total = object.offset[index]
      BY <2>2 DEF Placed
    <3>2. index = object.count
      BY <2>1, <2>3, <3>1, CountType
    <3> QED
      BY <2>3, <3>1, <3>2 DEF Size, Multi
  <2>5. Unbroken' => AllReached'
    <3> SUFFICES ASSUME Unbroken' PROVE AllReached'
      OBVIOUS
    <3>1. Reaches(Full, first, NextByte, holes)
      BY <2>1, <2>2 DEF Unbroken, Asked, FromStart, Progress, Reached, RingReaches
    <3>2. \A byte \in first .. end : byte \in first .. NextByte - 1
      <4>1. Size(meta) \in Nat /\ first \in Nat /\ end \in Int
        BY SizeType DEF TypeOK
      <4> QED
        BY <2>3, <2>4, <4>1 DEF NextByte
    <3> QED
      BY <2>1, <3>1, <3>2 DEF AllReached, Full, Reaches
  <2> QED
    BY <2>1, <2>5, ReaderOver
<1>18. CASE Deliver
  <2>1. /\ UNCHANGED <<object, meta, req, first, end, reader, cursor, ringVars, closed, holes>>
        /\ ch # <<>> /\ ch' = Tail(ch) /\ pc = "stream"
        /\ \/ sent' = Append(sent, Head(ch)) /\ UNCHANGED result
           \/ result' = "broken" /\ sent' = sent
    BY <1>18 DEF Deliver
  <2>2. sent \in Seq(Blocks) /\ ch \in Seq(Blocks)
    BY DEF TypeOK
  <2>3. CASE sent' = Append(sent, Head(ch)) /\ UNCHANGED result
    <3>1. Full' = Full
      BY <2>1, <2>2, <2>3, HandedOn DEF Full
    <3>2. Progress'
      BY <2>1, <2>3, <3>1
         DEF Progress, Reached, Unbroken, Asked, FromStart, StepsReach, Stepping, Edge, PartsReach,
             RingReaches, NextByte, AllReached, StepsEndOn, Multi, Size
    <3>3. SentInOrder'
      <4>1. Asked /\ FromStart => Ordered(sent' \o ch', first, holes)
        BY <2>1, <2>3, <3>1 DEF Stages, Progress, Reached, Unbroken, Full
      <4>2. sent' \in Seq(Blocks) /\ ch' \in Seq(Blocks)
        BY DEF TypeOK
      <4> QED
        BY <2>1, <4>1, <4>2, BeginsInOrder DEF SentInOrder, Asked, FromStart
    <3> QED
      BY <3>2, <3>3
  <2>4. CASE result' = "broken" /\ sent' = sent
    BY <2>1, <2>4 DEF Progress, Reached, Unbroken, SentInOrder, Asked, FromStart
  <2> QED
    BY <2>1, <2>3, <2>4
<1> QED
  BY <1>1, <1>2, <1>3, <1>4, <1>5, <1>6, <1>7, <1>8, <1>9, <1>10, <1>11, <1>12, <1>13, <1>14,
     <1>15, <1>16, <1>17, <1>18
     DEF Next, Handle, RingStep

-----------------------------------------------------------------------------
(* The theorems *)

\* Nothing has been asked for.
LEMMA DownloadInitially == Init => DownloadInv
<1> SUFFICES ASSUME Init PROVE DownloadInv
  OBVIOUS
<1> USE Bounds
<1>1. hand \in [Members -> Blocks] /\ turn \in Members
  BY BlockType DEF Init, Members
<1>2. TypeOK
  BY <1>1 DEF Init, TypeOK
<1>3. Stages /\ Ending /\ OldIsEarly /\ Turns /\ Ranged /\ Placed /\ ClosedOnce
  BY DEF Init, Stages, Ending, OldIsEarly, Turns, Busy, Ranged, Placed, ClosedOnce
<1>4. Progress /\ SentInOrder
  BY DEF Init, Progress, SentInOrder, Unbroken, Asked
<1> QED
  BY <1>2, <1>3, <1>4 DEF DownloadInv, Control, Orderly

\* Nor does a step that changes nothing.
LEMMA DownloadStutters == DownloadInv /\ UNCHANGED vars => DownloadInv'
<1> SUFFICES ASSUME DownloadInv, UNCHANGED vars PROVE DownloadInv'
  OBVIOUS
<1> USE DEF vars, rowVars, chanVars, ringVars, DownloadInv, Control, Orderly
<1>1. TypeOK'
  BY DEF TypeOK
<1>2. Orderly'
  BY DEF Stages, Ending, OldIsEarly, Turns, Busy, Ranged, Placed, ClosedOnce, Asked, Size, Multi,
         Complete
<1>3. Progress' /\ SentInOrder'
  BY DataRests
<1> QED
  BY <1>1, <1>2, <1>3

\* The inductive invariant holds of every download.
THEOREM DownloadInvariance == Spec => []DownloadInv
<1>1. DownloadInv /\ Next => DownloadInv'
  BY ControlKept, DataKept DEF DownloadInv
<1> QED
  BY <1>1, DownloadInitially, DownloadStutters, PTL DEF Spec

\* The variables of the download keep their types.
THEOREM DownloadTypeCorrect == Spec => []TypeOK
<1>1. DownloadInv => TypeOK
  BY DEF DownloadInv, Control, Orderly
<1> QED
  BY <1>1, DownloadInvariance, PTL

\* Whatever fills it, the channel is closed once and no send comes after.
THEOREM ChannelClosedOnce == Spec => []ClosedOnce
<1>1. DownloadInv => ClosedOnce
  BY DEF DownloadInv, Control, Orderly
<1> QED
  BY <1>1, DownloadInvariance, PTL

\* What the client is sent, and what waits for it, is in order from the first byte of
\* the range, and lacks only what could not be read.
THEOREM BytesInOrder == Spec => []OrderKept
<1>1. DownloadInv => OrderKept
  BY DEF DownloadInv, OrderKept, Progress, Reached, Unbroken, SentInOrder, Full
<1> QED
  BY <1>1, DownloadInvariance, PTL

\* A download that ended well lacks what could not be read and at most the last byte,
\* when the steps of its reader fall on it.
THEOREM OnlyLastLost == Spec => []LosesAtMostLast
<1>1. DownloadInv => LosesAtMostLast
  <2> SUFFICES ASSUME DownloadInv, Asked, pc = "ended", result = "ok", FromStart,
                      NEW byte \in first .. end
               PROVE  \/ \E k \in 1 .. Len(sent) : In(byte, sent[k])
                      \/ byte \in holes \/ StepsEndOn(byte)
    BY DEF LosesAtMostLast
  <2>1. closed /\ ch = <<>>
    BY DEF DownloadInv, Control, Orderly, Ending, TypeOK
  <2>2. Full = sent
    <3>1. sent \in Seq(Blocks)
      BY DEF DownloadInv, Control, Orderly, TypeOK
    <3> QED
      BY <2>1, <3>1 DEF Full
  <2>3. Covers(Full, byte) \/ byte \in holes \/ StepsEndOn(byte)
    BY <2>1 DEF DownloadInv, Progress, Reached, Unbroken, AllReached
  <2> QED
    BY <2>2, <2>3 DEF Covers
<1> QED
  BY <1>1, DownloadInvariance, PTL

\* Who asks after the upload was acknowledged goes by the old row only if someone
\* looked before the row was updated and left it in redis.
THEOREM StaleIsEarly == Spec => []StaleNeedsEarlyReader
<1>1. DownloadInv => StaleNeedsEarlyReader
  BY DEF DownloadInv, Control, Orderly, OldIsEarly, StaleNeedsEarlyReader
<1> QED
  BY <1>1, DownloadInvariance, PTL
=============================================================================
