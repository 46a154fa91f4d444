-------------------------------- MODULE Links --------------------------------
(***************************************************************************)
(* Links to upload and to download (LinkServer).  A request for upload     *)
(* links starts one goroutine per file, which makes the uid's directory    *)
(* and sends a url and a metadata row over two channels; with both         *)
(* complete, the rows are inserted in one batch.  A request for download   *)
(* links answers from redis what is there, reads the other rows and starts *)
(* one goroutine per uid that was not in redis.                            *)
(***************************************************************************)
EXTENDS Integers, FiniteSets

CONSTANTS
    Uids,          \* the uids links are made of or asked for
    UpReqs,        \* requests for upload links
    DownReqs,      \* requests for download links
    MadeBy(_),     \* the uids of the files of an upload request
    AskedBy(_),    \* the uids a download request lists, duplicates removed
    MaxFailures    \* bound: calls that fail

ASSUME LinkAssumption ==
    /\ \A q \in UpReqs : MadeBy(q) \subseteq Uids
    /\ \A q, p \in UpReqs : q # p => MadeBy(q) \cap MadeBy(p) = {}
    /\ \A d \in DownReqs : AskedBy(d) \subseteq Uids
    /\ UpReqs \cap DownReqs = {}
    /\ IsFiniteSet(Uids)
    /\ MaxFailures \in Nat

VARIABLES
    rows,       \* meta_data_info: the uids with a row
    dirs,       \* the uids with a directory on this node
    links,      \* redis <uid>-<expire>: the uids whose download link is cached
    at,         \* how far each request is
    maker,      \* each uid's goroutine in its upload request
    urls,       \* the uids sent over respChan, per upload request
    metas,      \* the uids sent over metaDataInfoChan
    todo,       \* the directories its cleaning goroutines have yet to remove
    missing,    \* uidList: the uids a download request did not find in redis
    found,      \* uidMapMeta: those it found a row of
    room,       \* the free slots of its respChan
    getter,     \* its goroutines, by uid
    answer,     \* the uids in its answer
    failures

linkVars == <<rows, dirs, links, at, maker, urls, metas, todo,
              missing, found, room, getter, answer, failures>>
up   == <<maker, urls, metas, todo>>
down == <<missing, found, room, getter, answer>>

LinkInit ==
    /\ rows = {} /\ dirs = {} /\ links = {}
    /\ at = [q \in UpReqs \cup DownReqs |-> "start"]
    /\ maker = [u \in Uids |-> "new"]
    /\ urls = [q \in UpReqs |-> {}]
    /\ metas = [q \in UpReqs |-> {}]
    /\ todo = {}
    /\ missing = [d \in DownReqs |-> {}]
    /\ found = [d \in DownReqs |-> {}]
    /\ room = [d \in DownReqs |-> 0]
    /\ getter = [d \in DownReqs |-> [u \in Uids |-> "none"]]
    /\ answer = [d \in DownReqs |-> {}]
    /\ failures = 0

Goto(q, to) == at' = [at EXCEPT ![q] = to]

CallFails == failures < MaxFailures /\ failures' = failures + 1

-----------------------------------------------------------------------------
(* UploadLinkHandler and GenUploadSingle; the channels have room for all.  *)

Launch(q) ==
    /\ at[q] = "start"
    /\ Goto(q, "wait")
    /\ UNCHANGED <<rows, dirs, links, up, down, failures>>

Making(q, u, place) == at[q] = "wait" /\ u \in MadeBy(q) /\ maker[u] = place

Move(u, to) == maker' = [maker EXCEPT ![u] = to]

MakeDir(q, u) ==
    /\ Making(q, u, "new")
    /\ dirs' = dirs \cup {u}
    /\ Move(u, "url")
    /\ UNCHANGED <<rows, links, at, urls, metas, todo, down, failures>>

\* No id, or no directory: the goroutine just returns.
MakeFails(q, u) ==
    /\ Making(q, u, "new") /\ CallFails
    /\ Move(u, "done")
    /\ UNCHANGED <<rows, dirs, links, at, urls, metas, todo, down>>

SendUrl(q, u) ==
    /\ Making(q, u, "url")
    /\ urls' = [urls EXCEPT ![q] = @ \cup {u}]
    /\ Move(u, "meta")
    /\ UNCHANGED <<rows, dirs, links, at, metas, todo, down, failures>>

SendMeta(q, u) ==
    /\ Making(q, u, "meta")
    /\ metas' = [metas EXCEPT ![q] = @ \cup {u}]
    /\ Move(u, "done")
    /\ UNCHANGED <<rows, dirs, links, at, urls, todo, down, failures>>

\* Every file has its url and its row; a slip: the rows are not counted.
AnySent(q) == urls[q] # {}
AllSent(q) == urls[q] = MadeBy(q) /\ metas[q] = MadeBy(q)

\* wg.Wait() and the comparison: goroutines are started to clean up.
Gather(q) ==
    /\ at[q] = "wait" /\ \A u \in MadeBy(q) : maker[u] = "done"
    /\ IF AllSent(q)
         THEN Goto(q, "insert") /\ UNCHANGED todo
         ELSE Goto(q, "err") /\ todo' = todo \cup urls[q]
    /\ UNCHANGED <<rows, dirs, links, maker, urls, metas, down, failures>>

Clean(u) ==
    /\ u \in todo
    /\ dirs' = dirs \ {u}
    /\ todo' = todo \ {u}
    /\ UNCHANGED <<rows, links, at, maker, urls, metas, down, failures>>

\* The batch insert; when it fails nothing is cleaned.
InsertRows(q) ==
    /\ at[q] = "insert"
    /\ \/ rows' = rows \cup metas[q] /\ Goto(q, "ok") /\ UNCHANGED failures
       \/ CallFails /\ Goto(q, "err") /\ UNCHANGED rows
    /\ UNCHANGED <<dirs, links, up, down>>

UpStep(q) ==
    \/ Launch(q) \/ Gather(q) \/ InsertRows(q)
    \/ \E u \in Uids : MakeDir(q, u) \/ SendUrl(q, u) \/ SendMeta(q, u)

-----------------------------------------------------------------------------
(* DownloadLinkHandler and GenDownloadSingle *)

LookUp(d) ==
    /\ at[d] = "start"
    /\ missing' = [missing EXCEPT ![d] = AskedBy(d) \ links]
    /\ answer' = [answer EXCEPT ![d] = AskedBy(d) \cap links]
    /\ Goto(d, "query")
    /\ UNCHANGED <<rows, dirs, links, up, found, room, getter, failures>>

\* Slots of the channel; a slip: a slot too few.
SlotsOffByOne(uids) == Cardinality(uids) - 1
Slots(uids)         == Cardinality(uids)

\* The rows there are of the uids asked.
GetByUidList(uids) == uids \cap rows

\* The channel gets one slot per row found, the goroutines are one per uid asked
\* of the database.
Query(d) ==
    /\ at[d] = "query"
    /\ found' = [found EXCEPT ![d] = GetByUidList(missing[d])]
    /\ LET known == GetByUidList(missing[d])
       IN  IF known = {} /\ answer[d] = {}
             THEN Goto(d, "ok") /\ UNCHANGED <<room, getter>>
             ELSE /\ room' = [room EXCEPT ![d] = Slots(known)]
                  /\ getter' = [getter EXCEPT ![d] =
                        [u \in Uids |-> IF u \in missing[d] THEN "send" ELSE "none"]]
                  /\ Goto(d, "wait")
    /\ UNCHANGED <<rows, dirs, links, up, missing, answer, failures>>

\* A database or redis error ends the request.
LinkFault(d) ==
    /\ at[d] \in {"start", "query"} /\ CallFails
    /\ Goto(d, "err")
    /\ UNCHANGED <<rows, dirs, links, up, down>>

Getting(d, u, place) == at[d] = "wait" /\ getter[d][u] = place

\* Nobody receives before wg.Wait() returns.
SendLink(d, u) ==
    /\ Getting(d, u, "send") /\ room[d] > 0
    /\ room' = [room EXCEPT ![d] = @ - 1]
    /\ getter' = [getter EXCEPT ![d][u] = "cache"]
    /\ UNCHANGED <<rows, dirs, links, at, up, missing, found, answer, failures>>

\* A uid no row was found of is handled with an empty one: its key is not this uid's.
CacheLink(d, u) ==
    /\ Getting(d, u, "cache")
    /\ links' = IF u \in found[d] THEN links \cup {u} ELSE links
    /\ getter' = [getter EXCEPT ![d][u] = "done"]
    /\ UNCHANGED <<rows, dirs, at, up, missing, found, room, answer, failures>>

Answer(d) ==
    /\ at[d] = "wait" /\ \A u \in missing[d] : getter[d][u] = "done"
    /\ answer' = [answer EXCEPT ![d] = @ \cup missing[d]]
    /\ Goto(d, "ok")
    /\ UNCHANGED <<rows, dirs, links, up, missing, found, room, getter, failures>>

LinkExpires(u) ==
    /\ u \in links
    /\ links' = links \ {u}
    /\ UNCHANGED <<rows, dirs, at, up, down, failures>>

DownStep(d) ==
    \/ LookUp(d) \/ Query(d) \/ Answer(d)
    \/ \E u \in Uids : SendLink(d, u) \/ CacheLink(d, u)

-----------------------------------------------------------------------------
LinkNext ==
    \/ \E q \in UpReqs : UpStep(q) \/ \E u \in Uids : MakeFails(q, u)
    \/ \E u \in Uids : Clean(u) \/ LinkExpires(u)
    \/ \E d \in DownReqs : DownStep(d) \/ LinkFault(d)

LinkSpec == LinkInit /\ [][LinkNext]_linkVars

\* Goroutines that can run do.
LinkFairness ==
    /\ \A q \in UpReqs : WF_linkVars(UpStep(q))
    /\ \A d \in DownReqs : WF_linkVars(DownStep(d))
    /\ \A u \in Uids : WF_linkVars(Clean(u))

FairLinkSpec == LinkSpec /\ LinkFairness

-----------------------------------------------------------------------------
\* The type invariant.
LinkTypeOK ==
    /\ rows \subseteq Uids /\ dirs \subseteq Uids /\ links \subseteq Uids
    /\ at \in [UpReqs \cup DownReqs -> {"start", "wait", "insert", "query", "ok", "err"}]
    /\ maker \in [Uids -> {"new", "url", "meta", "done"}]
    /\ urls \in [UpReqs -> SUBSET Uids] /\ metas \in [UpReqs -> SUBSET Uids]
    /\ todo \subseteq Uids
    /\ missing \in [DownReqs -> SUBSET Uids] /\ found \in [DownReqs -> SUBSET Uids]
    /\ room \in [DownReqs -> Nat]
    /\ getter \in [DownReqs -> [Uids -> {"none", "send", "cache", "done"}]]
    /\ answer \in [DownReqs -> SUBSET Uids]
    /\ failures \in 0..MaxFailures

\* A link that was handed out can be used: each of its uids has a row and a
\* directory, which no cleaning of a failed request will remove.  The rows of a
\* request are inserted all or none.
LinksUsable ==
    \A q \in UpReqs :
        /\ at[q] = "ok" => MadeBy(q) \subseteq rows \cap (dirs \ todo)
        /\ MadeBy(q) \cap rows \in {{}, MadeBy(q)}

\* "get the download links" (link.go:106): a request is answered.
DownAnswered == \A d \in DownReqs : at[d] = "start" ~> at[d] \in {"ok", "err"}

\* It is, if every uid it asks has a row by the time it asks.
KnownAnswered ==
    \A d \in DownReqs :
        (at[d] = "start" /\ AskedBy(d) \subseteq rows) ~> at[d] \in {"ok", "err"}

=============================================================================
