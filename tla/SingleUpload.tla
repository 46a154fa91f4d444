---------------------------- MODULE SingleUpload ----------------------------
(***************************************************************************)
(* Uploads of whole files (UploadSingleHandler, over gRPC and over HTTP),  *)
(* instant uploads (ResumeHandler) and the metadata they publish.  Rows    *)
(* with the md5 of an uploaded row take over its object instead of storing *)
(* their own; the metadata is cached in redis by SET NX, by uploads and by *)
(* downloads.  A request runs on the node that holds the uid's directory.  *)
(* To put is to read the file, send it, and have the store commit it.      *)
(* A client sends one content per uid: a file or an object is whole, cut   *)
(* short, or missing.                                                      *)
(***************************************************************************)
EXTENDS Integers, FiniteSets

CONSTANTS
    Uids,        \* the rows meta_data_info may come to hold
    Linked,      \* those made by an upload link; ResumeHandler makes the others
    Reqs,        \* the requests, retries included
    UidOf(_),    \* the uid a request uploads or, unless linked, creates
    Md5Of(_),    \* the md5 of a uid's content
    Http,        \* the upload requests that came over HTTP
    None,
    MaxFaults    \* bound: requests cut off by a failing call or a dead process

ASSUME SingleAssumption ==
    /\ Linked \subseteq Uids /\ Http \subseteq Reqs
    /\ \A r \in Reqs : UidOf(r) \in Uids
    /\ \A r, q \in Reqs : UidOf(r) = UidOf(q) /\ r # q => UidOf(r) \in Linked
    /\ MaxFaults \in Nat

VARIABLES
    meta,      \* meta_data_info: status and whose object each uid names
    dir,       \* the linked uids whose directory is on disk
    file,      \* the uploaded file in each directory
    object,    \* the object each uid's own upload stores
    cache,     \* redis <uid>-meta: a copy of the row, or None
    pc,        \* how far each request is
    from,      \* the row with the same md5 a request found, or None
    read,      \* the row it is about to cache, or None
    sending,   \* what each request that puts has read of its file
    fill,      \* the row a download read on a cache miss, or None
    faults

vars == <<meta, dir, file, object, cache, pc, from, read, sending, fill, faults>>

Row == [status : {"absent", "pending", "uploaded"}, object : Uids]

ASSUME NoneAssumption == None \notin Row

SingleInit ==
    /\ meta = [u \in Uids |-> [status |-> IF u \in Linked THEN "pending" ELSE "absent",
                               object |-> u]]
    /\ dir = Linked
    /\ file = [u \in Uids |-> "none"]
    /\ object = [u \in Uids |-> "none"]
    /\ cache = [u \in Uids |-> None]
    /\ pc = [r \in Reqs |-> "start"]
    /\ from = [r \in Reqs |-> None]
    /\ read = [r \in Reqs |-> None]
    /\ sending = [r \in Reqs |-> "none"]
    /\ fill = [u \in Uids |-> None]
    /\ faults = 0

Goto(r, to) == pc' = [pc EXCEPT ![r] = to]

At(r, place) == pc[r] = place

-----------------------------------------------------------------------------
(* Taking over an object with the same md5 *)

\* CheckValid: the link of an upload has expired.  Its row and directory stay.
Refuse(r) ==
    /\ At(r, "start") /\ UidOf(r) \in Linked
    /\ Goto(r, "refused")
    /\ UNCHANGED <<meta, dir, file, object, cache, from, read, sending, fill, faults>>

\* GetResumeByMd5: the uploaded rows with the md5, in no stated order.
SameMd5(u) == {v \in Uids : meta[v].status = "uploaded" /\ Md5Of(v) = Md5Of(u)}

QueryResume(r) ==
    /\ At(r, "start")
    /\ LET found == SameMd5(UidOf(r))
       IN  \/ /\ found = {}
              /\ Goto(r, IF UidOf(r) \in Linked THEN "local" ELSE "ok")
              /\ UNCHANGED from
           \/ \E v \in found : from' = [from EXCEPT ![r] = meta[v]] /\ Goto(r, "resume")
    /\ UNCHANGED <<meta, dir, file, object, cache, read, sending, fill, faults>>

\* The row takes the object over.  The HTTP handler copies size and type only.
TakeOver(r) ==
    /\ At(r, "resume") /\ UidOf(r) \in Linked
    /\ meta' = [meta EXCEPT ![UidOf(r)].status = "uploaded",
                            ![UidOf(r)].object = IF r \in Http THEN @ ELSE from[r].object]
    /\ Goto(r, "drop")
    /\ UNCHANGED <<dir, file, object, cache, from, read, sending, fill, faults>>

\* ResumeHandler inserts a new row, and caches what it inserted.
CreateCopy(r) ==
    /\ At(r, "resume") /\ UidOf(r) \notin Linked
    /\ LET row == [status |-> "uploaded", object |-> from[r].object]
       IN  meta' = [meta EXCEPT ![UidOf(r)] = row] /\ read' = [read EXCEPT ![r] = row]
    /\ Goto(r, "cache")
    /\ UNCHANGED <<dir, file, object, cache, from, sending, fill, faults>>

-----------------------------------------------------------------------------
(* Storing one's own *)

\* Other requests that have this request's file open.
Rivals(r) == {q \in Reqs \ {r} : UidOf(q) = UidOf(r) /\ At(q, "open")}

CreateFile(r) ==
    /\ At(r, "local")
    /\ IF UidOf(r) \in dir
         THEN file' = [file EXCEPT ![UidOf(r)] = "cut"] /\ Goto(r, "open")
         ELSE UNCHANGED file /\ Goto(r, "err")
    /\ UNCHANGED <<meta, dir, object, cache, from, read, sending, fill, faults>>

\* The content is copied; a rival may have truncated the file meanwhile, and
\* writes to a removed file go nowhere.
WriteFile(r) ==
    /\ At(r, "open")
    /\ IF UidOf(r) \in dir
         THEN \E v \in {"whole"} \cup (IF Rivals(r) = {} THEN {} ELSE {"cut"}) :
                 file' = [file EXCEPT ![UidOf(r)] = v]
         ELSE UNCHANGED file
    /\ Goto(r, "written")
    /\ UNCHANGED <<meta, dir, object, cache, from, read, sending, fill, faults>>

\* CalculateFileMd5 of the file is the md5 the client gave.
Md5Fits(u) == file[u] = "whole"

VerifyFile(r) ==
    /\ At(r, "written")
    /\ Goto(r, IF Md5Fits(UidOf(r)) THEN "verified" ELSE "err")
    /\ UNCHANGED <<meta, dir, file, object, cache, from, read, sending, fill, faults>>

\* What DetectContentType may say: an error of a file that is not there, or has
\* no byte, as one cut short may have none.
Detects(u) == IF file[u] = "none" THEN {FALSE} ELSE {TRUE, file[u] = "whole"}

\* A slip: nothing is put.
PutNothing(r) ==
    /\ At(r, "verified") /\ Goto(r, "stored")
    /\ UNCHANGED <<meta, dir, file, object, cache, from, read, sending, fill, faults>>

\* DetectContentType and PutObject read the file anew.
PutFile(r) ==
    /\ At(r, "verified")
    /\ \E known \in Detects(UidOf(r)) :
         IF known THEN /\ Goto(r, "putting")
                       /\ sending' = [sending EXCEPT ![r] = file[UidOf(r)]]
                  ELSE UNCHANGED sending /\ Goto(r, "err")
    /\ UNCHANGED <<meta, dir, file, object, cache, from, read, fill, faults>>

\* The store commits what it was sent, whatever has become of the file.
Commit(r) == object' = [object EXCEPT ![UidOf(r)] = sending[r]]

\* A slip: the directory is dropped, the metadata not updated.
PutOnly(r) ==
    /\ At(r, "putting") /\ Goto(r, "drop") /\ Commit(r)
    /\ sending' = [sending EXCEPT ![r] = "none"]
    /\ UNCHANGED <<meta, dir, file, cache, from, read, fill, faults>>

\* The store may refuse a file that shrank while it was read.
PutObject(r) ==
    /\ At(r, "putting")
    /\ sending' = [sending EXCEPT ![r] = "none"]
    /\ \/ Commit(r) /\ Goto(r, "stored")
       \/ sending[r] = "cut" /\ UNCHANGED object /\ Goto(r, "err")
    /\ UNCHANGED <<meta, dir, file, cache, from, read, fill, faults>>

\* The update needs the file's size; it leaves the name of the object alone.
UpdateMeta(r) ==
    /\ At(r, "stored") /\ file[UidOf(r)] # "none"
    /\ meta' = [meta EXCEPT ![UidOf(r)].status = "uploaded"]
    /\ Goto(r, "read")
    /\ UNCHANGED <<dir, file, object, cache, from, read, sending, fill, faults>>

Ended == {"start", "refused", "ok", "err"}

\* The requests that end with r's process: those that work in the same directory
\* and, of the others, the ones that happen to run there.
InProcessOf(r) ==
    {lost \in SUBSET {q \in Reqs : pc[q] \notin Ended} :
        {q \in Reqs : UidOf(q) = UidOf(r) /\ pc[q] \notin Ended} \subseteq lost}

\* Without the file the size is taken of nil.  An HTTP handler recovers; nothing
\* does for a gRPC stream, and the process ends.
SizePanics(r) ==
    /\ At(r, "stored") /\ file[UidOf(r)] = "none"
    /\ \E lost \in IF r \in Http THEN {{r}} ELSE InProcessOf(r) :
         /\ pc' = [q \in Reqs |-> IF q \in lost THEN "err" ELSE pc[q]]
         /\ read' = [q \in Reqs |-> IF q \in lost THEN None ELSE read[q]]
         /\ sending' = [q \in Reqs |-> IF q \in lost THEN "none" ELSE sending[q]]
    /\ UNCHANGED <<meta, dir, file, object, cache, from, fill, faults>>

-----------------------------------------------------------------------------
(* Publishing: an upload caches and then removes its directory, a take-over *)
(* removes first.                                                           *)

ReadBack(r) ==
    /\ At(r, "read")
    /\ read' = [read EXCEPT ![r] = meta[UidOf(r)]]
    /\ Goto(r, "cache")
    /\ UNCHANGED <<meta, dir, file, object, cache, from, sending, fill, faults>>

\* SET NX of a row.
SetNX(u, row) == cache' = [cache EXCEPT ![u] = IF @ = None THEN row ELSE @]

CacheMeta(r) ==
    /\ At(r, "cache")
    /\ SetNX(UidOf(r), read[r])
    /\ read' = [read EXCEPT ![r] = None]
    /\ Goto(r, IF from[r] = None THEN "drop" ELSE "ok")
    /\ UNCHANGED <<meta, dir, file, object, from, sending, fill, faults>>

Fault == faults < MaxFaults /\ faults' = faults + 1

\* RemoveAll may get no further than the file in the directory.
DropDir(r) ==
    /\ At(r, "drop")
    /\ file' = [file EXCEPT ![UidOf(r)] = "none"]
    /\ \/ /\ dir' = dir \ {UidOf(r)}
          /\ Goto(r, IF from[r] = None THEN "ok" ELSE "read")
          /\ UNCHANGED faults
       \/ Fault /\ UNCHANGED dir /\ Goto(r, "err")
    /\ UNCHANGED <<meta, object, cache, from, read, sending, fill>>

\* A failing call or a crash.  A put that failed may have been committed.
Abort(r) ==
    /\ pc[r] \notin Ended /\ Fault
    /\ Goto(r, "err")
    /\ read' = [read EXCEPT ![r] = None]
    /\ sending' = [sending EXCEPT ![r] = "none"]
    /\ UNCHANGED object \/ (At(r, "putting") /\ Commit(r))
    /\ UNCHANGED <<meta, dir, file, cache, from, fill>>

-----------------------------------------------------------------------------
(* A download of any row, uploaded or not, caches it; redis drops keys.    *)

DownloadRead(u) ==
    /\ cache[u] = None /\ fill[u] = None /\ meta[u].status # "absent"
    /\ fill' = [fill EXCEPT ![u] = meta[u]]
    /\ UNCHANGED <<meta, dir, file, object, cache, pc, from, read, sending, faults>>

DownloadFill(u) ==
    /\ fill[u] # None
    /\ SetNX(u, fill[u])
    /\ fill' = [fill EXCEPT ![u] = None]
    /\ UNCHANGED <<meta, dir, file, object, pc, from, read, sending, faults>>

\* The download fails, or ends with its process.
FillLost(u) ==
    /\ fill[u] # None
    /\ fill' = [fill EXCEPT ![u] = None]
    /\ UNCHANGED <<meta, dir, file, object, cache, pc, from, read, sending, faults>>

CacheExpires(u) ==
    /\ cache[u] # None
    /\ cache' = [cache EXCEPT ![u] = None]
    /\ UNCHANGED <<meta, dir, file, object, pc, from, read, sending, fill, faults>>

-----------------------------------------------------------------------------
UploadStep(r) ==
    \/ Refuse(r) \/ QueryResume(r) \/ TakeOver(r) \/ CreateCopy(r)
    \/ CreateFile(r) \/ WriteFile(r) \/ VerifyFile(r) \/ PutFile(r) \/ PutObject(r)
    \/ UpdateMeta(r) \/ SizePanics(r) \/ ReadBack(r) \/ CacheMeta(r) \/ DropDir(r)

SingleNext ==
    \/ \E r \in Reqs : UploadStep(r) \/ Abort(r)
    \/ \E u \in Uids :
         DownloadRead(u) \/ DownloadFill(u) \/ FillLost(u) \/ CacheExpires(u)

SingleSpec == SingleInit /\ [][SingleNext]_vars

-----------------------------------------------------------------------------
Contents == {"none", "cut", "whole"}

Places == {"start", "resume", "local", "open", "written", "verified", "putting",
           "stored", "read", "cache", "drop", "ok", "err", "refused"}

\* The type invariant.
SingleTypeOK ==
    /\ meta \in [Uids -> Row]
    /\ dir \subseteq Linked
    /\ file \in [Uids -> Contents] /\ object \in [Uids -> Contents]
    /\ cache \in [Uids -> Row \cup {None}] /\ fill \in [Uids -> Row \cup {None}]
    /\ pc \in [Reqs -> Places]
    /\ from \in [Reqs -> Row \cup {None}] /\ read \in [Reqs -> Row \cup {None}]
    /\ sending \in [Reqs -> Contents]
    /\ faults \in 0..MaxFaults

\* Every copy of a row there is: in the table, in redis, on its way to redis or
\* to another row.
Copies ==
    {meta[u] : u \in Uids} \cup {cache[u] : u \in Uids} \cup {fill[u] : u \in Uids}
        \cup {from[r] : r \in Reqs} \cup {read[r] : r \in Reqs}

UploadedCopies == {v \in Copies \ {None} : v.status = "uploaded"}

CopiesNameObjects == \A v \in UploadedCopies : object[v.object] # "none"

\* An HTTP upload has found an object to take over (http1/upload.go:88-97, which
\* leaves the name of the object as it was).
HttpTookOver == \E r \in Http : from[r] # None

\* Uploaded metadata leads to an object, whoever stored it and however many rows
\* share it, until an HTTP upload takes one over (the order of PutObject and
\* Updates, over gRPC and HTTP; taking over by md5 over gRPC).
NamesObject == ~HttpTookOver => CopiesNameObjects

\* The only copy on disk goes when the metadata leads elsewhere, on every path
\* and whatever fails in between (RemoveAll after Updates, upload.go:89-106 and
\* 249-274).
DirKeptUntilUploaded ==
    \A u \in Linked : u \notin dir => meta[u].status = "uploaded"

\* No upload link has been used by two requests.
UsedOnce ==
    \A r, q \in Reqs :
        /\ {pc[r], pc[q]} \cap {"start", "refused"} = {} /\ UidOf(r) = UidOf(q)
        => r = q

NamesWhole == \A v \in UploadedCopies : object[v.object] = "whole"

\* As long as no link is used twice and no HTTP upload takes over, uploaded
\* metadata leads to the whole content that passed the md5 check, one's own or
\* taken over.
UsedOnceWhole == UsedOnce /\ ~HttpTookOver => NamesWhole

=============================================================================
