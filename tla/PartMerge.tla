------------------------------ MODULE PartMerge ------------------------------
(***************************************************************************)
(* Merging an uploaded uid, on the node that holds its directory, with     *)
(* part uploads still arriving (PartUpload).  A merge request              *)
(* (UploadMergeHandler) checks the number of rows, marks the metadata as   *)
(* uploaded in parts and inserts a merge task; a worker of the task system *)
(* (TaskDispatch, reduced here to: an Undo task whose directory exists is  *)
(* run once) merges the part files, checks the md5, puts the object, marks *)
(* the metadata as one object and removes the directory                    *)
(* (handlePartMerge).  Metadata and rows are cached in redis for downloads.*)
(***************************************************************************)
EXTENDS PartUpload

CONSTANTS
    MergeReqs,    \* the merge requests; each inserts at most one task
    Workers       \* the workers that may run merge tasks

VARIABLES
    meta,        \* meta_data_info of the uid: status, multi_part, whose object
    twin,        \* another uid with the same md5 is stored as one object
    whole,       \* the merged file in the directory
    object,      \* the uid's own object in the store
    metaCache,   \* redis <uid>-meta: a copy of meta, or None
    partCache,   \* redis <uid>-multiPart: the parts that had a row, or None
    mpc,         \* how far each merge request is
    metaRead,    \* the metadata it read for the cache, or None
    partsRead,   \* the parts it read rows of for the cache, or None
    tasks,       \* task_info: the status of the task each merge request inserted
    run,         \* each worker: place, task, the parts it read rows of
    fill         \* the metadata a download read on a cache miss, or None

mergeVars == <<meta, twin, whole, object, metaCache, partCache,
               mpc, metaRead, partsRead, tasks, run, fill>>
allVars   == <<partVars, mergeVars>>

Meta    == [status : {"pending", "uploaded"}, multi : BOOLEAN, object : {"own", "twin"}]
Idle    == [at |-> "idle", task |-> None, list |-> {}]

ASSUME MergeAssumption == None \notin Meta

MergeInit ==
    /\ PartInit
    /\ meta = [status |-> "pending", multi |-> FALSE, object |-> "own"]
    /\ twin = FALSE
    /\ whole = "none"
    /\ object = "none"
    /\ metaCache = None /\ partCache = None
    /\ mpc = [m \in MergeReqs |-> "start"]
    /\ metaRead = [m \in MergeReqs |-> None]
    /\ partsRead = [m \in MergeReqs |-> None]
    /\ tasks = [m \in MergeReqs |-> "absent"]
    /\ run = [w \in Workers |-> Idle]
    /\ fill = None

NumParts == Cardinality(Chunks)     \* num, which the client passes

-----------------------------------------------------------------------------
(* UploadMergeHandler *)

GotoM(m, to) == mpc' = [mpc EXCEPT ![m] = to]

\* What DetectContentType may say: an error of a file that is not there, or has
\* no byte, as one cut short may have none.
Detects(content) == IF content = "none" THEN {FALSE} ELSE {TRUE, content = "whole"}

\* multiPartInfoList[0]: the rows are ordered by chunk number.
FirstChunk == CHOOSE c \in PartNumbers : \A d \in PartNumbers : c <= d

\* The number of rows, whichever parts they are of, the directory and the first
\* part's content type.  A request that is refused has changed nothing, and may
\* be sent again: whatever became of the uploads, clients ask for a merge.
MergeCheck(m) ==
    /\ mpc[m] = "start"
    /\ Cardinality(rows) = NumParts /\ dir
    /\ TRUE \in Detects(file[FirstChunk])
    /\ GotoM(m, "counted")
    /\ UNCHANGED <<partVars, meta, twin, whole, object, metaCache, partCache,
                   metaRead, partsRead, tasks, run, fill>>

MergeMark(m) ==
    /\ mpc[m] = "counted"
    /\ meta' = [meta EXCEPT !.status = "uploaded", !.multi = TRUE]
    /\ GotoM(m, "marked")
    /\ UNCHANGED <<partVars, twin, whole, object, metaCache, partCache,
                   metaRead, partsRead, tasks, run, fill>>

MergeTask(m) ==
    /\ mpc[m] = "marked"
    /\ tasks' = [tasks EXCEPT ![m] = "undo"]
    /\ GotoM(m, "tasked")
    /\ UNCHANGED <<partVars, meta, twin, whole, object, metaCache, partCache,
                   metaRead, partsRead, run, fill>>

MergeReadMeta(m) ==
    /\ mpc[m] = "tasked"
    /\ metaRead' = [metaRead EXCEPT ![m] = meta]
    /\ GotoM(m, "metaRead")
    /\ UNCHANGED <<partVars, meta, twin, whole, object, metaCache, partCache,
                   partsRead, tasks, run, fill>>

\* SET NX.
SetNX(cache, v) == IF cache = None THEN v ELSE cache

MergeCacheMeta(m) ==
    /\ mpc[m] = "metaRead"
    /\ metaCache' = SetNX(metaCache, metaRead[m])
    /\ metaRead' = [metaRead EXCEPT ![m] = None]
    /\ GotoM(m, "metaCached")
    /\ UNCHANGED <<partVars, meta, twin, whole, object, partCache,
                   partsRead, tasks, run, fill>>

MergeReadParts(m) ==
    /\ mpc[m] = "metaCached"
    /\ partsRead' = [partsRead EXCEPT ![m] = PartNumbers]
    /\ GotoM(m, "partsRead")
    /\ UNCHANGED <<partVars, meta, twin, whole, object, metaCache, partCache,
                   metaRead, tasks, run, fill>>

MergeCacheParts(m) ==
    /\ mpc[m] = "partsRead"
    /\ partCache' = SetNX(partCache, partsRead[m])
    /\ partsRead' = [partsRead EXCEPT ![m] = None]
    /\ GotoM(m, "ok")
    /\ UNCHANGED <<partVars, meta, twin, whole, object, metaCache,
                   metaRead, tasks, run, fill>>

\* A query, an update or an insert fails, and ends the request.
MergeFault(m) ==
    /\ mpc[m] \notin {"start", "ok", "err"} /\ Fault
    /\ GotoM(m, "err")
    /\ metaRead' = [metaRead EXCEPT ![m] = None]
    /\ partsRead' = [partsRead EXCEPT ![m] = None]
    /\ UNCHANGED <<lock, rows, dir, file, partObj, pc, putVars,
                   meta, twin, whole, object, metaCache, partCache, tasks, run, fill>>

MergeStep(m) ==
    \/ MergeCheck(m) \/ MergeMark(m) \/ MergeTask(m) \/ MergeReadMeta(m)
    \/ MergeCacheMeta(m) \/ MergeReadParts(m) \/ MergeCacheParts(m)

-----------------------------------------------------------------------------
(* handlePartMerge *)

GotoR(w, to) == run' = [run EXCEPT ![w].at = to]

\* The handler returns nil or an error and the worker settles the task.
Return(w, outcome) ==
    /\ tasks' = [tasks EXCEPT ![run[w].task] = outcome]
    /\ run' = [run EXCEPT ![w] = Idle]

RunStart(w, m) ==
    /\ run[w].at = "idle" /\ tasks[m] = "undo" /\ dir
    /\ tasks' = [tasks EXCEPT ![m] = "running"]
    /\ run' = [run EXCEPT ![w] = [at |-> "query", task |-> m, list |-> {}]]
    /\ UNCHANGED <<partVars, meta, twin, whole, object, metaCache, partCache,
                   mpc, metaRead, partsRead, fill>>

\* GetByUidAndStatus finds the uid's row.
FoundUploaded == meta.status = "uploaded"

\* The rows, whose number must still be num, and the uploaded metadata.
RunQuery(w) ==
    /\ run[w].at = "query"
    /\ IF Cardinality(rows) = NumParts /\ FoundUploaded
         THEN /\ run' = [run EXCEPT ![w].at = "create", ![w].list = PartNumbers]
              /\ UNCHANGED tasks
         ELSE Return(w, "error")
    /\ UNCHANGED <<partVars, meta, twin, whole, object, metaCache, partCache,
                   mpc, metaRead, partsRead, fill>>

\* os.Create truncates the merged file, another worker's too.
RunCreate(w) ==
    /\ run[w].at = "create"
    /\ IF dir THEN whole' = "cut" /\ GotoR(w, "copy") /\ UNCHANGED tasks
              ELSE Return(w, "error") /\ UNCHANGED whole
    /\ UNCHANGED <<partVars, meta, twin, object, metaCache, partCache,
                   mpc, metaRead, partsRead, fill>>

Copying == {w \in Workers : run[w].at = "copy"}

\* The part files are copied in chunk order, one per row; a missing one is an
\* error.  As many rows as chunks make the file whole if every chunk has one and
\* every file is whole, and no worker has truncated it meanwhile.
AllParts(list) == list = Chunks /\ \A c \in Chunks : file[c] = "whole"

RunCopy(w) ==
    /\ run[w].at = "copy"
    /\ IF \E c \in run[w].list : file[c] = "none"
         THEN Return(w, "error") /\ UNCHANGED whole
         ELSE /\ whole' \in
                    (IF AllParts(run[w].list) THEN {"whole"} ELSE {"cut"})
                        \cup (IF Copying = {w} THEN {} ELSE {"cut"})
              /\ run' = [run EXCEPT ![w].at = "md5", ![w].list = {}]
              /\ UNCHANGED tasks
    /\ UNCHANGED <<partVars, meta, twin, object, metaCache, partCache,
                   mpc, metaRead, partsRead, fill>>

RunMd5(w) ==
    /\ run[w].at = "md5"
    /\ IF whole = "whole" THEN GotoR(w, "resume") /\ UNCHANGED tasks
                          ELSE Return(w, "error")
    /\ UNCHANGED <<partVars, meta, twin, whole, object, metaCache, partCache,
                   mpc, metaRead, partsRead, fill>>

\* GetResumeByMd5: uploaded as one object with this md5, the uid itself
\* included.  The first such row's object is taken over; the uid's own upload
\* is not put.
ResumableInParts ==    \* a slip: multi_part is not asked for
    (IF twin' THEN {"twin"} ELSE {})
        \cup (IF meta.status = "uploaded" THEN {meta.object} ELSE {})

Resumable ==
    (IF twin' THEN {"twin"} ELSE {})
        \cup (IF meta.status = "uploaded" /\ ~meta.multi THEN {meta.object} ELSE {})

\* Another uid may have been uploaded by now.
RunResume(w) ==
    /\ run[w].at = "resume"
    /\ twin' \in {twin, TRUE}
    /\ IF Resumable = {}
         THEN GotoR(w, "put") /\ UNCHANGED meta
         ELSE /\ \E o \in Resumable : meta' = [meta EXCEPT !.object = o, !.multi = FALSE]
              /\ GotoR(w, "remove")
    /\ UNCHANGED <<partVars, whole, object, metaCache, partCache,
                   mpc, metaRead, partsRead, tasks, fill>>

\* The store is given what the merged file has now.
PutWhole == object' = whole

\* DetectContentType and PutObject read the merged file anew.
RunPut(w) ==
    /\ run[w].at = "put"
    /\ \E known \in Detects(whole) :
         IF known THEN PutWhole /\ GotoR(w, "update") /\ UNCHANGED tasks
                  ELSE Return(w, "error") /\ UNCHANGED object
    /\ UNCHANGED <<partVars, meta, twin, whole, metaCache, partCache,
                   mpc, metaRead, partsRead, fill>>

RunUpdate(w) ==
    /\ run[w].at = "update"
    /\ meta' = [meta EXCEPT !.multi = FALSE]
    /\ GotoR(w, "delete")
    /\ UNCHANGED <<partVars, twin, whole, object, metaCache, partCache,
                   mpc, metaRead, partsRead, tasks, fill>>

\* After a put the cache key is deleted, unless Del fails unseen, and then the
\* directory removed; after a resume the other way round.
RunDelCache(w) ==
    /\ run[w].at \in {"delete", "deleteLast"}
    /\ \/ metaCache' = None /\ UNCHANGED bounds
       \/ Fault /\ UNCHANGED metaCache
    /\ IF run[w].at = "delete" THEN GotoR(w, "removeLast") /\ UNCHANGED tasks
                               ELSE Return(w, "finish")
    /\ UNCHANGED <<lock, rows, dir, file, partObj, pc, putVars,
                   meta, twin, whole, object, partCache,
                   mpc, metaRead, partsRead, fill>>

\* RemoveAll is through, or was in part: nobody looks at its error.
Removed(w) ==
    IF run[w].at = "remove" THEN GotoR(w, "deleteLast") /\ UNCHANGED tasks
                            ELSE Return(w, "finish")

RunRemove(w) ==
    /\ run[w].at \in {"remove", "removeLast"}
    /\ dir' = FALSE
    /\ file' = [c \in Chunks |-> "none"]
    /\ whole' = "none"
    /\ Removed(w)
    /\ UNCHANGED <<lock, rows, partObj, pc, putVars, bounds,
                   meta, twin, object, metaCache, partCache,
                   mpc, metaRead, partsRead, fill>>

\* What cannot be removed stays, and the directory with it; all else goes.
RunRemoveSome(w) ==
    /\ run[w].at \in {"remove", "removeLast"}
    /\ Fault
    /\ \E kept \in Chunks :
          file' = [c \in Chunks |-> IF c = kept THEN file[c] ELSE "none"]
    /\ whole' = "none"
    /\ Removed(w)
    /\ UNCHANGED <<lock, rows, dir, partObj, pc, putVars,
                   meta, twin, object, metaCache, partCache,
                   mpc, metaRead, partsRead, fill>>

\* A slip: a run that fails removes the directory.
RunFaultClean(w) ==
    /\ run[w].at \in {"query", "create", "copy", "resume", "put", "update"}
    /\ Fault
    /\ Return(w, "error")
    /\ dir' = FALSE
    /\ UNCHANGED <<lock, rows, file, partObj, pc, putVars,
                   meta, twin, whole, object, metaCache, partCache,
                   mpc, metaRead, partsRead, fill>>

\* A query, os.Create, a copy, the store or the update fails.
RunFault(w) ==
    /\ run[w].at \in {"query", "create", "copy", "resume", "put", "update"}
    /\ Fault
    /\ Return(w, "error")
    /\ UNCHANGED <<lock, rows, dir, file, partObj, pc, putVars,
                   meta, twin, whole, object, metaCache, partCache,
                   mpc, metaRead, partsRead, fill>>

RunStep(w) ==
    \/ \E m \in MergeReqs : RunStart(w, m)
    \/ RunQuery(w) \/ RunCreate(w) \/ RunCopy(w) \/ RunMd5(w)
    \/ RunResume(w) \/ RunPut(w) \/ RunUpdate(w)
    \/ RunDelCache(w) \/ RunRemove(w)

-----------------------------------------------------------------------------
(* CheckPointHandler, which changes nothing *)

\* GetPartByUid: the row is pending and in parts.
FoundPending == meta.status = "pending" /\ meta.multi

\* The parts a client need not send again; none where the handler refuses.
CheckPoint == IF FoundPending THEN PartNumbers ELSE {}

-----------------------------------------------------------------------------
(* Downloads fill the metadata cache; redis drops keys; the node crashes *)

\* A copy of pending metadata is left out: it vouches for no bytes, and while it is
\* in the cache it only keeps others out, as if they had come and then expired.
DownloadRead ==
    /\ metaCache = None /\ fill = None /\ meta.status = "uploaded"
    /\ fill' = meta
    /\ UNCHANGED <<partVars, meta, twin, whole, object, metaCache, partCache,
                   mpc, metaRead, partsRead, tasks, run>>

DownloadFill ==
    /\ fill # None
    /\ metaCache' = SetNX(metaCache, fill)
    /\ fill' = None
    /\ UNCHANGED <<partVars, meta, twin, whole, object, partCache,
                   mpc, metaRead, partsRead, tasks, run>>

CacheExpires ==
    /\ \/ metaCache # None /\ metaCache' = None /\ UNCHANGED partCache
       \/ partCache # None /\ partCache' = None /\ UNCHANGED metaCache
    /\ UNCHANGED <<partVars, meta, twin, whole, object,
                   mpc, metaRead, partsRead, tasks, run, fill>>

\* What ends with the process, but for the part uploads.
MergesDie ==
    /\ mpc' = [m \in MergeReqs |-> IF mpc[m] \in {"start", "ok"} THEN mpc[m] ELSE "err"]
    /\ metaRead' = [m \in MergeReqs |-> None]
    /\ partsRead' = [m \in MergeReqs |-> None]
    /\ run' = [w \in Workers |-> Idle]
    /\ fill' = None
    /\ UNCHANGED <<meta, twin, whole, object, metaCache, partCache>>

\* Tasks the workers ran stay Running, also when a part upload panics.
Crash == (PartCrash \/ StreamPanics) /\ MergesDie /\ UNCHANGED tasks

\* A later process stops in order: it waits for its workers, gives back what is
\* Running under its address (StopTask), and ends.
Stop ==
    /\ \A w \in Workers : run[w].at = "idle"
    /\ \E m \in MergeReqs : tasks[m] = "running"
    /\ tasks' = [m \in MergeReqs |-> IF tasks[m] = "running" THEN "undo" ELSE tasks[m]]
    /\ Die /\ MergesDie /\ UNCHANGED bounds

MergeNext ==
    \/ PartWork /\ UNCHANGED mergeVars
    \/ \E m \in MergeReqs : MergeStep(m) \/ MergeFault(m)
    \/ \E w \in Workers : RunStep(w) \/ RunFault(w) \/ RunRemoveSome(w)
    \/ DownloadRead \/ DownloadFill \/ CacheExpires \/ Crash \/ Stop

MergeSpec == MergeInit /\ [][MergeNext]_allVars

-----------------------------------------------------------------------------
RunPlaces == {"idle", "query", "create", "copy", "md5", "resume", "put", "update",
              "delete", "remove", "deleteLast", "removeLast"}

\* The type invariant.
MergeTypeOK ==
    /\ PartTypeOK
    /\ meta \in Meta /\ twin \in BOOLEAN
    /\ whole \in Contents /\ object \in Contents
    /\ metaCache \in Meta \cup {None}
    /\ partCache \in (SUBSET Chunks) \cup {None}
    /\ mpc \in [MergeReqs -> {"start", "counted", "marked", "tasked", "metaRead",
                              "metaCached", "partsRead", "ok", "err"}]
    /\ metaRead \in [MergeReqs -> Meta \cup {None}]
    /\ partsRead \in [MergeReqs -> (SUBSET Chunks) \cup {None}]
    /\ tasks \in [MergeReqs -> {"absent", "undo", "running", "finish", "error"}]
    /\ run \in [Workers -> [at : RunPlaces, task : MergeReqs \cup {None},
                            list : SUBSET Chunks]]
    /\ fill \in Meta \cup {None}

\* What a download is told of the uid to be one object is an object that is whole.
OneObject(v) ==
    v # None /\ v.status = "uploaded" /\ ~v.multi =>
        IF v.object = "twin" THEN twin ELSE object = "whole"

\* What it is told to be in parts has a row and an object for every part.
InParts(v) ==
    v # None /\ v.status = "uploaded" /\ v.multi =>
        \A c \in Chunks : RowsOf(c) # {} /\ partObj[c] # "none"

\* From the database, from the cache, or from a read still on its way to the
\* cache, however stale: metadata that says uploaded names stored bytes
\* (partmerge.go's order of put, update, delete and remove; SetNX fills).  Of a
\* uid in parts it does as long as no part has two rows, for the merge request
\* only counts them (upload.go:789).
ServedComplete ==
    /\ \A v \in {meta, metaCache, fill} : OneObject(v)
    /\ PartUnique =>
          /\ \A v \in {meta, metaCache, fill} : InParts(v)
          /\ partCache # None => partCache = Chunks

\* "is the number of parts the same" (upload.go:779): what is said to be uploaded
\* has all its parts.
CountedIsComplete == InParts(meta)

\* "resume looks only at data that is in parts and not uploaded" (checkpoint.go:30):
\* the check point of a uid whose upload is not at its end lists the parts stored.
ResumeListsParts == meta.status = "pending" => CheckPoint = PartNumbers

\* The uid's bytes are stored as one object, its own or a twin's.
Stored == object = "whole" \/ (twin /\ meta.object = "twin")

\* The parts on disk go, the directory or any file of a part that has a row, only
\* when the object that replaces them is stored whole, whatever failed or ran
\* twice before; so is a finished task's uid.
PartsKeptUntilStored ==
    \/ ~dir
    \/ \E r \in rows : file[ChunkOf(r)] = "none"
    \/ \E m \in MergeReqs : tasks[m] = "finish"
    => Stored

\* "check the md5" (partmerge.go:99): once no worker runs, metadata of a merged
\* uid names an object that has the md5 that was checked.
MergedIntact ==
    /\ \A w \in Workers : run[w].at = "idle"
    /\ meta.status = "uploaded" /\ ~meta.multi
    => Stored

=============================================================================
