----------------------------- MODULE PartUpload -----------------------------
(***************************************************************************)
(* Uploads of the parts of one uid (UploadMultiPartHandler), on the node   *)
(* that holds the uid's directory.  A request takes a redis lock, asks     *)
(* whether the part is there, gives the lock back, and only then writes    *)
(* the part file, checks its md5, puts the object and inserts the row.     *)
(* To put is to read the file, send it, and have the store commit it.      *)
(* A client sends one content per chunk number, so a file or an object is  *)
(* whole, cut short, or missing.                                           *)
(***************************************************************************)
EXTENDS Integers, FiniteSets

CONSTANTS
    PartReqs,     \* the upload requests, retries of a chunk being requests too
    Chunks,       \* the chunk numbers of the file
    ChunkOf(_),   \* the chunk a request carries
    None,         \* no lock holder
    MaxTroubles   \* bound: calls that fail, locks that time out, processes that die

ASSUME PartAssumption ==
    /\ IsFiniteSet(Chunks)
    /\ \A r \in PartReqs : ChunkOf(r) \in Chunks
    /\ None \notin PartReqs
    /\ MaxTroubles \in Nat

VARIABLES
    lock,        \* the redis keys multi-part-<uid>-<chunk>-<md5>
    rows,        \* multi_part_info: the requests whose row was inserted
    dir,         \* the uid's directory is on this node's disk
    file,        \* the part files in it
    partObj,     \* the part objects in the store
    pc,          \* how far each request is
    sending,     \* what each request that puts has read of the file
    overlapped,  \* history: the chunks two puts of which went on at once
    faults, expiries, crashes

partVars == <<lock, rows, dir, file, partObj, pc, sending, overlapped,
              faults, expiries, crashes>>

Contents == {"none", "cut", "whole"}

Lock == INSTANCE RedisLock WITH Keys <- Chunks, Ids <- PartReqs

PartInit ==
    /\ Lock!LockInit
    /\ rows = {}
    /\ dir = TRUE
    /\ file = [c \in Chunks |-> "none"]
    /\ partObj = [c \in Chunks |-> "none"]
    /\ pc = [r \in PartReqs |-> "start"]
    /\ sending = [r \in PartReqs |-> "none"]
    /\ overlapped = {}
    /\ faults = 0 /\ expiries = 0 /\ crashes = 0

RowsOf(c) == {r \in rows : ChunkOf(r) = c}

\* GetPartNumByUid: the chunks that have a row.
PartNumbers == {ChunkOf(r) : r \in rows}

Open(c)    == {r \in PartReqs : ChunkOf(r) = c /\ pc[r] = "open"}
Putting(c) == {r \in PartReqs : ChunkOf(r) = c /\ pc[r] = "putting"}

putVars == <<sending, overlapped>>
bounds  == <<faults, expiries, crashes>>

Trouble == faults + expiries + crashes < MaxTroubles
Fault   == Trouble /\ faults' = faults + 1 /\ UNCHANGED <<expiries, crashes>>

Goto(r, to) == pc' = [pc EXCEPT ![r] = to]

-----------------------------------------------------------------------------
TakeLock(r) ==
    /\ pc[r] = "start"
    /\ Lock!Acquire(ChunkOf(r), r)
    /\ Goto(r, "locked")
    /\ UNCHANGED <<rows, dir, file, partObj, putVars, bounds>>

LockRefused(r) ==
    /\ pc[r] = "start" /\ ~Lock!Free(ChunkOf(r), r)
    /\ Goto(r, "err")
    /\ UNCHANGED <<lock, rows, dir, file, partObj, putVars, bounds>>

\* GetPartInfo.  On a row the handler answers at once, its lock still set.
CheckPart(r) ==
    /\ pc[r] = "locked"
    /\ Goto(r, IF RowsOf(ChunkOf(r)) # {} THEN "ok" ELSE "checked")
    /\ UNCHANGED <<lock, rows, dir, file, partObj, putVars, bounds>>

\* The error of Release is not looked at: the lock stays till it times out.
DropLock(r) ==
    /\ pc[r] = "checked"
    /\ \/ Lock!Release(ChunkOf(r), r) /\ UNCHANGED bounds
       \/ Fault /\ UNCHANGED lock
    /\ Goto(r, "unlocked")
    /\ UNCHANGED <<rows, dir, file, partObj, putVars>>

\* os.Create, which truncates; without the directory no node is found to
\* forward to.
CreateFile(r) ==
    /\ pc[r] = "unlocked"
    /\ IF dir
         THEN file' = [file EXCEPT ![ChunkOf(r)] = "cut"] /\ Goto(r, "open")
         ELSE UNCHANGED file /\ Goto(r, "err")
    /\ UNCHANGED <<lock, rows, dir, partObj, putVars, bounds>>

\* The stream is copied.  Another request with the file open may have
\* truncated it meanwhile; writes to a removed file go nowhere.
WriteFile(r) ==
    /\ pc[r] = "open"
    /\ IF dir
         THEN \E v \in {"whole"} \cup (IF Open(ChunkOf(r)) = {r} THEN {} ELSE {"cut"}) :
                 file' = [file EXCEPT ![ChunkOf(r)] = v]
         ELSE UNCHANGED file
    /\ Goto(r, "written")
    /\ UNCHANGED <<lock, rows, dir, partObj, putVars, bounds>>

\* A slip: the row is inserted and the object put by nobody.
VerifyThenInsert(r) ==
    /\ pc[r] = "written"
    /\ Goto(r, IF file[ChunkOf(r)] = "whole" THEN "stored" ELSE "err")
    /\ UNCHANGED <<lock, rows, dir, file, partObj, putVars, bounds>>

\* CalculateFileMd5 against the request's md5.
VerifyFile(r) ==
    /\ pc[r] = "written"
    /\ Goto(r, IF file[ChunkOf(r)] = "whole" THEN "verified" ELSE "err")
    /\ UNCHANGED <<lock, rows, dir, file, partObj, putVars, bounds>>

\* FPutObject, or the put of another store, reads the part's file as it is now,
\* a rival's half-written one too.
PutPart(r) ==
    /\ pc[r] = "verified"
    /\ IF file[ChunkOf(r)] = "none"
         THEN Goto(r, "err") /\ UNCHANGED putVars
         ELSE /\ Goto(r, "putting")
              /\ sending' = [sending EXCEPT ![r] = file[ChunkOf(r)]]
              /\ overlapped' = IF Putting(ChunkOf(r)) = {} THEN overlapped
                                ELSE overlapped \cup {ChunkOf(r)}
    /\ UNCHANGED <<lock, rows, dir, file, partObj, bounds>>

\* A slip: the store keeps the object it has.
PutObjectOnce(r) ==
    /\ pc[r] = "putting"
    /\ sending' = [sending EXCEPT ![r] = "none"]
    /\ partObj' = [partObj EXCEPT ![ChunkOf(r)] = IF @ = "none" THEN sending[r] ELSE @]
    /\ Goto(r, "stored")
    /\ UNCHANGED <<lock, rows, dir, file, overlapped, bounds>>

\* The store commits what it was sent, whatever has become of the file; it may
\* refuse one that shrank while it was read.
PutObject(r) ==
    /\ pc[r] = "putting"
    /\ sending' = [sending EXCEPT ![r] = "none"]
    /\ \/ partObj' = [partObj EXCEPT ![ChunkOf(r)] = sending[r]] /\ Goto(r, "stored")
       \/ sending[r] = "cut" /\ UNCHANGED partObj /\ Goto(r, "err")
    /\ UNCHANGED <<lock, rows, dir, file, overlapped, bounds>>

\* The insert uses the file's size.
CreateRow(r) ==
    /\ pc[r] = "stored" /\ file[ChunkOf(r)] # "none"
    /\ rows' = rows \cup {r} /\ Goto(r, "ok")
    /\ UNCHANGED <<lock, dir, file, partObj, putVars, bounds>>

\* Without the file the size is taken of nil.  An HTTP handler recovers.
RowPanics(r) ==
    /\ pc[r] = "stored" /\ file[ChunkOf(r)] = "none"
    /\ Goto(r, "err")
    /\ UNCHANGED <<lock, rows, dir, file, partObj, putVars, bounds>>

\* The process ends, with every request in it.
Die ==
    /\ pc' = [r \in PartReqs |-> IF pc[r] \in {"start", "ok"} THEN pc[r] ELSE "err"]
    /\ sending' = [r \in PartReqs |-> "none"]
    /\ UNCHANGED <<lock, rows, dir, file, partObj, overlapped>>

\* Nothing recovers a gRPC stream: the panic is the end of the process.
StreamPanics ==
    /\ \E r \in PartReqs : pc[r] = "stored" /\ file[ChunkOf(r)] = "none"
    /\ Die /\ UNCHANGED bounds

PartCrash ==
    /\ Trouble /\ crashes' = crashes + 1 /\ UNCHANGED <<faults, expiries>>
    /\ Die

\* A database, store or stream error ends the request where it is, a lock it
\* holds stays.  A put that failed may have been committed.
Abort(r) ==
    /\ pc[r] \notin {"start", "ok", "err"} /\ Fault
    /\ Goto(r, "err")
    /\ sending' = [sending EXCEPT ![r] = "none"]
    /\ \/ UNCHANGED partObj
       \/ pc[r] = "putting" /\ partObj' = [partObj EXCEPT ![ChunkOf(r)] = sending[r]]
    /\ UNCHANGED <<lock, rows, dir, file, overlapped>>

LockExpires(c) ==
    /\ Trouble /\ expiries' = expiries + 1 /\ UNCHANGED <<faults, crashes>>
    /\ Lock!Expire(c)
    /\ UNCHANGED <<rows, dir, file, partObj, pc, putVars>>

-----------------------------------------------------------------------------
PartStep(r) ==
    \/ TakeLock(r) \/ LockRefused(r) \/ CheckPart(r) \/ DropLock(r)
    \/ CreateFile(r) \/ WriteFile(r) \/ VerifyFile(r) \/ PutPart(r) \/ PutObject(r)
    \/ CreateRow(r) \/ RowPanics(r)

\* All but the end of the process.
PartWork ==
    \/ \E r \in PartReqs : PartStep(r) \/ Abort(r)
    \/ \E c \in Chunks : LockExpires(c)

PartNext == PartWork \/ StreamPanics \/ PartCrash

PartSpec == PartInit /\ [][PartNext]_partVars

-----------------------------------------------------------------------------
PartPCs == {"start", "locked", "checked", "unlocked", "open", "written",
            "verified", "putting", "stored", "ok", "err"}

InFlight(c) == {r \in PartReqs : ChunkOf(r) = c /\ pc[r] \notin {"start", "ok", "err"}}

\* The type invariant.
PartTypeOK ==
    /\ lock \in [Chunks -> PartReqs \cup {None}]
    /\ rows \subseteq PartReqs
    /\ dir \in BOOLEAN
    /\ file \in [Chunks -> Contents]
    /\ partObj \in [Chunks -> Contents]
    /\ pc \in [PartReqs -> PartPCs]
    /\ sending \in [PartReqs -> Contents]
    /\ overlapped \subseteq Chunks
    /\ faults \in Nat /\ expiries \in Nat /\ crashes \in Nat
    /\ faults + expiries + crashes <= MaxTroubles

\* Between Acquire and Release a request is alone with its part, as long as no
\* lock has timed out under its holder (redislock.go, upload.go:572-591).
LockExclusive ==
    expiries = 0 =>
        \A r, q \in PartReqs :
            /\ pc[r] \in {"locked", "checked"} /\ pc[q] \in {"locked", "checked"}
            /\ ChunkOf(r) = ChunkOf(q)
            => r = q

\* An answer of success is backed by a row and every row by an object, however
\* requests for the part overlap and fail (the order of PutObject and Create).
AckedPartStored ==
    /\ \A r \in PartReqs : pc[r] = "ok" => RowsOf(ChunkOf(r)) # {}
    /\ \A r \in rows : partObj[ChunkOf(r)] # "none"

\* Uploads of a part that have come to rest without a failure leave its object
\* whole: the last to read the file reads what it has verified, or what a rival
\* has since made whole again.
SettledWhole(c) ==
    dir /\ InFlight(c) = {} /\ faults + crashes = 0 /\ RowsOf(c) # {}
    => partObj[c] = "whole"

\* They do as long as no two puts of the part were under way at once (the file
\* is shared, upload.go:656-709): then the store commits in the order of reads.
SettledPartWhole == \A c \in Chunks \ overlapped : SettledWhole(c)

\* "check the md5" (upload.go:697): what was verified is what is stored.
VerifiedIsStored == \A c \in Chunks : SettledWhole(c)

\* "is this part already uploaded" (upload.go:569): a part has one row.
PartUnique ==
    \A r, q \in rows : ChunkOf(r) = ChunkOf(q) => r = q

=============================================================================
