--------------------------- MODULE PartMergeProofs ---------------------------
(* Theorems about the uploads of parts, with merges beside them, for any     *)
(* requests, chunks, workers and bounds.                                     *)
EXTENDS PartMerge, FiniteSetTheorems, TLAPS

\* The lock of a part is its holder's until the holder gives it back.
HoldersLocked ==
    expiries = 0 =>
        \A r \in PartReqs : pc[r] \in {"locked", "checked"} => lock[ChunkOf(r)] = r

\* Who puts has read something, and who comes to insert a row has put it.
StoredPut ==
    /\ \A r \in PartReqs : pc[r] = "putting" => sending[r] # "none"
    /\ \A r \in PartReqs : pc[r] = "stored" => partObj[ChunkOf(r)] # "none"

\* A request that will read the part's file, or is about to write it.
Due(c) == \E r \in PartReqs : ChunkOf(r) = c /\ pc[r] \in {"open", "written", "verified"}

\* A file cut short is not the last: someone is there who will write it again.
FilesRepaired ==
    /\ \A c \in Chunks : file[c] = "cut" => \E r \in PartReqs : ChunkOf(r) = c /\ pc[r] = "open"
    /\ \A r \in PartReqs : pc[r] \in {"open", "written", "verified", "putting", "stored"} =>
          file[ChunkOf(r)] # "none"

\* Nor is an object, while the part's puts come one after the other: whoever sends
\* one cut short, or finds one in the store, is followed by another put.
ObjectRepaired(c) ==
    /\ \A r, q \in Putting(c) : r = q
    /\ \A r \in Putting(c) : sending[r] = "cut" => Due(c)
    /\ partObj[c] = "cut" => Due(c) \/ \E r \in Putting(c) : sending[r] = "whole"

\* A task runs nowhere only once a process has died.
Tended ==
    \A m \in MergeReqs : tasks[m] = "running" =>
        \E w \in Workers : run[w].at # "idle" /\ run[w].task = m

\* As long as nothing has failed and the directory is there.
Repaired ==
    dir /\ faults = 0 /\ crashes = 0 =>
        FilesRepaired /\ Tended /\ \A c \in Chunks \ overlapped : ObjectRepaired(c)

\* The uploads' part of the inductive invariant.
PartInv == HoldersLocked /\ StoredPut /\ AckedPartStored /\ Repaired

-----------------------------------------------------------------------------
\* A request that has not come to its task has inserted none.
NotYetInserted ==
    \A m \in MergeReqs : mpc[m] \in {"start", "counted", "marked"} => tasks[m] = "absent"

\* A merge task is run by one worker at most, and is Running while it is.
OneTaskPerRun ==
    \A w \in Workers : run[w].at # "idle" =>
        /\ run[w].task \in MergeReqs /\ tasks[run[w].task] = "running"
        /\ \A v \in Workers : run[v].at # "idle" /\ run[v].task = run[w].task => v = w

\* The types, with what the type of a settled task rests on.
RunInv == MergeTypeOK /\ NotYetInserted /\ OneTaskPerRun

-----------------------------------------------------------------------------
\* Every step of an upload keeps the types.
LEMMA PartStepTypes == ASSUME PartTypeOK, NEW r \in PartReqs, PartStep(r) PROVE PartTypeOK'
<1> USE PartAssumption DEF PartTypeOK, PartPCs, Contents, Goto, putVars, bounds
<1>1. CASE TakeLock(r)
  BY <1>1 DEF TakeLock, Lock!Acquire
<1>2. CASE LockRefused(r) \/ CheckPart(r) \/ VerifyFile(r) \/ RowPanics(r)
  BY <1>2 DEF LockRefused, CheckPart, VerifyFile, RowPanics
<1>3. CASE DropLock(r)
  BY <1>3 DEF DropLock, Lock!Release, Fault, Trouble
<1>4. CASE CreateFile(r)
  BY <1>4 DEF CreateFile
<1>5. CASE WriteFile(r)
  <2>1. file' = file \/ \E v \in {"whole", "cut"} : file' = [file EXCEPT ![ChunkOf(r)] = v]
    BY <1>5 DEF WriteFile
  <2> QED
    BY <1>5, <2>1 DEF WriteFile
<1>6. CASE PutPart(r)
  BY <1>6 DEF PutPart
<1>7. CASE PutObject(r)
  BY <1>7 DEF PutObject
<1>8. CASE CreateRow(r)
  BY <1>8 DEF CreateRow
<1> QED
  BY <1>1, <1>2, <1>3, <1>4, <1>5, <1>6, <1>7, <1>8 DEF PartStep

LEMMA PartTypes ==
  ASSUME PartTypeOK, PartNext
  PROVE  PartTypeOK'
<1> USE PartAssumption DEF PartTypeOK, PartPCs, Contents, Goto, putVars, bounds
<1>1. ASSUME NEW r \in PartReqs, Abort(r) PROVE PartTypeOK'
  BY <1>1 DEF Abort, Fault, Trouble
<1>2. ASSUME NEW c \in Chunks, LockExpires(c) PROVE PartTypeOK'
  BY <1>2 DEF LockExpires, Lock!Expire, Trouble
<1>3. CASE StreamPanics
  BY <1>3 DEF StreamPanics, Die
<1>4. CASE PartCrash
  BY <1>4 DEF PartCrash, Die, Trouble
<1> QED
  BY <1>1, <1>2, <1>3, <1>4, PartStepTypes DEF PartNext, PartWork

\* What is not an upload leaves the requests, the rows and the objects as they are;
\* it may fail, and a run may remove the directory or some of its files.
Beside ==
    \/ \E m \in MergeReqs : MergeStep(m) \/ MergeFault(m)
    \/ \E w \in Workers : RunStep(w) \/ RunFault(w) \/ RunRemoveSome(w)
    \/ DownloadRead \/ DownloadFill \/ CacheExpires

LEMMA BesideParts ==
  ASSUME PartTypeOK, Beside
  PROVE  /\ UNCHANGED <<lock, rows, partObj, pc, sending, overlapped>>
         /\ UNCHANGED bounds \/ Fault
         /\ \/ UNCHANGED <<dir, file>>
            \/ dir' = FALSE /\ file' \in [Chunks -> Contents]
            \/ Fault /\ UNCHANGED dir /\ file' \in [Chunks -> Contents]
<1> USE DEF putVars
<1>1. ASSUME NEW m \in MergeReqs, MergeStep(m) PROVE UNCHANGED partVars
  BY <1>1 DEF MergeStep, MergeCheck, MergeMark, MergeTask, MergeReadMeta, MergeCacheMeta,
              MergeReadParts, MergeCacheParts
<1>2. ASSUME NEW m \in MergeReqs, MergeFault(m)
      PROVE  Fault /\ UNCHANGED <<lock, rows, dir, file, partObj, pc, sending, overlapped>>
  BY <1>2 DEF MergeFault
<1>3. ASSUME NEW w \in Workers, RunStep(w), ~RunRemove(w), ~RunDelCache(w)
      PROVE  UNCHANGED partVars
  BY <1>3 DEF RunStep, RunStart, RunQuery, RunCreate, RunCopy, RunMd5, RunResume, RunPut,
              RunUpdate
<1>4. ASSUME NEW w \in Workers, RunDelCache(w) \/ RunFault(w)
      PROVE  /\ UNCHANGED <<lock, rows, dir, file, partObj, pc, sending, overlapped>>
             /\ UNCHANGED bounds \/ Fault
  BY <1>4 DEF RunDelCache, RunFault
<1>5. ASSUME NEW w \in Workers, RunRemove(w)
      PROVE  /\ UNCHANGED <<lock, rows, partObj, pc, sending, overlapped, bounds>>
             /\ dir' = FALSE /\ file' \in [Chunks -> Contents]
  BY <1>5 DEF RunRemove, Contents
<1>6. ASSUME NEW w \in Workers, RunRemoveSome(w)
      PROVE  /\ UNCHANGED <<lock, rows, dir, partObj, pc, sending, overlapped>>
             /\ Fault /\ file' \in [Chunks -> Contents]
  BY <1>6 DEF RunRemoveSome, Contents, PartTypeOK
<1>7. CASE DownloadRead \/ DownloadFill \/ CacheExpires
  BY <1>7 DEF DownloadRead, DownloadFill, CacheExpires, partVars, bounds
<1> QED
  BY <1>1, <1>2, <1>3, <1>4, <1>5, <1>6, <1>7 DEF Beside, partVars, bounds

LEMMA BesideTypes == ASSUME PartTypeOK, Beside PROVE PartTypeOK'
<1>1. /\ UNCHANGED <<lock, rows, partObj, pc, sending, overlapped>>
      /\ UNCHANGED bounds \/ Fault
      /\ \/ UNCHANGED <<dir, file>>
         \/ dir' = FALSE /\ file' \in [Chunks -> Contents]
         \/ Fault /\ UNCHANGED dir /\ file' \in [Chunks -> Contents]
  BY BesideParts
<1>2. dir' \in BOOLEAN /\ file' \in [Chunks -> Contents]
  BY <1>1 DEF PartTypeOK
<1>3. /\ faults' \in Nat /\ expiries' \in Nat /\ crashes' \in Nat
      /\ faults' + expiries' + crashes' <= MaxTroubles
  BY <1>1, PartAssumption DEF PartTypeOK, bounds, Fault, Trouble
<1> QED
  BY <1>1, <1>2, <1>3 DEF PartTypeOK

\* The end of a process keeps them, whatever ends it.
LEMMA DieTypes ==
  ASSUME PartTypeOK, Crash \/ Stop
  PROVE  PartTypeOK'
<1>1. CASE Crash
  BY <1>1, PartTypes DEF Crash, PartNext
<1>2. CASE Stop
  BY <1>2 DEF Stop, Die, bounds, PartTypeOK, PartPCs, Contents
<1> QED
  BY <1>1, <1>2

-----------------------------------------------------------------------------
\* No merge has begun and no worker runs.
LEMMA RunInvInit == MergeInit => RunInv
<1> SUFFICES ASSUME MergeInit PROVE RunInv
  OBVIOUS
<1> USE DEF MergeInit
<1>1. PartTypeOK
  BY PartAssumption DEF PartInit, PartTypeOK, PartPCs, Contents, Lock!LockInit
<1>2. Idle \in [at : RunPlaces, task : MergeReqs \cup {None}, list : SUBSET Chunks]
  BY DEF Idle, RunPlaces
<1>3. MergeTypeOK
  BY <1>1, <1>2 DEF MergeTypeOK, Meta, Contents
<1>4. NotYetInserted
  BY DEF NotYetInserted
<1>5. OneTaskPerRun
  BY DEF OneTaskPerRun, Idle
<1> QED
  BY <1>3, <1>4, <1>5 DEF RunInv

LEMMA NumbersAreChunks == ASSUME PartTypeOK PROVE PartNumbers \in SUBSET Chunks
  BY PartAssumption DEF PartTypeOK, PartNumbers

\* A merge request moves on alone, and inserts its task once.
LEMMA MergeStepTypes ==
  ASSUME RunInv, NEW m \in MergeReqs, MergeStep(m)
  PROVE  RunInv'
<1> USE DEF RunInv, GotoM
<1>1. PartTypeOK'
  BY BesideTypes DEF MergeTypeOK, Beside
<1>2. UNCHANGED <<twin, whole, object, run, fill>>
  BY DEF MergeStep, MergeCheck, MergeMark, MergeTask, MergeReadMeta, MergeCacheMeta,
         MergeReadParts, MergeCacheParts
<1>3. CASE MergeCheck(m)
  <2>1. MergeTypeOK'
    BY <1>1, <1>2, <1>3 DEF MergeCheck, MergeTypeOK
  <2> QED
    BY <1>2, <1>3, <2>1 DEF MergeCheck, NotYetInserted, OneTaskPerRun, MergeTypeOK
<1>4. CASE MergeMark(m)
  <2>1. meta' \in Meta
    BY <1>4 DEF MergeMark, Meta, MergeTypeOK
  <2>2. MergeTypeOK'
    BY <1>1, <1>2, <1>4, <2>1 DEF MergeMark, MergeTypeOK
  <2> QED
    BY <1>2, <1>4, <2>2 DEF MergeMark, NotYetInserted, OneTaskPerRun, MergeTypeOK
<1>5. CASE MergeTask(m)
  <2>1. MergeTypeOK'
    BY <1>1, <1>2, <1>5 DEF MergeTask, MergeTypeOK
  <2>2. NotYetInserted'
    BY <1>5 DEF MergeTask, NotYetInserted, MergeTypeOK
  <2>3. \A n \in MergeReqs : tasks[n] = "running" => tasks'[n] = "running"
    BY <1>5 DEF MergeTask, NotYetInserted, MergeTypeOK
  <2> QED
    BY <1>2, <2>1, <2>2, <2>3 DEF OneTaskPerRun
<1>6. CASE MergeReadMeta(m) \/ MergeCacheMeta(m) \/ MergeReadParts(m) \/ MergeCacheParts(m)
  <2>1. /\ UNCHANGED <<meta, tasks>>
        /\ mpc[m] \notin {"start", "counted", "marked"}
        /\ \E to \in {"metaRead", "metaCached", "partsRead", "ok"} : mpc' = [mpc EXCEPT ![m] = to]
    BY <1>6 DEF MergeReadMeta, MergeCacheMeta, MergeReadParts, MergeCacheParts
  <2>2. /\ metaCache' \in Meta \cup {None} /\ metaRead' \in [MergeReqs -> Meta \cup {None}]
        /\ partCache' \in (SUBSET Chunks) \cup {None}
        /\ partsRead' \in [MergeReqs -> (SUBSET Chunks) \cup {None}]
    BY <1>6, NumbersAreChunks
    DEF MergeReadMeta, MergeCacheMeta, MergeReadParts, MergeCacheParts, SetNX, MergeTypeOK
  <2>3. MergeTypeOK'
    BY <1>1, <1>2, <2>1, <2>2 DEF MergeTypeOK
  <2> QED
    BY <1>2, <2>1, <2>3 DEF NotYetInserted, OneTaskPerRun, MergeTypeOK
<1> QED
  BY <1>3, <1>4, <1>5, <1>6 DEF MergeStep

\* One that fails has inserted its task, or never will.
LEMMA MergeFaultTypes ==
  ASSUME RunInv, NEW m \in MergeReqs, MergeFault(m)
  PROVE  RunInv'
<1> USE DEF RunInv, MergeFault, GotoM
<1>1. PartTypeOK'
  BY BesideTypes DEF MergeTypeOK, Beside
<1>2. MergeTypeOK'
  BY <1>1 DEF MergeTypeOK
<1> QED
  BY <1>2 DEF NotYetInserted, OneTaskPerRun, MergeTypeOK

\* A worker that goes on keeps its task; one that returns settles it and is idle.
LEMMA RunMoves ==
  ASSUME RunInv, NEW w \in Workers, RunStep(w) \/ RunFault(w) \/ RunRemoveSome(w)
  PROVE  \/ \E m \in MergeReqs : RunStart(w, m)
         \/ /\ run[w].at # "idle" /\ UNCHANGED tasks
            /\ \E to \in RunPlaces \ {"idle"}, l \in SUBSET Chunks :
                  run' = [run EXCEPT ![w].at = to, ![w].list = l]
         \/ /\ run[w].at # "idle"
            /\ \E outcome \in {"finish", "error"} : Return(w, outcome)
<1> DEFINE Goes == /\ UNCHANGED tasks
                   /\ \E to \in RunPlaces \ {"idle"}, l \in SUBSET Chunks :
                        run' = [run EXCEPT ![w].at = to, ![w].list = l]
           Back == \E outcome \in {"finish", "error"} : Return(w, outcome)
<1>1. ASSUME NEW to \in RunPlaces \ {"idle"}, GotoR(w, to), UNCHANGED tasks PROVE Goes
  <2>1. run[w].list \in SUBSET Chunks
    BY DEF RunInv, MergeTypeOK
  <2>2. run' = [run EXCEPT ![w].at = to, ![w].list = run[w].list]
    BY <1>1 DEF GotoR, RunInv, MergeTypeOK
  <2> QED
    BY <1>1, <2>1, <2>2
<1>2. CASE RunQuery(w)
  <2>1. CASE Cardinality(rows) = NumParts /\ FoundUploaded
    <3>1. /\ run' = [run EXCEPT ![w].at = "create", ![w].list = PartNumbers]
          /\ UNCHANGED tasks /\ run[w].at # "idle"
      BY <1>2, <2>1 DEF RunQuery
    <3>2. PartNumbers \in SUBSET Chunks /\ "create" \in RunPlaces \ {"idle"}
      BY NumbersAreChunks DEF RunInv, MergeTypeOK, RunPlaces
    <3> QED
      BY <3>1, <3>2
  <2> QED
    BY <1>2, <2>1 DEF RunQuery
<1>3. CASE RunCreate(w)
  BY <1>1, <1>3 DEF RunCreate, RunPlaces
<1>4. CASE RunCopy(w)
  <2>1. CASE run' = [run EXCEPT ![w].at = "md5", ![w].list = {}] /\ UNCHANGED tasks
    <3>1. "md5" \in RunPlaces \ {"idle"} /\ {} \in SUBSET Chunks
      BY DEF RunPlaces
    <3> QED
      BY <1>4, <2>1, <3>1 DEF RunCopy
  <2> QED
    BY <1>4, <2>1 DEF RunCopy
<1>5. CASE RunMd5(w)
  BY <1>1, <1>5 DEF RunMd5, RunPlaces
<1>6. CASE RunResume(w)
  BY <1>1, <1>6 DEF RunResume, RunPlaces
<1>7. CASE RunPut(w)
  BY <1>1, <1>7 DEF RunPut, RunPlaces
<1>8. CASE RunUpdate(w)
  BY <1>1, <1>8 DEF RunUpdate, RunPlaces
<1>9. CASE RunDelCache(w)
  BY <1>1, <1>9 DEF RunDelCache, RunPlaces
<1>10. CASE RunRemove(w) \/ RunRemoveSome(w)
  BY <1>1, <1>10 DEF RunRemove, RunRemoveSome, Removed, RunPlaces
<1>11. CASE RunFault(w)
  BY <1>11 DEF RunFault
<1> QED
  BY <1>2, <1>3, <1>4, <1>5, <1>6, <1>7, <1>8, <1>9, <1>10, <1>11 DEF RunStep

\* Hence every task stays with the one worker that took it.
LEMMA RunsApart ==
  ASSUME RunInv, NEW w \in Workers, RunStep(w) \/ RunFault(w) \/ RunRemoveSome(w)
  PROVE  /\ tasks' \in [MergeReqs -> {"absent", "undo", "running", "finish", "error"}]
         /\ run' \in [Workers -> [at : RunPlaces, task : MergeReqs \cup {None},
                                  list : SUBSET Chunks]]
         /\ \A m \in MergeReqs : tasks[m] = "absent" => tasks'[m] = "absent"
         /\ OneTaskPerRun'
         /\ Tended => Tended'
<1> DEFINE Runs == [at : RunPlaces, task : MergeReqs \cup {None}, list : SUBSET Chunks]
<1>1. /\ tasks \in [MergeReqs -> {"absent", "undo", "running", "finish", "error"}]
      /\ run \in [Workers -> Runs] /\ OneTaskPerRun
  BY DEF RunInv, MergeTypeOK
<1>2. ASSUME NEW m \in MergeReqs, RunStart(w, m)
      PROVE  /\ tasks' \in [MergeReqs -> {"absent", "undo", "running", "finish", "error"}]
             /\ run' \in [Workers -> Runs]
             /\ \A n \in MergeReqs : tasks[n] = "absent" => tasks'[n] = "absent"
             /\ OneTaskPerRun' /\ (Tended => Tended')
  <2>1. /\ tasks[m] = "undo" /\ tasks' = [tasks EXCEPT ![m] = "running"]
        /\ run[w].at = "idle"
        /\ run' = [run EXCEPT ![w] = [at |-> "query", task |-> m, list |-> {}]]
    BY <1>2 DEF RunStart
  <2>2. [at |-> "query", task |-> m, list |-> {}] \in Runs
    BY DEF RunPlaces
  <2>3. run'[w].task = m /\ run'[w].at = "query" /\ \A v \in Workers \ {w} : run'[v] = run[v]
    BY <1>1, <2>1
  <2>4. \A v \in Workers \ {w} : run[v].at # "idle" => run[v].task # m
    BY <1>1, <2>1 DEF OneTaskPerRun
  <2>5. OneTaskPerRun'
    BY <1>1, <2>1, <2>2, <2>3, <2>4 DEF OneTaskPerRun
  <2>6. Tended => Tended'
    BY <1>1, <2>1, <2>3 DEF Tended
  <2> QED
    BY <1>1, <2>1, <2>2, <2>5, <2>6
<1>3. ASSUME NEW to \in RunPlaces \ {"idle"}, NEW l \in SUBSET Chunks, run[w].at # "idle",
             UNCHANGED tasks, run' = [run EXCEPT ![w].at = to, ![w].list = l]
      PROVE  run' \in [Workers -> Runs] /\ OneTaskPerRun' /\ (Tended => Tended')
  <2>1. run'[w] = [at |-> to, task |-> run[w].task, list |-> l]
    BY <1>1, <1>3
  <2>2. \A v \in Workers \ {w} : run'[v] = run[v]
    BY <1>1, <1>3
  <2>3. run' \in [Workers -> Runs]
    BY <1>1, <1>3
  <2>4. run'[w].task = run[w].task /\ run'[w].at # "idle"
    BY <1>3, <2>1
  <2>5. \A v \in Workers : run'[v].task = run[v].task /\ (run'[v].at # "idle" <=> run[v].at # "idle")
    BY <1>3, <2>2, <2>4
  <2> QED
    BY <1>1, <1>3, <2>3, <2>5 DEF OneTaskPerRun, Tended
<1>4. ASSUME NEW outcome \in {"finish", "error"}, run[w].at # "idle", Return(w, outcome)
      PROVE  /\ tasks' \in [MergeReqs -> {"absent", "undo", "running", "finish", "error"}]
             /\ run' \in [Workers -> Runs]
             /\ \A n \in MergeReqs : tasks[n] = "absent" => tasks'[n] = "absent"
             /\ OneTaskPerRun' /\ (Tended => Tended')
  <2>1. /\ run[w].task \in MergeReqs /\ tasks[run[w].task] = "running"
        /\ \A v \in Workers \ {w} : run[v].at # "idle" => run[v].task # run[w].task
    BY <1>1, <1>4 DEF OneTaskPerRun
  <2>2. /\ tasks' = [tasks EXCEPT ![run[w].task] = outcome]
        /\ run' = [run EXCEPT ![w] = Idle]
    BY <1>4 DEF Return
  <2>3. Idle \in Runs /\ Idle.at = "idle"
    BY DEF Idle, RunPlaces
  <2>4. run'[w] = Idle /\ \A v \in Workers \ {w} : run'[v] = run[v]
    BY <1>1, <2>2
  <2>5. tasks'[run[w].task] = outcome /\ \A n \in MergeReqs : n # run[w].task => tasks'[n] = tasks[n]
    BY <1>1, <2>1, <2>2
  <2>6. OneTaskPerRun'
    BY <1>1, <2>1, <2>2, <2>3, <2>4, <2>5 DEF OneTaskPerRun
  <2>7. Tended => Tended'
    <3> SUFFICES ASSUME Tended, NEW n \in MergeReqs, tasks'[n] = "running"
                 PROVE  \E v \in Workers : run'[v].at # "idle" /\ run'[v].task = n
      BY DEF Tended
    <3>1. n # run[w].task /\ tasks[n] = "running"
      BY <2>5
    <3>2. PICK v \in Workers : run[v].at # "idle" /\ run[v].task = n
      BY <3>1 DEF Tended
    <3> QED
      BY <2>4, <3>1, <3>2
  <2> QED
    BY <1>1, <2>1, <2>2, <2>3, <2>6, <2>7
<1> QED
  BY <1>1, <1>2, <1>3, <1>4, RunMoves

\* What a worker writes has the right type.
LEMMA RunStepTypes ==
  ASSUME RunInv, NEW w \in Workers, RunStep(w) \/ RunFault(w) \/ RunRemoveSome(w)
  PROVE  RunInv'
<1>1. PartTypeOK'
  BY BesideTypes DEF RunInv, MergeTypeOK, Beside
<1>2. UNCHANGED <<partCache, mpc, metaRead, partsRead, fill>>
  BY DEF RunStep, RunStart, RunQuery, RunCreate, RunCopy, RunMd5, RunResume, RunPut, RunUpdate,
         RunDelCache, RunRemove, RunFault, RunRemoveSome
<1>3. /\ whole' \in Contents /\ object' \in Contents /\ metaCache' \in Meta \cup {None}
      /\ twin' \in BOOLEAN
  <2>1. CASE RunCopy(w)
    BY <2>1 DEF RunCopy, RunInv, MergeTypeOK, Contents
  <2>2. CASE RunPut(w)
    BY <2>2 DEF RunPut, PutWhole, RunInv, MergeTypeOK, Contents
  <2>3. CASE RunDelCache(w) \/ RunResume(w)
    BY <2>3 DEF RunDelCache, RunResume, RunInv, MergeTypeOK, Contents
  <2>4. CASE RunCreate(w) \/ RunRemove(w) \/ RunRemoveSome(w)
    BY <2>4 DEF RunCreate, RunRemove, RunRemoveSome, RunInv, MergeTypeOK, Contents
  <2>5. CASE (\E m \in MergeReqs : RunStart(w, m)) \/ RunQuery(w) \/ RunMd5(w) \/ RunUpdate(w) \/ RunFault(w)
    BY <2>5 DEF RunStart, RunQuery, RunMd5, RunUpdate, RunFault, RunInv, MergeTypeOK
  <2> QED
    BY <2>1, <2>2, <2>3, <2>4, <2>5 DEF RunStep
<1>4. meta' \in Meta
  <2>0. meta \in Meta
    BY DEF RunInv, MergeTypeOK
  <2>1. CASE RunResume(w)
    <3>1. Resumable \subseteq {"own", "twin"}
      BY <2>0 DEF Resumable, Meta
    <3> QED
      BY <2>0, <2>1, <3>1 DEF RunResume, Meta
  <2>2. CASE RunUpdate(w)
    BY <2>0, <2>2 DEF RunUpdate, Meta
  <2>3. CASE ~RunResume(w) /\ ~RunUpdate(w)
    BY <2>0, <2>3 DEF RunStep, RunStart, RunQuery, RunCreate, RunCopy, RunMd5, RunPut,
                      RunDelCache, RunRemove, RunFault, RunRemoveSome
  <2> QED
    BY <2>1, <2>2, <2>3
<1>5. MergeTypeOK'
  BY <1>1, <1>2, <1>3, <1>4, RunsApart DEF RunInv, MergeTypeOK
<1>6. NotYetInserted'
  BY <1>2, RunsApart DEF RunInv, NotYetInserted
<1> QED
  BY <1>5, <1>6, RunsApart DEF RunInv

\* A process that ends takes its requests and runs along.
LEMMA DieRunInv ==
  ASSUME RunInv, Crash \/ Stop
  PROVE  RunInv'
<1>1. PartTypeOK'
  BY DieTypes DEF RunInv, MergeTypeOK
<1>2. MergesDie
  BY DEF Crash, Stop
<1>3. /\ tasks' \in [MergeReqs -> {"absent", "undo", "running", "finish", "error"}]
      /\ \A m \in MergeReqs : tasks[m] = "absent" => tasks'[m] = "absent"
  BY DEF Crash, Stop, RunInv, MergeTypeOK
<1>4. Idle \in [at : RunPlaces, task : MergeReqs \cup {None}, list : SUBSET Chunks]
  BY DEF Idle, RunPlaces
<1>5. MergeTypeOK'
  BY <1>1, <1>2, <1>3, <1>4 DEF MergesDie, RunInv, MergeTypeOK
<1>6. NotYetInserted' /\ OneTaskPerRun'
  BY <1>2, <1>3 DEF MergesDie, RunInv, NotYetInserted, OneTaskPerRun, Idle
<1> QED
  BY <1>5, <1>6 DEF RunInv

\* Every step keeps the types and the tasks apart.
LEMMA RunInductive == RunInv /\ [MergeNext]_allVars => RunInv'
<1> SUFFICES ASSUME RunInv, [MergeNext]_allVars PROVE RunInv'
  OBVIOUS
<1>1. CASE PartWork /\ UNCHANGED mergeVars
  BY <1>1, PartTypes DEF PartNext, RunInv, MergeTypeOK, mergeVars, NotYetInserted, OneTaskPerRun
<1>2. CASE DownloadRead \/ DownloadFill \/ CacheExpires
  <2>1. PartTypeOK'
    BY <1>2, BesideTypes DEF RunInv, MergeTypeOK, Beside
  <2>2. UNCHANGED <<meta, twin, whole, object, mpc, metaRead, partsRead, tasks, run>>
    BY <1>2 DEF DownloadRead, DownloadFill, CacheExpires
  <2>3. /\ metaCache' \in Meta \cup {None} /\ fill' \in Meta \cup {None}
        /\ partCache' \in (SUBSET Chunks) \cup {None}
    BY <1>2 DEF DownloadRead, DownloadFill, CacheExpires, SetNX, RunInv, MergeTypeOK
  <2> QED
    BY <2>1, <2>2, <2>3 DEF RunInv, MergeTypeOK, NotYetInserted, OneTaskPerRun
<1>3. CASE UNCHANGED allVars
  BY <1>3 DEF allVars, partVars, mergeVars, RunInv, MergeTypeOK, PartTypeOK, NotYetInserted,
              OneTaskPerRun
<1> QED
  BY <1>1, <1>2, <1>3, DieRunInv, MergeStepTypes, MergeFaultTypes, RunStepTypes DEF MergeNext

\* For any number of merge requests and workers.
THEOREM MergeTypeCorrect == MergeSpec => []MergeTypeOK
<1>1. RunInv => MergeTypeOK
  BY DEF RunInv
<1> QED
  BY <1>1, RunInvInit, RunInductive, PTL DEF MergeSpec

-----------------------------------------------------------------------------
\* A system that starts has no request and no part.
LEMMA PartInvInit == MergeInit => PartInv
  BY PartAssumption
  DEF MergeInit, PartInit, PartInv, HoldersLocked, StoredPut, AckedPartStored, Repaired,
      FilesRepaired, ObjectRepaired, Tended, Putting, RowsOf, Contents, Lock!LockInit

\* Every step of an upload keeps the locks of those who have not timed out.
LEMMA LocksKept == PartTypeOK /\ HoldersLocked /\ PartWork => HoldersLocked'
<1> SUFFICES ASSUME PartTypeOK, HoldersLocked, PartWork,
                    expiries' = 0, NEW q \in PartReqs, pc'[q] \in {"locked", "checked"}
             PROVE  lock'[ChunkOf(q)] = q
  BY DEF HoldersLocked
<1> USE PartAssumption DEF PartTypeOK, Goto, bounds
<1>1. ASSUME NEW r \in PartReqs, PartStep(r) PROVE lock'[ChunkOf(q)] = q
  <2>0. expiries = 0
    BY <1>1 DEF PartStep, TakeLock, LockRefused, CheckPart, DropLock, CreateFile,
                WriteFile, VerifyFile, PutPart, PutObject, CreateRow, RowPanics, Fault
  <2>1. CASE TakeLock(r)
    <3>1. CASE q = r
      BY <2>1, <3>1 DEF TakeLock, Lock!Acquire
    <3>2. CASE q # r
      <4>1. lock[ChunkOf(q)] = q
        BY <2>0, <2>1, <3>2 DEF TakeLock, HoldersLocked
      <4>2. ChunkOf(r) # ChunkOf(q)
        BY <2>1, <3>2, <4>1 DEF TakeLock, Lock!Acquire, Lock!Free
      <4> QED
        BY <2>1, <4>1, <4>2 DEF TakeLock, Lock!Acquire
    <3> QED
      BY <3>1, <3>2
  <2>2. CASE DropLock(r)
    <3>1. q # r /\ pc[q] \in {"locked", "checked"}
      BY <2>2 DEF DropLock
    <3>2. lock[ChunkOf(q)] = q
      BY <2>0, <3>1 DEF HoldersLocked
    <3> QED
      BY <2>2, <3>1, <3>2 DEF DropLock, Lock!Release
  <2>3. CASE CheckPart(r)
    BY <2>0, <2>3 DEF CheckPart, HoldersLocked
  <2>4. CASE \/ LockRefused(r) \/ CreateFile(r) \/ WriteFile(r) \/ VerifyFile(r)
             \/ PutPart(r) \/ PutObject(r) \/ CreateRow(r) \/ RowPanics(r)
    <3>1. lock' = lock /\ pc[q] \in {"locked", "checked"}
      BY <2>4 DEF LockRefused, CreateFile, WriteFile, VerifyFile, PutPart, PutObject,
                  CreateRow, RowPanics
    <3> QED
      BY <2>0, <3>1 DEF HoldersLocked
  <2> QED
    BY <1>1, <2>1, <2>2, <2>3, <2>4 DEF PartStep
<1>2. ASSUME NEW r \in PartReqs, Abort(r) PROVE lock'[ChunkOf(q)] = q
  BY <1>2 DEF Abort, HoldersLocked, Fault
<1>3. ASSUME NEW c \in Chunks, LockExpires(c) PROVE lock'[ChunkOf(q)] = q
  BY <1>3 DEF LockExpires
<1> QED
  BY <1>1, <1>2, <1>3 DEF PartWork

\* Rows stay, and an object that was put is replaced by an object.
LEMMA RowsGrow ==
  ASSUME PartTypeOK, StoredPut, PartWork
  PROVE  /\ rows \subseteq rows'
         /\ \A c \in Chunks : partObj[c] # "none" => partObj'[c] # "none"
<1> USE PartAssumption DEF PartTypeOK
<1>1. ASSUME NEW r \in PartReqs, PutObject(r) \/ Abort(r)
      PROVE  rows' = rows /\ \A c \in Chunks : partObj[c] # "none" => partObj'[c] # "none"
  BY <1>1 DEF PutObject, Abort, StoredPut
<1>2. ASSUME NEW r \in PartReqs, CreateRow(r)
      PROVE  rows \subseteq rows' /\ partObj' = partObj
  BY <1>2 DEF CreateRow
<1>3. ASSUME NEW r \in PartReqs,
             \/ TakeLock(r) \/ LockRefused(r) \/ CheckPart(r) \/ DropLock(r)
             \/ CreateFile(r) \/ WriteFile(r) \/ VerifyFile(r) \/ PutPart(r) \/ RowPanics(r)
      PROVE  rows' = rows /\ partObj' = partObj
  BY <1>3 DEF TakeLock, LockRefused, CheckPart, DropLock, CreateFile, WriteFile,
              VerifyFile, PutPart, RowPanics
<1>4. ASSUME NEW c \in Chunks, LockExpires(c) PROVE rows' = rows /\ partObj' = partObj
  BY <1>4 DEF LockExpires
<1> QED
  BY <1>1, <1>2, <1>3, <1>4 DEF PartWork, PartStep

\* Every step of an upload keeps: a row has an object, an answer has a row.
LEMMA AcksKept ==
  PartTypeOK /\ StoredPut /\ AckedPartStored /\ PartWork => StoredPut' /\ AckedPartStored'
<1> SUFFICES ASSUME PartTypeOK, StoredPut, AckedPartStored, PartWork
             PROVE  StoredPut' /\ AckedPartStored'
  OBVIOUS
<1> USE PartAssumption DEF PartTypeOK, Goto, putVars
<1>0. /\ rows \subseteq rows'
      /\ \A c \in Chunks : partObj[c] # "none" => partObj'[c] # "none"
  BY RowsGrow
<1>1. ASSUME \A q \in PartReqs : pc'[q] \in {"putting", "stored", "ok"} => pc'[q] = pc[q],
             \A q \in PartReqs : pc'[q] = "putting" => sending'[q] = sending[q],
             rows' = rows
      PROVE  StoredPut' /\ AckedPartStored'
  BY <1>0, <1>1 DEF StoredPut, AckedPartStored, RowsOf
<1>2. ASSUME NEW r \in PartReqs, PartStep(r) PROVE StoredPut' /\ AckedPartStored'
  <2>1. CASE CheckPart(r)
    <3>1. rows' = rows /\ partObj' = partObj /\ sending' = sending
      BY <2>1 DEF CheckPart
    <3>2. \A q \in PartReqs : pc'[q] = "ok" => pc[q] = "ok" \/ RowsOf(ChunkOf(q)) # {}
      BY <2>1 DEF CheckPart
    <3>3. \A q \in PartReqs : pc'[q] \in {"putting", "stored"} => pc[q] = pc'[q]
      BY <2>1 DEF CheckPart
    <3> QED
      BY <3>1, <3>2, <3>3 DEF StoredPut, AckedPartStored, RowsOf
  <2>2. CASE PutPart(r)
    <3>1. rows' = rows /\ partObj' = partObj
      BY <2>2 DEF PutPart
    <3>2. \A q \in PartReqs :
            pc'[q] = "putting" => sending'[q] # "none"
      BY <2>2 DEF PutPart, StoredPut
    <3>3. \A q \in PartReqs : pc'[q] \in {"ok", "stored"} => pc[q] = pc'[q]
      BY <2>2 DEF PutPart
    <3> QED
      BY <3>1, <3>2, <3>3 DEF StoredPut, AckedPartStored, RowsOf
  <2>3. CASE PutObject(r)
    <3>1. rows' = rows /\ pc[r] = "putting" /\ sending' = [sending EXCEPT ![r] = "none"]
      BY <2>3 DEF PutObject
    <3>2. pc'[r] \in {"stored", "err"} /\ \A q \in PartReqs \ {r} : pc'[q] = pc[q]
      BY <2>3 DEF PutObject
    <3>3. pc'[r] = "stored" => partObj'[ChunkOf(r)] # "none"
      BY <2>3 DEF PutObject, StoredPut
    <3>4. StoredPut'
      BY <1>0, <3>1, <3>2, <3>3 DEF StoredPut
    <3> QED
      BY <1>0, <3>1, <3>2, <3>4 DEF AckedPartStored, RowsOf
  <2>4. CASE CreateRow(r)
    <3>1. /\ partObj' = partObj /\ pc[r] = "stored" /\ rows' = rows \cup {r}
          /\ sending' = sending
      BY <2>4 DEF CreateRow
    <3>2. \A q \in PartReqs : pc'[q] = "ok" => pc[q] = "ok" \/ (q = r /\ r \in rows')
      BY <2>4 DEF CreateRow
    <3>3. \A q \in PartReqs : pc'[q] \in {"putting", "stored"} => pc[q] = pc'[q]
      BY <2>4 DEF CreateRow
    <3> QED
      BY <1>0, <3>1, <3>2, <3>3 DEF StoredPut, AckedPartStored, RowsOf
  <2>5. CASE \/ TakeLock(r) \/ LockRefused(r) \/ DropLock(r) \/ CreateFile(r)
             \/ WriteFile(r) \/ VerifyFile(r) \/ RowPanics(r)
    BY <1>1, <2>5 DEF TakeLock, LockRefused, DropLock, CreateFile, WriteFile, VerifyFile,
                      RowPanics
  <2> QED
    BY <1>2, <2>1, <2>2, <2>3, <2>4, <2>5 DEF PartStep
<1>3. ASSUME NEW r \in PartReqs, Abort(r) PROVE StoredPut' /\ AckedPartStored'
  BY <1>1, <1>3 DEF Abort
<1>4. ASSUME NEW c \in Chunks, LockExpires(c) PROVE StoredPut' /\ AckedPartStored'
  BY <1>1, <1>4 DEF LockExpires
<1> QED
  BY <1>2, <1>3, <1>4 DEF PartWork

-----------------------------------------------------------------------------
\* Every step of an upload keeps: a file cut short will be written again.
LEMMA FilesKept ==
  ASSUME PartTypeOK, FilesRepaired, dir, NEW r \in PartReqs, PartStep(r)
  PROVE  FilesRepaired'
<1> DEFINE Here(c)  == \E q \in PartReqs : ChunkOf(q) = c /\ pc[q] = "open"
           Here1(c) == \E q \in PartReqs : ChunkOf(q) = c /\ pc'[q] = "open"
           Uses     == {"open", "written", "verified", "putting", "stored"}
<1> SUFFICES /\ \A c \in Chunks : file'[c] = "cut" => Here1(c)
             /\ \A q \in PartReqs : pc'[q] \in Uses => file'[ChunkOf(q)] # "none"
  BY DEF FilesRepaired
<1>1. /\ \A c \in Chunks : file[c] = "cut" => Here(c)
      /\ \A q \in PartReqs : pc[q] \in Uses => file[ChunkOf(q)] # "none"
  BY DEF FilesRepaired
<1>2. pc \in [PartReqs -> PartPCs] /\ ChunkOf(r) \in Chunks /\ file \in [Chunks -> Contents]
  BY PartAssumption DEF PartTypeOK
<1>3. CASE CreateFile(r)
  <2>1. file' = [file EXCEPT ![ChunkOf(r)] = "cut"] /\ pc' = [pc EXCEPT ![r] = "open"]
    BY <1>3 DEF CreateFile, Goto
  <2>2. pc'[r] = "open" /\ \A q \in PartReqs \ {r} : pc'[q] = pc[q]
    BY <1>2, <2>1
  <2>3. file'[ChunkOf(r)] = "cut" /\ \A c \in Chunks \ {ChunkOf(r)} : file'[c] = file[c]
    BY <1>2, <2>1
  <2>4. \A c \in Chunks : Here(c) => Here1(c)
    BY <2>2
  <2>5. \A c \in Chunks : file'[c] = "cut" => Here1(c)
    BY <1>1, <2>2, <2>3, <2>4
  <2> QED
    BY <1>1, <2>2, <2>3, <2>5, PartAssumption
<1>4. CASE WriteFile(r)
  <2>1. PICK v \in {"whole", "cut"} :
           /\ file' = [file EXCEPT ![ChunkOf(r)] = v]
           /\ v = "cut" => Open(ChunkOf(r)) # {r}
    BY <1>4 DEF WriteFile
  <2>2. pc[r] = "open" /\ pc'[r] = "written" /\ \A q \in PartReqs \ {r} : pc'[q] = pc[q]
    BY <1>2, <1>4 DEF WriteFile, Goto
  <2>3. file'[ChunkOf(r)] = v /\ \A c \in Chunks \ {ChunkOf(r)} : file'[c] = file[c]
    BY <1>2, <2>1
  <2>4. ASSUME NEW c \in Chunks, file'[c] = "cut" PROVE Here1(c)
    <3>1. CASE c = ChunkOf(r)
      <4>1. r \in Open(c) /\ Open(c) # {r}
        BY <2>1, <2>2, <2>3, <2>4, <3>1 DEF Open
      <4>2. PICK q \in Open(c) : q # r
        BY <4>1
      <4> QED
        BY <2>2, <4>2 DEF Open
    <3>2. CASE c # ChunkOf(r)
      BY <1>1, <2>2, <2>3, <2>4, <3>2
    <3> QED
      BY <3>1, <3>2
  <2>5. \A q \in PartReqs : pc'[q] \in Uses => file'[ChunkOf(q)] # "none"
    BY <1>1, <2>2, <2>3, PartAssumption
  <2> QED
    BY <2>4, <2>5
<1>5. CASE ~CreateFile(r) /\ ~WriteFile(r)
  <2>1. file' = file /\ pc[r] # "open"
    BY <1>5 DEF PartStep, TakeLock, LockRefused, CheckPart, DropLock, VerifyFile, PutPart,
                PutObject, CreateRow, RowPanics
  <2>2. /\ \A q \in PartReqs \ {r} : pc'[q] = pc[q]
        /\ pc'[r] \in Uses => pc[r] \in Uses
    BY <1>2, <1>5 DEF PartStep, TakeLock, LockRefused, CheckPart, DropLock, VerifyFile, PutPart,
                      PutObject, CreateRow, RowPanics, Goto
  <2> QED
    BY <1>1, <2>1, <2>2
<1> QED
  BY <1>3, <1>4, <1>5

\* Whoever was due still is, or the file is as due as it was.
LEMMA DueKept ==
  ASSUME PartTypeOK, FilesRepaired, dir, NEW r \in PartReqs, PartStep(r), ~PutPart(r),
         NEW c \in Chunks, Due(c)
  PROVE  Due(c)'
<1> DEFINE Early == {"open", "written", "verified"}
<1>1. pc \in [PartReqs -> PartPCs] /\ file \in [Chunks -> Contents]
  BY DEF PartTypeOK
<1>2. CASE VerifyFile(r) /\ c = ChunkOf(r) /\ file[c] # "whole"
  <2>1. pc[r] = "written" /\ \A q \in PartReqs \ {r} : pc'[q] = pc[q]
    BY <1>1, <1>2 DEF VerifyFile, Goto
  <2>2. file[c] = "cut"
    BY <1>1, <1>2, <2>1 DEF FilesRepaired, Contents
  <2> QED
    BY <2>1, <2>2 DEF FilesRepaired, Due
<1>3. CASE ~(VerifyFile(r) /\ c = ChunkOf(r) /\ file[c] # "whole")
  <2>1. /\ \A q \in PartReqs \ {r} : pc'[q] = pc[q]
        /\ c = ChunkOf(r) /\ pc[r] \in Early => pc'[r] \in Early
    BY <1>1, <1>3 DEF PartStep, TakeLock, LockRefused, CheckPart, DropLock, CreateFile, WriteFile,
                      VerifyFile, PutObject, CreateRow, RowPanics, Goto
  <2> QED
    BY <2>1 DEF Due
<1> QED
  BY <1>2, <1>3

\* Every step of an upload keeps: an object cut short will be put again.
LEMMA ObjectKept ==
  ASSUME PartTypeOK, StoredPut, FilesRepaired, dir, NEW r \in PartReqs, PartStep(r),
         NEW c \in Chunks \ overlapped', c \notin overlapped => ObjectRepaired(c)
  PROVE  ObjectRepaired(c)'
<1>1. /\ pc \in [PartReqs -> PartPCs] /\ file \in [Chunks -> Contents]
      /\ partObj \in [Chunks -> Contents] /\ sending \in [PartReqs -> Contents]
      /\ ChunkOf(r) \in Chunks
  BY PartAssumption DEF PartTypeOK
<1>2. overlapped \subseteq overlapped'
  BY DEF PartStep, TakeLock, LockRefused, CheckPart, DropLock, CreateFile, WriteFile,
         VerifyFile, PutPart, PutObject, CreateRow, RowPanics, putVars
<1>3. ObjectRepaired(c)
  BY <1>2
<1>4. CASE PutPart(r)
  <2>1. /\ pc[r] = "verified" /\ file[ChunkOf(r)] # "none" /\ partObj' = partObj
        /\ pc' = [pc EXCEPT ![r] = "putting"]
        /\ sending' = [sending EXCEPT ![r] = file[ChunkOf(r)]]
        /\ ChunkOf(r) = c => Putting(c) = {}
    BY <1>4 DEF PutPart, FilesRepaired, Goto
  <2>2. /\ pc'[r] = "putting" /\ \A q \in PartReqs \ {r} : pc'[q] = pc[q]
        /\ sending'[r] = file[ChunkOf(r)] /\ \A q \in PartReqs \ {r} : sending'[q] = sending[q]
    BY <1>1, <2>1
  <2>3. CASE c # ChunkOf(r)
    <3>1. Putting(c)' = Putting(c) /\ \A q \in Putting(c) : sending'[q] = sending[q]
      BY <2>2, <2>3 DEF Putting
    <3>2. Due(c) <=> Due(c)'
      BY <2>2, <2>3 DEF Due
    <3> QED
      BY <1>3, <2>1, <3>1, <3>2 DEF ObjectRepaired
  <2>4. CASE c = ChunkOf(r)
    <3>1. Putting(c)' = {r}
      BY <2>1, <2>2, <2>4 DEF Putting
    <3>2. file[c] = "cut" => Due(c)'
      <4> SUFFICES ASSUME file[c] = "cut" PROVE Due(c)'
        OBVIOUS
      <4>1. PICK q \in PartReqs : ChunkOf(q) = c /\ pc[q] = "open"
        BY DEF FilesRepaired
      <4> QED
        BY <2>1, <2>2, <4>1 DEF Due
    <3>3. file[c] \in {"cut", "whole"}
      BY <1>1, <2>1, <2>4 DEF Contents
    <3> QED
      BY <2>2, <2>4, <3>1, <3>2, <3>3 DEF ObjectRepaired
  <2> QED
    BY <2>3, <2>4
<1>5. CASE PutObject(r)
  <2>1. /\ pc[r] = "putting" /\ pc'[r] # "putting" /\ \A q \in PartReqs \ {r} : pc'[q] = pc[q]
        /\ \A q \in PartReqs \ {r} : sending'[q] = sending[q]
    BY <1>1, <1>5 DEF PutObject, Goto
  <2>2. Due(c) => Due(c)'
    BY <1>5, DueKept DEF PutObject, PutPart
  <2>3. CASE c # ChunkOf(r)
    <3>1. Putting(c)' = Putting(c) /\ \A q \in Putting(c) : sending'[q] = sending[q]
      BY <2>1, <2>3 DEF Putting
    <3>2. partObj'[c] = partObj[c]
      BY <1>1, <1>5, <2>3 DEF PutObject
    <3> QED
      BY <1>3, <2>2, <3>1, <3>2 DEF ObjectRepaired
  <2>4. CASE c = ChunkOf(r)
    <3>1. r \in Putting(c)
      BY <2>1, <2>4 DEF Putting
    <3>2. Putting(c)' = {}
      BY <1>3, <2>1, <3>1 DEF ObjectRepaired, Putting
    <3>3. partObj'[c] = sending[r] \/ sending[r] = "cut"
      BY <1>1, <1>5, <2>4 DEF PutObject
    <3>4. sending[r] = "cut" => Due(c)
      BY <1>3, <3>1 DEF ObjectRepaired
    <3> QED
      BY <2>2, <3>2, <3>3, <3>4 DEF ObjectRepaired
  <2> QED
    BY <2>3, <2>4
<1>6. CASE ~PutPart(r) /\ ~PutObject(r)
  <2>1. /\ partObj' = partObj /\ sending' = sending
        /\ \A q \in PartReqs : pc'[q] = "putting" <=> pc[q] = "putting"
    BY <1>1, <1>6 DEF PartStep, TakeLock, LockRefused, CheckPart, DropLock, CreateFile, WriteFile,
                      VerifyFile, CreateRow, RowPanics, Goto, putVars
  <2>2. Putting(c)' = Putting(c)
    BY <2>1 DEF Putting
  <2>3. Due(c) => Due(c)'
    BY <1>6, DueKept
  <2> QED
    BY <1>3, <2>1, <2>2, <2>3 DEF ObjectRepaired
<1> QED
  BY <1>4, <1>5, <1>6

\* What is not an upload starts no run that nobody tends.
LEMMA TendedKept == ASSUME RunInv, Tended, Beside PROVE Tended'
<1>1. ASSUME NEW w \in Workers, RunStep(w) \/ RunFault(w) \/ RunRemoveSome(w) PROVE Tended'
  BY <1>1, RunsApart
<1>2. ASSUME NEW m \in MergeReqs, MergeStep(m) \/ MergeFault(m) PROVE Tended'
  <2>1. run' = run /\ \A n \in MergeReqs : tasks'[n] = "running" => tasks[n] = "running"
    BY <1>2 DEF MergeStep, MergeCheck, MergeMark, MergeTask, MergeReadMeta, MergeCacheMeta,
                MergeReadParts, MergeCacheParts, MergeFault, RunInv, MergeTypeOK
  <2> QED
    BY <2>1 DEF Tended
<1>3. CASE DownloadRead \/ DownloadFill \/ CacheExpires
  BY <1>3 DEF DownloadRead, DownloadFill, CacheExpires, Tended
<1> QED
  BY <1>1, <1>2, <1>3 DEF Beside

\* Every step keeps the promise of repair.
LEMMA RepairKept ==
  ASSUME RunInv, PartInv, MergeNext
  PROVE  Repaired'
<1> SUFFICES ASSUME dir', faults' = 0, crashes' = 0
             PROVE  FilesRepaired' /\ Tended' /\ \A c \in Chunks \ overlapped' : ObjectRepaired(c)'
  BY DEF Repaired
<1>0. PartTypeOK /\ faults \in Nat /\ crashes \in Nat /\ ~Fault
  BY DEF RunInv, MergeTypeOK, PartTypeOK, Fault
<1>1. CASE PartWork /\ UNCHANGED mergeVars
  <2>1. ASSUME NEW r \in PartReqs, PartStep(r)
        PROVE  FilesRepaired' /\ \A c \in Chunks \ overlapped' : ObjectRepaired(c)'
    <3>1. dir /\ faults = 0 /\ crashes = 0
      BY <1>0, <2>1 DEF PartStep, TakeLock, LockRefused, CheckPart, DropLock, CreateFile, WriteFile,
                  VerifyFile, PutPart, PutObject, CreateRow, RowPanics, bounds
    <3>2. FilesRepaired /\ StoredPut /\ \A c \in Chunks \ overlapped : ObjectRepaired(c)
      BY <3>1 DEF PartInv, Repaired
    <3> QED
      BY <1>0, <2>1, <3>1, <3>2, FilesKept, ObjectKept
  <2>2. ASSUME NEW r \in PartReqs, Abort(r) PROVE FALSE
    BY <1>0, <2>2 DEF Abort
  <2>3. ASSUME NEW c \in Chunks, LockExpires(c)
        PROVE  FilesRepaired' /\ \A d \in Chunks \ overlapped' : ObjectRepaired(d)'
    BY <2>3 DEF LockExpires, putVars, PartInv, Repaired, FilesRepaired, ObjectRepaired, Due, Putting
  <2>4. Tended'
    <3>1. dir /\ faults = 0 /\ crashes = 0
      BY <1>0, <1>1 DEF PartWork, PartStep, TakeLock, LockRefused, CheckPart, DropLock, CreateFile,
                  WriteFile, VerifyFile, PutPart, PutObject, CreateRow, RowPanics, bounds,
                  Abort, LockExpires
    <3> QED
      BY <1>1, <3>1 DEF PartInv, Repaired, Tended, mergeVars
  <2> QED
    BY <1>1, <2>1, <2>2, <2>3, <2>4 DEF PartWork
<1>2. CASE Beside
  <2>1. /\ UNCHANGED <<partObj, pc, sending, overlapped, bounds>>
        /\ UNCHANGED <<dir, file>>
    BY <1>0, <1>2, BesideParts
  <2>2. FilesRepaired /\ Tended /\ \A c \in Chunks \ overlapped : ObjectRepaired(c)
    BY <2>1 DEF PartInv, Repaired, bounds
  <2> QED
    BY <1>2, <2>1, <2>2, TendedKept DEF FilesRepaired, ObjectRepaired, Due, Putting
<1>3. CASE Crash
  <2>1. StreamPanics
    BY <1>0, <1>3 DEF Crash, PartCrash
  <2>2. dir /\ faults = 0 /\ crashes = 0
    BY <2>1 DEF StreamPanics, Die, bounds
  <2> QED
    BY <2>1, <2>2 DEF StreamPanics, PartInv, Repaired, FilesRepaired
<1>4. CASE Stop
  <2>1. dir /\ faults = 0 /\ crashes = 0
    BY <1>4 DEF Stop, Die, bounds
  <2> QED
    BY <1>4, <2>1 DEF Stop, PartInv, Repaired, Tended
<1> QED
  BY <1>1, <1>2, <1>3, <1>4 DEF MergeNext, Beside

-----------------------------------------------------------------------------
\* Every step keeps the invariant of the uploads.
LEMMA PartInductive == RunInv /\ PartInv /\ [MergeNext]_allVars => PartInv'
<1> SUFFICES ASSUME RunInv, PartInv, [MergeNext]_allVars PROVE PartInv'
  OBVIOUS
<1>0. PartTypeOK
  BY DEF RunInv, MergeTypeOK
<1>1. CASE PartWork /\ UNCHANGED mergeVars
  BY <1>0, <1>1, LocksKept, AcksKept, RepairKept DEF PartInv, MergeNext
<1>2. CASE Beside
  <2>1. UNCHANGED <<lock, rows, partObj, pc, sending>> /\ (UNCHANGED bounds \/ Fault)
    BY <1>0, <1>2, BesideParts
  <2>2. UNCHANGED expiries
    BY <2>1 DEF bounds, Fault
  <2>3. HoldersLocked' /\ StoredPut' /\ AckedPartStored'
    BY <2>1, <2>2 DEF PartInv, HoldersLocked, StoredPut, AckedPartStored, RowsOf
  <2> QED
    BY <1>2, <2>3, RepairKept DEF PartInv, Beside, MergeNext
<1>3. CASE Crash \/ Stop
  <2>1. /\ UNCHANGED <<lock, rows, partObj, expiries>>
        /\ pc' = [r \in PartReqs |-> IF pc[r] \in {"start", "ok"} THEN pc[r] ELSE "err"]
    BY <1>3 DEF Crash, PartCrash, StreamPanics, Stop, Die, bounds
  <2>2. HoldersLocked' /\ StoredPut' /\ AckedPartStored'
    BY <2>1 DEF PartInv, HoldersLocked, StoredPut, AckedPartStored, RowsOf
  <2> QED
    BY <1>3, <2>2, RepairKept DEF PartInv, MergeNext
<1>4. CASE UNCHANGED allVars
  BY <1>4 DEF allVars, partVars, mergeVars, PartInv, HoldersLocked, StoredPut, AckedPartStored,
              Repaired, FilesRepaired, ObjectRepaired, Tended, Due, Putting, RowsOf
<1> QED
  BY <1>1, <1>2, <1>3, <1>4 DEF MergeNext, Beside

\* In every behaviour of uploads and merges: a lock is its holder's, who puts has
\* read something, a row has an object, and what is cut short will be repaired as
\* long as nothing fails and the part's puts come one after the other
\* (upload.go:572-741).
THEOREM PartInvariance == MergeSpec => []PartInv
<1>1. RunInv /\ PartInv /\ [MergeNext]_allVars => (RunInv /\ PartInv)'
  BY RunInductive, PartInductive
<1> QED
  BY <1>1, RunInvInit, PartInvInit, PTL DEF MergeSpec

\* For any number of retries, whatever a holder waits for (redislock.go,
\* upload.go:572-591): before the first lock times out nobody shares a part.
THEOREM LockIsExclusive == MergeSpec => []LockExclusive
<1>1. PartInv => LockExclusive
  BY DEF PartInv, HoldersLocked, LockExclusive
<1> QED
  BY <1>1, PartInvariance, PTL

\* For any overlap of uploads, merges, failures and crashes (upload.go:591-741).
THEOREM AcknowledgedIsStored == MergeSpec => []AckedPartStored
<1>1. PartInv => AckedPartStored
  BY DEF PartInv
<1> QED
  BY <1>1, PartInvariance, PTL

\* However many uploads of a part overlap (upload.go:656-720), a put of which reads
\* a file a rival has truncated: as long as no two puts of the part overlap too, the
\* last of them leaves it whole.
THEOREM UploadsRepair == MergeSpec => []SettledPartWhole
<1>1. RunInv /\ PartInv => SettledPartWhole
  <2> SUFFICES ASSUME RunInv, PartInv, NEW c \in Chunks \ overlapped, dir, InFlight(c) = {},
                      faults + crashes = 0, RowsOf(c) # {}
               PROVE  partObj[c] = "whole"
    BY DEF SettledPartWhole, SettledWhole
  <2>1. partObj[c] \in {"cut", "whole"}
    BY DEF PartInv, AckedPartStored, RowsOf, RunInv, MergeTypeOK, PartTypeOK, Contents
  <2>2. faults = 0 /\ crashes = 0
    BY DEF RunInv, MergeTypeOK, PartTypeOK
  <2>3. ObjectRepaired(c)
    BY <2>2 DEF PartInv, Repaired
  <2>4. ~Due(c) /\ Putting(c) = {}
    BY DEF Due, Putting, InFlight
  <2> QED
    BY <2>1, <2>3, <2>4 DEF ObjectRepaired
<1> QED
  BY <1>1, RunInvInit, RunInductive, PartInvariance, PTL DEF MergeSpec

-----------------------------------------------------------------------------
\* Every chunk has a row and an object.
AllStored == \A c \in Chunks : RowsOf(c) # {} /\ partObj[c] # "none"

\* As long as no part has two rows: a request that has counted them has counted one
\* for every chunk, and so has everything that is read of them, or will be.
PartsKnown ==
    PartUnique =>
        /\ \A m \in MergeReqs : mpc[m] \notin {"start", "err"} => AllStored
        /\ InParts(meta) /\ InParts(metaCache) /\ InParts(fill)
        /\ \A m \in MergeReqs : InParts(metaRead[m])
        /\ partCache # None => partCache = Chunks
        /\ \A m \in MergeReqs : partsRead[m] # None => partsRead[m] = Chunks

\* As many rows as chunks, no two of one chunk, are one of each.
LEMMA CountedRows ==
  ASSUME PartTypeOK, AckedPartStored, PartUnique, Cardinality(rows) = NumParts
  PROVE  AllStored /\ PartNumbers = Chunks
<1> DEFINE f == [r \in rows |-> ChunkOf(r)]
<1>1. f \in Injection(rows, Chunks)
  BY PartAssumption DEF PartTypeOK, PartUnique, Injection, IsInjective
<1> HIDE DEF f
<1>2. f \in Surjection(rows, Chunks)
  BY <1>1, FS_Injection, PartAssumption DEF NumParts
<1>3. \A c \in Chunks : \E r \in rows : ChunkOf(r) = c
  BY <1>2 DEF f, Surjection
<1>4. PartNumbers = Chunks
  BY <1>3, NumbersAreChunks DEF PartNumbers
<1>5. AllStored
  BY <1>3 DEF AllStored, RowsOf, AckedPartStored
<1> QED
  BY <1>4, <1>5

\* Rows and part objects stay, in every step.
LEMMA PartsGrow ==
  ASSUME RunInv, PartInv, MergeNext
  PROVE  /\ rows \subseteq rows'
         /\ AllStored => AllStored'
<1>1. PartTypeOK /\ StoredPut
  BY DEF RunInv, MergeTypeOK, PartInv
<1>2. /\ rows \subseteq rows'
      /\ \A c \in Chunks : partObj[c] # "none" => partObj'[c] # "none"
  <2>1. CASE PartWork
    BY <1>1, <2>1, RowsGrow
  <2>2. CASE Beside
    BY <1>1, <2>2, BesideParts
  <2>3. CASE Crash \/ Stop
    BY <2>3 DEF Crash, PartCrash, StreamPanics, Stop, Die
  <2> QED
    BY <2>1, <2>2, <2>3 DEF MergeNext, Beside
<1> QED
  BY <1>2 DEF AllStored, RowsOf

\* What a request, a download or a run writes for others to read was read before,
\* or comes of rows that were counted.
LEMMA KnownKept ==
  ASSUME RunInv, PartInv, PartsKnown, MergeNext
  PROVE  PartsKnown'
<1> SUFFICES ASSUME PartUnique' PROVE
        /\ \A m \in MergeReqs : mpc'[m] \notin {"start", "err"} => AllStored'
        /\ InParts(meta)' /\ InParts(metaCache)' /\ InParts(fill)'
        /\ \A m \in MergeReqs : InParts(metaRead[m])'
        /\ partCache' # None => partCache' = Chunks
        /\ \A m \in MergeReqs : partsRead'[m] # None => partsRead'[m] = Chunks
  BY DEF PartsKnown
<1>1. PartUnique /\ (AllStored => AllStored')
  BY PartsGrow DEF PartUnique
<1>2. /\ \A m \in MergeReqs : mpc[m] \notin {"start", "err"} => AllStored
      /\ InParts(meta) /\ InParts(metaCache) /\ InParts(fill)
      /\ \A m \in MergeReqs : InParts(metaRead[m])
      /\ partCache # None => partCache = Chunks
      /\ \A m \in MergeReqs : partsRead[m] # None => partsRead[m] = Chunks
  BY <1>1 DEF PartsKnown
<1>3. /\ meta \in Meta
      /\ metaRead \in [MergeReqs -> Meta \cup {None}]
      /\ partsRead \in [MergeReqs -> (SUBSET Chunks) \cup {None}]
      /\ mpc \in [MergeReqs -> {"start", "counted", "marked", "tasked", "metaRead",
                                "metaCached", "partsRead", "ok", "err"}]
      /\ PartTypeOK
  BY DEF RunInv, MergeTypeOK
<1>4. /\ InParts(meta) => (meta # None /\ meta.status = "uploaded" /\ meta.multi => AllStored)
      /\ AllStored' => InParts(meta)' /\ InParts(metaCache)' /\ InParts(fill)'
      /\ AllStored' => \A m \in MergeReqs : InParts(metaRead[m])'
  BY DEF InParts, AllStored
<1>5. \A m \in MergeReqs : mpc'[m] \notin {"start", "err"} => AllStored'
  <2>1. ASSUME NEW m \in MergeReqs, MergeCheck(m) PROVE AllStored
    BY <1>1, <1>3, <2>1, CountedRows DEF MergeCheck, PartInv
  <2>2. ASSUME NEW m \in MergeReqs, MergeStep(m) \/ MergeFault(m), ~MergeCheck(m)
        PROVE  mpc[m] \notin {"start", "err"} /\ \A n \in MergeReqs \ {m} : mpc'[n] = mpc[n]
    BY <1>3, <2>2 DEF MergeStep, MergeMark, MergeTask, MergeReadMeta, MergeCacheMeta,
                      MergeReadParts, MergeCacheParts, MergeFault, GotoM
  <2>3. CASE \E m \in MergeReqs : MergeStep(m) \/ MergeFault(m)
    BY <1>1, <1>2, <2>1, <2>2, <2>3
  <2>4. CASE ~\E m \in MergeReqs : MergeStep(m) \/ MergeFault(m)
    <3>1. \A m \in MergeReqs : mpc'[m] \in {mpc[m], "err"}
      BY <2>4 DEF MergeNext, mergeVars, RunStep, RunStart, RunQuery, RunCreate, RunCopy, RunMd5,
                  RunResume, RunPut, RunUpdate, RunDelCache, RunRemove, RunFault, RunRemoveSome,
                  DownloadRead, DownloadFill, CacheExpires, Crash, Stop, MergesDie
    <3> QED
      BY <1>1, <1>2, <3>1
  <2> QED
    BY <2>3, <2>4
<1>6. CASE AllStored
  <2>1. /\ partCache' # None => partCache' = Chunks
        /\ \A m \in MergeReqs : partsRead'[m] # None => partsRead'[m] = Chunks
    <3>1. ASSUME NEW m \in MergeReqs, MergeReadParts(m) PROVE PartNumbers = Chunks
      BY <1>3, <1>6, NumbersAreChunks DEF AllStored, RowsOf, PartNumbers
    <3>2. ASSUME NEW m \in MergeReqs, MergeStep(m)
          PROVE  /\ partCache' # None => partCache' = Chunks
                 /\ \A n \in MergeReqs : partsRead'[n] # None => partsRead'[n] = Chunks
      <4>1. CASE MergeReadParts(m)
        BY <1>2, <1>3, <3>1, <4>1 DEF MergeReadParts
      <4>2. CASE MergeCacheParts(m)
        BY <1>2, <1>3, <4>2 DEF MergeCacheParts, SetNX
      <4>3. CASE ~MergeReadParts(m) /\ ~MergeCacheParts(m)
        BY <1>2, <3>2, <4>3 DEF MergeStep, MergeCheck, MergeMark, MergeTask, MergeReadMeta,
                                MergeCacheMeta
      <4> QED
        BY <4>1, <4>2, <4>3
    <3>3. CASE ~\E m \in MergeReqs : MergeStep(m)
      <4>1. /\ partCache' \in {partCache, None}
            /\ \A n \in MergeReqs : partsRead'[n] \in {partsRead[n], None}
        BY <1>3, <3>3
        DEF MergeNext, mergeVars, RunStep, RunStart, RunQuery, RunCreate, RunCopy, RunMd5,
            RunResume, RunPut, RunUpdate, RunDelCache, RunRemove, RunFault, RunRemoveSome,
            DownloadRead, DownloadFill, CacheExpires, Crash, Stop, MergesDie, MergeFault
      <4> QED
        BY <1>2, <4>1
    <3> QED
      BY <3>2, <3>3
  <2> QED
    BY <1>1, <1>4, <1>5, <1>6, <2>1
<1>7. CASE ~AllStored
  <2>1. ~\E m \in MergeReqs : MergeMark(m) \/ MergeReadParts(m)
    BY <1>2, <1>7 DEF MergeMark, MergeReadParts
  <2>2. InParts(meta)' /\ (InParts(meta) => ~(meta # None /\ meta.status = "uploaded" /\ meta.multi))
    <3>1. meta' = meta \/ meta'.multi = FALSE
      BY <1>3, <2>1
      DEF MergeNext, mergeVars, MergeStep, MergeCheck, MergeTask, MergeReadMeta, MergeCacheMeta,
          MergeCacheParts, MergeFault, RunStep, RunStart, RunQuery, RunCreate, RunCopy, RunMd5,
          RunResume, RunPut, RunUpdate, RunDelCache, RunRemove, RunFault, RunRemoveSome,
          DownloadRead, DownloadFill, CacheExpires, Crash, Stop, MergesDie, Meta
    <3> QED
      BY <1>2, <1>4, <1>7, <3>1 DEF InParts
  <2>3. /\ metaCache' \in {metaCache, fill, None} \cup {metaRead[m] : m \in MergeReqs}
        /\ fill' \in {fill, meta, None}
        /\ \A m \in MergeReqs : metaRead'[m] \in {metaRead[m], meta, None}
        /\ partCache' \in {partCache, None} \cup {partsRead[m] : m \in MergeReqs}
        /\ \A m \in MergeReqs : partsRead'[m] \in {partsRead[m], None}
    <3>1. CASE \E m \in MergeReqs : MergeStep(m) \/ MergeFault(m)
      BY <1>3, <2>1, <3>1
      DEF MergeStep, MergeCheck, MergeTask, MergeReadMeta, MergeCacheMeta, MergeMark,
          MergeReadParts, MergeCacheParts, MergeFault, SetNX
    <3>2. CASE ~\E m \in MergeReqs : MergeStep(m) \/ MergeFault(m)
      BY <1>3, <3>2
      DEF MergeNext, mergeVars, RunStep, RunStart, RunQuery, RunCreate, RunCopy, RunMd5,
          RunResume, RunPut, RunUpdate, RunDelCache, RunRemove, RunFault, RunRemoveSome,
          DownloadRead, DownloadFill, CacheExpires, Crash, Stop, MergesDie, SetNX
    <3> QED
      BY <3>1, <3>2
  <2>4. InParts(metaCache)' /\ InParts(fill)' /\ \A m \in MergeReqs : InParts(metaRead[m])'
    <3> DEFINE Silent(v) == ~(v # None /\ v.status = "uploaded" /\ v.multi)
    <3>1. /\ Silent(meta) /\ Silent(metaCache) /\ Silent(fill)
          /\ \A m \in MergeReqs : Silent(metaRead[m])
      BY <1>2, <1>7 DEF InParts, AllStored
    <3>2. Silent(metaCache') /\ Silent(fill') /\ \A m \in MergeReqs : Silent(metaRead'[m])
      BY <2>3, <3>1
    <3> QED
      BY <3>2 DEF InParts
  <2> QED
    BY <1>2, <1>5, <2>2, <2>3, <2>4
<1> QED
  BY <1>6, <1>7

LEMMA KnownInit == MergeInit => PartsKnown
  BY DEF MergeInit, PartInit, PartsKnown, InParts

LEMMA KnownInductive == RunInv /\ PartInv /\ PartsKnown /\ [MergeNext]_allVars => PartsKnown'
<1>1. ASSUME PartsKnown, UNCHANGED allVars PROVE PartsKnown'
  BY <1>1 DEF allVars, partVars, mergeVars, PartsKnown, PartUnique, AllStored, InParts, RowsOf
<1> QED
  BY <1>1, KnownKept

-----------------------------------------------------------------------------
\* One worker for merges, or a client that asks for the merge once.
OneAtATime == (\A v, w \in Workers : v = w) \/ (\A m, n \in MergeReqs : m = n)

\* What a run that has come so far has checked, put, or taken over.
RunHas(w) ==
    /\ run[w].at \in {"resume", "put"} => whole = "whole"
    /\ run[w].at \in {"update", "delete", "removeLast"} => object = "whole"
    /\ run[w].at \in {"remove", "deleteLast"} => Stored

TwinThere == meta.object = "twin" => twin

\* Everything that is read from the uid's row, or will be, leads to one object.
ReadsLead ==
    /\ OneObject(meta) /\ OneObject(metaCache) /\ OneObject(fill)
    /\ \A m \in MergeReqs : OneObject(metaRead[m])

\* The inductive invariant, of a system that merges one at a time.
KeepInv ==
    /\ ReadsLead /\ TwinThere /\ PartsKeptUntilStored
    /\ \A w \in Workers : RunHas(w)

\* What was stored stays stored.
Grows == (twin => twin') /\ (object = "whole" => object' = "whole")

\* Metadata that leads to the bytes still does when they are stored elsewhere too.
LEMMA GrownLeads ==
  ASSUME Grows
  PROVE  \A v \in Meta \cup {None} : OneObject(v) => OneObject(v)'
  BY DEF Grows, OneObject

\* Of two runs at once one would be of another request, by another worker.
LEMMA Alone ==
  ASSUME RunInv, OneAtATime, NEW w \in Workers, run[w].at # "idle"
  PROVE  \A v \in Workers \ {w} : run[v].at = "idle"
  BY DEF RunInv, OneTaskPerRun, OneAtATime

\* A file of a part that has a row goes only when a run removes the directory.
LEMMA FilesStay ==
  ASSUME RunInv, MergeNext, ~\E w \in Workers : RunRemove(w) \/ RunRemoveSome(w), ~dir' \/
         \E r \in rows' : file'[ChunkOf(r)] = "none"
  PROVE  ~dir \/ \E r \in rows : file[ChunkOf(r)] = "none"
<1>0. PartTypeOK
  BY DEF RunInv, MergeTypeOK
<1>1. CASE PartWork
  <2>1. /\ dir' = dir
        /\ \A c \in Chunks : file'[c] = "none" => file[c] = "none"
    BY <1>0, <1>1, PartAssumption
    DEF PartWork, PartStep, TakeLock, LockRefused, CheckPart, DropLock, CreateFile, WriteFile,
        VerifyFile, PutPart, PutObject, CreateRow, RowPanics, Abort, LockExpires, PartTypeOK
  <2>2. \A r \in rows' \ rows : file'[ChunkOf(r)] # "none"
    BY <1>1
    DEF PartWork, PartStep, TakeLock, LockRefused, CheckPart, DropLock, CreateFile, WriteFile,
        VerifyFile, PutPart, PutObject, CreateRow, RowPanics, Abort, LockExpires
  <2> QED
    BY <1>0, <2>1, <2>2, PartAssumption, PartTypes DEF PartTypeOK
<1>2. CASE ~PartWork
  <2>1. UNCHANGED <<dir, file, rows>>
    BY <1>2
    DEF MergeNext, MergeStep, MergeCheck, MergeMark, MergeTask, MergeReadMeta, MergeCacheMeta,
        MergeReadParts, MergeCacheParts, MergeFault, RunStep, RunStart, RunQuery, RunCreate,
        RunCopy, RunMd5, RunResume, RunPut, RunUpdate, RunDelCache, RunFault, partVars,
        DownloadRead, DownloadFill, CacheExpires, Crash, PartCrash, StreamPanics, Stop, Die
  <2> QED
    BY <2>1
<1> QED
  BY <1>1, <1>2

\* A merge request passes the metadata on as it was read, and marks it in parts.
LEMMA MergeStepKeeps ==
  ASSUME RunInv, KeepInv, NEW m \in MergeReqs, MergeStep(m) \/ MergeFault(m)
  PROVE  KeepInv'
<1>0. UNCHANGED <<run, fill, twin, object, whole>> /\ (UNCHANGED meta \/ MergeMark(m))
  BY DEF MergeStep, MergeCheck, MergeMark, MergeTask, MergeReadMeta, MergeCacheMeta,
         MergeReadParts, MergeCacheParts, MergeFault
<1>1. /\ UNCHANGED <<run, fill, twin, object, whole>> /\ Grows
      /\ UNCHANGED meta \/ MergeMark(m)
  BY <1>0 DEF Grows
<1>2. /\ meta \in Meta /\ metaCache \in Meta \cup {None} /\ fill \in Meta \cup {None}
      /\ metaRead \in [MergeReqs -> Meta \cup {None}]
      /\ tasks \in [MergeReqs -> {"absent", "undo", "running", "finish", "error"}]
  BY DEF RunInv, MergeTypeOK
<1>3. \A v \in Meta \cup {None} : OneObject(v) => OneObject(v)'
  BY <1>1, GrownLeads
<1>4. OneObject(meta)' /\ TwinThere' /\ (Stored => Stored')
  <2>1. CASE UNCHANGED meta
    BY <1>1, <1>2, <1>3, <2>1 DEF KeepInv, ReadsLead, TwinThere, Stored, Grows
  <2>2. CASE MergeMark(m)
    <3>1. meta'.multi = TRUE /\ meta'.object = meta.object
      BY <1>2, <2>2 DEF MergeMark, Meta
    <3> QED
      BY <1>1, <3>1 DEF OneObject, KeepInv, TwinThere, Stored, Grows
  <2> QED
    BY <1>1, <2>1, <2>2
<1>5. OneObject(metaCache)' /\ \A n \in MergeReqs : OneObject(metaRead[n])'
  <2>1. OneObject(None)'
    BY DEF OneObject
  <2>2. metaCache' \in {metaCache, None} \cup {metaRead[n] : n \in MergeReqs}
    BY DEF MergeStep, MergeCheck, MergeMark, MergeTask, MergeReadMeta, MergeCacheMeta,
           MergeReadParts, MergeCacheParts, MergeFault, SetNX
  <2>3. \A n \in MergeReqs : metaRead'[n] \in {metaRead[n], meta, None}
    BY <1>2
    DEF MergeStep, MergeCheck, MergeMark, MergeTask, MergeReadMeta, MergeCacheMeta,
        MergeReadParts, MergeCacheParts, MergeFault
  <2>4. OneObject(metaCache)'
    BY <1>2, <1>3, <2>1, <2>2 DEF KeepInv, ReadsLead
  <2>5. \A n \in MergeReqs : OneObject(metaRead[n])'
    BY <1>2, <1>3, <2>1, <2>3 DEF KeepInv, ReadsLead
  <2> QED
    BY <2>4, <2>5
<1>6. OneObject(fill)'
  BY <1>1, <1>2, <1>3 DEF KeepInv, ReadsLead
<1>7. PartsKeptUntilStored'
  <2>1. \A n \in MergeReqs : tasks'[n] = "finish" => tasks[n] = "finish"
    BY <1>2 DEF MergeStep, MergeCheck, MergeMark, MergeTask, MergeReadMeta, MergeCacheMeta,
           MergeReadParts, MergeCacheParts, MergeFault
  <2>2. UNCHANGED <<dir, file, rows>>
    BY DEF MergeStep, MergeCheck, MergeMark, MergeTask, MergeReadMeta, MergeCacheMeta,
           MergeReadParts, MergeCacheParts, MergeFault, partVars
  <2> QED
    BY <1>4, <2>1, <2>2 DEF KeepInv, PartsKeptUntilStored
<1>8. \A w \in Workers : RunHas(w)'
  BY <1>1, <1>4 DEF KeepInv, RunHas
<1> QED
  BY <1>4, <1>5, <1>6, <1>7, <1>8 DEF KeepInv, ReadsLead

\* A run that resumes names an object that is there.
LEMMA ResumedThere ==
  ASSUME RunInv, KeepInv, NEW w \in Workers, RunResume(w), Resumable # {}
  PROVE  /\ meta'.multi = FALSE /\ OneObject(meta)' /\ TwinThere' /\ Stored'
         /\ twin => twin'
<1>1. meta \in Meta /\ twin \in BOOLEAN /\ object' = object
  BY DEF RunInv, MergeTypeOK, RunResume
<1>2. PICK o \in Resumable : meta' = [meta EXCEPT !.object = o, !.multi = FALSE]
  BY DEF RunResume
<1>3. twin => twin'
  BY <1>1 DEF RunResume
<1>4. \/ o = "twin" /\ twin'
      \/ meta.status = "uploaded" /\ ~meta.multi /\ o = meta.object
  BY DEF Resumable
<1>5. meta'.object = o /\ meta'.multi = FALSE /\ meta'.status = meta.status
  BY <1>1, <1>2 DEF Meta
<1>6. o = "twin" => twin'
  BY <1>3, <1>4 DEF KeepInv, TwinThere
<1>7. o # "twin" => object = "whole"
  <2> SUFFICES ASSUME o # "twin" PROVE object = "whole"
    OBVIOUS
  <2>1. meta.status = "uploaded" /\ ~meta.multi /\ meta.object # "twin"
    BY <1>4
  <2> QED
    BY <1>1, <2>1, MergeAssumption DEF KeepInv, ReadsLead, OneObject
<1> QED
  BY <1>1, <1>3, <1>5, <1>6, <1>7 DEF OneObject, TwinThere, Stored

\* A run, alone with the merged file, gives up only what it has put or taken over.
LEMMA RunStepKeeps ==
  ASSUME RunInv, OneAtATime, KeepInv, NEW w \in Workers, MergeNext,
         RunStep(w) \/ RunFault(w) \/ RunRemoveSome(w)
  PROVE  KeepInv'
<1>1. UNCHANGED <<metaRead, fill>> /\ metaCache' \in {metaCache, None}
  BY DEF RunStep, RunStart, RunQuery, RunCreate, RunCopy, RunMd5, RunResume, RunPut, RunUpdate,
         RunDelCache, RunRemove, RunFault, RunRemoveSome
<1>2. /\ meta \in Meta /\ metaCache \in Meta \cup {None} /\ fill \in Meta \cup {None}
      /\ metaRead \in [MergeReqs -> Meta \cup {None}]
      /\ tasks \in [MergeReqs -> {"absent", "undo", "running", "finish", "error"}]
      /\ run \in [Workers -> [at : RunPlaces, task : MergeReqs \cup {None},
                              list : SUBSET Chunks]]
  BY DEF RunInv, MergeTypeOK
<1>3. RunHas(w) /\ OneObject(meta) /\ TwinThere /\ PartsKeptUntilStored
  BY DEF KeepInv, ReadsLead
<1>4. Grows
  <2>1. CASE RunPut(w)
    <3>1. whole = "whole"
      BY <1>3, <2>1 DEF RunPut, RunHas
    <3>2. UNCHANGED twin /\ (object' = whole \/ UNCHANGED object)
      BY <2>1 DEF RunPut, PutWhole
    <3> QED
      BY <3>1, <3>2 DEF Grows
  <2>2. CASE RunResume(w)
    <3>1. UNCHANGED object /\ twin' \in {twin, TRUE}
      BY <2>2 DEF RunResume
    <3>2. twin => twin'
      BY <3>1
    <3>3. object = "whole" => object' = "whole"
      BY <3>1
    <3> QED
      BY <3>2, <3>3 DEF Grows
  <2>3. CASE ~RunPut(w) /\ ~RunResume(w)
    <3>1. UNCHANGED <<twin, object>>
      BY <2>3 DEF RunStep, RunStart, RunQuery, RunCreate, RunCopy, RunMd5, RunUpdate,
                  RunDelCache, RunRemove, RunFault, RunRemoveSome
    <3> QED
      BY <3>1 DEF Grows
  <2> QED
    BY <2>1, <2>2, <2>3
<1>5. \A v \in Meta \cup {None} : OneObject(v) => OneObject(v)'
  BY <1>4, GrownLeads
<1>6. OneObject(meta)' /\ TwinThere' /\ (Stored => Stored')
  <2>1. CASE RunResume(w) /\ Resumable # {}
    BY <2>1, ResumedThere DEF KeepInv
  <2>2. CASE RunUpdate(w)
    <3>1. object = "whole" /\ meta' = [meta EXCEPT !.multi = FALSE]
      BY <1>3, <2>2 DEF RunUpdate, RunHas
    <3>2. meta'.object = meta.object /\ meta'.multi = FALSE
      BY <1>2, <3>1 DEF Meta
    <3> QED
      BY <1>3, <1>4, <3>1, <3>2 DEF OneObject, TwinThere, Stored, Grows
  <2>3. CASE UNCHANGED meta
    <3>1. OneObject(meta)'
      BY <1>2, <1>3, <1>5, <2>3
    <3> QED
      BY <1>3, <1>4, <2>3, <3>1 DEF TwinThere, Stored, Grows
  <2> QED
    BY <2>1, <2>2, <2>3
    DEF RunStep, RunStart, RunQuery, RunCreate, RunCopy, RunMd5, RunResume, RunPut,
        RunDelCache, RunRemove, RunFault, RunRemoveSome
<1>7. RunHas(w)'
  <2>1. ASSUME NEW outcome, Return(w, outcome) PROVE RunHas(w)'
    BY <1>2, <2>1 DEF Return, RunHas, Idle
  <2>2. CASE \/ \E m \in MergeReqs : RunStart(w, m)
             \/ RunQuery(w) \/ RunCreate(w) \/ RunCopy(w) \/ RunFault(w)
    <3>1. run'[w].at \in {"idle", "query", "create", "copy", "md5"}
      BY <1>2, <2>2 DEF RunStart, RunQuery, RunCreate, RunCopy, RunFault, Return, GotoR, Idle
    <3> QED
      BY <3>1 DEF RunHas
  <2>3. CASE RunMd5(w)
    BY <1>2, <2>1, <2>3 DEF RunMd5, GotoR, RunHas
  <2>4. CASE RunResume(w)
    <3>1. CASE Resumable = {}
      BY <1>2, <1>3, <2>4, <3>1 DEF RunResume, GotoR, RunHas
    <3>2. CASE Resumable # {}
      <4>1. Stored'
        BY <2>4, <3>2, ResumedThere
      <4> QED
        BY <1>2, <2>4, <3>2, <4>1 DEF RunResume, GotoR, RunHas
    <3> QED
      BY <3>1, <3>2
  <2>5. CASE RunPut(w)
    <3>1. whole = "whole"
      BY <1>3, <2>5 DEF RunPut, RunHas
    <3> QED
      BY <1>2, <2>1, <2>5, <3>1 DEF RunPut, PutWhole, GotoR, RunHas
  <2>6. CASE RunUpdate(w)
    BY <1>2, <1>3, <2>6 DEF RunUpdate, GotoR, RunHas
  <2>7. CASE RunDelCache(w)
    BY <1>2, <1>3, <2>1, <2>7 DEF RunDelCache, GotoR, RunHas
  <2>8. CASE RunRemove(w) \/ RunRemoveSome(w)
    <3>1. CASE run[w].at = "remove"
      <4>1. Stored'
        BY <1>3, <1>6, <3>1 DEF RunHas
      <4> QED
        BY <1>2, <2>8, <3>1, <4>1 DEF RunRemove, RunRemoveSome, Removed, GotoR, RunHas
    <3>2. CASE run[w].at = "removeLast"
      BY <2>1, <2>8, <3>2 DEF RunRemove, RunRemoveSome, Removed
    <3> QED
      BY <2>8, <3>1, <3>2 DEF RunRemove, RunRemoveSome
  <2> QED
    BY <2>2, <2>3, <2>4, <2>5, <2>6, <2>7, <2>8 DEF RunStep
<1>8. ASSUME NEW v \in Workers, v # w PROVE RunHas(v)'
  <2>1. run'[v] = run[v]
    BY <1>2, <1>8, RunMoves DEF RunStart, Return
  <2>2. CASE run[w].at # "idle"
    BY <1>8, <2>1, <2>2, Alone DEF RunHas
  <2>3. CASE run[w].at = "idle"
    <3>1. UNCHANGED <<whole, object, meta, twin>>
      BY <2>3, RunMoves DEF RunStart
    <3> QED
      BY <2>1, <3>1 DEF KeepInv, RunHas, Stored
  <2> QED
    BY <2>2, <2>3
<1>9. PartsKeptUntilStored'
  <2>1. CASE RunRemove(w) \/ RunRemoveSome(w)
    <3>1. Stored
      BY <1>3, <2>1 DEF RunRemove, RunRemoveSome, RunHas, Stored
    <3> QED
      BY <1>6, <3>1 DEF PartsKeptUntilStored
  <2>2. CASE RunDelCache(w) /\ run[w].at = "deleteLast"
    <3>1. Stored
      BY <1>3, <2>2 DEF RunHas
    <3> QED
      BY <1>6, <3>1 DEF PartsKeptUntilStored
  <2>3. CASE ~RunRemove(w) /\ ~RunRemoveSome(w) /\ ~(RunDelCache(w) /\ run[w].at = "deleteLast")
    <3>1. UNCHANGED <<dir, file, rows>>
      BY <2>3 DEF RunStep, RunStart, RunQuery, RunCreate, RunCopy, RunMd5, RunResume, RunPut,
                  RunUpdate, RunDelCache, RunFault, partVars
    <3>2. \/ \E m \in MergeReqs : tasks' = [tasks EXCEPT ![m] = "running"]
          \/ UNCHANGED tasks
          \/ tasks' = [tasks EXCEPT ![run[w].task] = "error"]
      BY <2>3 DEF RunStep, RunStart, RunQuery, RunCreate, RunCopy, RunMd5, RunResume, RunPut,
                  RunUpdate, RunDelCache, RunFault, Return
    <3>3. \A n \in MergeReqs : tasks'[n] = "finish" => tasks[n] = "finish"
      BY <1>2, <3>2
    <3> QED
      BY <1>3, <1>6, <3>1, <3>3 DEF PartsKeptUntilStored
  <2> QED
    BY <2>1, <2>2, <2>3
<1>10. ReadsLead'
  <2>0. OneObject(None)'
    BY DEF OneObject
  <2>1. OneObject(metaCache)'
    BY <1>1, <1>2, <1>5, <2>0 DEF KeepInv, ReadsLead
  <2>2. OneObject(fill)'
    BY <1>1, <1>2, <1>5 DEF KeepInv, ReadsLead
  <2>3. \A m \in MergeReqs : OneObject(metaRead[m])'
    BY <1>1, <1>2, <1>5 DEF KeepInv, ReadsLead
  <2> QED
    BY <1>6, <2>1, <2>2, <2>3 DEF ReadsLead
<1> QED
  BY <1>6, <1>7, <1>8, <1>9, <1>10 DEF KeepInv

\* An upload, a download, redis or the end of a process leaves what is stored and
\* who reads it.
LEMMA OthersKeep ==
  ASSUME RunInv, KeepInv, MergeNext,
         \/ PartWork /\ UNCHANGED mergeVars
         \/ DownloadRead \/ DownloadFill \/ CacheExpires \/ Crash \/ Stop
  PROVE  KeepInv'
<1>1. UNCHANGED <<object, whole, meta, twin>>
  BY DEF mergeVars, DownloadRead, DownloadFill, CacheExpires, Crash, Stop, MergesDie
<1>2. \A v \in Meta \cup {None} : OneObject(v) => OneObject(v)'
  BY <1>1 DEF OneObject
<1>3. /\ meta \in Meta /\ metaCache \in Meta \cup {None} /\ fill \in Meta \cup {None}
      /\ metaRead \in [MergeReqs -> Meta \cup {None}]
      /\ tasks \in [MergeReqs -> {"absent", "undo", "running", "finish", "error"}]
  BY DEF RunInv, MergeTypeOK
<1>4. /\ metaCache' \in {metaCache, fill, None} /\ fill' \in {fill, meta, None}
      /\ \A m \in MergeReqs : metaRead'[m] \in {metaRead[m], None}
      /\ \A m \in MergeReqs : tasks'[m] = "finish" => tasks[m] = "finish"
      /\ \A w \in Workers : run'[w] \in {run[w], Idle}
  BY <1>3 DEF mergeVars, DownloadRead, DownloadFill, CacheExpires, Crash, Stop, MergesDie, SetNX
<1>5. OneObject(None)'
  BY DEF OneObject
<1>6. OneObject(meta)' /\ TwinThere'
  BY <1>1, <1>2, <1>3 DEF KeepInv, ReadsLead, TwinThere
<1>7. OneObject(metaCache)' /\ OneObject(fill)'
  BY <1>2, <1>3, <1>4, <1>5 DEF KeepInv, ReadsLead
<1>8. \A m \in MergeReqs : OneObject(metaRead[m])'
  BY <1>2, <1>3, <1>4, <1>5 DEF KeepInv, ReadsLead
<1>9. PartsKeptUntilStored'
  <2>1. \A w \in Workers : (~RunRemove(w) /\ ~RunRemoveSome(w)) \/ UNCHANGED <<dir, file, rows>>
    <3>1. CASE PartWork /\ UNCHANGED mergeVars
      <4> SUFFICES ASSUME NEW w \in Workers, RunRemove(w) \/ RunRemoveSome(w) PROVE FALSE
        OBVIOUS
      <4>1. run[w].at \in {"remove", "removeLast"} /\ run' = run
        BY <3>1 DEF RunRemove, RunRemoveSome, mergeVars
      <4>2. run \in [Workers -> [at : RunPlaces, task : MergeReqs \cup {None},
                                 list : SUBSET Chunks]]
        BY DEF RunInv, MergeTypeOK
      <4> QED
        BY <4>1, <4>2 DEF RunRemove, RunRemoveSome, Removed, GotoR, Return, Idle
    <3>2. CASE ~PartWork
      BY <3>2 DEF DownloadRead, DownloadFill, CacheExpires, partVars, Crash, PartCrash,
                  StreamPanics, Stop, Die
    <3> QED
      BY <3>1, <3>2 DEF DownloadRead, DownloadFill, CacheExpires, partVars, Crash, PartCrash,
                  StreamPanics, Stop, Die
  <2>2. ~dir' \/ (\E r \in rows' : file'[ChunkOf(r)] = "none")
        => ~dir \/ (\E r \in rows : file[ChunkOf(r)] = "none")
    BY <2>1, FilesStay
  <2> QED
    BY <1>1, <1>4, <2>2 DEF KeepInv, PartsKeptUntilStored, Stored
<1>10. \A w \in Workers : RunHas(w)'
  BY <1>1, <1>4 DEF KeepInv, RunHas, Stored, Idle
<1> QED
  BY <1>6, <1>7, <1>8, <1>9, <1>10 DEF KeepInv, ReadsLead

-----------------------------------------------------------------------------
\* The types, the uploads' invariant, what is known of parts that have one row each,
\* and with merges one at a time KeepInv.
MergeInv == RunInv /\ PartInv /\ PartsKnown /\ (OneAtATime => KeepInv)

LEMMA MergeInvInit == MergeInit => MergeInv
<1> SUFFICES ASSUME MergeInit PROVE KeepInv
  BY PartInvInit, RunInvInit, KnownInit DEF MergeInv
<1> QED
  BY DEF MergeInit, PartInit, KeepInv, ReadsLead, TwinThere, PartsKeptUntilStored,
         RunHas, OneObject, Idle

LEMMA MergeInductive == MergeInv /\ [MergeNext]_allVars => MergeInv'
<1> SUFFICES ASSUME MergeInv, [MergeNext]_allVars PROVE MergeInv'
  OBVIOUS
<1>1. RunInv' /\ PartInv' /\ PartsKnown'
  BY RunInductive, PartInductive, KnownInductive DEF MergeInv
<1>2. ASSUME OneAtATime PROVE KeepInv'
  <2>0. RunInv /\ KeepInv
    BY <1>2 DEF MergeInv
  <2>1. CASE UNCHANGED allVars
    BY <2>0, <2>1 DEF allVars, partVars, mergeVars, KeepInv, ReadsLead, TwinThere,
                      PartsKeptUntilStored, RunHas, OneObject, Stored
  <2>2. CASE MergeNext
    BY <1>2, <2>0, <2>2, MergeStepKeeps, RunStepKeeps, OthersKeep DEF MergeNext
  <2> QED
    BY <2>1, <2>2
<1> QED
  BY <1>1, <1>2 DEF MergeInv

LEMMA MergeInvariance == MergeSpec => []MergeInv
  BY MergeInvInit, MergeInductive, PTL DEF MergeSpec

\* With one worker, or a client that asks for the merge once, and for any number of
\* parts, retries, failures and crashes: no download is led to bytes that are not
\* there by metadata from the database, from redis, or on its way to it, nor by rows
\* as long as no part has two (partmerge.go's order of put, update, delete and
\* remove; SetNX fills; upload.go:789).
THEOREM DownloadsComplete ==
  ASSUME OneAtATime
  PROVE  MergeSpec => []ServedComplete
<1>1. MergeInv => ServedComplete
  BY OneAtATime DEF MergeInv, KeepInv, ReadsLead, PartsKnown, ServedComplete
<1> QED
  BY <1>1, MergeInvariance, PTL

\* With any number of workers and of merge requests: metadata that says the uid is
\* in parts, wherever it is read, names parts that all have a row and an object, as
\* long as no part has two rows (upload.go:789-803).
THEOREM PartsServedComplete ==
  MergeSpec => [](PartUnique => InParts(meta) /\ InParts(metaCache) /\ InParts(fill))
<1>1. MergeInv => (PartUnique => InParts(meta) /\ InParts(metaCache) /\ InParts(fill))
  BY DEF MergeInv, PartsKnown
<1> QED
  BY <1>1, MergeInvariance, PTL

\* With merges one at a time, and whatever failed before: the directory or a file of
\* a part goes, and the task ends, only when the object that replaces the parts is
\* stored.
THEOREM PartsOutliveMerge ==
  ASSUME OneAtATime
  PROVE  MergeSpec => []PartsKeptUntilStored
<1>1. MergeInv => PartsKeptUntilStored
  BY OneAtATime DEF MergeInv, KeepInv
<1> QED
  BY <1>1, MergeInvariance, PTL

\* So what two requests on two workers can do to the checked md5 (MCPartMergeTwice)
\* takes both: with either alone a merged uid names an object that has it.
THEOREM OneMergeIntact ==
  ASSUME OneAtATime
  PROVE  MergeSpec => []MergedIntact
<1>1. MergeInv => MergedIntact
  <2> SUFFICES ASSUME MergeInv, meta.status = "uploaded", ~meta.multi PROVE Stored
    BY DEF MergedIntact
  <2>1. OneObject(meta) /\ TwinThere
    BY OneAtATime DEF MergeInv, KeepInv, ReadsLead
  <2>2. meta.object \in {"own", "twin"} /\ meta # None
    BY MergeAssumption DEF MergeInv, RunInv, MergeTypeOK, Meta
  <2> QED
    BY <2>1, <2>2 DEF OneObject, TwinThere, Stored
<1> QED
  BY <1>1, MergeInvariance, PTL
=============================================================================
