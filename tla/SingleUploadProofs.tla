------------------------- MODULE SingleUploadProofs -------------------------
(* Theorems about SingleUpload for any uids, links, requests and bounds.     *)
EXTENDS SingleUpload, TLAPS

\* A row that is not uploaded names its own uid's object.
OwnUntilUploaded == \A u \in Uids : meta[u].status # "uploaded" => meta[u].object = u

\* Whoever takes over has found an uploaded row.
FoundUploaded ==
    \A r \in Reqs : pc[r] = "resume" => from[r] \in Row /\ from[r].status = "uploaded"

\* Whoever publishes has updated the row.
PublishesUploaded ==
    \A r \in Reqs :
        pc[r] \in {"read", "cache", "drop"} /\ UidOf(r) \in Linked
            => meta[UidOf(r)].status = "uploaded"

\* The inductive invariant of the rows and the directories.
RowsInv ==
    SingleTypeOK /\ OwnUntilUploaded /\ FoundUploaded /\ PublishesUploaded
        /\ DirKeptUntilUploaded

-----------------------------------------------------------------------------
LEMMA RowsInit == SingleInit => RowsInv
  BY SingleAssumption, NoneAssumption
  DEF SingleInit, RowsInv, SingleTypeOK, OwnUntilUploaded, FoundUploaded,
      PublishesUploaded, DirKeptUntilUploaded, Row, Contents, Places

\* A row that is uploaded, whatever it is made to name, is a row.
LEMMA Retitled ==
  ASSUME NEW row \in Row, NEW o \in Uids
  PROVE  [row EXCEPT !.status = "uploaded", !.object = o] \in Row
  BY DEF Row

\* A panic changes nothing but the requests it ends.
LEMMA PanicEnds ==
  ASSUME NEW r \in Reqs, SizePanics(r), SingleTypeOK
  PROVE  /\ UNCHANGED <<meta, dir, file, object, cache, from, fill, faults>>
         /\ \A q \in Reqs : /\ pc'[q] \in {pc[q], "err"} /\ read'[q] \in {read[q], None}
                            /\ sending'[q] \in {sending[q], "none"}
         /\ SingleTypeOK'
<1>1. PICK lost : /\ pc' = [q \in Reqs |-> IF q \in lost THEN "err" ELSE pc[q]]
                  /\ read' = [q \in Reqs |-> IF q \in lost THEN None ELSE read[q]]
                  /\ sending' = [q \in Reqs |-> IF q \in lost THEN "none" ELSE sending[q]]
  BY DEF SizePanics
<1>2. UNCHANGED <<meta, dir, file, object, cache, from, fill, faults>>
  BY DEF SizePanics
<1>3. /\ pc' \in [Reqs -> Places] /\ read' \in [Reqs -> Row \cup {None}]
      /\ sending' \in [Reqs -> Contents]
  BY <1>1 DEF SingleTypeOK, Places, Contents
<1> QED
  BY <1>1, <1>2, <1>3 DEF SingleTypeOK

\* Every step keeps the types.
LEMMA TypeKept == RowsInv /\ [SingleNext]_vars => SingleTypeOK'
<1> SUFFICES ASSUME RowsInv, [SingleNext]_vars PROVE SingleTypeOK'
  OBVIOUS
<1> USE SingleAssumption DEF RowsInv, SingleTypeOK, Goto, At, Places
<1>1. ASSUME NEW r \in Reqs, UploadStep(r) PROVE SingleTypeOK'
  <2>0. UidOf(r) \in Uids
    OBVIOUS
  <2>1. CASE Refuse(r)
    BY <2>1 DEF Refuse
  <2>2. CASE QueryResume(r)
    <3>1. \A v \in SameMd5(UidOf(r)) : meta[v] \in Row
      BY DEF SameMd5
    <3> QED
      BY <2>2, <3>1 DEF QueryResume
  <2>3. CASE TakeOver(r)
    <3>1. from[r] \in Row
      BY <2>3 DEF TakeOver, FoundUploaded
    <3>2. PICK o \in Uids : meta' = [meta EXCEPT ![UidOf(r)].status = "uploaded",
                                                 ![UidOf(r)].object = o]
      BY <2>3, <2>0, <3>1 DEF TakeOver, Row
    <3>3. meta[UidOf(r)] \in Row
      BY <2>0
    <3>4. [meta[UidOf(r)] EXCEPT !.status = "uploaded", !.object = o] \in Row
      BY <3>3, Retitled
    <3>5. meta' \in [Uids -> Row]
      BY <2>0, <3>2, <3>4
    <3> QED
      BY <2>3, <3>5 DEF TakeOver
  <2>4. CASE CreateCopy(r)
    <3>1. [status |-> "uploaded", object |-> from[r].object] \in Row
      BY <2>4 DEF CreateCopy, FoundUploaded, Row
    <3> QED
      BY <2>4, <3>1 DEF CreateCopy
  <2>5. CASE CreateFile(r)
    BY <2>5 DEF CreateFile, Contents
  <2>6. CASE WriteFile(r)
    <3>1. file' = file \/ \E v \in Contents : file' = [file EXCEPT ![UidOf(r)] = v]
      BY <2>6 DEF WriteFile, Contents
    <3>2. file' \in [Uids -> Contents]
      BY <3>1
    <3> QED
      BY <2>6, <3>2 DEF WriteFile
  <2>7. CASE VerifyFile(r)
    BY <2>7 DEF VerifyFile
  <2>8. CASE PutFile(r)
    <3>1. sending' \in [Reqs -> Contents]
      BY <2>8, <2>0 DEF PutFile
    <3> QED
      BY <2>8, <3>1 DEF PutFile
  <2>13. CASE PutObject(r)
    <3>1. object' \in [Uids -> Contents] /\ sending' \in [Reqs -> Contents]
      BY <2>13, <2>0 DEF PutObject, Commit, Contents
    <3> QED
      BY <2>13, <3>1 DEF PutObject
  <2>14. CASE SizePanics(r)
    BY <2>14, PanicEnds
  <2>9. CASE UpdateMeta(r)
    <3>1. meta' \in [Uids -> Row]
      BY <2>9, <2>0 DEF UpdateMeta, Row
    <3> QED
      BY <2>9, <3>1 DEF UpdateMeta
  <2>10. CASE ReadBack(r)
    BY <2>10, <2>0 DEF ReadBack
  <2>11. CASE CacheMeta(r)
    BY <2>11, <2>0 DEF CacheMeta, SetNX
  <2>12. CASE DropDir(r)
    <3>1. faults' \in 0..MaxFaults
      BY <2>12 DEF DropDir, Fault
    <3>2. file' \in [Uids -> Contents] /\ dir' \subseteq Linked
      BY <2>12 DEF DropDir, Contents
    <3> QED
      BY <2>12, <3>1, <3>2 DEF DropDir
  <2> QED
    BY <1>1, <2>1, <2>2, <2>3, <2>4, <2>5, <2>6, <2>7, <2>8, <2>9, <2>10, <2>11, <2>12,
       <2>13, <2>14
    DEF UploadStep
<1>2. ASSUME NEW r \in Reqs, Abort(r) PROVE SingleTypeOK'
  <2>1. object' \in [Uids -> Contents] /\ sending' \in [Reqs -> Contents]
    BY <1>2 DEF Abort, Commit, Contents
  <2>2. faults' \in 0..MaxFaults
    BY <1>2 DEF Abort, Fault
  <2> QED
    BY <1>2, <2>1, <2>2 DEF Abort
<1>3. ASSUME NEW u \in Uids,
             DownloadRead(u) \/ DownloadFill(u) \/ FillLost(u) \/ CacheExpires(u)
      PROVE  SingleTypeOK'
  BY <1>3 DEF DownloadRead, DownloadFill, FillLost, CacheExpires, SetNX
<1>4. CASE UNCHANGED vars
  BY <1>4 DEF vars
<1> QED
  BY <1>1, <1>2, <1>3, <1>4 DEF SingleNext

\* A row changes by being uploaded, whatever it is made to name, and never back.
LEMMA UploadedStays ==
  ASSUME RowsInv, [SingleNext]_vars, NEW u \in Uids
  PROVE  /\ meta[u].status = "uploaded" => meta'[u].status = "uploaded"
         /\ meta'[u].status # "uploaded" => meta'[u] = meta[u]
<1> USE SingleAssumption DEF RowsInv, SingleTypeOK, Row
<1>1. CASE meta' = meta
  BY <1>1
<1>2. ASSUME NEW r \in Reqs, TakeOver(r) \/ CreateCopy(r) \/ UpdateMeta(r), meta' # meta
      PROVE  meta'[UidOf(r)].status = "uploaded" /\ \A v \in Uids \ {UidOf(r)} : meta'[v] = meta[v]
  BY <1>2 DEF TakeOver, CreateCopy, UpdateMeta
<1>3. \/ meta' = meta
      \/ \E r \in Reqs : TakeOver(r) \/ CreateCopy(r) \/ UpdateMeta(r)
  BY DEF SingleNext, UploadStep, Refuse, QueryResume, CreateFile, WriteFile,
         VerifyFile, PutFile, PutObject, SizePanics, ReadBack, CacheMeta, DropDir,
         Abort, DownloadRead, DownloadFill, FillLost, CacheExpires, vars
<1> QED
  BY <1>1, <1>2, <1>3

\* Every step keeps the rows and the directories in order.
LEMMA RowsKept == RowsInv /\ [SingleNext]_vars => RowsInv'
<1> SUFFICES ASSUME RowsInv, [SingleNext]_vars PROVE RowsInv'
  OBVIOUS
<1>1. SingleTypeOK'
  BY TypeKept
<1>2. OwnUntilUploaded'
  BY UploadedStays DEF OwnUntilUploaded, RowsInv
<1> USE SingleAssumption DEF RowsInv, SingleTypeOK, Goto, At
<1>3. ASSUME NEW q \in Reqs, pc'[q] = "resume"
      PROVE  from'[q] \in Row /\ from'[q].status = "uploaded"
  <2>1. CASE pc[q] = "resume" /\ from'[q] = from[q]
    BY <2>1 DEF FoundUploaded
  <2>2. ASSUME NEW r \in Reqs, QueryResume(r) PROVE from'[q] \in Row /\ from'[q].status = "uploaded"
    <3>1. CASE q = r
      BY <1>3, <2>2, <3>1 DEF QueryResume, SameMd5
    <3>2. CASE q # r
      BY <1>3, <2>2, <3>2 DEF QueryResume, FoundUploaded
    <3> QED
      BY <3>1, <3>2
  <2>3. (pc[q] = "resume" /\ from'[q] = from[q]) \/ \E r \in Reqs : QueryResume(r)
    <3>1. from' = from \/ \E r \in Reqs : QueryResume(r)
      BY DEF SingleNext, UploadStep, Refuse, TakeOver, CreateCopy, CreateFile, WriteFile,
             VerifyFile, PutFile, PutObject, UpdateMeta, SizePanics, ReadBack,
             CacheMeta, DropDir, Abort, DownloadRead, DownloadFill, FillLost,
             CacheExpires, vars
    <3>2. ASSUME NEW r \in Reqs, UploadStep(r) \/ Abort(r), ~QueryResume(r), pc[q] # "resume"
          PROVE  FALSE
      BY <1>3, <3>2, PanicEnds
      DEF UploadStep, Refuse, TakeOver, CreateCopy, CreateFile, WriteFile, VerifyFile,
          PutFile, PutObject, UpdateMeta, ReadBack, CacheMeta, DropDir, Abort
    <3>3. pc' = pc \/ \E r \in Reqs : UploadStep(r) \/ Abort(r)
      BY DEF SingleNext, DownloadRead, DownloadFill, FillLost, CacheExpires, vars
    <3> QED
      BY <1>3, <3>1, <3>2, <3>3
  <2> QED
    BY <2>1, <2>2, <2>3
<1>4. ASSUME NEW q \in Reqs, pc'[q] \in {"read", "cache", "drop"}, UidOf(q) \in Linked
      PROVE  meta'[UidOf(q)].status = "uploaded"
  <2>0. UidOf(q) \in Uids
    OBVIOUS
  <2>1. CASE pc[q] \in {"read", "cache", "drop"}
    BY <1>4, <2>0, <2>1, UploadedStays DEF PublishesUploaded
  <2>2. CASE TakeOver(q) \/ UpdateMeta(q)
    BY <1>4, <2>0, <2>2 DEF TakeOver, UpdateMeta, Row
  <2>3. pc[q] \in {"read", "cache", "drop"} \/ TakeOver(q) \/ UpdateMeta(q)
    <3>1. CASE pc'[q] = pc[q]
      BY <1>4, <3>1
    <3>2. ASSUME NEW r \in Reqs, UploadStep(r) \/ Abort(r), pc'[q] # pc[q]
          PROVE  pc[q] \in {"read", "cache", "drop"} \/ TakeOver(q) \/ UpdateMeta(q)
      <4>0. ~SizePanics(r)
        BY <1>4, <3>2, PanicEnds
      <4>1. ASSUME r # q PROVE FALSE
        BY <3>2, <4>0, <4>1
        DEF UploadStep, Refuse, QueryResume, TakeOver, CreateCopy, CreateFile, WriteFile,
            VerifyFile, PutFile, PutObject, UpdateMeta, ReadBack, CacheMeta, DropDir,
            Abort
      <4>2. CASE Refuse(r) \/ QueryResume(r) \/ CreateCopy(r) \/ Abort(r)
        BY <1>4, <4>1, <4>2 DEF Refuse, QueryResume, CreateCopy, Abort
      <4>3. CASE CreateFile(r) \/ WriteFile(r) \/ VerifyFile(r) \/ PutFile(r) \/ PutObject(r)
        BY <1>4, <4>1, <4>3 DEF CreateFile, WriteFile, VerifyFile, PutFile, PutObject
      <4>4. CASE ReadBack(r) \/ CacheMeta(r) \/ DropDir(r)
        BY <1>4, <4>1, <4>4 DEF ReadBack, CacheMeta, DropDir
      <4> QED
        BY <3>2, <4>0, <4>1, <4>2, <4>3, <4>4 DEF UploadStep
    <3>3. pc'[q] = pc[q] \/ \E r \in Reqs : UploadStep(r) \/ Abort(r)
      BY DEF SingleNext, DownloadRead, DownloadFill, FillLost, CacheExpires, vars
    <3> QED
      BY <3>1, <3>2, <3>3
  <2> QED
    BY <2>1, <2>2, <2>3
<1>5. ASSUME NEW u \in Linked, u \notin dir' PROVE meta'[u].status = "uploaded"
  <2>1. CASE u \notin dir
    BY <2>1, UploadedStays DEF DirKeptUntilUploaded
  <2>2. CASE u \in dir
    <3>1. PICK r \in Reqs : DropDir(r)
      BY <1>5, <2>2
      DEF SingleNext, UploadStep, Refuse, QueryResume, TakeOver, CreateCopy,
          CreateFile, WriteFile, VerifyFile, PutFile, PutObject, UpdateMeta,
          SizePanics, ReadBack, CacheMeta, Abort, DownloadRead, DownloadFill, FillLost,
          CacheExpires, vars
    <3>2. u = UidOf(r) /\ pc[r] = "drop"
      BY <1>5, <2>2, <3>1 DEF DropDir
    <3> QED
      BY <3>2, UploadedStays DEF PublishesUploaded
  <2> QED
    BY <2>1, <2>2
<1> QED
  BY <1>1, <1>2, <1>3, <1>4, <1>5 DEF FoundUploaded, PublishesUploaded, DirKeptUntilUploaded

\* In every behaviour.
THEOREM RowsInvariance == SingleSpec => []RowsInv
  BY RowsInit, RowsKept, PTL DEF SingleSpec

\* The type invariant of rows, files, caches and requests.
THEOREM SingleTypeCorrect == SingleSpec => []SingleTypeOK
<1>1. RowsInv => SingleTypeOK
  BY DEF RowsInv
<1> QED
  BY <1>1, RowsInvariance, PTL

\* For any number of links, retries and failures, over gRPC and HTTP: no path of
\* UploadSingleHandler removes the directory of a row that is still pending.
THEOREM DirIsKept == SingleSpec => []DirKeptUntilUploaded
<1>1. RowsInv => DirKeptUntilUploaded
  BY DEF RowsInv
<1> QED
  BY <1>1, RowsInvariance, PTL
-----------------------------------------------------------------------------
\* Every uploaded copy of a row leads to an object in C.
CopiesLead(C) == \A v \in UploadedCopies : object[v.object] \in C

\* The same, copy by copy.
Leads(v, C) == v # None /\ v.status = "uploaded" => object[v.object] \in C

LEMMA CopyByCopy ==
  ASSUME NEW C
  PROVE  CopiesLead(C) <=>
            /\ \A u \in Uids : Leads(meta[u], C) /\ Leads(cache[u], C) /\ Leads(fill[u], C)
            /\ \A r \in Reqs : Leads(from[r], C) /\ Leads(read[r], C)
  BY DEF CopiesLead, UploadedCopies, Copies, Leads

\* Whatever kind of object counts, if objects stay of that kind and whoever
\* updates a row has put one, then new copies lead to one as the old did.
LEMMA CopiesKept ==
  ASSUME RowsInv, [SingleNext]_vars, ~HttpTookOver, NEW C, CopiesLead(C),
         \A u \in Uids : object[u] \in C => object'[u] \in C,
         \A r \in Reqs : UpdateMeta(r) /\ meta' # meta => object[UidOf(r)] \in C
  PROVE  CopiesLead(C)'
<1> USE SingleAssumption, NoneAssumption DEF RowsInv, SingleTypeOK, Row
<1> DEFINE Old(v) == v \in Row \cup {None} /\ Leads(v, C)
<1>1. /\ \A u \in Uids : Old(meta[u]) /\ Old(cache[u]) /\ Old(fill[u])
      /\ \A r \in Reqs : Old(from[r]) /\ Old(read[r])
  BY CopyByCopy
<1>2. ASSUME NEW v, Old(v) PROVE Leads(v, C)'
  BY <1>2 DEF Leads
<1>3. \A u \in Uids : Leads(meta[u], C)'
  <2>1. CASE meta' = meta
    BY <1>1, <1>2, <2>1
  <2>2. ASSUME NEW r \in Reqs, UpdateMeta(r), meta' # meta PROVE \A u \in Uids : Leads(meta[u], C)'
    <3>1. meta' = [meta EXCEPT ![UidOf(r)].status = "uploaded"] /\ object' = object
      BY <2>2 DEF UpdateMeta
    <3>2. object[meta[UidOf(r)].object] \in C
      <4>1. CASE meta[UidOf(r)].status = "uploaded"
        <5>1. meta[UidOf(r)] # None /\ Leads(meta[UidOf(r)], C)
          BY <1>1
        <5> QED
          BY <4>1, <5>1 DEF Leads
      <4>2. CASE meta[UidOf(r)].status # "uploaded"
        BY <2>2, <4>2 DEF OwnUntilUploaded
      <4> QED
        BY <4>1, <4>2
    <3>3. \A u \in Uids \ {UidOf(r)} : meta'[u] = meta[u]
      BY <3>1
    <3>4. meta'[UidOf(r)].object = meta[UidOf(r)].object
      BY <3>1
    <3> QED
      BY <1>1, <1>2, <3>1, <3>2, <3>3, <3>4 DEF Leads
  <2>3. ASSUME NEW r \in Reqs, TakeOver(r) \/ CreateCopy(r) PROVE \A u \in Uids : Leads(meta[u], C)'
    <3>1. object' = object /\ from[r] # None /\ object[from[r].object] \in C
      <4>1. object' = object /\ pc[r] = "resume"
        BY <2>3 DEF TakeOver, CreateCopy, At
      <4>2. from[r] \in Row /\ from[r].status = "uploaded"
        BY <4>1 DEF FoundUploaded
      <4> QED
        BY <1>1, <4>1, <4>2 DEF Leads
    <3>2. meta'[UidOf(r)].object = from[r].object
      BY <2>3, <3>1 DEF TakeOver, CreateCopy, HttpTookOver
    <3>3. \A u \in Uids \ {UidOf(r)} : meta'[u] = meta[u]
      BY <2>3 DEF TakeOver, CreateCopy
    <3> QED
      BY <1>1, <1>2, <3>1, <3>2, <3>3 DEF Leads
  <2>4. \/ meta' = meta
        \/ \E r \in Reqs : TakeOver(r) \/ CreateCopy(r) \/ UpdateMeta(r)
    BY DEF SingleNext, UploadStep, Refuse, QueryResume, CreateFile, WriteFile,
           VerifyFile, PutFile, PutObject, SizePanics, ReadBack, CacheMeta, DropDir,
           Abort, DownloadRead, DownloadFill, FillLost, CacheExpires, vars
  <2> QED
    BY <2>1, <2>2, <2>3, <2>4
<1>4. \A u \in Uids : Leads(cache[u], C)' /\ Leads(fill[u], C)'
  <2> SUFFICES ASSUME NEW u \in Uids PROVE Leads(cache[u], C)' /\ Leads(fill[u], C)'
    OBVIOUS
  <2>1. Leads(None, C)'
    BY DEF Leads
  <2>2. \/ cache'[u] \in {cache[u], fill[u], None}
        \/ \E r \in Reqs : cache'[u] = read[r]
    <3>1. CASE cache' = cache
      BY <3>1
    <3>2. ASSUME NEW r \in Reqs, CacheMeta(r) PROVE cache'[u] \in {cache[u], read[r]}
      BY <3>2 DEF CacheMeta, SetNX
    <3>3. ASSUME NEW w \in Uids, DownloadFill(w) \/ CacheExpires(w)
          PROVE  cache'[u] \in {cache[u], fill[u], None}
      BY <3>3 DEF DownloadFill, CacheExpires, SetNX
    <3>4. \/ cache' = cache
          \/ \E r \in Reqs : CacheMeta(r)
          \/ \E w \in Uids : DownloadFill(w) \/ CacheExpires(w)
      BY DEF SingleNext, UploadStep, Refuse, QueryResume, TakeOver, CreateCopy,
             CreateFile, WriteFile, VerifyFile, PutFile, PutObject, UpdateMeta,
             SizePanics, ReadBack, DropDir, Abort, DownloadRead, FillLost, vars
    <3> QED
      BY <3>1, <3>2, <3>3, <3>4
  <2>3. fill'[u] \in {fill[u], meta[u], None}
    <3>1. CASE fill' = fill
      BY <3>1
    <3>2. ASSUME NEW w \in Uids, DownloadRead(w) \/ DownloadFill(w) \/ FillLost(w)
          PROVE  fill'[u] \in {fill[u], meta[u], None}
      BY <3>2 DEF DownloadRead, DownloadFill, FillLost
    <3>3. fill' = fill \/ \E w \in Uids : DownloadRead(w) \/ DownloadFill(w) \/ FillLost(w)
      BY DEF SingleNext, UploadStep, Refuse, QueryResume, TakeOver, CreateCopy,
             CreateFile, WriteFile, VerifyFile, PutFile, PutObject, UpdateMeta,
             SizePanics, ReadBack, CacheMeta, DropDir, Abort, CacheExpires, vars
    <3> QED
      BY <3>1, <3>2, <3>3
  <2> HIDE DEF Old
  <2> QED
    BY <1>1, <1>2, <2>1, <2>2, <2>3 DEF Leads
<1>5. \A q \in Reqs : Leads(from[q], C)' /\ Leads(read[q], C)'
  <2> SUFFICES ASSUME NEW q \in Reqs PROVE Leads(from[q], C)' /\ Leads(read[q], C)'
    OBVIOUS
  <2>1. Leads(None, C)'
    BY DEF Leads
  <2>2. from'[q] = from[q] \/ \E v \in Uids : from'[q] = meta[v]
    BY DEF SingleNext, UploadStep, Refuse, QueryResume, SameMd5, TakeOver, CreateCopy, CreateFile,
           WriteFile, VerifyFile, PutFile, PutObject, UpdateMeta, SizePanics, ReadBack,
           CacheMeta, DropDir, Abort, DownloadRead, DownloadFill, FillLost,
           CacheExpires, vars
  <2>3. \/ read'[q] \in {read[q], None, meta[UidOf(q)]}
        \/ CreateCopy(q) /\ read'[q] = meta'[UidOf(q)]
    <3>1. CASE read' = read
      BY <3>1
    <3>2. ASSUME NEW r \in Reqs, ReadBack(r) \/ CacheMeta(r) \/ SizePanics(r) \/ Abort(r)
          PROVE  read'[q] \in {read[q], None, meta[UidOf(q)]}
      BY <3>2, PanicEnds DEF ReadBack, CacheMeta, Abort
    <3>3. ASSUME NEW r \in Reqs, CreateCopy(r)
          PROVE  read'[q] = read[q] \/ (CreateCopy(q) /\ read'[q] = meta'[UidOf(q)])
      BY <3>3 DEF CreateCopy
    <3>4. \/ read' = read
          \/ \E r \in Reqs : \/ ReadBack(r) \/ CacheMeta(r) \/ SizePanics(r) \/ Abort(r)
                             \/ CreateCopy(r)
      BY DEF SingleNext, UploadStep, Refuse, QueryResume, TakeOver, CreateFile, WriteFile,
             VerifyFile, PutFile, PutObject, UpdateMeta, DropDir, DownloadRead,
             DownloadFill, FillLost, CacheExpires, vars
    <3> QED
      BY <3>1, <3>2, <3>3, <3>4
  <2>4. Leads(meta[UidOf(q)], C)'
    BY <1>3
  <2> HIDE DEF Old
  <2>5. Leads(from[q], C)'
    BY <1>1, <1>2, <2>2 DEF Leads
  <2>6. Leads(read[q], C)'
    BY <1>1, <1>2, <2>1, <2>3, <2>4 DEF Leads
  <2> QED
    BY <2>5, <2>6
<1> QED
  BY <1>3, <1>4, <1>5, CopyByCopy DEF CopiesLead, UploadedCopies, Copies, Leads

-----------------------------------------------------------------------------
\* Who has put an object into the store finds one of kind C there.
StoredPut(C) == \A r \in Reqs : pc[r] = "stored" => object[UidOf(r)] \in C

\* What is on its way into the store is of kind C.
SendingIn(C) == \A r \in Reqs : pc[r] = "putting" => sending[r] \in C

\* A step that leads to "putting" or "stored" is PutFile or PutObject, or leaves
\* the request where it was.
LEMMA ToStored ==
  ASSUME RowsInv, [SingleNext]_vars, NEW q \in Reqs, pc'[q] \in {"putting", "stored"}
  PROVE  \/ pc[q] = pc'[q] /\ sending'[q] = sending[q]
         \/ /\ PutFile(q) /\ pc'[q] = "putting"
            /\ file[UidOf(q)] # "none" /\ sending'[q] = file[UidOf(q)]
         \/ PutObject(q) /\ pc'[q] = "stored" /\ Commit(q)
<1> USE DEF RowsInv, SingleTypeOK, Goto, At
<1>1. ASSUME NEW r \in Reqs, UploadStep(r) \/ Abort(r), r # q
      PROVE  pc[q] = pc'[q] /\ sending'[q] = sending[q]
  <2>1. CASE SizePanics(r)
    <3>1. PICK lost : /\ pc' = [p \in Reqs |-> IF p \in lost THEN "err" ELSE pc[p]]
                      /\ sending' = [p \in Reqs |-> IF p \in lost THEN "none" ELSE sending[p]]
      BY <2>1 DEF SizePanics
    <3> QED
      BY <3>1
  <2>2. CASE Refuse(r) \/ QueryResume(r) \/ TakeOver(r) \/ CreateCopy(r) \/ Abort(r)
    BY <1>1, <2>2 DEF Refuse, QueryResume, TakeOver, CreateCopy, Abort
  <2>3. CASE CreateFile(r) \/ WriteFile(r) \/ VerifyFile(r) \/ PutFile(r) \/ PutObject(r)
    BY <1>1, <2>3 DEF CreateFile, WriteFile, VerifyFile, PutFile, PutObject
  <2>4. CASE UpdateMeta(r) \/ ReadBack(r) \/ CacheMeta(r) \/ DropDir(r)
    BY <1>1, <2>4 DEF UpdateMeta, ReadBack, CacheMeta, DropDir
  <2> QED
    BY <1>1, <2>1, <2>2, <2>3, <2>4 DEF UploadStep
<1>2. CASE PutFile(q)
  BY <1>2 DEF PutFile, Detects
<1>3. CASE PutObject(q)
  BY <1>3 DEF PutObject
<1>4. ASSUME UploadStep(q) \/ Abort(q), ~PutFile(q), ~PutObject(q) PROVE FALSE
  <2>1. CASE SizePanics(q)
    <3>1. pc[q] = "stored" /\ UidOf(q) = UidOf(q) /\ pc[q] \notin Ended
      BY <2>1 DEF SizePanics, Ended
    <3>2. PICK lost \in IF q \in Http THEN {{q}} ELSE InProcessOf(q) :
               pc' = [p \in Reqs |-> IF p \in lost THEN "err" ELSE pc[p]]
      BY <2>1 DEF SizePanics
    <3>3. q \in lost
      BY <3>1, <3>2 DEF InProcessOf
    <3> QED
      BY <3>2, <3>3
  <2>2. CASE Refuse(q) \/ QueryResume(q) \/ TakeOver(q) \/ CreateCopy(q) \/ Abort(q)
    BY <1>4, <2>2 DEF Refuse, QueryResume, TakeOver, CreateCopy, Abort
  <2>3. CASE CreateFile(q) \/ WriteFile(q) \/ VerifyFile(q)
    BY <1>4, <2>3 DEF CreateFile, WriteFile, VerifyFile
  <2>4. CASE UpdateMeta(q) \/ ReadBack(q) \/ CacheMeta(q) \/ DropDir(q)
    BY <1>4, <2>4 DEF UpdateMeta, ReadBack, CacheMeta, DropDir
  <2> QED
    BY <1>4, <2>1, <2>2, <2>3, <2>4 DEF UploadStep
<1>5. UNCHANGED <<pc, sending>> \/ \E r \in Reqs : UploadStep(r) \/ Abort(r)
  BY DEF SingleNext, DownloadRead, DownloadFill, FillLost, CacheExpires, vars
<1> QED
  BY <1>1, <1>2, <1>3, <1>4, <1>5

\* The store changes by a put only, to what was sent.
LEMMA StoreChanges ==
  ASSUME RowsInv, [SingleNext]_vars
  PROVE  object' = object \/ \E r \in Reqs : pc[r] = "putting" /\ Commit(r)
<1>1. ASSUME NEW r \in Reqs, PutObject(r) \/ Abort(r), object' # object
      PROVE  pc[r] = "putting" /\ Commit(r)
  BY <1>1 DEF PutObject, Abort, At
<1>2. object' = object \/ \E r \in Reqs : PutObject(r) \/ Abort(r)
  BY DEF SingleNext, UploadStep, Refuse, QueryResume, TakeOver, CreateCopy, CreateFile,
         WriteFile, VerifyFile, PutFile, UpdateMeta, SizePanics, ReadBack, CacheMeta,
         DropDir, DownloadRead, DownloadFill, FillLost, CacheExpires, vars
<1> QED
  BY <1>1, <1>2

\* If what is sent is of kind C, then so stay the objects that are, and so is
\* what the requests have put.
LEMMA PutKept ==
  ASSUME RowsInv, [SingleNext]_vars, NEW C, SendingIn(C), StoredPut(C)
  PROVE  /\ \A u \in Uids : object[u] \in C => object'[u] \in C
         /\ StoredPut(C)'
<1> USE SingleAssumption DEF RowsInv, SingleTypeOK
<1>1. \A u \in Uids : object[u] \in C => object'[u] \in C
  BY StoreChanges DEF Commit, SendingIn
<1>2. ASSUME NEW q \in Reqs, pc'[q] = "stored" PROVE object'[UidOf(q)] \in C
  <2>1. CASE pc[q] = "stored"
    BY <1>1, <2>1 DEF StoredPut
  <2>2. CASE pc[q] # "stored"
    BY <1>2, <2>2, ToStored DEF PutObject, At, Commit, SendingIn
  <2> QED
    BY <2>1, <2>2
<1> QED
  BY <1>1, <1>2 DEF StoredPut

\* Once an HTTP upload has found an object to take over, that stays so.
LEMMA HttpBefore ==
  ASSUME RowsInv, [SingleNext]_vars
  PROVE  HttpTookOver => HttpTookOver'
<1> USE SingleAssumption, NoneAssumption DEF RowsInv, SingleTypeOK
<1>1. ASSUME NEW q \in Reqs, from[q] # None PROVE from'[q] # None
  <2>1. from'[q] = from[q] \/ \E v \in Uids : from'[q] = meta[v]
    BY DEF SingleNext, UploadStep, Refuse, QueryResume, SameMd5, TakeOver, CreateCopy,
           CreateFile, WriteFile, VerifyFile, PutFile, PutObject, UpdateMeta, SizePanics,
           ReadBack, CacheMeta, DropDir, Abort, DownloadRead, DownloadFill, FillLost,
           CacheExpires, vars
  <2> QED
    BY <1>1, <2>1
<1> QED
  BY <1>1 DEF HttpTookOver

\* The inductive invariant behind NamesObject.
Put == {"cut", "whole"}

NamesInv ==
    RowsInv /\ SendingIn(Put) /\ StoredPut(Put) /\ (~HttpTookOver => CopiesLead(Put))

LEMMA NamesInit == SingleInit => NamesInv
<1> SUFFICES ASSUME SingleInit PROVE NamesInv
  OBVIOUS
<1>1. UploadedCopies = {}
  BY NoneAssumption DEF SingleInit, UploadedCopies, Copies
<1>2. StoredPut(Put) /\ SendingIn(Put)
  BY DEF SingleInit, StoredPut, SendingIn
<1> QED
  BY <1>1, <1>2, RowsInit DEF NamesInv, CopiesLead

LEMMA NamesKept == NamesInv /\ [SingleNext]_vars => NamesInv'
<1> SUFFICES ASSUME NamesInv, [SingleNext]_vars PROVE NamesInv'
  OBVIOUS
<1> USE SingleAssumption DEF NamesInv
<1> DEFINE C == Put
<1>1. \A u \in Uids : file[u] # "none" => file[u] \in Put
  BY DEF RowsInv, SingleTypeOK, Contents, Put
<1>2. SendingIn(Put)'
  BY <1>1, ToStored DEF SendingIn
<1>3. SendingIn(C) /\ StoredPut(C) /\ (~HttpTookOver => CopiesLead(C))
  OBVIOUS
<1> HIDE DEF C
<1>4. (\A u \in Uids : object[u] \in C => object'[u] \in C) /\ StoredPut(C)'
  BY <1>3, PutKept
<1>5. \A r \in Reqs : UpdateMeta(r) /\ meta' # meta => object[UidOf(r)] \in C
  BY <1>3 DEF UpdateMeta, At, StoredPut
<1>6. ~HttpTookOver' => CopiesLead(C)'
  BY <1>3, <1>4, <1>5, CopiesKept, HttpBefore
<1> QED
  BY <1>2, <1>4, <1>6, RowsKept DEF C

\* For any number of uploads, instant uploads, retries, failures and cached
\* copies: uploaded metadata leads to a stored object, as long as no upload over
\* HTTP has taken one over.
THEOREM ObjectIsNamed == SingleSpec => []NamesObject
<1>1. NamesInv => NamesObject
  BY DEF NamesInv, NamesObject, CopiesNameObjects, CopiesLead, Put
<1> QED
  BY NamesInit, NamesKept, <1>1, PTL DEF SingleSpec

-----------------------------------------------------------------------------
\* The inductive invariant behind UsedOnceWhole: what has passed the md5 check
\* stays as it was checked as long as no other request works on the same uid.
VerifiedWhole == \A r \in Reqs : pc[r] = "verified" => file[UidOf(r)] = "whole"

WholeInv ==
    /\ RowsInv
    /\ UsedOnce => VerifiedWhole /\ SendingIn({"whole"}) /\ StoredPut({"whole"})
    /\ UsedOnce /\ ~HttpTookOver => CopiesLead({"whole"})

LEMMA WholeInit == SingleInit => WholeInv
<1> SUFFICES ASSUME SingleInit PROVE WholeInv
  OBVIOUS
<1>1. UploadedCopies = {}
  BY NoneAssumption DEF SingleInit, UploadedCopies, Copies
<1>2. StoredPut({"whole"}) /\ VerifiedWhole /\ SendingIn({"whole"})
  BY DEF SingleInit, StoredPut, VerifiedWhole, SendingIn
<1> QED
  BY <1>1, <1>2, RowsInit DEF WholeInv, CopiesLead

\* No request forgets that it has started: a link used twice stays so.
LEMMA OnceBefore ==
  ASSUME RowsInv, [SingleNext]_vars
  PROVE  UsedOnce' => UsedOnce
<1> USE DEF RowsInv, SingleTypeOK, Goto, At
<1>1. ASSUME NEW q \in Reqs, pc[q] \notin {"start", "refused"}
      PROVE  pc'[q] \notin {"start", "refused"}
  <2>1. ASSUME NEW r \in Reqs, UploadStep(r) \/ Abort(r) PROVE pc'[q] \notin {"start", "refused"}
    <3>1. CASE Refuse(r) \/ QueryResume(r) \/ TakeOver(r) \/ CreateCopy(r) \/ Abort(r)
      BY <1>1, <3>1 DEF Refuse, QueryResume, TakeOver, CreateCopy, Abort
    <3>2. CASE CreateFile(r) \/ WriteFile(r) \/ VerifyFile(r) \/ PutFile(r) \/ PutObject(r)
      BY <1>1, <3>2 DEF CreateFile, WriteFile, VerifyFile, PutFile, PutObject
    <3>3. CASE UpdateMeta(r) \/ SizePanics(r) \/ ReadBack(r) \/ CacheMeta(r) \/ DropDir(r)
      BY <1>1, <3>3, PanicEnds DEF UpdateMeta, ReadBack, CacheMeta, DropDir
    <3> QED
      BY <2>1, <3>1, <3>2, <3>3 DEF UploadStep
  <2>2. pc' = pc \/ \E r \in Reqs : UploadStep(r) \/ Abort(r)
    BY DEF SingleNext, DownloadRead, DownloadFill, FillLost, CacheExpires, vars
  <2> QED
    BY <1>1, <2>1, <2>2
<1> QED
  BY <1>1 DEF UsedOnce

\* A file that passed the check is touched by nobody else.
LEMMA VerifiedStays ==
  ASSUME RowsInv, [SingleNext]_vars, UsedOnce, UsedOnce', VerifiedWhole
  PROVE  VerifiedWhole'
<1> USE SingleAssumption DEF RowsInv, SingleTypeOK, Goto, At
<1> SUFFICES ASSUME NEW q \in Reqs, pc'[q] = "verified" PROVE file'[UidOf(q)] = "whole"
  BY DEF VerifiedWhole
<1>1. pc[q] = "verified" \/ (VerifyFile(q) /\ Md5Fits(UidOf(q)))
  <2>1. CASE pc'[q] = pc[q]
    BY <2>1
  <2>2. ASSUME NEW r \in Reqs, UploadStep(r) \/ Abort(r), pc'[q] # pc[q]
        PROVE  VerifyFile(q) /\ Md5Fits(UidOf(q))
    <3>0. ~SizePanics(r)
      BY <2>2, PanicEnds
    <3>1. r = q
      BY <2>2, <3>0
      DEF UploadStep, Refuse, QueryResume, TakeOver, CreateCopy, CreateFile, WriteFile,
          VerifyFile, PutFile, PutObject, UpdateMeta, ReadBack, CacheMeta, DropDir, Abort
    <3>2. VerifyFile(q)
      BY <2>2, <3>0, <3>1
      DEF UploadStep, Refuse, QueryResume, TakeOver, CreateCopy, CreateFile, WriteFile,
          PutFile, PutObject, UpdateMeta, ReadBack, CacheMeta, DropDir, Abort
    <3> QED
      BY <3>2 DEF VerifyFile
  <2>3. pc'[q] = pc[q] \/ \E r \in Reqs : UploadStep(r) \/ Abort(r)
    BY DEF SingleNext, DownloadRead, DownloadFill, FillLost, CacheExpires, vars
  <2> QED
    BY <2>1, <2>2, <2>3
<1>2. file[UidOf(q)] = "whole" /\ pc[q] \in {"verified", "written"}
  BY <1>1 DEF VerifiedWhole, VerifyFile, Md5Fits
<1>3. ASSUME NEW r \in Reqs, CreateFile(r) \/ WriteFile(r) \/ DropDir(r)
      PROVE  file'[UidOf(q)] = "whole"
  <2>1. pc[r] \in {"local", "open", "drop"}
    BY <1>3 DEF CreateFile, WriteFile, DropDir
  <2>2. UidOf(r) # UidOf(q)
    BY <1>2, <2>1 DEF UsedOnce
  <2>3. file'[UidOf(q)] = file[UidOf(q)]
    BY <1>3, <2>2 DEF CreateFile, WriteFile, DropDir
  <2> QED
    BY <1>2, <2>3
<1>4. file' = file \/ \E r \in Reqs : CreateFile(r) \/ WriteFile(r) \/ DropDir(r)
  BY DEF SingleNext, UploadStep, Refuse, QueryResume, TakeOver, CreateCopy, VerifyFile,
         PutFile, PutObject, UpdateMeta, SizePanics, ReadBack, CacheMeta, Abort,
         DownloadRead, DownloadFill, FillLost, CacheExpires, vars
<1> QED
  BY <1>2, <1>3, <1>4

LEMMA WholeKept == WholeInv /\ [SingleNext]_vars => WholeInv'
<1> SUFFICES ASSUME WholeInv, [SingleNext]_vars, UsedOnce'
             PROVE  /\ VerifiedWhole' /\ SendingIn({"whole"})' /\ StoredPut({"whole"})'
                    /\ ~HttpTookOver' => CopiesLead({"whole"})'
  BY RowsKept DEF WholeInv
<1> USE SingleAssumption
<1>1. /\ RowsInv /\ UsedOnce /\ VerifiedWhole
      /\ SendingIn({"whole"}) /\ StoredPut({"whole"})
      /\ ~HttpTookOver => CopiesLead({"whole"})
  BY OnceBefore DEF WholeInv
<1>2. VerifiedWhole'
  BY <1>1, VerifiedStays
<1>3. SendingIn({"whole"})'
  BY <1>1, ToStored DEF SendingIn, PutFile, At, VerifiedWhole
<1> DEFINE C == {"whole"}
<1>4. SendingIn(C) /\ StoredPut(C) /\ (~HttpTookOver => CopiesLead(C))
  BY <1>1
<1> HIDE DEF C
<1>5. (\A u \in Uids : object[u] \in C => object'[u] \in C) /\ StoredPut(C)'
  BY <1>1, <1>4, PutKept
<1>6. \A r \in Reqs : UpdateMeta(r) /\ meta' # meta => object[UidOf(r)] \in C
  BY <1>4 DEF UpdateMeta, At, StoredPut
<1>7. ~HttpTookOver' => CopiesLead(C)'
  BY <1>1, <1>4, <1>5, <1>6, CopiesKept, HttpBefore
<1> QED
  BY <1>2, <1>3, <1>5, <1>7 DEF C

\* For any number of links, instant uploads, failures and cached copies: as long
\* as no link is used twice and no upload over HTTP takes an object over, uploaded
\* metadata leads to the content whose md5 was checked.  A link used twice may
\* have its file cut between check and put, or a cut read committed last.
THEOREM OnceIsWhole == SingleSpec => []UsedOnceWhole
<1>1. WholeInv => UsedOnceWhole
  BY DEF WholeInv, UsedOnceWhole, NamesWhole, CopiesLead
<1> QED
  BY WholeInit, WholeKept, <1>1, PTL DEF SingleSpec

=============================================================================
