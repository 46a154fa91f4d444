# OSProxy: TLA+ specifications, model checks and proofs

OSProxy is a stateless-looking gRPC and HTTP proxy in front of an object store
(MinIO, COS, OSS, or the local disk). Clients ask for signed links, upload files
whole or in parts to any node of a cluster, and download them. What makes it
stateful is what the nodes share (a MySQL database, a redis, the object store)
and what each node keeps for itself (a directory per uid on its disk,
goroutines, one queue of background tasks). These modules model the parts of it
where the order of steps matters.

## 1. The system

### 1.1 Components, their state, their operations

| component | state | operations | where |
|---|---|---|---|
| task dispatch | `task_info`, `task_log`, one `JobQueue` per node, the producer and the workers of each node | a merge request inserts a task; the producer scans, pre-processes, claims, queues; a worker logs, runs, settles; `StopTask` drains and gives back | `app/pkg/event/dispatch/*.go`, `app/pkg/repo/task*.go` |
| redis lock | a key with the holder's random id and a time to live | `Acquire`, `Release`, expiry | `app/pkg/base/redislock.go` |
| upload in parts | `multi_part_info`, part files on disk, part objects | `UploadMultiPartHandler` | `api/rpc/upload.go:521-734`, `api/http1/upload.go:278-489` |
| merge | `meta_data_info`, the merged file and object, two redis caches | `UploadMergeHandler`, `handlePartMerge` | `api/rpc/upload.go:736-946`, `app/pkg/event/handlers/partmerge.go` |
| check point | none | a query over `meta_data_info` and `multi_part_info` | `api/rpc/checkpoint.go` |
| single and instant upload | `meta_data_info`, the uid's file, its object, `<uid>-meta` in redis | `UploadSingleHandler` (gRPC, HTTP), `ResumeHandler` | `api/rpc/upload.go:37-279`, `api/http1/upload.go:27-276`, `api/rpc/resume.go` |
| links | `meta_data_info`, the uid's directory, `<uid>-<expire>` in redis | `UploadLinkHandler`, `DownloadLinkHandler`, `GenUploadSingle`, `GenDownloadSingle` | `api/rpc/link.go`, `app/pkg/base/storage.go` |
| download streaming | a channel and what fills it: a reader, a ring of ten goroutines, or a relay | `DownloadHandler` (gRPC, HTTP), `GetRange`, `DownloadForward`, `DownloadWebForward` | `api/*/download.go`, `thirdparty/rpcproxy.go` |
| registration and discovery | a redis hash with one heartbeat per node | `HeartBeat`, `Discovery` | `app/pkg/base/registanddiscover.go` |
| forwarding | the directory on one node; a relayed stream and the handler at its end | `Locate`, `ProxyHandler`, `UploadForward`, `UploadWebForward`, `UploadSingleProxyHandler` | `thirdparty/rpcproxy.go`, `api/rpc/proxy.go`, `api/rpc/upload.go:281-519` |
| snowflake ids | worker ids in redis; last time stamp and sequence per process | `InitSnowFlake`, `NextId` | `app/pkg/base/snowflaker.go` |
| bootstrap | the tables, the buckets, the worker ids | plugins in map order, `AutoMigrate`, `InitSnowFlake`, `InitStorage` | `bootstrap/`, `app/pkg/storage/*.go`, `cmd/` |
| life cycle | up, stopping, closed, down | `RunServer`, signals, `Shutdown` | `app/server.go` |
| segment ids | `uid` table, a channel per business id | `NewUid`, `producer`, `reload`: dead code, nothing calls it | `app/pkg/base/dbgenerate.go` |
| the rest | none that matters here | signatures, middleware, configuration, generated code | section 6 |

### 1.2 How they interact

* The **database** and **redis** are the only memory nodes share. No handler
  wraps its database work in a transaction that means anything; every
  statement is a step of its own, and reading a row and acting on it are two.
* The **directory of a uid** lives on the node that made its link. Uploads that
  arrive elsewhere are relayed there, to the node that says it has it; a merge
  task may only be claimed there (`preProcessPartMerge`). Whoever removes it (a
  finished upload, a finished merge, a taken-over md5) ends every later upload
  of the uid.
* The **registry** is how a node finds the others. Who stops does not take his
  entry out; whoever reads deletes what is old.
* **Merge requests** and **merge tasks** meet in `task_info`: the request
  inserts the task and answers; some producer finds it a few seconds later.
* **Caches** are filled with `SET NX` from reads made earlier, by uploads, by
  merges and by downloads, and expire after five minutes. Only the merge
  deletes one.
* **Start and stop**: a process that fails on its way up ends and is started
  again by its supervisor; on a signal the tasks are stopped first, while the
  listeners go on.
* Almost every **error of a background step is dropped**: a failing `UPDATE` of
  the producer reads as zero rows, a failing log insert leaves the id 0, a
  failing read of a download leaves a hole.

### 1.3 What is hard

Claims against lists read earlier; a queue that blocks; cancellation; crashes
between two statements; two workers or two requests on one file; files read
again after their md5 was checked; caches filled with what was true before;
channels sized by one list and filled by another, or shared by ten goroutines;
relays whose client leaves, whose node dies or whose answer is lost; entries
judged by one clock and written by another; processes that start together; ids
from clocks that step back. The full list, each with its line and the properties
that watch it, is under `hazards` in PROJECT.json.

### 1.4 What makes each component correct

* Task dispatch: a task is never run twice at once; who holds it is who the
  table says; an outcome is final and agrees with the log; what a dead node held
  waits for that node's `StopTask`; what may run does run; stopping ends, or
  is stuck in one known way.
* Part upload: success means a stored row and object; overlapping uploads of one
  part end with a whole object, as long as their puts do not overlap too.
* Merge: a download is never led to missing bytes, from the table or from any
  cache, unless a part has two rows or two merges run at once; the parts on disk
  go only when the object stands.
* Check point: it should list the parts that are stored; the code refuses it always
  (section 5).
* Single upload: metadata marked uploaded leads to an object, the whole one when
  the link was not used twice; the only copy on disk outlives every failure.
* Links: what is handed out is backed by row and directory, requests are answered.
* Downloads: bytes come in order from the first of the range and only those are
  missing that could not be read (and one known last byte); the channel is closed
  once; every goroutine that is to end ends, client or no client.
* Registry: a node whose heartbeats are in time is in every answer; a node that
  stays up is in them from some time on, whatever is deleted under its name.
* Forwarding: ok means stored, wherever the client went; what arrives is the file
  in order; the owner is found; a handler is left waiting only by a relay that could
  not read on; a client that tries again succeeds.
* Ids: no two processes share a worker id, no id is handed out twice unless a
  worker id was taken up again with a clock behind it.
* Bootstrap: of processes that start together, each is hindered at most once over
  each table and each bucket, and they come up.

## 2. The modules

| module | models | extends / uses |
|---|---|---|
| `TaskLease` | the promise: one row's life as a lease (abstract) | |
| `TaskDispatch` | producers, queues, workers, `StopTask`, crash, restart, failing calls | refines `TaskLease` |
| `TaskDispatchProofs` | the holders, the log, the refinement | `TaskDispatch` |
| `RedisLock` | the lock | |
| `PartUpload` | uploads of the parts of one uid | instantiates `RedisLock` |
| `PartMerge` | merge requests, merge tasks, caches, check point, composed with part uploads | extends `PartUpload` |
| `PartMergeProofs` | uploads beside merges; counted rows; merges one at a time | `PartMerge` |
| `SingleUpload`, `SingleUploadProofs` | whole uploads, instant uploads, the metadata cache | |
| `Links` | link requests and their goroutines | |
| `Download` | ranges, readers, the ring, relayed downloads, the metadata cache | |
| `LinksDownloadProofs` | what links promise; what downloads send | `Links`, `Download` |
| `Membership` | the promise of the registry (abstract) | |
| `Registry`, `RegistryProofs` | heartbeats, clocks, `Discovery`, life and death of nodes | refines `Membership` |
| `Cluster`, `ClusterProofs` | one file uploaded through any node: `Locate`, relays, retries | extends `Membership` |
| `Snowflake`, `SnowflakeProofs` | worker ids, `NextId`, clocks, restarts | |
| `Bootstrap`, `BootstrapProofs` | processes that start together | |
| `MC*` | small instances for TLC | the module of the name |

Two pairs compose by refinement: `TaskDispatch` implements `TaskLease`, which is
all `PartMerge` assumes of the task system; `Registry` implements `Membership`,
which is all `Cluster` assumes of the registry.

### 2.1 TaskDispatch

State. `task` is `task_info` (status, `node_id`, `task_log_id`); `logs` is
`task_log` in id order, so an id is an index and 0 is "no row"; `dirs` is each
node's `LocalStore`; `proc` is the life of each process with `StopTask`'s
progress; `list` is the rows a producer's round, or `StopTask`'s loop, has read
and not yet visited; `ppc` and `hand` are where the producer is and with which
row; `queue` is `JobQueue`; `wpc`, `wjob`, `wlog` are each worker's place and
locals.

Actions. `Scan` / `Skip` / `Choose` / `Preempt` / `Put` / `ProducerExit` follow
`producer.go:24-63`: the timer, the list of Undo rows, `preProcessPartMerge`, the
conditional `UPDATE`, the blocking send. `Take` / `CreateLog` / `LinkLog` /
`HandlerOk` / `HandlerErr` / `Settle` / `UpdateLog` / `WorkerExit` follow
`consumer.go:29-101`, with one step per statement, because the
`lgDB.Transaction` around the outcome writes through `lgDB` and not through `tx`
and so holds nothing. `Stop` / `Collect` / `Reset` / `StopEnd` follow
`dispatch.go:35-56`. `Crash` and `Restart` lose the process's memory and nothing
else. The conditional updates are the operators `Claimable`, `Settleable`,
`Resettable`: the `WHERE` clauses of `repo/taskinfo.go`. Every call whose error the
code drops has a disjunct in which it fails, for the claim and the outcome with
the update applied or not. `preProcessPartMerge` takes any error of `os.Stat` but
"not there" for a directory that is there (`partmerge.go:43-47`), so `Choose` may
accept a row whose directory has gone, as one of the failures.

`Held(n, t)`: n may still run or settle t, from the producer's hand, the queue
or a worker. `Stranded(t)`: the row says Running and nobody holds it.
`TaskLease` sees a row as absent, waiting, held by a node, stranded or settled;
`ImplementsLease` is the refinement (`phase` from the status and the holders,
`owner` from `node_id`).

### 2.2 RedisLock, PartUpload, PartMerge

`PartUpload`: one uid, requests that each carry a chunk; retries are further
requests with the same chunk. The steps are those of the handler in order:
take the lock, ask for the row, give the lock back, create (and truncate) the
file, copy, check md5, put, insert. An early return keeps the lock, as in the code,
and so does a `Release` that fails. File and object contents are `none`, `cut` or
`whole`: a client sends one content per chunk, so an md5 check passes exactly for
`whole`, and a write that overlaps another's truncation may be either.

A put is two steps. `PutPart` reads the file, whatever a rival has made of it since
the md5 check, and keeps what it read in `sending`; `PutObject` commits that later,
however the file or the object have changed in between, or is refused by the store
when the file shrank while it was read. Puts of one part that are under way together
may commit in the other order than they read: `overlapped` remembers of which parts
that happened. An insert takes the size of the file; when a merge has removed it,
`fileInfo` is nil and the handler panics (`upload.go:717-723`). `net/http` recovers
(`RowPanics`); nothing recovers a gRPC stream (`server.go:43-45`), so
`StreamPanics` is the end of the process and of every request in it.

`PartMerge` adds the merge requests (check, mark, insert the task, two
read-then-`SET NX` pairs) and the handler run by workers. A merge request looks at
the number of rows, the directory and the first part's content type and at nothing
else; it may come whatever became of the uploads, as the test client's does
(`test/httptest.go:192-223`). The task system is reduced to "an Undo task whose
directory exists is run once", which is what `TaskDispatch` proves (`SingleHolder`)
and what its `PreProcess` asks; two tasks of one uid stay possible, as they are in
the code. `Crash` leaves the tasks it interrupts Running, and `Stop`, a later
graceful stop of the same node, gives them back to be run again
(`dispatch.go:53-55`). `RunFault` is any call of the handler that fails,
`RunRemoveSome` a `RemoveAll` that leaves a file and with it the directory, whose
error nobody looks at. `twin` says whether another uid with the same md5 is stored.
`fill` is a download between its read of the metadata and its `SET NX`; copies of
pending metadata are left out there, for they vouch for nothing and in the cache only
keep others out. `CheckPoint` is what `CheckPointHandler` would answer in the state at
hand: it has no effects, so it is an operator and not an action.

One bound, `MaxTroubles`, is on everything that goes wrong: calls that fail, locks
that time out under their holder, processes that die.

### 2.3 SingleUpload

Uids with a link (`Linked`) have a pending row and a directory; instant uploads
create rows of their own. A request looks for an uploaded row with the same md5
and takes its object over, or writes, checks and puts its own. `object[u]` is
what u's own upload stored; a row names an owner, so rows that share an object
are rows with one owner. `Http` is the requests of the HTTP handler, which
differs in `TakeOver`: `HttpTookOver` says that one of them found an object to take
over, which is where the two handlers part (section 5). `dir`, `file`, the contents
and the two steps of a put (`sending`) are as in `PartUpload`, and so is the panic
over a file that is gone (`SizePanics`): it ends an HTTP request, and the whole
process of a gRPC one.

### 2.4 Links

One goroutine per file (`maker`) or uid (`getter`), each with a step per effect:
directory, url, row; send, cache. `at` is where each request is, `room` the free
slots of a download request's channel, `found` the rows its query read, which is
what it caches later. An answer is the set of uids it carries.

### 2.5 Download

A byte is its offset. What is read at once is a block `[from, upto]`, an object's
parts lie between the offsets `offset[0] .. offset[count]`, and `sent` is the blocks
the client got, so what was sent can be compared with the range; `written` is their
length, which net/http compares with the Content-Length promised. Objects and parts
may be empty. The handler's steps are metadata (redis, then the table, then the fill
of redis), range, route, stream. `GetRange` is a function of the header's first and
last byte, as odd as the code's: the last byte is looked at only to see whether there
is one. A first byte behind the last part makes the search for its part read past
the end of the list (`NoPartStarts`); the handler recovers from that panic.

Three things fill the channel: the single reader, `Step` bytes at a time
up to the `end` it takes as exclusive in one place and inclusive in another; the
ring, whose members share `index`, `total`, `turn` and hand a token round; and
the relay, which sends the whole channel's worth before the handler sends any and
has lost the Range header. A read that fails, or meets the end of the object early,
here or at the node asked, sends what it got: nothing, or the bytes before the error
(`miniostorage.go:58-59`), or, from the local disk, a whole buffer with zeros at its
end and no error at all (`localstorage.go:48-54`). `holes` keeps the offsets that
were to be read and were not, those of the zeros among them; with OSS or COS the
failure may end the process (`ReadKills`). The upload of the object goes on beside, so that a download
may meet a pending row and leave it in redis.

### 2.6 Registry, Membership, Cluster

`Registry`: each node writes its entry every `Period`, by its own clock;
`Discovery` reads the hash once, answers what is not older than `Boundary` by the
reader's clock and deletes the rest one by one, by address. Time is kept as ages
(`since` the timer was set, `age` of an entry) that stop counting at the first
value that says nothing new, which keeps the state space finite with time going
on for ever. A heartbeat whose write fails or whose round takes more than
`Period + Slack` puts its node among the `late` of this life.

`Membership` is what others may rely on: a set of `sure` nodes that every answer
contains. A node becomes sure when it has written its first entry in its first
life and stops to be when its listener closes, when it dies, or by a fault.

`Cluster` extends `Membership` by the upload of one file or part. The client goes
to any open node; the handler uploads here if the directory is here (`Local` up to
the put, `LocalDrop` the update and the removal of the directory, a failure between
them being `EnterFails`), or looks the others up, asks them, takes the first yes and
relays frame by frame. `wire` is the relayed stream with `End` and `Cut`, `remote`
the handler at its other end. A relay ends in four ways: with the answer (`Await`);
because the client's stream breaks (`RelayBreaks`); because a read fails with the
client there, of the stream or of the uploaded file (`RelayUnread`, which sets
`broke`); because the connection to the owner breaks (`RelayCut`). The second and the
third return and leave the stream to the owner as it is. `result` is what the client
is told; `excused` records that something went wrong meanwhile that the handlers
cannot help. `left` is relayed streams nobody will ever end.

### 2.7 Snowflake

`workId` and `known` are in redis, `clock` is one per node. `Increment` and
`Remember` are the two commands of `InitSnowFlake`; `Set`'s error is ignored and
a failing `Exists` reads as "not known". `NextId` is `SameTime`, `NewTime`,
`UsedUp` with its loop, or `Behind`, whose error `ResumeHandler` does not look
at. An id is the record of its three fields; that the fields fit their bits is
part of the type invariant, so records differ exactly when ids do. `twice` and
`early` are history: ids handed out again, and worker ids taken up by a process
whose clock is not past that worker id's ids.

### 2.8 Bootstrap

`main` up to `RunServer`, for processes that share database, redis and store. The
plugins are opened in any order (Go's map iteration). `AutoMigrate` goes through the
tables (`database.go:229-234`) and `InitStorage` through the buckets
(`customstorage.go:52-56`) one after another: `at` is whose turn it is, and each is
looked for and, if it is not in `made`, made, by two calls. `Refused` says which of
them the store or the database refuses to make twice; who is refused ends, and `lost`
counts how often, for each process and each table or bucket. A step that fails ends
the process and `Start` begins it again, from the first table on.

## 3. What TLC checks

`P` = all properties hold; `V` = the run shows a violation (section 5). States
are distinct states.

| run | instance | states | checks |
|---|---|---|---|
| `dispatch` P | 2 nodes, 2 workers each, 2 tasks of one uid (one with a handler), queue of 1, one stop, one crash, one failing call; nodes and workers symmetric | 0.54 M | `HolderOwns`, `SingleHolder`, `LogsAgree`; steps: `StrandedFreedByOwner`, `OutcomeFinal`; refinement: `ImplementsLease` |
| `dispatch_live` P | 1 node, 2 workers, 3 tasks, queue of 1, one stop | 29 k | `UndoTaskClaimed`, `HeldTaskSettles`, `StopCompletesOrStuck` |
| `part_merge` P | 3 requests for 2 chunks, 2 merge requests, 1 worker, one trouble: a failure, a lock expiry or a crash | 2.95 M | `LockExclusive`, `AckedPartStored`, `SettledPartWhole`, `ServedComplete`, `PartsKeptUntilStored` |
| `part_merge_twice` V | 1 chunk, 2 merge requests, 2 workers | | `MergedIntact` |
| `single_upload` P | two requests by one link, one by another over HTTP, one instant upload, one md5, one failure | 2.8 M | `NamesObject`, `DirKeptUntilUploaded`, `UsedOnceWhole` |
| `links` P | a request for two links, one for a third, two download link requests (one asking for a uid that never is), one failure | 6 k | `LinksUsable`, `KnownAnswered` |
| `download` P | objects of 0, 1, 3, 4, 5 bytes whole, of 3 parts, of 3 with two empty, and with a part's row missing; no range and four ranges; gRPC and HTTP; stored here, away, nowhere; step 2, ring of 3, 2 downloads, one failure | 0.35 M | `ClosedOnce`, `OrderKept`, `LosesAtMostLast`, `StaleNeedsEarlyReader`, `Drains` |
| `registry` P | 2 nodes whose clocks differ by 1, period 1, boundary 2, 2 lives each, one failure | 0.26 M | `SteadyListed`, `DeletesOldOnly`, `Heard`; refinement: `KeepsPromise` |
| `cluster` P | 2 nodes, a file or a part of 2 frames or of none, two failures, one stop, one client that leaves | 0.28 M | `OkMeansStored`, `RelayedPrefix`, `FoundIfSure`, `LeftUnread`, `UploadDone` |
| `cluster_proxy` V | as `cluster`, with one failure; the counterexample has none, nor a stop or a client that leaves | | `ProxyForwards` |
| `snowflake` P | 2 nodes, worker ids up to 2, sequence numbers 0 and 1, clocks up to 2, put back once, 3 starts, one failure | 0.65 M | `WorkersApart`, `UniqueIds`, `LockFreed` |
| `bootstrap` P | 2 processes, database and redis, 2 tables, 2 buckets of MinIO, worker ids up to 2, one failure, one crash | 0.51 M | `LostOnce`, `ComesUp` |

The type invariants are not among them, because theorems state them (section 4), all
but that of `Bootstrap`, which is a conjunct of the invariant proved there.

**Why the bounds are enough.**

* Dispatch. Two nodes are the least that can race for a claim, two workers the
  least that can run two jobs, a queue of one the least that is full with one job
  while a worker has another and the producer a third (hence three tasks in the
  liveness run). Two tasks of one uid let a finished merge take the directory
  from under a queued one. One crash, one stop and one failing call, in any order,
  include a crash during a stop and a fault before either.
* Parts. Two attempts at a chunk overlap in every way two can, the two steps of
  their puts included; a second chunk makes a count that is right by number and wrong
  by chunk (`MCPartCount.cfg` finds it in the same instance). A lock that expires
  needs one expiry to be shared. There is one worker, because with two the claims
  about the merged object are false (`part_merge_twice`); the theorems of section 4.2
  say what holds for any number.
* Uploads by md5. A rival by the same link, one by another link and one with no
  link are the three ways a row can meet another. That one of them is an HTTP upload
  lets `TakeOver` take the other branch; what the properties say, they say of the
  time before that.
* Download. Sizes stand just before, at and after a multiple of the step, at 1 and
  at 0; of three parts two may be empty. One range begins behind every object. A
  ring of three gives three parts one member each, who then come round to the first.
  The object of two parts that says three is the incomplete one. Two downloads let
  one leave in redis what the other reads.
* Registry. `Period + Slack + Skew = Boundary` is the tightest case the
  assumption allows. Two lives let a reader delete the entry of the first during
  the second.
* Cluster. Two frames tell the frame that was received before the relay from
  those after it. Two failures let a relay fail and the retry fail elsewhere. Which of several nodes answers matters only in that a node
  other than the owner says no.
* Snowflake. Two sequence numbers use up a millisecond; two time stamps and one
  step back let a process start behind its own ids; three starts give one node two
  processes beside another's one. Three numbers are possible and two allowed,
  so one is out of range.
* Bootstrap. Two processes are the least that race; two tables and two buckets are
  the least of which a process may lose one race each, on different starts; a failure
  and a crash give the loser further attempts that fail elsewhere.

`CHECK_DEADLOCK FALSE` is set in all but `cluster`: a system all of whose tasks are
settled, requests answered and bounds used may stop. Where waiting forever would
be a fault, a liveness property says so. In `cluster` a client may always ask
again, so it may never stop.

**Fairness.** Nothing forces a stop, a crash, a request, a failure, an expiry or a
clock that is put back.

* `TaskDispatch`: weak for each producer, worker and `StopTask` (Go runs a
  goroutine that can run), strong for the two exits, which stand in a `select`
  that picks among its ready cases at random and so picks a case that stays ready
  in the end. Handlers are assumed to return.
* `Links`: weak for the steps of each request. `Download`: weak for the handler, the
  reader and each member of the ring. `PartMerge` and `SingleUpload` state no
  liveness: each request is a straight line of calls, that tasks get to be run is
  `TaskDispatch`, and that a uid gets to one object is promised nowhere.
* `Registry`: time goes on; a node that is starting opens its listener; a due
  heartbeat is written, or fails, which the bound on failures ends; a deletion
  that was begun is done.
* `Cluster`: the handlers run; a node that is down or closing is started again and
  writes its entry; a client that failed tries again, which needs strong
  fairness, because a node may be open and closed by turns.
* `Snowflake`: clocks go on, the loop in `NextId` looks again.
* `Bootstrap`: processes run and are started again (`restart: always`,
  `deploy/docker-compose.yaml:48`).

**Mutants.** Each property is paired with a slip of the code it catches (`mutants`
in PROJECT.json): a dropped or weakened `WHERE` clause, an early return that
ends a worker, a put nobody makes, a token handed to everyone, a frame not sent
on, a swapped order. The slips stand beside the definitions they would replace,
named and marked as such, and no specification uses them.

## 4. What TLAPS proves

All theorems hold for every value of the constants the named assumptions allow:
any number of nodes, workers, requests, chunks, uids, any queue length, any number
of stops, crashes and failures.

### 4.1 Task dispatch (from `TaskAssumption`)

* `TypeCorrect`: `Spec => []TypeOK`
* `HolderIsOwner`: `Spec => []HolderOwns`
* `AtMostOneExecution`: `Spec => []SingleHolder`
* `OutcomesAreFinal`: `Spec => OutcomeFinal`
* `StrandedWaitsForOwner`: `Spec => StrandedFreedByOwner`
* `LogsDoAgree`: `Spec => []LogsAgree`
* `DispatchImplementsLease`: `Spec => ImplementsLease`

All follow from `Invariance`: `Spec => []IInv`, with
`IInv == Typed /\ HolderOwns /\ SingleHolder`. Neither of the two interesting
conjuncts is inductive alone. That a claim puts a task in one hand only needs
that nobody held it while it was Undo, which is `HolderOwns`; that settling one
task does not leave another holder with a row that is no longer Running is
`SingleHolder`. `StopTask` may reset all Running rows of its node because
it gets there only when producer and workers have returned: from then on the node
is not `Live`, so nothing it left in its queue is held any more. `Typed` is
`TypeOK` with `JobsHeld`: a producer past its filter has a row in hand and a
worker past its receive has a job. The step is proved in three parts, one case
per action: what the producer does (`ProducerKeeps`), what a worker does
(`WorkerKeeps`), what happens to a whole node (`NodeKeeps`). `OutcomesAreFinal` and
`StrandedWaitsForOwner` rest on `RowChanges`, which says who may write a row: it
is new or waiting, or a holder writes it, or its owner's `StopTask` gives it back.

The log. `LogInv` adds to `IInv` that a log row with an outcome agrees with its
task and is the only such row of it (`RowsAgree`), that a worker about to write
the log writes what it settled and nobody has written yet (`WritersAgree`), that
only one worker per task is at that point (`OneWriter`) and that the row it has
the id of is its own task's (`OwnLog`). Settling makes a writer only from the one
holder of a Running task, which is where `SingleHolder` and `OutcomesAreFinal`
come in. Most steps touch none of this and are dealt with at once (`QuietKeeps`).

The refinement. `Phased` and `Owned` are the lease's variables read off the
system's. A step that leaves each row's status, node and holders alone is
invisible (`Invisible`); a claim is `Lease` whether the producer learns of it or
not (`Claims`); a worker's outcome is `Settle`; every way to lose tasks without
an outcome (a crash, the end of the workers with jobs in the queue, an `UPDATE`
whose error is dropped) is one `Strand` (`Strands`), of all the tasks of the
node that are lost at once; `Reset` is `GiveBack`.

### 4.2 Uploads of parts and merges (from `PartAssumption`, `MergeAssumption`)

For any number of requests, merge requests and workers:

* `MergeTypeCorrect`: `MergeSpec => []MergeTypeOK`
* `LockIsExclusive`: `MergeSpec => []LockExclusive`
* `AcknowledgedIsStored`: `MergeSpec => []AckedPartStored`
* `UploadsRepair`: `MergeSpec => []SettledPartWhole`
* `PartsServedComplete`: `MergeSpec => [](PartUnique => InParts(meta) /\
  InParts(metaCache) /\ InParts(fill))`

and, for merges one at a time (`OneAtATime`: at most one worker, or at most one
merge request),

* `DownloadsComplete`: `OneAtATime => (MergeSpec => []ServedComplete)`
* `PartsOutliveMerge`: `OneAtATime => (MergeSpec => []PartsKeptUntilStored)`
* `OneMergeIntact`: `OneAtATime => (MergeSpec => []MergedIntact)`

The three about locks, rows and parts follow from `PartInvariance`: `MergeSpec =>
[]PartInv`. While no lock has expired, the lock names whoever is past `Acquire`
(`HoldersLocked`); whoever puts has read something and whoever comes to insert a row
has put an object (`StoredPut`); and, the heart of it, `Repaired`: without failures, a
part file that is cut short has a request that is still writing it
(`FilesRepaired`), and an object that is cut short, or about to be committed so, is
followed by another put, of a request that has yet to read the file or has read it
whole (`ObjectRepaired`). The last holds only of parts no two puts of which were
under way at once: with two, the cut one may commit last, and no later request
repairs it. That is what `overlapped` records and what `MCPartSettle.cfg` shows to be
needed. `Repaired` also ends when a merge removes the directory, which is why `dir`
is its hypothesis, and it needs that a Running task of an undisturbed system is in a
worker's hands (`Tended`), or a stop would disturb it. The steps of merges, workers
and downloads leave what the invariant is about, but for the removal (`MergeBeside`).

The merges. `RunInv` says that each run has a task of its own that is running and
that a task comes from a request that got to its insert. `PartsKnown` is about what
is in parts. The merge request compares two numbers, and that is all it does
(`upload.go:789`), so nothing follows from it when a part has two rows
(`MCPartUnique.cfg`, `MCPartCount.cfg`). As long as none has, as many rows as chunks
are one of each (`CountedRows`, by the cardinality of an injection's image), each
with its object, and rows and objects are never taken away; so every copy of the
metadata that says "in parts", in the table, in redis, in a request's hand or a
download's, leads to all of them, and a list of parts that is cached has one for
every chunk. No worker or task comes into it: `PartsServedComplete` needs no
`OneAtATime`.

`KeepInv` is about what is one object: every copy of the metadata that says so leads
to an object that stands (`ReadsLead`). `RunHas` says, place by place, what a run has
checked, put or taken over; it is what a second run in parallel would break, by
truncating the merged file between the first one's check and its put. That is the
run `part_merge_twice` and the reason for `OneAtATime`, which is a limit of the code
and not of the proof. The deployed program has a hundred workers (`constant.go:32`); a
client that asks once is what makes the hypothesis true there.

### 4.3 Single and instant uploads (from `SingleAssumption`, `NoneAssumption`)

* `SingleTypeCorrect`: `SingleSpec => []SingleTypeOK`
* `DirIsKept`: `SingleSpec => []DirKeptUntilUploaded`
* `ObjectIsNamed`: `SingleSpec => []NamesObject`
* `OnceIsWhole`: `SingleSpec => []UsedOnceWhole`

`RowsInvariance` is about rows and directories alone. The other two follow every
copy of a row there is, in the table, in redis, on its way there or in a
request's hand: each step makes copies only of copies (`CopiesKept`), so all
lead to objects in a set of contents `C` if those that are stored do. With `C` the
contents that are there at all this is `NamesObject`; with `C` the whole content
it needs that nobody else truncates the file between md5 check and put, which is
the hypothesis that no link is used twice. Both properties are about the time before an
HTTP upload finds an object to take over (`HttpTookOver`), which breaks them
(section 5); HTTP uploads that put their own objects are within them.

### 4.4 Links (from `LinkAssumption`)

* `LinkTypeCorrect`: `LinkSpec => []LinkTypeOK`
* `LinksStayUsable`: `LinkSpec => []LinksUsable`

`LinkInv` follows a uid from its goroutine to the insert: a row is sent after the
url and the url after the directory (`Sent`), only what a failed request made is
cleaned (`CleansFailed`), a request comes to its insert with everything sent
(`InsertsAll`), and the rows are those of the answered requests, all of them or none
(`RowsOfAnswered`). Two requests share no uid, so the cleaning of one cannot take
the directory of the other. The assumption that the uids are finitely many is there
for the channel's slots, which the code counts.

### 4.5 Downloads (from `DownloadAssumption`)

For objects of any size in any number of parts, any step, any ring:

* `DownloadTypeCorrect`: `Spec => []TypeOK`
* `ChannelClosedOnce`: `Spec => []ClosedOnce`
* `BytesInOrder`: `Spec => []OrderKept`
* `OnlyLastLost`: `Spec => []LosesAtMostLast`
* `StaleIsEarly`: `Spec => []StaleNeedsEarlyReader`

`DownloadInv == Control /\ Progress /\ SentInOrder`. `Control` is the types with what
is true of the control alone (`Orderly`): the stages of handler and reader, when the
channel may be closed, that at most one member of the ring has a token or works
(`Turns`), where the ring's shared counters are (`Placed`), where each reader's range
ends (`Ranged`). From it no send and no close can meet a closed channel. `Progress` is
about the data. `Reaches(s, from, p, lost)` says that the blocks `s` go up from byte
`from` without overlap, end at `p` or before it, and with `lost` cover everything up
to `p`; the invariant says for each kind of reader what `p` is, at every point of
its round. Each reader's step is then one use of the lemma `GoesOn`: a block that
begins at `p` moves `p` to the block's end, and on over what could not be read.
The odd `length` of the single reader's last read shows as `Edge`, and as the one byte
`StepsEndOn` lets it miss (`StepsReachAll`). `Progress` is about answers not yet
broken off; what had been sent by then is `SentInOrder`.

### 4.6 Registry (from `RegistryAssumption`, `NoneAssumption`)

`Period + Slack + Skew <= Boundary` is the assumption: three minutes between
heartbeats, five minutes of validity, so slack and clock differences together
up to two minutes.

* `RegTypeCorrect`: `Spec => []RegTypeOK`
* `SteadyIsListed`: `Spec => []SteadyListed`
* `DeletesAreOld`: `Spec => []DeletesOldOnly`
* `PromiseKept`: `Spec => KeepsPromise`

`RegInv` says that a steady node's entry is no older than its timer (`EntryInv`)
and that what a reader is about to delete is of an earlier life of every node that
is steady or may become so (`DoomInv`); the second is what keeps the first when a
deletion comes late, and the first, with the assumption, is what keeps the second
when a reader reads. For the refinement, a node is sure when it is steady in its
first life; a fault or a late round is `Lapse`, a round in time is a stutter or
`Enlist`.

### 4.7 Cluster (from `ClusterAssumption`)

For any nodes, any number of frames, faults, stops and clients that leave:

* `ClusterTypeCorrect`: `Spec => []TypeOK`
* `OkIsStored`: `Spec => []OkMeansStored`
* `RelayInOrder`: `Spec => []RelayedPrefix`
* `OwnerIsFound`: `Spec => []FoundIfSure`
* `OnlyUnreadIsLeft`: `Spec => LeftUnread`
* `ClusterUsesMembership`: `Spec => MemSpec`

`ClusterInv` has one part per thing that passes through several hands. `OwnerAsked`: as
long as nothing excuses the handlers the owner is sure, so it is in whatever a
discovery found, so it is asked. `OkStored`: an ok, wherever it is on its way, is
of an upload whose object is stored, and the directory goes only then. `Relaying`:
what the owner has written, with what is on the wire, is a run of frames from the
first on, and while the relay works it is exactly what it has taken from the
client. `Orphaned`: a stream nobody relays has a cut last on its wire unless its
relay could not read on, because its client left or by an error of the read alone.
`Early` and `Here`: nothing has come to the owner before a stream was opened, nor
while the upload is done at the client's own node, where the object is stored before
anything else is. The lemmas `SendFrame`, `SendEnd`, `TakeSignal` and `CutStaysLast` say
what a wire's two ends do to that.

`ClusterUsesMembership` and `PromiseKept` fit together: what the cluster sees of its
nodes is what `MemSpec` allows, and the registry keeps what `MemSpec` promises.

### 4.8 Snowflake (from `SnowflakeAssumption`)

* `FieldsFit`: `Spec => []TypeOK`, in particular every issued id's worker id and
  sequence fit their bits
* `WorkersAreApart`: `Spec => []WorkersApart`
* `IdsAreUnique`: `Spec => []UniqueIds`

`SnowInv` adds `Owned`, that a number is one node's whether in redis, in its
process or between `Incr` and `Set`, and none is above the counter; and `Ordered`, that
the ids of a process's worker id are not past its own last one, unless that
worker id was taken up early.

### 4.9 Bootstrap (from `BootstrapAssumption`)

For any number of nodes, tables and buckets:

* `RacesAreLostOnce`: `Spec => []LostOnce`, for each node and each table or bucket, by
  `BootInvariance`: `Spec => []BootInv`.

What a node has lost the race for is there for good (`NeverAgain`, first part), so a
later start finds it; who is about to make a thing has looked for that very thing and
not found it, and so has not lost it before (second part). A node may still lose one
race for each table and each bucket.

### 4.10 Only model-checked

All liveness (`UndoTaskClaimed`, `HeldTaskSettles`, `StopCompletesOrStuck`,
`KnownAnswered`, `Drains`, `Heard`, `UploadDone`, `LockFreed`, `ComesUp`): it rests on
fairness and `ENABLED`, which this prover does not handle. Every invariant and every
action property of the passing runs is a theorem, `ServedComplete` and
`PartsKeptUntilStored` with the hypothesis `OneAtATime`. What the runs with a violation,
and the configurations of section 5, refute is refuted there and has no theorem.
Nothing in the theorems needs induction over data.

## 5. Where code and text disagree

Two are runs of the project:

* **Merged twice** (`part_merge_twice`, `MergedIntact`). A repeated merge request
  gives a second task, whose `os.Create` (`partmerge.go:82`) truncates the file the
  first has checked and not yet put (`partmerge.go:137`).
* **Forwarding the wrong way round** (`cluster_proxy`, `ProxyForwards`). The
  local-directory test of `UploadSingleProxyHandler` (`rpc/upload.go:369`) is
  inverted, against its own comment in the next line: the node that has the directory
  asks the others, the one that has not goes on and fails at `os.Create`. `FoundIfSure`
  is about the other kinds of request.

The others have a configuration that shows them on demand; each ends with a
counterexample to the property named:

* **Stopping may not end** (`MCTaskDispatchStop.cfg`, `StopCompletes`). The
  producer's send at `producer.go:49` hears no cancellation. If the workers leave
  first and the queue is full, `StopTask` waits at `dispatch.go:45` for ever.
  `StopCompletesOrStuck` shows this is the only way.
* **One part, two rows** (`MCPartUnique.cfg`, `PartUnique`). The lock is released
  before the part is stored (`upload.go:591`), so two uploads of a part both insert a
  row.
* **Counted, not complete** (`MCPartCount.cfg`, `CountedIsComplete`). `upload.go:779`
  asks whether the number of parts is the same, and that is all it asks: with two rows
  of one part and none of another the merge request says the uid is uploaded, and
  downloads are served what there is. The task then fails at the md5, and the
  metadata stays.
* **Checked, then read again** (`MCPartSettle.cfg`, `VerifiedIsStored`).
  `upload.go:697` checks the md5 of a file that `upload.go:709` reads again. A put that
  read it while a rival had it truncated (`upload.go:656`) may be committed after the
  rival's own put: the part is acknowledged, has its row, and its object is cut short,
  with no failure anywhere. `SettledPartWhole` shows that it takes two puts at once.
* **Resuming** (`MCPartResume.cfg`, `ResumeListsParts`). `README.md:409` promises it
  and `checkpoint.go:30` says the query is for data in parts and not yet uploaded; no
  handler writes that combination (`link.go` makes rows that are not in parts, the merge
  sets both fields at once), so a check point is always refused and the client sends
  everything again.
* **Instant upload over HTTP** (`MCSingleUploadHttp.cfg`, `CopiesNameObjects`).
  `http1/upload.go:90` does not copy bucket, name and address of the object it
  takes over, unlike `rpc/upload.go:90`.
* **Unknown uids block** (`MCLinksUnknown.cfg`, `DownAnswered`). `link.go:165`
  makes as many channel slots as rows found and starts as many senders as uids
  asked.
* **The last byte** (`MCDownloadWhole.cfg`, `WholeObject`). The reader stops at
  `start >= end` (`rpc/download.go:195`) though `end` is the last byte: when the
  steps fall on it, it is never read. `LosesAtMostLast` shows that nothing else is
  lost but what could not be read.
* **A relayed stream that never ends** (`MCClusterLeft.cfg`, `NoneLeft`). When the
  client's stream breaks, when reading it fails for another reason (a frame over the
  message limit, `rpcproxy.go:66-73`), or when reading the uploaded file does
  (`rpcproxy.go:133-135`), the relay returns and leaves the stream to the owner open;
  its context is the background's, so the owner's handler waits for ever. `LeftUnread`
  shows that these leave one and nothing else does: not the death of the relay's node,
  a broken connection or a failure at the owner.
* **uid 0** (`MCSnowflakeZero.cfg`, `UniqueUids`). `resume.go:81` drops the error
  of `NextId`, which returns 0 while the clock is behind.

Seen while reading, and not the subject of a run: the two writes of an outcome
are not in the transaction opened for them (`consumer.go:66`); a second upload by
one link can truncate the file after its md5 check (`rpc/upload.go:242`, the
reason `UsedOnceWhole` has its hypothesis); a download that caches a pending
row keeps it cached past the upload (`rpc/upload.go:271`, the case
`StaleNeedsEarlyReader` leaves open); a merge that ends while a part is being stored
takes its file, and over gRPC the panic that follows ends the process
(`upload.go:717-723`, `StreamPanics`); nine members of a
download's ring wait for ever for a token (`rpc/download.go:287`); a relayed
HTTP download has lost its `Range` header (`rpcproxy.go:205`); an entry of the
registry is deleted by address after it was judged by time
(`registanddiscover.go:127`).

## 6. What is not modelled

* **Segment ids** (`dbgenerate.go`): nothing calls `NewUid` and nothing fills its
  table; there is no behaviour of the program to model.
* **Signatures and names**: pure functions of strings. **Middleware and
  transport, health check and greeter**: no state of their own. **Configuration,
  logging, generated code, test clients**: no logic of the service.
* **The services themselves**: database, redis and object stores are modelled by
  the calls made to them, each of which may fail, and each atomic but for the puts,
  which read and commit apart. Content is whole, cut or missing. `LocalStorage` puts by
  rewriting the object in place (`localstorage.go:56-83`); a reader who meets it half
  written is not modelled.
* **The connection pool.** The transaction around an outcome holds one connection while
  its statements take another (`consumer.go:66-68`). A hundred workers
  (`constant.go:32`) on a pool of a hundred (`max_open_conns`) that all settle at once
  would wait for each other; `Settle` takes the database to have a connection.
* **Nodes are named by distinct addresses.** The code asks a web page for its own
  address (`network.go:42`); two nodes behind one address would share a worker id
  and each other's tasks, and no model has that case.

What single modules leave out:

* `PartMerge` is model-checked with one worker, where its claims hold; what two do is
  `part_merge_twice`, and what holds for any number is in section 4.2. A task that is
  run without its directory, after a stat that failed (`TaskDispatch` has that), ends
  in error at `os.Create` and is left out there.
* `Cluster` has one request at a time (two at once are in `SingleUpload` and
  `PartUpload`), keeps the owner's directory over restarts, has nodes other than
  the owner say no, leaves the lock of a part to `PartUpload`, and has no network
  partition: a call reaches its node or fails as one of the bounded failures. No
  timeout ends a relayed stream, because the code sets none.
* `Download` has one request at a time; handlers share nothing but the metadata in
  redis. The headers of the answer, but for its length, are left out.
* `Bootstrap` takes `AutoMigrate` of a table as `HasTable` followed by `CREATE TABLE`
  and leaves out the columns it may add to one that is there. The run leaves out the
  store's plugin, which is opened as redis' is.
* `Registry` counts time in the units of its period and has no clock that is put
  back; offsets are fixed.
* `Snowflake` bounds clocks and sequence numbers in the runs; the theorems do not.

An extension could compose `Snowflake` with `Links` and `SingleUpload` (which take
uids as unique), and put two requests into `Cluster`.

## 7. Running

    tlc -workers 2 -config MCTaskDispatch.cfg MCTaskDispatch.tla
    tlapm TaskDispatchProofs.tla

Configurations and their modules: `MCTaskDispatch`, `MCTaskDispatchLive`,
`MCTaskDispatchStop` run with `MCTaskDispatch.tla`; `MCPartMerge`, `MCPartMergeTwice`,
`MCPartCount` and `MCPartResume` with `MCPartMerge.tla`; `MCPartUnique` and
`MCPartSettle` with `MCPartUpload.tla`;
`MCSingleUpload` and `MCSingleUploadHttp`, `MCLinks` and `MCLinksUnknown`, `MCDownload`
and `MCDownloadWhole`, `MCCluster`, `MCClusterProxy` and `MCClusterLeft`,
`MCSnowflake` and `MCSnowflakeZero`, `MCRegistry`, `MCBootstrap` with the module
whose name they begin with.

Each run takes between a second and two minutes. The proofs are in
`TaskDispatchProofs`, `PartMergeProofs`, `SingleUploadProofs`, `LinksDownloadProofs`,
`RegistryProofs`, `ClusterProofs`, `SnowflakeProofs` and `BootstrapProofs`; each takes
`tlapm` a few minutes from nothing.
