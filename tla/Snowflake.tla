----------------------------- MODULE Snowflake ------------------------------
(***************************************************************************)
(* The ids of objects.  A node gets a worker id from redis when it starts: *)
(* the one kept under its address, or a new one.  An id is made of the     *)
(* time in milliseconds by the node's clock, the worker id and a sequence  *)
(* number.  Clocks go on at any pace and may be put back; processes die    *)
(* and start again, and begin anew with lastTimestamp 0.  A node is told   *)
(* apart by its address: two behind one public address would share an id.  *)
(***************************************************************************)
EXTENDS Integers

CONSTANTS
    Nodes,
    MaxWorker,       \* maxWorkerId: 31
    SequenceMask,    \* the largest sequence number: 4095
    None,
    MaxTime,         \* bound: the clocks
    MaxBacks,        \* bound: times a clock is put back
    MaxStarts,       \* bound: starts of all nodes
    MaxFaults        \* bound: calls to redis that fail

ASSUME SnowflakeAssumption ==
    /\ MaxWorker \in Nat /\ SequenceMask \in Nat
    /\ None \notin Int
    /\ MaxTime \in Nat /\ MaxBacks \in Nat /\ MaxStarts \in Nat /\ MaxFaults \in Nat

VARIABLES
    workId,      \* redis: the counter
    known,       \* redis: the worker id under each node's address, or None
    clock,       \* each node's clock
    pc,          \* each process: down, boot, address, init, set, store, up,
                 \* spin (NextId holds the lock)
    workerId, lastTimestamp, sequence,    \* its Snowflake
    issued,      \* the ids handed out
    twice,       \* those handed out again
    early,       \* worker ids that went on with a clock behind their ids
    zeros,       \* rows of ResumeHandler with the uid 0; two are as bad as more
    backs, starts, faults

redisVars == <<workId, known>>
flakeVars == <<workerId, lastTimestamp, sequence>>
idVars    == <<issued, twice, early>>
boundVars == <<backs, starts, faults>>
vars == <<redisVars, clock, pc, flakeVars, idVars, zeros, boundVars>>

Init ==
    /\ workId = 0 /\ known = [n \in Nodes |-> None]
    /\ clock = [n \in Nodes |-> 1]
    /\ pc = [n \in Nodes |-> "down"]
    /\ workerId = [n \in Nodes |-> None]
    /\ lastTimestamp = [n \in Nodes |-> 0] /\ sequence = [n \in Nodes |-> 0]
    /\ issued = {} /\ twice = {} /\ early = {} /\ zeros = 0
    /\ backs = 0 /\ starts = 0 /\ faults = 0

Fault == faults < MaxFaults /\ faults' = faults + 1 /\ UNCHANGED <<backs, starts>>

Goto(n, l) == pc' = [pc EXCEPT ![n] = l]

-----------------------------------------------------------------------------
(* main, up to RunServer: NewPlugins, InitSnowFlake, InitStorage *)

Start(n) ==
    /\ pc[n] = "down" /\ starts < MaxStarts /\ starts' = starts + 1
    /\ Goto(n, "boot")
    /\ UNCHANGED <<redisVars, clock, flakeVars, idVars, zeros, backs, faults>>

\* A step of main that touches nothing here, and one that ends in a panic.
Passes(n, from, to) ==
    /\ pc[n] = from /\ Goto(n, to)
    /\ UNCHANGED <<redisVars, clock, flakeVars, idVars, zeros, boundVars>>

Panics(n, from) ==
    /\ pc[n] = from /\ Fault /\ Goto(n, "down")
    /\ UNCHANGED <<redisVars, clock, flakeVars, idVars, zeros>>

\* The database is opened and migrated, redis is asked for its health.
Plug(n)      == Passes(n, "boot", "address")
PlugFails(n) == Panics(n, "boot")

\* The node's address is what a site outside says it is.
AskAddress(n)   == Passes(n, "address", "init")
AddressFails(n) == Panics(n, "address")

\* newSnowFlake; an id out of range is a panic.
Begin(n, w) ==
    IF w > MaxWorker
      THEN Goto(n, "down") /\ UNCHANGED flakeVars
      ELSE /\ Goto(n, "store")
           /\ workerId' = [workerId EXCEPT ![n] = w]
           /\ lastTimestamp' = [lastTimestamp EXCEPT ![n] = 0]
           /\ sequence' = [sequence EXCEPT ![n] = 0]

\* Exists, Get.
Remembered(n) ==
    /\ pc[n] = "init" /\ known[n] # None /\ Begin(n, known[n])
    /\ UNCHANGED <<redisVars, clock, idVars, zeros, boundVars>>

\* a slip: a new node reads the counter and writes it back, with no Incr
IncrementLost(n) ==
    /\ pc[n] = "init" /\ known[n] = None /\ UNCHANGED boundVars
    /\ workerId' = [workerId EXCEPT ![n] = workId + 1]
    /\ Goto(n, "set")
    /\ UNCHANGED <<redisVars, clock, lastTimestamp, sequence, idVars, zeros>>

\* Incr, for a node not known, or one for which Exists failed and says 0.
Increment(n) ==
    /\ pc[n] = "init"
    /\ known[n] # None => Fault
    /\ known[n] = None => UNCHANGED boundVars
    /\ workId' = workId + 1 /\ workerId' = [workerId EXCEPT ![n] = workId + 1]
    /\ Goto(n, "set")
    /\ UNCHANGED <<known, clock, lastTimestamp, sequence, idVars, zeros>>

\* Set, whose error is ignored.
Remember(n) ==
    /\ pc[n] = "set" /\ Begin(n, workerId[n])
    /\ \/ known' = [known EXCEPT ![n] = workerId[n]] /\ UNCHANGED boundVars
       \/ Fault /\ UNCHANGED known
    /\ UNCHANGED <<workId, clock, idVars, zeros>>

\* Get or Incr fails: a panic.
InitFails(n) == Panics(n, "init")

\* The store is asked for the buckets and makes those that are missing.
OpenStorage(n)  == Passes(n, "store", "up")
StorageFails(n) == Panics(n, "store")

\* The process dies.
Crash(n) ==
    /\ pc[n] # "down" /\ starts < MaxStarts /\ Goto(n, "down")
    /\ UNCHANGED <<redisVars, clock, flakeVars, idVars, zeros, boundVars>>

-----------------------------------------------------------------------------
(* Clocks *)

Tick(n) ==
    /\ clock[n] < MaxTime /\ clock' = [clock EXCEPT ![n] = @ + 1]
    /\ UNCHANGED <<redisVars, pc, flakeVars, idVars, zeros, boundVars>>

PutBack(n) ==
    /\ clock[n] > 1 /\ backs < MaxBacks /\ backs' = backs + 1
    /\ clock' = [clock EXCEPT ![n] = @ - 1]
    /\ UNCHANGED <<redisVars, pc, flakeVars, idVars, zeros, starts, faults>>

-----------------------------------------------------------------------------
(* NextId, under its lock *)

Id(t, w, s) == [time |-> t, workerId |-> w, sequence |-> s]

\* The first id of a process is early if its time is not past those handed out
\* before with this worker id.
Early(n) == {workerId[n]} \cap
    {id.workerId : id \in {i \in issued : lastTimestamp[n] = 0 /\ i.time >= clock[n]}}

Issue(n, s) ==
    LET id == Id(clock[n], workerId[n], s)
    IN  /\ issued' = issued \cup {id}
        /\ twice' = twice \cup ({id} \cap issued)
        /\ early' = early \cup Early(n)
        /\ lastTimestamp' = [lastTimestamp EXCEPT ![n] = clock[n]]
        /\ sequence' = [sequence EXCEPT ![n] = s]
        /\ Goto(n, "up")
        /\ UNCHANGED <<redisVars, clock, workerId, zeros, boundVars>>

\* a slip: the sequence is not counted up
SameTimeKept(n) ==
    /\ pc[n] = "up" /\ clock[n] = lastTimestamp[n] /\ sequence[n] < SequenceMask
    /\ Issue(n, sequence[n])

SameTime(n) ==
    /\ pc[n] = "up" /\ clock[n] = lastTimestamp[n] /\ sequence[n] < SequenceMask
    /\ Issue(n, sequence[n] + 1)

NewTime(n) ==
    pc[n] = "up" /\ clock[n] > lastTimestamp[n] /\ Issue(n, 0)

\* The numbers of this millisecond are used up: wait for the next, lock held.
UsedUp(n) ==
    /\ pc[n] = "up" /\ clock[n] = lastTimestamp[n] /\ sequence[n] = SequenceMask
    /\ Goto(n, "spin") /\ sequence' = [sequence EXCEPT ![n] = 0]
    /\ UNCHANGED <<redisVars, clock, workerId, lastTimestamp, idVars, zeros, boundVars>>

\* a slip: the loop does not read the clock again
SpinEndsBlind(n) ==
    pc[n] = "spin" /\ lastTimestamp[n] > lastTimestamp[n] /\ Issue(n, 0)

SpinEnds(n) ==
    pc[n] = "spin" /\ clock[n] > lastTimestamp[n] /\ Issue(n, 0)

\* The clock is behind: an error.  GenUploadSingle gives up; ResumeHandler does
\* not look at it and takes the 0 for a uid.
Behind(n) == pc[n] = "up" /\ clock[n] < lastTimestamp[n]

ResumeZero(n) ==
    /\ Behind(n) /\ zeros < 2 /\ zeros' = zeros + 1
    /\ UNCHANGED <<redisVars, clock, pc, flakeVars, idVars, boundVars>>

-----------------------------------------------------------------------------
NextId(n) == SameTime(n) \/ NewTime(n) \/ UsedUp(n) \/ SpinEnds(n)

Boot(n) ==
    \/ Start(n) \/ Plug(n) \/ PlugFails(n) \/ AskAddress(n) \/ AddressFails(n)
    \/ Remembered(n) \/ Increment(n) \/ Remember(n) \/ InitFails(n)
    \/ OpenStorage(n) \/ StorageFails(n)

Next == \E n \in Nodes :
    \/ Boot(n) \/ Crash(n) \/ Tick(n) \/ PutBack(n) \/ NextId(n) \/ ResumeZero(n)

\* Clocks go on; who waits in the loop looks at them again and again.
Fairness == \A n \in Nodes : WF_vars(Tick(n)) /\ WF_vars(SpinEnds(n))

Spec == Init /\ [][Next]_vars

FairSpec == Spec /\ Fairness

-----------------------------------------------------------------------------
Places == {"down", "boot", "address", "init", "set", "store", "up", "spin"}

\* A process that has its Snowflake.
Begun(n) == pc[n] \in {"store", "up", "spin"}

Ids == [time : Nat, workerId : 0 .. MaxWorker, sequence : 0 .. SequenceMask]

\* The type invariant; a Snowflake's fields fit the bits they have in an id.
TypeOK ==
    /\ workId \in Nat /\ known \in [Nodes -> Nat \cup {None}]
    /\ clock \in [Nodes -> Nat]
    /\ pc \in [Nodes -> Places]
    /\ workerId \in [Nodes -> Nat \cup {None}]
    /\ \A n \in Nodes : Begun(n) => workerId[n] \in 0 .. MaxWorker
    /\ lastTimestamp \in [Nodes -> Nat]
    /\ sequence \in [Nodes -> 0 .. SequenceMask]
    /\ issued \subseteq Ids /\ twice \subseteq issued /\ early \subseteq Nat
    /\ zeros \in 0 .. 2 /\ backs \in Nat /\ starts \in Nat /\ faults \in Nat

\* Two processes that go at once have different worker ids, whatever
\* was lost between Incr and Set, and no node has in redis what another has.
WorkersApart ==
    \A m, n \in Nodes : m # n =>
        /\ Begun(m) /\ Begun(n) => workerId[m] # workerId[n]
        /\ known[m] # None => known[m] # known[n]

\* No id is handed out twice, but by a worker id that a process took up again
\* with a clock not past the ids of the process before it (lastTimestamp is 0
\* then, snowflaker.go:91).
UniqueIds == \A id \in twice : id.workerId \in early

\* Whoever waits for the next millisecond gets an id, if the clock has as much
\* time left; the lock is free again then.
LockFreed ==
    \A n \in Nodes : pc[n] = "spin" ~> (pc[n] # "spin" \/ lastTimestamp[n] = MaxTime)

\* A uid is unique (a comment at metadatainfo.go:12).
UniqueUids == zeros < 2
=============================================================================
