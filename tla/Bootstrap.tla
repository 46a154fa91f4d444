------------------------------ MODULE Bootstrap ------------------------------
(***************************************************************************)
(* The start of the service's processes (main, up to RunServer), which     *)
(* share a database, a redis and an object store.  A process opens its     *)
(* plugins in the order Go iterates over a map, gets its worker id and     *)
(* opens the store; a step that fails ends it, and it is started again     *)
(* (deploy/docker-compose.yaml, "restart: always").  The tables and the    *)
(* buckets are looked for one after another, and each is made by whoever   *)
(* does not find it: two processes may both not find it.  The ids handed   *)
(* out with a worker id are in Snowflake.                                  *)
(***************************************************************************)
EXTENDS Integers, Sequences

CONSTANTS
    Nodes,
    Plugins,      \* the plugins whose Flag is set: DB, Redis and the store's
    DB,
    Tables,       \* the tables of the database, in the order they are migrated
    Buckets,      \* the buckets, in the order they are made
    Refused,      \* what cannot be made twice: tables; buckets with MinIO, but
                  \* not on the local disk (MkdirAll) or with COS (409)
    MaxWorker,    \* maxWorkerId: 31
    MaxFaults,    \* bound: failing calls
    MaxCrashes    \* bound: processes that are killed

Shared == {Tables[i] : i \in DOMAIN Tables} \cup {Buckets[i] : i \in DOMAIN Buckets}

ASSUME BootstrapAssumption ==
    /\ Tables \in Seq(Shared) /\ Buckets \in Seq(Shared)
    /\ DB \in Plugins /\ Refused \subseteq Shared
    /\ MaxWorker \in Nat /\ MaxFaults \in Nat /\ MaxCrashes \in Nat

VARIABLES
    made,       \* what there is of Shared
    workId,     \* redis: the counter of worker ids
    known,      \* redis: the worker id under each node's address, or 0
    pc,         \* each process: down, plugins, tables, makeTable, health,
                \* address, ids, buckets, makeBucket, up
    plugged,    \* the plugins it has opened
    at,         \* which of the tables or buckets its turn is
    lost,       \* history: how often it ended because another made what it was
                \* to make, counted to 2
    faults, crashes

sharedVars == <<made, workId, known>>
procVars   == <<plugged, at>>
vars == <<sharedVars, procVars, pc, lost, faults, crashes>>

Init ==
    /\ made = {} /\ workId = 0 /\ known = [n \in Nodes |-> 0]
    /\ pc = [n \in Nodes |-> "down"]
    /\ plugged = [n \in Nodes |-> {}] /\ at = [n \in Nodes |-> 1]
    /\ lost = [n \in Nodes |-> [t \in Shared |-> 0]]
    /\ faults = 0 /\ crashes = 0

Goto(n, l) == pc' = [pc EXCEPT ![n] = l]

Fault == faults < MaxFaults /\ faults' = faults + 1

Start(n) ==
    /\ pc[n] = "down" /\ Goto(n, "plugins")
    /\ UNCHANGED <<sharedVars, procVars, lost, faults, crashes>>

\* What the process knew is gone with it.
End(n) ==
    /\ Goto(n, "down")
    /\ plugged' = [plugged EXCEPT ![n] = {}] /\ at' = [at EXCEPT ![n] = 1]

\* A call fails: a panic, or an exit.
Fails(n, places) ==
    /\ pc[n] \in places /\ Fault /\ End(n)
    /\ UNCHANGED <<sharedVars, lost, crashes>>

-----------------------------------------------------------------------------
(* What all share is looked for, one after another, and made if missing *)

\* a slip: nobody looks first
LookBlind(n, things, make, done) ==
    /\ Goto(n, IF at[n] > Len(things) THEN done ELSE make)
    /\ UNCHANGED at

\* The next of the things is there, or is to be made, or there is no next.
Look(n, things, make, done) ==
    IF at[n] \in DOMAIN things /\ things[at[n]] \in made
      THEN at' = [at EXCEPT ![n] = @ + 1] /\ UNCHANGED pc
      ELSE Goto(n, IF at[n] > Len(things) THEN done ELSE make) /\ UNCHANGED at

\* Another may have made it since: who cannot make it again ends.
Make(n, t, look) ==
    IF t \in made \cap Refused
      THEN /\ lost' = [lost EXCEPT ![n][t] = IF @ < 2 THEN @ + 1 ELSE @]
           /\ End(n) /\ UNCHANGED made
      ELSE /\ made' = made \cup {t}
           /\ at' = [at EXCEPT ![n] = @ + 1]
           /\ Goto(n, look) /\ UNCHANGED <<lost, plugged>>

-----------------------------------------------------------------------------
(* NewPlugins *)

\* The database is opened, to migrate its tables from the first on.
OpenDB(n) ==
    /\ pc[n] = "plugins" /\ DB \notin plugged[n]
    /\ at' = [at EXCEPT ![n] = 1] /\ Goto(n, "tables")
    /\ UNCHANGED <<sharedVars, plugged, lost, faults, crashes>>

\* AutoMigrate: HasTable, CreateTable.
LookForTable(n) ==
    /\ pc[n] = "tables" /\ Look(n, Tables, "makeTable", "health")
    /\ UNCHANGED <<sharedVars, plugged, lost, faults, crashes>>

\* That it cannot make a table ends the process, with code 0.
MakeTable(n) ==
    /\ pc[n] = "makeTable" /\ Make(n, Tables[at[n]], "tables")
    /\ UNCHANGED <<workId, known, faults, crashes>>

\* The health check of the database.  That it fails is logged, no more.
CheckDB(n) ==
    /\ pc[n] = "health" /\ Goto(n, "plugins")
    /\ plugged' = [plugged EXCEPT ![n] = @ \cup {DB}]
    /\ Fault \/ UNCHANGED faults
    /\ UNCHANGED <<sharedVars, at, lost, crashes>>

\* New and Health of redis or of the store.
Plug(n, p) ==
    /\ pc[n] = "plugins" /\ p \in Plugins \ ({DB} \cup plugged[n])
    /\ plugged' = [plugged EXCEPT ![n] = @ \cup {p}]
    /\ UNCHANGED <<sharedVars, at, pc, lost, faults, crashes>>

AllPlugged(n) ==
    /\ pc[n] = "plugins" /\ plugged[n] = Plugins /\ Goto(n, "address")
    /\ UNCHANGED <<sharedVars, procVars, lost, faults, crashes>>

DBFails(n) == DB \notin plugged[n] /\ Fails(n, {"plugins", "tables", "makeTable"})

PlugFails(n) == Plugins \ ({DB} \cup plugged[n]) # {} /\ Fails(n, {"plugins"})

-----------------------------------------------------------------------------
(* InitSnowFlake, InitStorage *)

AskAddress(n) ==
    /\ pc[n] = "address" /\ Goto(n, "ids")
    /\ UNCHANGED <<sharedVars, procVars, lost, faults, crashes>>

\* newSnowFlake; an id out of range is a panic.  The buckets are next.
Begin(n, w) ==
    IF w > MaxWorker
      THEN End(n)
      ELSE Goto(n, "buckets") /\ at' = [at EXCEPT ![n] = 1] /\ UNCHANGED plugged

\* The id kept under the address, or the next one, which is kept unless Set fails.
InitSnowFlake(n) ==
    /\ pc[n] = "ids"
    /\ \/ /\ known[n] # 0 /\ Begin(n, known[n])
          /\ UNCHANGED <<workId, known, faults>>
       \/ /\ known[n] = 0 /\ workId' = workId + 1 /\ Begin(n, workId + 1)
          /\ \/ known' = [known EXCEPT ![n] = workId + 1] /\ UNCHANGED faults
             \/ Fault /\ UNCHANGED known
    /\ UNCHANGED <<made, lost, crashes>>

AddressFails(n) == Fails(n, {"address"})
RedisFails(n)   == Fails(n, {"ids"})

\* BucketExists, MakeBucket.
LookForBucket(n) ==
    /\ pc[n] = "buckets" /\ Look(n, Buckets, "makeBucket", "up")
    /\ UNCHANGED <<sharedVars, plugged, lost, faults, crashes>>

MakeBucket(n) ==
    /\ pc[n] = "makeBucket" /\ Make(n, Buckets[at[n]], "buckets")
    /\ UNCHANGED <<workId, known, faults, crashes>>

StoreFails(n) == Fails(n, {"buckets", "makeBucket"})

\* The process is killed, or told to end, at any time.
Crash(n) ==
    /\ pc[n] # "down" /\ crashes < MaxCrashes /\ crashes' = crashes + 1
    /\ End(n)
    /\ UNCHANGED <<sharedVars, lost, faults>>

-----------------------------------------------------------------------------
Main(n) ==
    \/ Start(n) \/ OpenDB(n) \/ LookForTable(n) \/ MakeTable(n) \/ CheckDB(n)
    \/ (\E p \in Plugins : Plug(n, p)) \/ AllPlugged(n)
    \/ AskAddress(n) \/ InitSnowFlake(n) \/ LookForBucket(n) \/ MakeBucket(n)

Breaks(n) ==
    DBFails(n) \/ PlugFails(n) \/ AddressFails(n) \/ RedisFails(n) \/ StoreFails(n)

Next == \E n \in Nodes : Main(n) \/ Breaks(n) \/ Crash(n)

Spec == Init /\ [][Next]_vars

\* Processes run, and are started again.
FairSpec == Spec /\ \A n \in Nodes : WF_vars(Main(n))

-----------------------------------------------------------------------------
\* The type invariant.
BootTypeOK ==
    /\ made \subseteq Shared /\ workId \in Nat /\ known \in [Nodes -> Nat]
    /\ pc \in [Nodes -> {"down", "plugins", "tables", "makeTable", "health", "address",
                         "ids", "buckets", "makeBucket", "up"}]
    /\ plugged \in [Nodes -> SUBSET Plugins] /\ at \in [Nodes -> Nat \ {0}]
    /\ lost \in [Nodes -> [Shared -> 0 .. 2]]
    /\ faults \in 0 .. MaxFaults /\ crashes \in 0 .. MaxCrashes

\* A process ends because another was quicker to make a table or a bucket
\* (database.go:229, miniostorage.go:27-34) at most once in its life for each of
\* them, however many processes start together and end between looking and making.
LostOnce == \A n \in Nodes, t \in Shared : lost[n][t] <= 1

\* A node that is started again and again is up at last, whatever it failed on
\* before, unless its worker id is out of range: that is kept, and it never is.
ComesUp == \A n \in Nodes : pc[n] = "down" ~> (pc[n] = "up" \/ known[n] > MaxWorker)
=============================================================================
