------------------------------ MODULE Registry ------------------------------
(***************************************************************************)
(* The nodes of a cluster and the redis hash service:proxy in which they   *)
(* find one another.  A node that runs asks itself for its health every    *)
(* Period and then writes its address and the time under its own field;    *)
(* Discovery reads the hash, returns the entries not older than Boundary   *)
(* and deletes the others.  Nobody deletes his own entry when he goes.     *)
(* Time is counted from the last write, in any unit; every age stops at    *)
(* the first value that says nothing new.                                  *)
(***************************************************************************)
EXTENDS Integers

CONSTANTS
    Nodes,
    Offset,      \* how far each node's clock is ahead of the slowest
    Period,      \* ServiceRedisTTl
    Slack,       \* how much longer a round of the heartbeat may take
    Boundary,    \* the age at which Discovery drops an entry
    Skew,        \* the largest difference of two clocks
    None,
    MaxLives,    \* bound: starts of a node
    MaxFaults    \* bound: calls to redis that fail, rounds that take too long

ASSUME RegistryAssumption ==
    /\ Period \in Nat /\ Slack \in Nat /\ Boundary \in Nat /\ Skew \in Nat
    /\ Offset \in [Nodes -> 0 .. Skew]
    /\ Period + Slack + Skew <= Boundary
    /\ MaxLives \in Nat /\ MaxFaults \in Nat

VARIABLES
    status,   \* each node: down, starting, serving, stopping, closing
    life,     \* how often it was started
    beat,     \* its heartbeat: "off", "first" (not yet written) or "later"
    since,    \* the time since its timer was set
    late,     \* the nodes whose heartbeat failed or came late in this life
    entry,    \* the hash: [age, life] per node, or None
    look,     \* each node's Discovery: [found, stale], or None
    faults

regVars == <<status, life, beat, since, late, entry, look, faults>>

Init ==
    /\ status = [n \in Nodes |-> "down"]
    /\ life = [n \in Nodes |-> 0]
    /\ beat = [n \in Nodes |-> "off"]
    /\ since = [n \in Nodes |-> 0]
    /\ late = {}
    /\ entry = [n \in Nodes |-> None]
    /\ look = [n \in Nodes |-> None]
    /\ faults = 0

\* The listener is open: requests are taken, the health check included.
Healthy(n) == status[n] \in {"serving", "stopping"}

Fault == faults < MaxFaults /\ faults' = faults + 1

-----------------------------------------------------------------------------
(* RunServer *)

Become(n, s) == status' = [status EXCEPT ![n] = s]

\* HeartBeat is started with the server and does not wait for the listener.
Start(n) ==
    /\ status[n] = "down" /\ life[n] < MaxLives
    /\ Become(n, "starting")
    /\ life' = [life EXCEPT ![n] = @ + 1]
    /\ beat' = [beat EXCEPT ![n] = "first"]
    /\ late' = late \ {n}
    /\ UNCHANGED <<since, entry, look, faults>>

Serve(n) ==
    /\ status[n] = "starting" /\ Become(n, "serving")
    /\ UNCHANGED <<life, beat, since, late, entry, look, faults>>

\* A signal: StopTask runs, for as long as it likes, while the node serves on.
Signal(n) ==
    /\ status[n] = "serving" /\ life[n] < MaxLives /\ Become(n, "stopping")
    /\ UNCHANGED <<life, beat, since, late, entry, look, faults>>

\* Shutdown closes the listener and waits for what is in progress.
CloseListener(n) ==
    /\ status[n] = "stopping" /\ Become(n, "closing")
    /\ UNCHANGED <<life, beat, since, late, entry, look, faults>>

\* The process ends: after Shutdown, by its panic after five seconds, by a kill.
Down(n) ==
    /\ Become(n, "down")
    /\ beat' = [beat EXCEPT ![n] = "off"]
    /\ look' = [look EXCEPT ![n] = None]
    /\ UNCHANGED <<life, since, late, entry, faults>>

Exit(n)  == status[n] = "closing" /\ Down(n)
Crash(n) == status[n] \notin {"down", "closing"} /\ life[n] < MaxLives /\ Down(n)

-----------------------------------------------------------------------------
(* HeartBeat *)

\* a slip: the timer is not set again
DueOnce(n) == beat[n] = "first"

\* The first round begins at once; a failed health check is repeated till it
\* succeeds; HSet's error is ignored, the round counts as done.
Due(n) == beat[n] = "first" \/ (beat[n] = "later" /\ since[n] >= Period)

Rewind(n) ==
    /\ Healthy(n) /\ Due(n)
    /\ beat' = [beat EXCEPT ![n] = "later"]
    /\ since' = [since EXCEPT ![n] = 0]
    /\ UNCHANGED <<status, life, look>>

Beat(n) ==
    /\ Rewind(n)
    /\ entry' = [entry EXCEPT ![n] = [age |-> 0, life |-> life[n]]]
    /\ UNCHANGED <<late, faults>>

BeatLost(n) == Rewind(n) /\ Fault /\ late' = late \cup {n} /\ UNCHANGED entry

Old     == Boundary + Skew + 1
Longest == Period + Slack
Later(t, top) == IF t < top THEN t + 1 ELSE t

\* The nodes whose round takes too long if time goes on: each such round is a fault.
Overdue == {n \in Nodes : Healthy(n) /\ beat[n] = "later" /\ since[n] = Longest}

Tick ==
    /\ IF Overdue = {} THEN UNCHANGED faults ELSE Fault
    /\ late' = late \cup Overdue
    /\ since' = [n \in Nodes |-> Later(since[n], Longest + 1)]
    /\ entry' = [n \in Nodes |->
                   IF entry[n] = None THEN None
                   ELSE [entry[n] EXCEPT !.age = Later(@, Old)]]
    /\ UNCHANGED <<status, life, beat, look>>

-----------------------------------------------------------------------------
(* Discovery *)

\* a slip: the boundary is off by the period of the heartbeat
StaleEarly(r, n) ==
    entry[n] # None /\ entry[n].age + Offset[r] - Offset[n] > Boundary - Period

\* CreatedAt is by the writer's clock, the boundary by the reader's.
Stale(r, n) ==
    entry[n] # None /\ entry[n].age + Offset[r] - Offset[n] > Boundary

\* a slip: an entry of just the boundary's age is returned, and deleted
ReadEager(r) ==
    /\ status[r] # "down" /\ look[r] = None
    /\ look' = [look EXCEPT ![r] =
                  [found |-> {n \in Nodes : entry[n] # None /\ ~Stale(r, n)},
                   stale |-> {[node |-> n, life |-> entry[n].life] :
                                n \in {k \in Nodes : /\ entry[k] # None
                                                      /\ entry[k].age + Offset[r] - Offset[k] >= Boundary}}]]
    /\ UNCHANGED <<status, life, beat, since, late, entry, faults>>

\* a slip: an old entry ends the loop
ReadBreak(r) ==
    /\ status[r] # "down" /\ look[r] = None
    /\ look' = [look EXCEPT ![r] =
                  [found |-> IF \E n \in Nodes : Stale(r, n) THEN {}
                             ELSE {n \in Nodes : entry[n] # None},
                   stale |-> {[node |-> n, life |-> entry[n].life] :
                                n \in {k \in Nodes : Stale(r, k)}}]]
    /\ UNCHANGED <<status, life, beat, since, late, entry, faults>>

\* HGetAll; what a reader still has to delete, it knows by the address alone.
Read(r) ==
    /\ status[r] # "down" /\ look[r] = None
    /\ look' = [look EXCEPT ![r] =
                  [found |-> {n \in Nodes : entry[n] # None /\ ~Stale(r, n)},
                   stale |-> {[node |-> n, life |-> entry[n].life] :
                                n \in {k \in Nodes : Stale(r, k)}}]]
    /\ UNCHANGED <<status, life, beat, since, late, entry, faults>>

\* HDel, whose error is ignored.
Prune(r, s) ==
    /\ look[r] # None /\ s \in look[r].stale
    /\ look' = [look EXCEPT ![r].stale = @ \ {s}]
    /\ \/ entry' = [entry EXCEPT ![s.node] = None] /\ UNCHANGED faults
       \/ Fault /\ UNCHANGED entry
    /\ UNCHANGED <<status, life, beat, since, late>>

ReadDone(r) ==
    /\ look[r] # None /\ look[r].stale = {}
    /\ look' = [look EXCEPT ![r] = None]
    /\ UNCHANGED <<status, life, beat, since, late, entry, faults>>

-----------------------------------------------------------------------------
NodeStep(n) ==
    \/ Start(n) \/ Serve(n) \/ Signal(n) \/ CloseListener(n)
    \/ Beat(n) \/ BeatLost(n)

Discovery(r) == Read(r) \/ ReadDone(r) \/ \E n \in Nodes, k \in 1 .. MaxLives :
                                              Prune(r, [node |-> n, life |-> k])

Next ==
    \/ Tick
    \/ \E n \in Nodes : NodeStep(n) \/ Exit(n) \/ Crash(n) \/ Discovery(n)

Spec == Init /\ [][Next]_regVars

\* Time goes on; the goroutines of a node that runs, and redis, make progress.
Fairness ==
    /\ WF_regVars(Tick)
    /\ \A n \in Nodes :
        /\ WF_regVars(Serve(n))
        /\ WF_regVars(Beat(n))
        /\ \A k \in 1 .. MaxLives, r \in Nodes : WF_regVars(Prune(r, [node |-> n, life |-> k]))

FairSpec == Spec /\ Fairness

-----------------------------------------------------------------------------
Statuses == {"down", "starting", "serving", "stopping", "closing"}
Entries  == [age : 0 .. Old, life : 1 .. MaxLives]
Doomed   == [node : Nodes, life : 1 .. MaxLives]
Looks    == [found : SUBSET Nodes, stale : SUBSET Doomed]

ASSUME NoneAssumption ==
    None \notin Entries \cup Looks /\ \A S \in SUBSET Nodes : None # S

\* The type invariant.
RegTypeOK ==
    /\ status \in [Nodes -> Statuses]
    /\ life \in [Nodes -> 0 .. MaxLives]
    /\ beat \in [Nodes -> {"off", "first", "later"}]
    /\ since \in [Nodes -> 0 .. Longest + 1]
    /\ late \subseteq Nodes
    /\ entry \in [Nodes -> Entries \cup {None}]
    /\ look \in [Nodes -> Looks \cup {None}]
    /\ faults \in 0 .. MaxFaults

Steady(n) == Healthy(n) /\ beat[n] = "later" /\ n \notin late

\* With the periods of the code (3 min between heartbeats, 5 min of validity) a
\* node whose heartbeats are in time is never dropped by a reader whose clock is
\* near enough, and one that was never down is there for every reader.
SteadyListed ==
    \A n \in Nodes : Steady(n) =>
        /\ \A r \in Nodes : ~Stale(r, n)
        /\ life[n] = 1 => entry[n] # None

\* Discovery deletes by address what it judged by time stamp: what it still has
\* to delete may be there anew.  If so it is the entry of an earlier life, or of
\* a node whose heartbeat was late (registanddiscover.go:127).
DeletesOldOnly ==
    \A r \in Nodes : look[r] # None =>
        \A s \in look[r].stale : Steady(s.node) => s.life < life[s.node]

\* A node whose listener stays open is in the answers of every reader for ever
\* from some time on, whatever was still to be deleted under its address.
Heard ==
    \A n \in Nodes : <>[]Healthy(n) =>
        <>[](entry[n] # None /\ \A r \in Nodes : ~Stale(r, n))

\* The registry keeps the promise of Membership: a node in its first life that
\* has written its entry, and whose heartbeats were in time, is sure.
M == INSTANCE Membership WITH
    status <- [n \in Nodes |-> IF Healthy(n) THEN "open" ELSE status[n]],
    sure   <- {n \in Nodes : Steady(n) /\ life[n] = 1},
    found  <- [n \in Nodes |-> IF look[n] = None THEN None ELSE look[n].found]

\* Every behaviour of the heartbeats and of Discovery is one of Membership.
KeepsPromise == M!MemSpec
=============================================================================
