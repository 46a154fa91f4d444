---------------------------- MODULE TaskDispatch ----------------------------
(***************************************************************************)
(* The background task system of app/pkg/event/dispatch: every node runs   *)
(* one producer, a bounded JobQueue and MaxWorker workers over one shared  *)
(* task_info table.  The producer reads the Undo rows, filters them with   *)
(* the pre-process hook, claims each with a conditional UPDATE and puts it *)
(* in the queue; a worker takes it, writes a task_log row, runs the        *)
(* handler and writes the outcome; StopTask drains a node and gives its    *)
(* unconsumed tasks back.  Nodes crash and restart, and a database call    *)
(* may fail with its error ignored, as every call here ignores it.         *)
(***************************************************************************)
EXTENDS Integers, Sequences, FiniteSets

CONSTANTS
    Nodes,        \* the nodes, each known by its outbound IP (node_id)
    Workers,      \* the worker goroutines of a node (utils.MaxWorker of them)
    Tasks,        \* the rows task_info may come to hold
    Uids,         \* the storage uids the tasks merge
    UidOf(_),     \* the StorageUid in a task's ExtraData
    Registered,   \* the tasks whose TaskType has a handler and a pre-process
    MaxQueue,     \* capacity of JobQueue
    None,         \* the empty node_id; also: no job in hand
    MaxStops,     \* bound: graceful stops
    MaxCrashes,   \* bound: process crashes
    MaxFaults     \* bound: database calls that fail

ASSUME TaskAssumption ==
    /\ Registered \subseteq Tasks
    /\ \A t \in Tasks : UidOf(t) \in Uids
    /\ None \notin Nodes \cup Tasks
    /\ MaxQueue \in Nat \ {0}
    /\ MaxStops \in Nat /\ MaxCrashes \in Nat /\ MaxFaults \in Nat

VARIABLES
    task,    \* task_info: [status, node_id, task_log_id] of every task
    logs,    \* task_log: the rows in order of their ids
    dirs,    \* the uid directories under LocalStore on each node's disk
    proc,    \* the life of each node's process, StopTask's progress included
    list,    \* the rows a producer's round, or StopTask's loop, has yet to visit
    ppc,     \* where each producer is
    hand,    \* the task each producer is deciding about
    queue,   \* JobQueue of each node
    wpc,     \* where each worker is
    wjob,    \* the job each worker took
    wlog,    \* the id of the task_log row each worker created (0: none)
    stops, crashes, faults   \* how much of each bound has been used

db    == <<task, logs>>
prod  == <<list, ppc, hand>>
work  == <<wpc, wjob, wlog>>
count == <<stops, crashes, faults>>
vars  == <<task, logs, dirs, proc, list, ppc, hand, queue,
           wpc, wjob, wlog, stops, crashes, faults>>

Undo    == "undo"      \* TaskStatusUndo, 0
Running == "running"   \* TaskStatusRunning, 1
Finish  == "finish"    \* TaskStatusFinish, 2
Error   == "error"     \* TaskStatusError, 99
Absent  == "absent"    \* the row has not been created

Terminal == {Finish, Error}
Statuses == {Absent, Undo, Running} \cup Terminal

\* A row of task_info, and one of task_log.
TaskInfo == [status : Statuses, node : Nodes \cup {None}, log : Nat]
TaskLog  == [task : Tasks, status : {Running} \cup Terminal]

WithStatus(s) == {t \in Tasks : task[t].status = s}
OfUid(u)      == {t \in Tasks : UidOf(t) = u}

-----------------------------------------------------------------------------
(* Conditional updates of task_info: the row as the UPDATE leaves it, and   *)
(* whether it matched (RowsAffected).                                       *)

\* Slips in the WHERE clauses, which the properties must notice: no status
\* check beyond the row's not being held, or not being settled; a reset by any
\* node; a reset of the wrong status.
ClaimableIfNotRunning(t) == task[t].status \notin {Absent, Running}
ClaimableIfNotSettled(t) == task[t].status \in {Undo, Running}
ResettableByAny(n, t)    == task[t].status = Running

Claimable(t)     == task[t].status = Undo
Settleable(t)    == task[t].status = Running
Resettable(n, t) == task[t].status = Running /\ task[t].node = n

PreemptiveTaskByID(n, t) ==
    task' = [task EXCEPT ![t].status = Running, ![t].node = n]

SettleTaskByID(t, s) ==
    task' = [task EXCEPT ![t].status = s]

ResetTaskByID(t) ==
    task' = [task EXCEPT ![t].status = Undo, ![t].node = None]

-----------------------------------------------------------------------------
Init ==
    /\ task = [t \in Tasks |-> [status |-> Absent, node |-> None, log |-> 0]]
    /\ logs = <<>>
    /\ \E home \in [Uids -> Nodes] :
          dirs = [n \in Nodes |-> {u \in Uids : home[u] = n}]
    /\ proc = [n \in Nodes |-> "up"]
    /\ list = [n \in Nodes |-> {}]
    /\ ppc = [n \in Nodes |-> "scan"]
    /\ hand = [n \in Nodes |-> None]
    /\ queue = [n \in Nodes |-> <<>>]
    /\ wpc = [n \in Nodes |-> [w \in Workers |-> "idle"]]
    /\ wjob = [n \in Nodes |-> [w \in Workers |-> None]]
    /\ wlog = [n \in Nodes |-> [w \in Workers |-> 0]]
    /\ stops = 0 /\ crashes = 0 /\ faults = 0

\* The producer and the workers of n still run, cancelled or not.
Live(n) == proc[n] \in {"up", "stopping"}

\* One more database call fails, its error dropped by the caller.
Fault == faults < MaxFaults /\ faults' = faults + 1
NoFault == faults' = faults

(* A merge request on a serving node inserts the task.  The node found the *)
(* uid's directory when it began; it may be gone by now.                   *)
CreateTask(n, t) ==
    /\ proc[n] # "down"
    /\ task[t].status = Absent
    /\ task' = [task EXCEPT ![t].status = Undo]
    /\ UNCHANGED <<logs, dirs, proc, prod, queue, work, count>>

-----------------------------------------------------------------------------
(* The producer *)

\* The loop over the rows read moves on; a slip: it does not.
VisitedKept(n, t) == UNCHANGED list
Visited(n, t)     == list' = [list EXCEPT ![n] = @ \ {t}]

\* The channel has room.
Room(n) == Len(queue[n]) < MaxQueue

\* The timer fires: read the Undo rows.  The select may pick the timer even
\* after the cancellation.
Scan(n) ==
    /\ Live(n) /\ ppc[n] = "scan" /\ list[n] = {}
    /\ WithStatus(Undo) # {}
    /\ list' = [list EXCEPT ![n] = WithStatus(Undo)]
    /\ UNCHANGED <<db, dirs, proc, ppc, hand, queue, work, count>>

\* The registries the init functions filled, asked by task type.
GetPreProcess(t) == t \in Registered
GetHandler(t)    == t \in Registered

\* preProcessPartMerge: only the node holding the uid's directory may merge;
\* a type with no pre-process is anybody's.
PreProcess(n, t) == GetPreProcess(t) => UidOf(t) \in dirs[n]

\* A row that may not be merged here, or whose pre-process cannot read it, is
\* left for the next round; a directory that cannot be looked at counts as there.
Skip(n, t) ==
    /\ Live(n) /\ ppc[n] = "scan" /\ t \in list[n]
    /\ \/ ~PreProcess(n, t) /\ NoFault
       \/ GetPreProcess(t) /\ Fault
    /\ Visited(n, t)
    /\ UNCHANGED <<db, dirs, proc, ppc, hand, queue, work, stops, crashes>>

Choose(n, t) ==
    /\ Live(n) /\ ppc[n] = "scan" /\ t \in list[n]
    /\ \/ PreProcess(n, t) /\ NoFault
       \/ GetPreProcess(t) /\ Fault
    /\ Visited(n, t)
    /\ ppc' = [ppc EXCEPT ![n] = "preempt"]
    /\ hand' = [hand EXCEPT ![n] = t]
    /\ UNCHANGED <<db, dirs, proc, queue, work, stops, crashes>>

\* On to the next row of the round.
NextRow(n) ==
    /\ ppc' = [ppc EXCEPT ![n] = "scan"]
    /\ hand' = [hand EXCEPT ![n] = None]

\* The conditional UPDATE: it matches a row that is still Undo.
Preempt(n) ==
    /\ Live(n) /\ ppc[n] = "preempt"
    /\ IF Claimable(hand[n])
         THEN /\ PreemptiveTaskByID(n, hand[n])
              /\ ppc' = [ppc EXCEPT ![n] = "put"]
              /\ UNCHANGED hand
         ELSE NextRow(n) /\ UNCHANGED task
    /\ UNCHANGED <<logs, dirs, proc, list, queue, work, count>>

\* The UPDATE reports an error: the producer reads 0 rows and moves on,
\* whether or not the database applied it.
PreemptFault(n) ==
    /\ Live(n) /\ ppc[n] = "preempt"
    /\ Fault
    /\ \/ UNCHANGED task
       \/ Claimable(hand[n]) /\ PreemptiveTaskByID(n, hand[n])
    /\ NextRow(n)
    /\ UNCHANGED <<logs, dirs, proc, list, queue, work, stops, crashes>>

\* JobQueue <- job, which blocks on a full queue and hears no cancellation.
Put(n) ==
    /\ Live(n) /\ ppc[n] = "put"
    /\ Room(n)
    /\ queue' = [queue EXCEPT ![n] = Append(@, hand[n])]
    /\ NextRow(n)
    /\ UNCHANGED <<db, dirs, proc, list, work, count>>

ProducerExit(n) ==
    /\ proc[n] = "stopping" /\ ppc[n] = "scan" /\ list[n] = {}
    /\ ppc' = [ppc EXCEPT ![n] = "exit"]
    /\ UNCHANGED <<db, dirs, proc, list, hand, queue, work, count>>

-----------------------------------------------------------------------------
(* A worker *)

Goto(n, w, pc) == wpc' = [wpc EXCEPT ![n][w] = pc]

\* a slip: the worker returns after its job
NextJobReturns(n, w) ==
    /\ Goto(n, w, "exit")
    /\ wjob' = [wjob EXCEPT ![n][w] = None]
    /\ wlog' = [wlog EXCEPT ![n][w] = 0]

\* Back to the select: the job and the log id go out of scope.
NextJob(n, w) ==
    /\ Goto(n, w, "idle")
    /\ wjob' = [wjob EXCEPT ![n][w] = None]
    /\ wlog' = [wlog EXCEPT ![n][w] = 0]

At(n, w, pc) == Live(n) /\ wpc[n][w] = pc

Take(n, w) ==
    /\ At(n, w, "idle")
    /\ queue[n] # <<>>
    /\ wjob' = [wjob EXCEPT ![n][w] = Head(queue[n])]
    /\ queue' = [queue EXCEPT ![n] = Tail(@)]
    /\ Goto(n, w, "create")
    /\ UNCHANGED <<db, dirs, proc, prod, wlog, count>>

\* Insert the task_log row of this run; on an error the id stays 0.
CreateLog(n, w) ==
    /\ At(n, w, "create")
    /\ \/ /\ NoFault
          /\ logs' = Append(logs, [task |-> wjob[n][w], status |-> Running])
          /\ wlog' = [wlog EXCEPT ![n][w] = Len(logs) + 1]
       \/ /\ Fault
          /\ wlog' = [wlog EXCEPT ![n][w] = 0]
          /\ UNCHANGED logs
    /\ Goto(n, w, "link")
    /\ UNCHANGED <<task, dirs, proc, prod, queue, wjob, stops, crashes>>

\* Write task_log_id; a missing handler settles the task as an error.
LinkLog(n, w) ==
    /\ At(n, w, "link")
    /\ \/ NoFault /\ task' = [task EXCEPT ![wjob[n][w]].log = wlog[n][w]]
       \/ Fault /\ UNCHANGED task
    /\ Goto(n, w, IF GetHandler(wjob[n][w]) THEN "run" ELSE "error")
    /\ UNCHANGED <<logs, dirs, proc, prod, queue, wjob, wlog, stops, crashes>>

\* The handler returns nil; every such path of it removes the uid's directory.
HandlerOk(n, w) ==
    /\ At(n, w, "run")
    /\ dirs' = [dirs EXCEPT ![n] = @ \ {UidOf(wjob[n][w])}]
    /\ Goto(n, w, "finish")
    /\ UNCHANGED <<db, proc, prod, queue, wjob, wlog, count>>

HandlerErr(n, w) ==
    /\ At(n, w, "run")
    /\ Goto(n, w, "error")
    /\ UNCHANGED <<db, dirs, proc, prod, queue, wjob, wlog, count>>

\* What the outcome is called.
Outcome(pc) == IF pc \in {"finish", "logFinish"} THEN Finish ELSE Error

\* FinishTaskByID or ErrorTaskByID; the log is touched only on 1 row.  The
\* surrounding Transaction holds neither write: both go through lgDB, not tx.
Settle(n, w) ==
    /\ wpc[n][w] \in {"finish", "error"} /\ Live(n)
    /\ IF Settleable(wjob[n][w])
         THEN /\ SettleTaskByID(wjob[n][w], Outcome(wpc[n][w]))
              /\ Goto(n, w, IF wpc[n][w] = "finish" THEN "logFinish" ELSE "logError")
              /\ UNCHANGED <<wjob, wlog>>
         ELSE UNCHANGED task /\ NextJob(n, w)
    /\ UNCHANGED <<logs, dirs, proc, prod, queue, count>>

\* The UPDATE reports an error: 0 rows, so the log is not touched, and the
\* task may or may not have been settled.
SettleFault(n, w) ==
    /\ wpc[n][w] \in {"finish", "error"} /\ Live(n)
    /\ Fault
    /\ \/ UNCHANGED task
       \/ Settleable(wjob[n][w]) /\ SettleTaskByID(wjob[n][w], Outcome(wpc[n][w]))
    /\ NextJob(n, w)
    /\ UNCHANGED <<logs, dirs, proc, prod, queue, stops, crashes>>

UpdateLog(n, w) ==
    /\ wpc[n][w] \in {"logFinish", "logError"} /\ Live(n)
    /\ \/ /\ NoFault
          /\ logs' = [i \in DOMAIN logs |->
                        IF i = wlog[n][w]
                          THEN [logs[i] EXCEPT !.status = Outcome(wpc[n][w])]
                          ELSE logs[i]]
       \/ Fault /\ UNCHANGED logs
    /\ NextJob(n, w)
    /\ UNCHANGED <<task, dirs, proc, prod, queue, stops, crashes>>

\* select may pick Done with jobs still queued.
WorkerExit(n, w) ==
    /\ proc[n] = "stopping" /\ wpc[n][w] = "idle"
    /\ Goto(n, w, "exit")
    /\ UNCHANGED <<db, dirs, proc, prod, queue, wjob, wlog, count>>

-----------------------------------------------------------------------------
(* StopTask, a crash, a restart *)

\* taskCancel()
Stop(n) ==
    /\ proc[n] = "up" /\ stops < MaxStops
    /\ proc' = [proc EXCEPT ![n] = "stopping"]
    /\ stops' = stops + 1
    /\ UNCHANGED <<db, dirs, prod, queue, work, crashes, faults>>

\* The producer and every worker have returned: read the Running rows.  When
\* the read fails there is nothing to reset.
Collect(n) ==
    /\ proc[n] = "stopping" /\ ppc[n] = "exit"
    /\ \A w \in Workers : wpc[n][w] = "exit"
    /\ proc' = [proc EXCEPT ![n] = "resetting"]
    /\ \/ NoFault /\ list' = [list EXCEPT ![n] = WithStatus(Running)]
       \/ Fault /\ UNCHANGED list
    /\ UNCHANGED <<db, dirs, ppc, hand, queue, work, stops, crashes>>

\* ResetTaskByID on the next row read; it matches this node's Running rows.
Reset(n, t) ==
    /\ proc[n] = "resetting" /\ t \in list[n]
    /\ \/ /\ NoFault
          /\ IF Resettable(n, t) THEN ResetTaskByID(t) ELSE UNCHANGED task
       \/ Fault /\ UNCHANGED task
    /\ Visited(n, t)
    /\ UNCHANGED <<logs, dirs, proc, ppc, hand, queue, work, stops, crashes>>

StopEnd(n) ==
    /\ proc[n] = "resetting" /\ list[n] = {}
    /\ proc' = [proc EXCEPT ![n] = "stopped"]
    /\ UNCHANGED <<db, dirs, prod, queue, work, count>>

\* The memory of a process that has just started.
Fresh(n) ==
    /\ list' = [list EXCEPT ![n] = {}]
    /\ ppc' = [ppc EXCEPT ![n] = "scan"]
    /\ hand' = [hand EXCEPT ![n] = None]
    /\ queue' = [queue EXCEPT ![n] = <<>>]
    /\ wpc' = [wpc EXCEPT ![n] = [w \in Workers |-> "idle"]]
    /\ wjob' = [wjob EXCEPT ![n] = [w \in Workers |-> None]]
    /\ wlog' = [wlog EXCEPT ![n] = [w \in Workers |-> 0]]

\* The process dies and its memory with it; the tables and the disk stay.
Crash(n) ==
    /\ proc[n] \notin {"down", "stopped"} /\ crashes < MaxCrashes
    /\ proc' = [proc EXCEPT ![n] = "down"]
    /\ crashes' = crashes + 1
    /\ Fresh(n)
    /\ UNCHANGED <<db, dirs, stops, faults>>

\* RunTask in a new process.
Restart(n) ==
    /\ proc[n] \in {"down", "stopped"}
    /\ proc' = [proc EXCEPT ![n] = "up"]
    /\ Fresh(n)
    /\ UNCHANGED <<db, dirs, count>>

-----------------------------------------------------------------------------
ProducerStep(n) ==
    \/ Scan(n)
    \/ \E t \in Tasks : Skip(n, t) \/ Choose(n, t)
    \/ Preempt(n) \/ Put(n) \/ ProducerExit(n)

WorkerStep(n, w) ==
    \/ Take(n, w) \/ CreateLog(n, w) \/ LinkLog(n, w)
    \/ HandlerOk(n, w) \/ HandlerErr(n, w)
    \/ Settle(n, w) \/ UpdateLog(n, w) \/ WorkerExit(n, w)

StopStep(n) ==
    Collect(n) \/ StopEnd(n) \/ \E t \in Tasks : Reset(n, t)

Environment(n) ==
    \/ Stop(n) \/ Crash(n) \/ Restart(n) \/ PreemptFault(n)
    \/ \E t \in Tasks : CreateTask(n, t)
    \/ \E w \in Workers : SettleFault(n, w)

Next ==
    \E n \in Nodes :
        \/ ProducerStep(n)
        \/ \E w \in Workers : WorkerStep(n, w)
        \/ StopStep(n)
        \/ Environment(n)

Spec == Init /\ [][Next]_vars

\* The scheduler runs every goroutine that can run, and a select that keeps
\* finding Done ready picks it in the end (it chooses at random).  Handlers
\* return: their calls are bounded by the clients' timeouts.  Nothing makes a
\* node stop, crash, restart or receive a request.
Fairness ==
    \A n \in Nodes :
        /\ WF_vars(ProducerStep(n))
        /\ SF_vars(ProducerExit(n))
        /\ \A w \in Workers :
              WF_vars(WorkerStep(n, w)) /\ SF_vars(WorkerExit(n, w))
        /\ WF_vars(StopStep(n))

FairSpec == Spec /\ Fairness

-----------------------------------------------------------------------------
(* Who holds a task: a place from which n may still run or settle it.       *)

InHand(n, t)      == Live(n) /\ ppc[n] = "put" /\ hand[n] = t
InQueue(n, i, t)  == Live(n) /\ i \in 1..Len(queue[n]) /\ queue[n][i] = t
Working           == {"create", "link", "run", "finish", "error"}
AtWorker(n, w, t) == Live(n) /\ wpc[n][w] \in Working /\ wjob[n][w] = t

Held(n, t) ==
    \/ InHand(n, t)
    \/ \E i \in 1..Len(queue[n]) : InQueue(n, i, t)
    \/ \E w \in Workers : AtWorker(n, w, t)

\* A Running row nobody holds: only the owner's StopTask can free it.
Stranded(t) == task[t].status = Running /\ \A n \in Nodes : ~Held(n, t)

ProcStates == {"up", "stopping", "resetting", "stopped", "down"}
WorkerPCs  == Working \cup {"idle", "logFinish", "logError", "exit"}

\* The type invariant.
TypeOK ==
    /\ task \in [Tasks -> TaskInfo]
    /\ logs \in Seq(TaskLog)
    /\ dirs \in [Nodes -> SUBSET Uids]
    /\ proc \in [Nodes -> ProcStates]
    /\ list \in [Nodes -> SUBSET Tasks]
    /\ ppc \in [Nodes -> {"scan", "preempt", "put", "exit"}]
    /\ hand \in [Nodes -> Tasks \cup {None}]
    /\ queue \in [Nodes -> Seq(Tasks)]
    /\ wpc \in [Nodes -> [Workers -> WorkerPCs]]
    /\ wjob \in [Nodes -> [Workers -> Tasks \cup {None}]]
    /\ wlog \in [Nodes -> [Workers -> Nat]]
    /\ stops \in Nat /\ crashes \in Nat /\ faults \in Nat

\* A node that holds a task is the one whose claim the row records: whatever
\* fails, no worker runs or settles a task that was reset or claimed by
\* another (PreemptiveTaskByID, ResetTaskByID, StopTask's waiting).
HolderOwns ==
    \A n \in Nodes, t \in Tasks :
        Held(n, t) => task[t].status = Running /\ task[t].node = n

\* A task is in one place at a time across the cluster: never in two workers,
\* two queue slots, or in a queue and a hand (at most one execution).
SingleHolder ==
    \A n, m \in Nodes, t \in Tasks :
        /\ Held(n, t) /\ Held(m, t) => n = m
        /\ \A w, v \in Workers : AtWorker(n, w, t) /\ AtWorker(n, v, t) => w = v
        /\ \A i, j \in 1..Len(queue[n]) :
              InQueue(n, i, t) /\ InQueue(n, j, t) => i = j
        /\ \A i \in 1..Len(queue[n]) :
              InQueue(n, i, t) => /\ ~InHand(n, t)
                                  /\ \A w \in Workers : ~AtWorker(n, w, t)
        /\ \A w \in Workers : AtWorker(n, w, t) => ~InHand(n, t)

\* The log never runs ahead of the table and no task is settled by two runs:
\* a row with an outcome agrees with its task, and is the task's only one.
LogsAgree ==
    \A i \in DOMAIN logs :
        logs[i].status \in Terminal =>
            /\ task[logs[i].task].status = logs[i].status
            /\ \A j \in DOMAIN logs :
                  logs[j].task = logs[i].task /\ logs[j].status \in Terminal => i = j

\* A stranded task comes back only through its owner's StopTask; no other
\* node's producer, worker or StopTask touches it.
StrandedFreedByOwner ==
    [][\A t \in Tasks :
          Stranded(t) /\ task'[t] # task[t] =>
              /\ proc[task[t].node] = "resetting"
              /\ task'[t] = [task[t] EXCEPT !.status = Undo, !.node = None]]_vars

\* An outcome is final: a finished or failed task is never run again, not by a
\* producer acting on a stale list nor by a reset.
OutcomeFinal ==
    [][\A t \in Tasks :
          task[t].status \in Terminal => task'[t].status = task[t].status]_vars

\* The lease each row is in (TaskLease), read off the table and the holders.
Phase(t) ==
    IF task[t].status # Running THEN task[t].status
    ELSE IF Stranded(t) THEN "stranded" ELSE "held"

Lease == INSTANCE TaskLease WITH
            phase <- [t \in Tasks |-> Phase(t)],
            owner <- [t \in Tasks |-> task[t].node]

\* The dispatch system implements the lease protocol: every step of producers,
\* workers, StopTask, crashes and faults is a lease step or invisible.
ImplementsLease == Lease!Spec

\* While a node stays up, a task it may merge does not wait forever, whatever
\* the queue holds.
UndoTaskClaimed ==
    \A n \in Nodes, t \in Tasks :
        (proc[n] = "up" /\ task[t].status = Undo /\ PreProcess(n, t))
            ~> (proc[n] # "up" \/ task[t].status # Undo \/ ~PreProcess(n, t))

\* While a node stays up, a task it holds is settled, or stranded by a fault.
HeldTaskSettles ==
    \A n \in Nodes, t \in Tasks :
        (proc[n] = "up" /\ Held(n, t)) ~> (proc[n] # "up" \/ ~Held(n, t))

\* The producer waits for room that no worker will make.
ProducerStuck(n) ==
    /\ proc[n] = "stopping" /\ ppc[n] = "put"
    /\ Len(queue[n]) = MaxQueue
    /\ \A w \in Workers : wpc[n][w] = "exit"

\* "wait for the producer and the consumers to terminate" (dispatch.go:44).
StopCompletes ==
    \A n \in Nodes : proc[n] = "stopping" ~> proc[n] \in {"stopped", "down"}

\* StopTask completes in every case but one.
StopCompletesOrStuck ==
    \A n \in Nodes :
        proc[n] = "stopping" ~> (proc[n] \in {"stopped", "down"} \/ ProducerStuck(n))

=============================================================================
