------------------------- MODULE TaskDispatchProofs -------------------------
(***************************************************************************)
(* Theorems about TaskDispatch for any nodes, workers, tasks and bounds, in *)
(* three parts: who holds a task, and what may become of it; task_log, a    *)
(* row of which with an outcome agrees with its task and is its only one;   *)
(* and TaskDispatch implements TaskLease: every step of the system is one   *)
(* of the lease or invisible to it.                                         *)
(***************************************************************************)
EXTENDS TaskDispatch, SequenceTheorems, TLAPS

\* A producer past its filter and a worker past its receive have a task.
JobsHeld ==
    /\ \A n \in Nodes : ppc[n] \in {"preempt", "put"} => hand[n] \in Tasks
    /\ \A n \in Nodes, w \in Workers :
          wpc[n][w] \notin {"idle", "exit"} => wjob[n][w] \in Tasks

Typed == TypeOK /\ JobsHeld

\* The inductive invariant: who holds what, with the types it needs.
IInv == Typed /\ HolderOwns /\ SingleHolder

-----------------------------------------------------------------------------
\* A system that starts has its variables in their types and no job in hand.
LEMMA TypedInit == Init => Typed
  BY TaskAssumption
  DEF Init, Typed, TypeOK, TaskInfo, TaskLog, JobsHeld, Statuses, Terminal, Absent, ProcStates, WorkerPCs, Working

\* Updates of one row of task_info, and of one worker's place, keep their types.
LEMMA RowTyped ==
  ASSUME TypeOK, NEW t \in Tasks
  PROVE  /\ \A s \in Statuses :
              [task EXCEPT ![t].status = s] \in [Tasks -> TaskInfo]
         /\ \A s \in Statuses, n \in Nodes \cup {None} :
              [task EXCEPT ![t].status = s, ![t].node = n] \in [Tasks -> TaskInfo]
         /\ \A i \in Nat : [task EXCEPT ![t].log = i] \in [Tasks -> TaskInfo]
<1>1. task \in [Tasks -> TaskInfo]
  BY DEF TypeOK, TaskInfo
<1> QED
  BY <1>1 DEF TaskInfo

\* Changing one worker's place, job or log id keeps their types.
LEMMA PlaceTyped ==
  ASSUME TypeOK, NEW n \in Nodes, NEW w \in Workers
  PROVE  /\ \A pc \in WorkerPCs :
              [wpc EXCEPT ![n][w] = pc] \in [Nodes -> [Workers -> WorkerPCs]]
         /\ \A t \in Tasks \cup {None} :
              [wjob EXCEPT ![n][w] = t] \in [Nodes -> [Workers -> Tasks \cup {None}]]
         /\ \A i \in Nat :
              [wlog EXCEPT ![n][w] = i] \in [Nodes -> [Workers -> Nat]]
<1> QED
  BY DEF TypeOK

\* Changing one worker's place or job leaves the others' alone.
LEMMA OthersKept ==
  ASSUME TypeOK, NEW n \in Nodes, NEW w \in Workers, NEW pc, NEW t,
         NEW m \in Nodes, NEW v \in Workers, m # n \/ v # w
  PROVE  /\ [wpc EXCEPT ![n][w] = pc][m][v] = wpc[m][v]
         /\ [wjob EXCEPT ![n][w] = t][m][v] = wjob[m][v]
<1>1. /\ wpc \in [Nodes -> [Workers -> WorkerPCs]]
      /\ wjob \in [Nodes -> [Workers -> Tasks \cup {None}]]
  BY DEF TypeOK
<1>2. CASE m = n
  BY <1>1, <1>2
<1>3. CASE m # n
  BY <1>1, <1>3
<1> QED
  BY <1>2, <1>3

\* So a worker that gives its job up, or keeps it, leaves the others alone.
LEMMA OthersAlone ==
  ASSUME TypeOK, NEW n \in Nodes, NEW w \in Workers,
         \E pc \in WorkerPCs : wpc' = [wpc EXCEPT ![n][w] = pc],
         wjob' = wjob \/ wjob' = [wjob EXCEPT ![n][w] = None]
  PROVE  \A m \in Nodes, v \in Workers : (m # n \/ v # w) =>
            wpc'[m][v] = wpc[m][v] /\ wjob'[m][v] = wjob[m][v]
<1> SUFFICES ASSUME NEW m \in Nodes, NEW v \in Workers, m # n \/ v # w
             PROVE  wpc'[m][v] = wpc[m][v] /\ wjob'[m][v] = wjob[m][v]
  OBVIOUS
<1>1. wpc'[m][v] = wpc[m][v]
  <2>1. PICK pc : wpc' = [wpc EXCEPT ![n][w] = pc]
    OBVIOUS
  <2> QED
    BY <2>1, OthersKept
<1>2. CASE wjob' = [wjob EXCEPT ![n][w] = None]
  BY <1>1, <1>2, OthersKept
<1>3. CASE wjob' = wjob
  BY <1>1, <1>3
<1> QED
  BY <1>2, <1>3

\* A log table with the outcome written into one row.
LEMMA OutcomeLogged ==
  ASSUME TypeOK, NEW i \in Nat, NEW s \in Terminal
  PROVE  [j \in DOMAIN logs |-> IF j = i THEN [logs[j] EXCEPT !.status = s] ELSE logs[j]]
            \in Seq(TaskLog)
<1> DEFINE new(j) == IF j = i THEN [logs[j] EXCEPT !.status = s] ELSE logs[j]
<1>1. logs \in Seq(TaskLog) /\ DOMAIN logs = 1..Len(logs) /\ Len(logs) \in Nat
  BY DEF TypeOK, TaskLog
<1>2. ASSUME NEW j \in 1..Len(logs) PROVE new(j) \in TaskLog
  <2>1. logs[j] \in TaskLog
    BY <1>1
  <2> QED
    BY <2>1 DEF TaskLog
<1>3. [j \in 1..Len(logs) |-> new(j)] \in Seq(TaskLog)
  <2> HIDE DEF new
  <2> QED
    BY <1>1, <1>2, IsASeq
<1> QED
  BY <1>1, <1>3

\* Every step of producers, workers, StopTask and the environment keeps the
\* types and the jobs held.
LEMMA TypedNext == Typed /\ [Next]_vars => Typed'
<1> SUFFICES ASSUME Typed, [Next]_vars PROVE Typed'
  OBVIOUS
<1> USE DEF Typed
<1>0. /\ task \in [Tasks -> TaskInfo]
      /\ logs \in Seq(TaskLog)
      /\ {Undo, Running, Finish, Error} \subseteq Statuses
  BY DEF TypeOK, TaskInfo, TaskLog, Statuses, Terminal
<1>1. CASE UNCHANGED vars
  BY <1>1 DEF vars, TypeOK, JobsHeld
<1>2. ASSUME NEW n \in Nodes, ProducerStep(n) \/ StopStep(n) \/ PreemptFault(n)
      PROVE  Typed'
  <2> USE DEF prod, work, count, db
  <2>1. CASE Scan(n)
    BY <2>1 DEF Scan, WithStatus, TypeOK, JobsHeld
  <2>2. ASSUME NEW t \in Tasks, Skip(n, t) PROVE Typed'
    BY <2>2 DEF Skip, Visited, Fault, NoFault, TypeOK, JobsHeld
  <2>3. ASSUME NEW t \in Tasks, Choose(n, t) PROVE Typed'
    BY <2>3 DEF Choose, Visited, Fault, NoFault, TypeOK, JobsHeld
  <2>4. ASSUME Preempt(n) \/ PreemptFault(n) PROVE Typed'
    <3>1. hand[n] \in Tasks
      BY <2>4 DEF Preempt, PreemptFault, JobsHeld
    <3>2. task' \in [Tasks -> TaskInfo]
      <4>1. [task EXCEPT ![hand[n]].status = Running, ![hand[n]].node = n]
               \in [Tasks -> TaskInfo]
        BY <1>0, <3>1, RowTyped
      <4> QED
        BY <2>4, <1>0, <4>1 DEF Preempt, PreemptFault, PreemptiveTaskByID
    <3>3. /\ ppc' \in [Nodes -> {"scan", "preempt", "put", "exit"}]
          /\ hand' \in [Nodes -> Tasks \cup {None}]
          /\ \A m \in Nodes : ppc'[m] \in {"preempt", "put"} => hand'[m] \in Tasks
      BY <2>4 DEF Preempt, PreemptFault, NextRow, TypeOK, JobsHeld
    <3>4. /\ faults' \in Nat
          /\ UNCHANGED <<logs, dirs, proc, list, queue, wpc, wjob, wlog, stops, crashes>>
      BY <2>4 DEF Preempt, PreemptFault, Fault, TypeOK
    <3> QED
      BY <3>2, <3>3, <3>4 DEF TaskInfo, TypeOK, JobsHeld
  <2>5. CASE Put(n)
    <3>1. queue' \in [Nodes -> Seq(Tasks)]
      <4>1. hand[n] \in Tasks /\ queue[n] \in Seq(Tasks)
        BY <2>5 DEF Put, JobsHeld, TypeOK
      <4>2. Append(queue[n], hand[n]) \in Seq(Tasks)
        BY <4>1
      <4> QED
        BY <2>5, <4>2 DEF Put, TypeOK
    <3> QED
      BY <2>5, <3>1 DEF Put, NextRow, TypeOK, JobsHeld
  <2>6. CASE ProducerExit(n)
    BY <2>6 DEF ProducerExit, TypeOK, JobsHeld
  <2>7. CASE Collect(n)
    <3>1. list' \in [Nodes -> SUBSET Tasks]
      <4>1. WithStatus(Running) \in SUBSET Tasks /\ list \in [Nodes -> SUBSET Tasks]
        BY DEF WithStatus, TypeOK
      <4> QED
        BY <2>7, <4>1 DEF Collect
    <3>2. faults' \in Nat
      BY <2>7 DEF Collect, Fault, NoFault, TypeOK
    <3> QED
      BY <2>7, <3>1, <3>2 DEF Collect, TypeOK, JobsHeld, ProcStates
  <2>8. CASE StopEnd(n)
    BY <2>8 DEF StopEnd, TypeOK, JobsHeld, ProcStates
  <2>9. ASSUME NEW t \in Tasks, Reset(n, t) PROVE Typed'
    <3>1. task' \in [Tasks -> TaskInfo]
      <4>1. [task EXCEPT ![t].status = Undo, ![t].node = None] \in [Tasks -> TaskInfo]
        BY <1>0, RowTyped
      <4> QED
        BY <2>9, <1>0, <4>1 DEF Reset, ResetTaskByID
    <3> QED
      BY <2>9, <3>1 DEF Reset, Visited, Fault, NoFault, TaskInfo, TypeOK, JobsHeld
  <2> QED
    BY <1>2, <2>1, <2>2, <2>3, <2>4, <2>5, <2>6, <2>7, <2>8, <2>9
    DEF ProducerStep, StopStep
<1>3. ASSUME NEW n \in Nodes, NEW w \in Workers, WorkerStep(n, w) \/ SettleFault(n, w)
      PROVE  Typed'
  <2> USE DEF prod, count, db
  <2>0. \A pc \in WorkerPCs : Goto(n, w, pc) =>
            /\ wpc' \in [Nodes -> [Workers -> WorkerPCs]]
            /\ wpc'[n][w] = pc
            /\ \A m \in Nodes, v \in Workers :
                  <<m, v>> # <<n, w>> => wpc'[m][v] = wpc[m][v]
    BY DEF Goto, TypeOK
  <2>n. NextJob(n, w) =>
            /\ wpc' \in [Nodes -> [Workers -> WorkerPCs]]
            /\ wjob' \in [Nodes -> [Workers -> Tasks \cup {None}]]
            /\ wlog' \in [Nodes -> [Workers -> Nat]]
            /\ JobsHeld' \/ <<ppc, hand>>' # <<ppc, hand>>
    BY DEF NextJob, Goto, TypeOK, JobsHeld, WorkerPCs
  <2>1. CASE Take(n, w)
    <3>1. Head(queue[n]) \in Tasks /\ Tail(queue[n]) \in Seq(Tasks)
      BY <2>1 DEF Take, TypeOK
    <3>2. wpc' \in [Nodes -> [Workers -> WorkerPCs]]
      BY <2>0, <2>1 DEF Take, WorkerPCs, Working
    <3>3. queue' \in [Nodes -> Seq(Tasks)]
      BY <2>1, <3>1 DEF Take, TypeOK
    <3>4. wjob' \in [Nodes -> [Workers -> Tasks \cup {None}]] /\ JobsHeld'
      BY <2>1, <3>1 DEF Take, Goto, TypeOK, JobsHeld
    <3> QED
      BY <2>1, <3>2, <3>3, <3>4 DEF Take, TypeOK
  <2>2. CASE CreateLog(n, w)
    <3>1. wjob[n][w] \in Tasks
      BY <2>2 DEF CreateLog, At, JobsHeld
    <3>2. logs' \in Seq(TaskLog)
      <4>1. [task |-> wjob[n][w], status |-> Running] \in TaskLog
        BY <3>1 DEF TaskLog
      <4>2. Append(logs, [task |-> wjob[n][w], status |-> Running]) \in Seq(TaskLog)
        BY <1>0, <4>1, AppendProperties
      <4> QED
        BY <2>2, <1>0, <4>2 DEF CreateLog
    <3>3. wlog' \in [Nodes -> [Workers -> Nat]]
      <4>1. PICK i \in Nat : wlog' = [wlog EXCEPT ![n][w] = i]
        <5>1. Len(logs) + 1 \in Nat /\ 0 \in Nat
          BY <1>0
        <5> QED
          BY <2>2, <5>1 DEF CreateLog
      <4> QED
        BY <4>1, PlaceTyped
    <3>4. wpc' \in [Nodes -> [Workers -> WorkerPCs]] /\ JobsHeld'
      BY <2>2, <3>1 DEF CreateLog, Goto, TypeOK, JobsHeld, WorkerPCs, Working
    <3> QED
      BY <2>2, <3>2, <3>3, <3>4 DEF CreateLog, Fault, NoFault, TypeOK, TaskLog
  <2>3. CASE LinkLog(n, w)
    <3>1. wjob[n][w] \in Tasks
      BY <2>3 DEF LinkLog, At, JobsHeld
    <3>2. task' \in [Tasks -> TaskInfo]
      <4>1. [task EXCEPT ![wjob[n][w]].log = wlog[n][w]] \in [Tasks -> TaskInfo]
        <5>1. wlog[n][w] \in Nat
          BY DEF TypeOK
        <5> QED
          BY <5>1, <3>1, RowTyped
      <4> QED
        BY <2>3, <1>0, <4>1 DEF LinkLog
    <3>3. wpc' \in [Nodes -> [Workers -> WorkerPCs]] /\ JobsHeld'
      BY <2>3, <3>1 DEF LinkLog, Goto, TypeOK, JobsHeld, WorkerPCs, Working
    <3> QED
      BY <2>3, <3>2, <3>3 DEF LinkLog, Fault, NoFault, TaskInfo, TypeOK
  <2>4. ASSUME HandlerOk(n, w) \/ HandlerErr(n, w) PROVE Typed'
    <3>1. wpc' \in [Nodes -> [Workers -> WorkerPCs]]
      BY <2>4, <2>0 DEF HandlerOk, HandlerErr, WorkerPCs, Working
    <3>j. JobsHeld'
      <4>1. wjob[n][w] \in Tasks /\ UNCHANGED <<wjob, ppc, hand>>
        BY <2>4 DEF HandlerOk, HandlerErr, At, JobsHeld
      <4>2. PICK pc : wpc' = [wpc EXCEPT ![n][w] = pc]
        BY <2>4 DEF HandlerOk, HandlerErr, Goto
      <4>3. \A m \in Nodes, v \in Workers : (m # n \/ v # w) => wpc'[m][v] = wpc[m][v]
        BY <4>2, OthersKept
      <4>4. \A m \in Nodes, v \in Workers :
               wpc'[m][v] \notin {"idle", "exit"} => wjob'[m][v] \in Tasks
        BY <4>1, <4>3 DEF JobsHeld
      <4> QED
        BY <4>1, <4>4 DEF JobsHeld
    <3>2. dirs' \in [Nodes -> SUBSET Uids]
      <4>1. dirs' = dirs \/ \E S : dirs' = [dirs EXCEPT ![n] = @ \ S]
        BY <2>4 DEF HandlerOk, HandlerErr
      <4>2. dirs \in [Nodes -> SUBSET Uids]
        BY DEF TypeOK
      <4> QED
        BY <4>1, <4>2
    <3> QED
      BY <2>4, <3>1, <3>j, <3>2 DEF HandlerOk, HandlerErr, TypeOK
  <2>5. ASSUME Settle(n, w) \/ SettleFault(n, w) PROVE Typed'
    <3>1. wjob[n][w] \in Tasks
      BY <2>5 DEF Settle, SettleFault, JobsHeld
    <3>2. task' \in [Tasks -> TaskInfo]
      <4>1. [task EXCEPT ![wjob[n][w]].status = Outcome(wpc[n][w])] \in [Tasks -> TaskInfo]
        BY <1>0, <3>1, RowTyped DEF Outcome
      <4> QED
        BY <2>5, <1>0, <4>1 DEF Settle, SettleFault, SettleTaskByID
    <3>3. /\ wpc' \in [Nodes -> [Workers -> WorkerPCs]]
          /\ wjob' \in [Nodes -> [Workers -> Tasks \cup {None}]]
          /\ wlog' \in [Nodes -> [Workers -> Nat]]
          /\ JobsHeld'
      <4>1. CASE NextJob(n, w)
        BY <2>5, <2>n, <4>1 DEF Settle, SettleFault
      <4>2. CASE UNCHANGED <<wjob, wlog>> /\ Settle(n, w) /\ ~NextJob(n, w)
        <5>0. UNCHANGED <<ppc, hand>> /\ \E pc \in {"logFinish", "logError"} : Goto(n, w, pc)
          BY <4>2 DEF Settle
        <5>1. wpc' \in [Nodes -> [Workers -> WorkerPCs]]
          BY <5>0 DEF Goto, TypeOK, WorkerPCs
        <5>2. JobsHeld'
          BY <5>0, <4>2, <3>1 DEF Goto, TypeOK, JobsHeld
        <5> QED
          BY <4>2, <5>1, <5>2 DEF TypeOK
      <4> QED
        BY <2>5, <4>1, <4>2 DEF Settle, SettleFault
    <3>4. faults' \in Nat /\ UNCHANGED <<logs, dirs, proc, list, ppc, hand, queue, stops, crashes>>
      BY <2>5 DEF Settle, SettleFault, Fault, TypeOK
    <3> QED
      BY <3>2, <3>3, <3>4 DEF TaskInfo, TypeOK
  <2>6. CASE UpdateLog(n, w)
    <3>1. logs' \in Seq(TaskLog)
      <4>1. wlog[n][w] \in Nat /\ Outcome(wpc[n][w]) \in Terminal
        BY DEF TypeOK, Outcome, Terminal
      <4> QED
        BY <2>6, <1>0, <4>1, OutcomeLogged DEF UpdateLog
    <3>2. NextJob(n, w) /\ faults' \in Nat
          /\ UNCHANGED <<task, dirs, proc, list, ppc, hand, queue, stops, crashes>>
      BY <2>6 DEF UpdateLog, Fault, NoFault, TypeOK
    <3> QED
      BY <2>n, <3>1, <3>2 DEF TaskLog, TypeOK
  <2>7. CASE WorkerExit(n, w)
    BY <2>7 DEF WorkerExit, Goto, TypeOK, JobsHeld, WorkerPCs
  <2> QED
    BY <1>3, <2>1, <2>2, <2>3, <2>4, <2>5, <2>6, <2>7 DEF WorkerStep
<1>4. ASSUME NEW n \in Nodes,
             Stop(n) \/ Crash(n) \/ Restart(n) \/ \E t \in Tasks : CreateTask(n, t)
      PROVE  Typed'
  <2> USE DEF prod, work, count, db
  <2>1. ASSUME NEW t \in Tasks, CreateTask(n, t) PROVE Typed'
    <3>1. task' \in [Tasks -> TaskInfo]
      BY <2>1, <1>0, RowTyped DEF CreateTask
    <3> QED
      BY <2>1, <3>1 DEF CreateTask, TaskInfo, TypeOK, JobsHeld
  <2>2. CASE Stop(n)
    BY <2>2 DEF Stop, TypeOK, JobsHeld, ProcStates
  <2>3. Fresh(n) => /\ list' \in [Nodes -> SUBSET Tasks]
                    /\ ppc' \in [Nodes -> {"scan", "preempt", "put", "exit"}]
                    /\ hand' \in [Nodes -> Tasks \cup {None}]
                    /\ queue' \in [Nodes -> Seq(Tasks)]
                    /\ wpc' \in [Nodes -> [Workers -> WorkerPCs]]
                    /\ wjob' \in [Nodes -> [Workers -> Tasks \cup {None}]]
                    /\ wlog' \in [Nodes -> [Workers -> Nat]]
                    /\ JobsHeld'
    <3> SUFFICES ASSUME Fresh(n)
                 PROVE  /\ list' \in [Nodes -> SUBSET Tasks]
                        /\ ppc' \in [Nodes -> {"scan", "preempt", "put", "exit"}]
                        /\ hand' \in [Nodes -> Tasks \cup {None}]
                        /\ queue' \in [Nodes -> Seq(Tasks)]
                        /\ wpc' \in [Nodes -> [Workers -> WorkerPCs]]
                        /\ wjob' \in [Nodes -> [Workers -> Tasks \cup {None}]]
                        /\ wlog' \in [Nodes -> [Workers -> Nat]]
                        /\ JobsHeld'
      OBVIOUS
    <3>1. [w \in Workers |-> "idle"] \in [Workers -> WorkerPCs]
      BY DEF WorkerPCs
    <3>2. [w \in Workers |-> None] \in [Workers -> Tasks \cup {None}]
      OBVIOUS
    <3>3. [w \in Workers |-> 0] \in [Workers -> Nat]
      OBVIOUS
    <3>4. wpc' \in [Nodes -> [Workers -> WorkerPCs]]
      BY <3>1 DEF Fresh, TypeOK
    <3>5. wjob' \in [Nodes -> [Workers -> Tasks \cup {None}]]
      BY <3>2 DEF Fresh, TypeOK
    <3>6. wlog' \in [Nodes -> [Workers -> Nat]]
      BY <3>3 DEF Fresh, TypeOK
    <3>7. /\ list' \in [Nodes -> SUBSET Tasks]
          /\ ppc' \in [Nodes -> {"scan", "preempt", "put", "exit"}]
          /\ hand' \in [Nodes -> Tasks \cup {None}]
          /\ queue' \in [Nodes -> Seq(Tasks)]
      BY DEF Fresh, TypeOK
    <3>8. JobsHeld'
      BY DEF Fresh, TypeOK, JobsHeld
    <3> QED
      BY <3>4, <3>5, <3>6, <3>7, <3>8
  <2>4. CASE Crash(n)
    <3>1. proc' \in [Nodes -> ProcStates] /\ crashes' \in Nat
      BY <2>4 DEF Crash, TypeOK, ProcStates
    <3> QED
      BY <2>4, <2>3, <3>1 DEF Crash, TypeOK
  <2>5. CASE Restart(n)
    <3>1. proc' \in [Nodes -> ProcStates]
      BY <2>5 DEF Restart, TypeOK, ProcStates
    <3> QED
      BY <2>5, <2>3, <3>1 DEF Restart, TypeOK
  <2> QED
    BY <1>4, <2>1, <2>2, <2>4, <2>5
<1> QED
  BY <1>1, <1>2, <1>3, <1>4 DEF Next, Environment

-----------------------------------------------------------------------------
\* The places a task can be held in, as they are after a step, are places it
\* was held in before, and the row of a task still held is still its holder's.
Shrinks ==
    \A n \in Nodes, t \in Tasks :
        /\ InHand(n, t)' => InHand(n, t)
        /\ \A i \in Nat : InQueue(n, i, t)' => InQueue(n, i, t)
        /\ \A w \in Workers : AtWorker(n, w, t)' => AtWorker(n, w, t)
        /\ Held(n, t)' => /\ task'[t].status = task[t].status
                          /\ task'[t].node = task[t].node

\* A step that only takes holders away keeps the holders right.
LEMMA ShrinkKeeps ==
  ASSUME TypeOK, TypeOK', HolderOwns, SingleHolder, Shrinks
  PROVE  HolderOwns' /\ SingleHolder'
<1>1. \A n \in Nodes, t \in Tasks : Held(n, t)' => Held(n, t)
  <2> SUFFICES ASSUME NEW n \in Nodes, NEW t \in Tasks, Held(n, t)' PROVE Held(n, t)
    OBVIOUS
  <2>1. ASSUME NEW i \in 1..Len(queue'[n]), InQueue(n, i, t)' PROVE Held(n, t)
    <3>1. i \in Nat
      BY <2>1 DEF TypeOK
    <3>2. InQueue(n, i, t)
      BY <2>1, <3>1 DEF Shrinks
    <3> QED
      BY <3>2 DEF InQueue, Held
  <2> QED
    BY <2>1 DEF Shrinks, Held
<1>2. HolderOwns'
  BY <1>1 DEF HolderOwns, Shrinks
<1>3. ASSUME NEW n \in Nodes, NEW i \in 1..Len(queue'[n]), NEW t \in Tasks, InQueue(n, i, t)'
      PROVE  i \in 1..Len(queue[n]) /\ InQueue(n, i, t)
  <2>1. i \in Nat
    BY <1>3 DEF TypeOK
  <2> QED
    BY <2>1, <1>3 DEF Shrinks, InQueue
<1>4. SingleHolder'
  BY <1>1, <1>3 DEF SingleHolder, Shrinks
<1> QED
  BY <1>2, <1>4

\* What runs a task is all that holds it.
LEMMA SoleHolder ==
  ASSUME SingleHolder, NEW n \in Nodes, NEW w \in Workers, NEW t \in Tasks,
         AtWorker(n, w, t)
  PROVE  /\ ~InHand(n, t)
         /\ \A i \in Nat : ~InQueue(n, i, t)
         /\ \A v \in Workers : AtWorker(n, v, t) => v = w
         /\ \A m \in Nodes : Held(m, t) => m = n
<1>1. Held(n, t)
  BY DEF Held
<1>2. \A i \in Nat : ~InQueue(n, i, t)
  BY DEF SingleHolder, InQueue
<1> QED
  BY <1>1, <1>2 DEF SingleHolder

\* The producer's steps: only a claim and a put make a holder.
LEMMA ProducerKeeps ==
  ASSUME IInv, Typed', NEW n \in Nodes, ProducerStep(n) \/ PreemptFault(n)
  PROVE  HolderOwns' /\ SingleHolder'
<1> USE DEF IInv, Typed
<1>1. ASSUME NEW t \in Tasks,
             Scan(n) \/ Skip(n, t) \/ Choose(n, t) \/ ProducerExit(n)
      PROVE  Shrinks
  <2>1. UNCHANGED <<task, proc, queue, wpc, wjob>>
    BY <1>1 DEF Scan, Skip, Choose, ProducerExit, db, work
  <2>2. \A m \in Nodes : ppc'[m] = "put" => ppc[m] = "put" /\ hand'[m] = hand[m]
    BY <1>1 DEF Scan, Skip, Choose, ProducerExit, TypeOK
  <2> QED
    BY <2>1, <2>2 DEF Shrinks, Held, InHand, InQueue, AtWorker, Live
<1>2. CASE ppc'[n] = "scan" /\ (Preempt(n) \/ PreemptFault(n))
  <2>1. UNCHANGED <<proc, queue, wpc, wjob>>
    BY <1>2 DEF Preempt, PreemptFault, work
  <2>2. \A m \in Nodes : ppc'[m] = "put" => ppc[m] = "put" /\ hand'[m] = hand[m]
    BY <1>2 DEF Preempt, PreemptFault, NextRow, TypeOK
  <2>3. ASSUME NEW m \in Nodes, NEW t \in Tasks, Held(m, t)
        PROVE  task'[t].status = task[t].status /\ task'[t].node = task[t].node
    <3>1. task[t].status = Running
      BY <2>3 DEF HolderOwns
    <3>2. task' = task \/ (hand[n] \in Tasks /\ hand[n] # t /\ PreemptiveTaskByID(n, hand[n]))
      BY <1>2, <3>1
      DEF Preempt, PreemptFault, Claimable, Undo, Running, JobsHeld
    <3> QED
      BY <3>2 DEF PreemptiveTaskByID, TypeOK
  <2>4. Shrinks
    BY <2>1, <2>2, <2>3 DEF Shrinks, Held, InHand, InQueue, AtWorker, Live
  <2> QED
    BY <2>4, ShrinkKeeps
<1>3. CASE ppc'[n] # "scan" /\ Preempt(n)
  <2> DEFINE t0 == hand[n]
  <2>1. /\ t0 \in Tasks
        /\ task[t0].status = Undo
        /\ PreemptiveTaskByID(n, t0)
        /\ ppc' = [ppc EXCEPT ![n] = "put"]
        /\ UNCHANGED <<proc, hand, queue, wpc, wjob>>
    BY <1>3 DEF Preempt, Claimable, NextRow, JobsHeld, TypeOK, work
  <2>2. \A m \in Nodes : ~Held(m, t0)
    BY <2>1 DEF HolderOwns, Undo, Running
  <2>3. task'[t0].status = Running /\ task'[t0].node = n
    BY <2>1 DEF PreemptiveTaskByID, TypeOK
  <2>4. \A t \in Tasks \ {t0} : task'[t] = task[t]
    BY <2>1 DEF PreemptiveTaskByID, TypeOK
  <2>5. \A m \in Nodes, t \in Tasks :
           /\ InHand(m, t)' <=> InHand(m, t) \/ (m = n /\ t = t0)
           /\ \A w \in Workers : AtWorker(m, w, t)' <=> AtWorker(m, w, t)
           /\ \A i : InQueue(m, i, t)' <=> InQueue(m, i, t)
    <3>1. Live(n) /\ ppc[n] = "preempt"
      BY <1>3 DEF Preempt
    <3> QED
      BY <2>1, <3>1 DEF InHand, AtWorker, InQueue, Live, TypeOK
  <2>6. \A m \in Nodes, t \in Tasks : Held(m, t)' <=> Held(m, t) \/ (m = n /\ t = t0)
    BY <2>1, <2>5 DEF Held
  <2>7. HolderOwns'
    <3> SUFFICES ASSUME NEW m \in Nodes, NEW t \in Tasks, Held(m, t)'
                 PROVE  task'[t].status = Running /\ task'[t].node = m
      BY DEF HolderOwns
    <3>1. CASE t = t0
      BY <3>1, <2>2, <2>3, <2>6
    <3>2. CASE t # t0
      BY <3>2, <2>4, <2>6 DEF HolderOwns
    <3> QED
      BY <3>1, <3>2
  <2>8. /\ \A w \in Workers : ~AtWorker(n, w, t0)
        /\ \A i \in 1..Len(queue[n]) : ~InQueue(n, i, t0)
        /\ ~InHand(n, t0)
    BY <2>2 DEF Held
  <2>9. SingleHolder'
    BY <2>1, <2>2, <2>5, <2>6, <2>8 DEF SingleHolder
  <2> QED
    BY <2>7, <2>9
<1>4. CASE Put(n)
  <2> DEFINE t0 == hand[n]
             k  == Len(queue[n]) + 1
  <2>1. /\ t0 \in Tasks
        /\ InHand(n, t0)
        /\ queue' = [queue EXCEPT ![n] = Append(@, t0)]
        /\ NextRow(n)
        /\ UNCHANGED <<task, proc, wpc, wjob>>
    BY <1>4 DEF Put, InHand, JobsHeld, db, work
  <2>2. /\ queue[n] \in Seq(Tasks) /\ Len(queue[n]) \in Nat
        /\ Len(queue'[n]) = k /\ queue'[n][k] = t0
        /\ \A i \in 1..Len(queue[n]) : queue'[n][i] = queue[n][i]
    BY <2>1 DEF TypeOK
  <2>3. \A m \in Nodes \ {n} : queue'[m] = queue[m]
    BY <2>1 DEF TypeOK
  <2>4. \A m \in Nodes, t \in Tasks :
           /\ InHand(m, t)' <=> InHand(m, t) /\ m # n
           /\ \A w \in Workers : AtWorker(m, w, t)' <=> AtWorker(m, w, t)
    BY <2>1 DEF InHand, AtWorker, Live, NextRow, TypeOK
  <2>5. \A m \in Nodes, t \in Tasks, i \in Nat :
           InQueue(m, i, t)' <=> InQueue(m, i, t) \/ (m = n /\ i = k /\ t = t0)
    <3>1. Live(n)
      BY <2>1 DEF InHand
    <3>2. ASSUME NEW m \in Nodes \ {n}, NEW t \in Tasks, NEW i \in Nat
          PROVE  InQueue(m, i, t)' <=> InQueue(m, i, t)
      BY <2>1, <2>3 DEF InQueue, Live
    <3>3. ASSUME NEW t \in Tasks, NEW i \in Nat
          PROVE  InQueue(n, i, t)' <=> InQueue(n, i, t) \/ (i = k /\ t = t0)
      BY <2>1, <2>2, <3>1 DEF InQueue, Live
    <3> QED
      BY <3>2, <3>3, <2>2
  <2>6. \A m \in Nodes : 1..Len(queue[m]) \subseteq Nat /\ 1..Len(queue'[m]) \subseteq Nat
    BY DEF TypeOK
  <2>7. \A t \in Tasks, m \in Nodes : Held(m, t)' <=> Held(m, t)
    <3> SUFFICES ASSUME NEW m \in Nodes, NEW t \in Tasks PROVE Held(m, t)' <=> Held(m, t)
      OBVIOUS
    <3>1. (\E i \in 1..Len(queue'[m]) : InQueue(m, i, t)')
             <=> (\E i \in 1..Len(queue[m]) : InQueue(m, i, t)) \/ (m = n /\ t = t0)
      <4>1. \A i \in Nat : InQueue(m, i, t) => i \in 1..Len(queue[m])
        BY DEF InQueue
      <4>2. \A i \in Nat : InQueue(m, i, t)' => i \in 1..Len(queue'[m])
        BY DEF InQueue
      <4>3. k \in Nat
        BY <2>2
      <4> QED
        BY <4>1, <4>2, <4>3, <2>5, <2>6
    <3>2. InHand(m, t) <=> InHand(m, t)' \/ (m = n /\ t = t0)
      BY <2>1, <2>4 DEF InHand
    <3> QED
      BY <3>1, <3>2, <2>4 DEF Held
  <2>8. HolderOwns'
    BY <2>1, <2>7 DEF HolderOwns
  <2>9. SingleHolder'
    <3>1. /\ \A w \in Workers : ~AtWorker(n, w, t0)
          /\ \A i \in Nat : ~InQueue(n, i, t0)
      BY <2>1 DEF SingleHolder, InQueue
    <3>2. \A m \in Nodes, t \in Tasks, i \in Nat :
             InQueue(m, i, t) => i \in 1..Len(queue[m])
      BY DEF InQueue
    <3>3. ASSUME NEW m \in Nodes, NEW t \in Tasks,
                 NEW i \in 1..Len(queue'[m]), NEW j \in 1..Len(queue'[m]),
                 InQueue(m, i, t)', InQueue(m, j, t)'
          PROVE  i = j
      BY <3>1, <3>2, <3>3, <2>5, <2>6 DEF SingleHolder
    <3>4. ASSUME NEW m \in Nodes, NEW t \in Tasks,
                 NEW i \in 1..Len(queue'[m]), InQueue(m, i, t)'
          PROVE  ~InHand(m, t)' /\ \A w \in Workers : ~AtWorker(m, w, t)'
      BY <3>1, <3>2, <3>4, <2>4, <2>5, <2>6 DEF SingleHolder
    <3> QED
      BY <3>3, <3>4, <2>4, <2>7 DEF SingleHolder
  <2> QED
    BY <2>8, <2>9
<1>5. CASE \E t \in Tasks : Skip(n, t) \/ Choose(n, t)
  BY <1>1, <1>5, ShrinkKeeps
<1>6. CASE Scan(n) \/ ProducerExit(n)
  <2>1. Tasks = {} => Shrinks
    BY DEF Shrinks
  <2> QED
    BY <1>1, <1>6, <2>1, ShrinkKeeps
<1> QED
  BY <1>2, <1>3, <1>4, <1>5, <1>6 DEF ProducerStep, PreemptFault, NextRow, TypeOK

\* The worker's steps: a take moves the head of the queue, the others run or
\* drop what the worker has.
LEMMA WorkerKeeps ==
  ASSUME IInv, Typed', NEW n \in Nodes, NEW w \in Workers,
         WorkerStep(n, w) \/ SettleFault(n, w)
  PROVE  HolderOwns' /\ SingleHolder'
<1> USE DEF IInv, Typed
<1>1. CASE Take(n, w)
  <2> DEFINE t0 == Head(queue[n])
  <2>1. /\ Live(n) /\ wpc[n][w] = "idle"
        /\ queue[n] # <<>>
        /\ wjob' = [wjob EXCEPT ![n][w] = t0]
        /\ queue' = [queue EXCEPT ![n] = Tail(@)]
        /\ wpc' = [wpc EXCEPT ![n][w] = "create"]
        /\ UNCHANGED <<task, proc, ppc, hand>>
    BY <1>1 DEF Take, At, Goto, db, prod
  <2>2. /\ queue[n] \in Seq(Tasks) /\ Len(queue[n]) \in Nat \ {0}
        /\ t0 \in Tasks /\ InQueue(n, 1, t0)
        /\ Len(queue'[n]) = Len(queue[n]) - 1
        /\ \A i \in 1..Len(queue'[n]) : queue'[n][i] = queue[n][i + 1]
    BY <2>1 DEF TypeOK, InQueue
  <2>3. \A m \in Nodes \ {n} : queue'[m] = queue[m]
    BY <2>1 DEF TypeOK
  <2>4. \A m \in Nodes, t \in Tasks :
           /\ InHand(m, t)' <=> InHand(m, t)
           /\ \A v \in Workers :
                AtWorker(m, v, t)' <=> AtWorker(m, v, t) \/ (m = n /\ v = w /\ t = t0)
    <3>1. \A m \in Nodes, v \in Workers :
             /\ wpc'[m][v] = IF m = n /\ v = w THEN "create" ELSE wpc[m][v]
             /\ wjob'[m][v] = IF m = n /\ v = w THEN t0 ELSE wjob[m][v]
      <4> SUFFICES ASSUME NEW m \in Nodes, NEW v \in Workers
                   PROVE  /\ wpc'[m][v] = IF m = n /\ v = w THEN "create" ELSE wpc[m][v]
                          /\ wjob'[m][v] = IF m = n /\ v = w THEN t0 ELSE wjob[m][v]
        OBVIOUS
      <4> HIDE DEF t0
      <4>1. wpc'[m][v] = IF m = n /\ v = w THEN "create" ELSE wpc[m][v]
        BY <2>1 DEF TypeOK
      <4>2. wjob'[m][v] = IF m = n /\ v = w THEN t0 ELSE wjob[m][v]
        BY <2>1 DEF TypeOK
      <4> QED
        BY <4>1, <4>2
    <3>2. \A m \in Nodes, t \in Tasks : InHand(m, t)' <=> InHand(m, t)
      <4>1. UNCHANGED <<proc, ppc, hand>>
        BY <2>1
      <4> QED
        BY <4>1 DEF InHand, Live
    <3>3. ASSUME NEW m \in Nodes, NEW t \in Tasks, NEW v \in Workers
          PROVE  AtWorker(m, v, t)' <=> AtWorker(m, v, t) \/ (m = n /\ v = w /\ t = t0)
      <4>1. CASE m = n /\ v = w
        BY <2>1, <3>1, <4>1 DEF AtWorker, Live, Working
      <4>2. CASE ~(m = n /\ v = w)
        BY <2>1, <3>1, <4>2 DEF AtWorker, Live
      <4> QED
        BY <4>1, <4>2
    <3> QED
      BY <3>2, <3>3
  <2>5. \A m \in Nodes, t \in Tasks, i \in Nat :
           InQueue(m, i, t)' <=> InQueue(m, IF m = n THEN i + 1 ELSE i, t) /\ i # 0
    <3>2. ASSUME NEW m \in Nodes \ {n}, NEW t \in Tasks, NEW i \in Nat
          PROVE  InQueue(m, i, t)' <=> InQueue(m, i, t) /\ i # 0
      <4>1. queue'[m] = queue[m] /\ UNCHANGED proc /\ Len(queue[m]) \in Nat
        BY <2>1, <2>3 DEF TypeOK
      <4>2. i \in 1..Len(queue[m]) => i # 0
        BY <4>1
      <4> QED
        BY <4>1, <4>2 DEF InQueue, Live
    <3>3. ASSUME NEW t \in Tasks, NEW i \in Nat
          PROVE  InQueue(n, i, t)' <=> InQueue(n, i + 1, t) /\ i # 0
      BY <2>1, <2>2 DEF InQueue, Live
    <3> QED
      BY <3>2, <3>3
  <2>6. \A m \in Nodes : 1..Len(queue[m]) \subseteq Nat /\ 1..Len(queue'[m]) \subseteq Nat
    BY DEF TypeOK
  <2>7. \A m \in Nodes, t \in Tasks, i \in Nat :
           /\ InQueue(m, i, t) => i \in 1..Len(queue[m])
           /\ InQueue(m, i, t)' => i \in 1..Len(queue'[m])
    BY DEF InQueue
  <2>8. /\ ~InHand(n, t0) /\ \A v \in Workers : ~AtWorker(n, v, t0)
        /\ \A i \in Nat : InQueue(n, i, t0) => i = 1
    BY <2>2, <2>6, <2>7 DEF SingleHolder
  <2>9. \A t \in Tasks, m \in Nodes : Held(m, t)' => Held(m, t)
    <3> SUFFICES ASSUME NEW m \in Nodes, NEW t \in Tasks, Held(m, t)' PROVE Held(m, t)
      OBVIOUS
    <3>1. CASE InHand(m, t)'
      BY <3>1, <2>4 DEF Held
    <3>2. CASE \E i \in 1..Len(queue'[m]) : InQueue(m, i, t)'
      <4>1. PICK i \in Nat : InQueue(m, i, t)'
        BY <3>2, <2>6
      <4>2. PICK j \in Nat : InQueue(m, j, t)
        BY <4>1, <2>5
      <4> QED
        BY <4>2, <2>7 DEF Held
    <3>3. CASE \E v \in Workers : AtWorker(m, v, t)'
      <4>1. InQueue(n, 1, t0) /\ 1 \in 1..Len(queue[n])
        BY <2>2, <2>7
      <4> QED
        BY <3>3, <2>4, <4>1 DEF Held
    <3> QED
      BY <3>1, <3>2, <3>3 DEF Held
  <2>10. HolderOwns'
    BY <2>1, <2>9 DEF HolderOwns
  <2>11. SingleHolder'
    <3>1. ASSUME NEW m \in Nodes, NEW t \in Tasks, NEW i \in Nat, InQueue(m, i, t)'
          PROVE  /\ i + 1 \in Nat
                 /\ IF m = n THEN InQueue(n, i + 1, t) /\ t # t0 ELSE InQueue(m, i, t)
      BY <3>1, <2>5, <2>8
    <3>2. ASSUME NEW m \in Nodes, NEW t \in Tasks,
                 NEW i \in 1..Len(queue'[m]), NEW j \in 1..Len(queue'[m]),
                 InQueue(m, i, t)', InQueue(m, j, t)'
          PROVE  i = j
      <4>1. i \in Nat /\ j \in Nat
        BY <2>6
      <4>2. CASE m = n
        <5>1. InQueue(n, i + 1, t) /\ InQueue(n, j + 1, t) /\ i + 1 \in Nat /\ j + 1 \in Nat
          BY <3>2, <4>1, <4>2, <3>1
        <5>2. i + 1 = j + 1
          BY <5>1, <2>7 DEF SingleHolder
        <5> QED
          BY <5>2, <4>1
      <4>3. CASE m # n
        BY <3>2, <4>1, <4>3, <3>1, <2>7 DEF SingleHolder
      <4> QED
        BY <4>2, <4>3
    <3>3. ASSUME NEW m \in Nodes, NEW t \in Tasks,
                 NEW i \in 1..Len(queue'[m]), InQueue(m, i, t)'
          PROVE  ~InHand(m, t)' /\ \A v \in Workers : ~AtWorker(m, v, t)'
      <4>1. i \in Nat
        BY <2>6
      <4>2. \E j \in 1..Len(queue[m]) : InQueue(m, j, t)
        BY <4>1, <3>1, <3>3, <2>7
      <4>3. m = n => t # t0
        BY <4>1, <3>1, <3>3
      <4> QED
        BY <4>2, <4>3, <2>4 DEF SingleHolder
    <3>4. ASSUME NEW m \in Nodes, NEW t \in Tasks, NEW v \in Workers, AtWorker(m, v, t)'
          PROVE  ~InHand(m, t)' /\ \A x \in Workers : AtWorker(m, x, t)' => x = v
      BY <3>4, <2>4, <2>8 DEF SingleHolder
    <3> QED
      BY <3>2, <3>3, <3>4, <2>9 DEF SingleHolder
  <2> QED
    BY <2>10, <2>11
<1>2. CASE CreateLog(n, w) \/ LinkLog(n, w) \/ HandlerOk(n, w) \/ HandlerErr(n, w)
  <2>1. /\ UNCHANGED <<proc, ppc, hand, queue, wjob>>
        /\ wpc[n][w] \in Working
        /\ \E pc \in WorkerPCs : Goto(n, w, pc)
    BY <1>2 DEF CreateLog, LinkLog, HandlerOk, HandlerErr, At, Working, WorkerPCs, prod
  <2>2. \A m \in Nodes, v \in Workers :
           wpc'[m][v] \in Working => wpc[m][v] \in Working
    BY <2>1 DEF Goto, TypeOK
  <2>3. \A t \in Tasks : task'[t].status = task[t].status /\ task'[t].node = task[t].node
    <3>1. task' = task \/ task' = [task EXCEPT ![wjob[n][w]].log = wlog[n][w]]
      BY <1>2 DEF CreateLog, LinkLog, HandlerOk, HandlerErr, db
    <3>2. task \in [Tasks -> TaskInfo]
      BY DEF TypeOK, TaskInfo
    <3>3. ASSUME NEW j, task' = [task EXCEPT ![j].log = wlog[n][w]], NEW t \in Tasks
          PROVE  task'[t].status = task[t].status /\ task'[t].node = task[t].node
      <4>1. CASE t = j
        <5>1. task'[t] = [task[t] EXCEPT !.log = wlog[n][w]]
          BY <3>2, <3>3, <4>1
        <5> QED
          BY <3>2, <5>1 DEF TaskInfo
      <4>2. CASE t # j
        BY <3>2, <3>3, <4>2
      <4> QED
        BY <4>1, <4>2
    <3> QED
      BY <3>1, <3>3
  <2>4. Shrinks
    BY <2>1, <2>2, <2>3 DEF Shrinks, InHand, InQueue, AtWorker, Live
  <2> QED
    BY <2>4, ShrinkKeeps
<1>3. CASE Settle(n, w) \/ SettleFault(n, w)
  <2>0. wjob[n][w] \in Tasks
    BY <1>3 DEF Settle, SettleFault, JobsHeld
  <2>j. PICK t0 \in Tasks : t0 = wjob[n][w]
    BY <2>0
  <2>1. /\ t0 \in Tasks /\ AtWorker(n, w, t0)
        /\ UNCHANGED <<proc, ppc, hand, queue>>
        /\ \A t \in Tasks \ {t0} : task'[t] = task[t]
        /\ wpc'[n][w] \notin Working
        /\ \A m \in Nodes, v \in Workers :
              wpc'[m][v] \in Working => wpc'[m][v] = wpc[m][v] /\ wjob'[m][v] = wjob[m][v]
    <3>1. t0 \in Tasks /\ AtWorker(n, w, t0)
      BY <1>3, <2>j DEF Settle, SettleFault, AtWorker, Working
    <3>2. \A t \in Tasks \ {t0} : task'[t] = task[t]
      BY <1>3, <2>j DEF Settle, SettleFault, SettleTaskByID, TypeOK
    <3>3. \/ NextJob(n, w)
          \/ UNCHANGED wjob /\ \E pc \in {"logFinish", "logError"} : Goto(n, w, pc)
      BY <1>3 DEF Settle, SettleFault
    <3>4. UNCHANGED <<proc, ppc, hand, queue>>
      BY <1>3 DEF Settle, SettleFault, prod
    <3>5. \E pc \in {"idle", "logFinish", "logError"} : Goto(n, w, pc)
      BY <3>3 DEF NextJob
    <3>6. wpc'[n][w] \notin Working
      BY <3>5 DEF Goto, Working, TypeOK
    <3>7. \A m \in Nodes, v \in Workers : (m # n \/ v # w) =>
             wpc'[m][v] = wpc[m][v] /\ wjob'[m][v] = wjob[m][v]
      <4>1. \E pc \in WorkerPCs : wpc' = [wpc EXCEPT ![n][w] = pc]
        BY <3>3 DEF NextJob, Goto, WorkerPCs
      <4>2. wjob' = wjob \/ wjob' = [wjob EXCEPT ![n][w] = None]
        BY <3>3 DEF NextJob
      <4> QED
        BY <4>1, <4>2, OthersAlone
    <3> QED
      BY <3>1, <3>2, <3>4, <3>6, <3>7
  <2>2. /\ \A m \in Nodes : ~Held(m, t0) \/ m = n
        /\ ~InHand(n, t0) /\ \A i \in Nat : ~InQueue(n, i, t0)
        /\ \A v \in Workers : AtWorker(n, v, t0) => v = w
    BY <2>1, SoleHolder
  <2>3. \A m \in Nodes, t \in Tasks :
           /\ InHand(m, t)' => InHand(m, t)
           /\ \A i \in Nat : InQueue(m, i, t)' => InQueue(m, i, t)
           /\ \A v \in Workers : AtWorker(m, v, t)' => AtWorker(m, v, t) /\ <<m, v>> # <<n, w>>
    BY <2>1 DEF InHand, InQueue, AtWorker, Live
  <2>4. \A m \in Nodes : ~Held(m, t0)'
    <3> SUFFICES ASSUME NEW m \in Nodes, Held(m, t0)' PROVE FALSE
      OBVIOUS
    <3>1. 1..Len(queue'[m]) \subseteq Nat
      BY DEF TypeOK
    <3>2. CASE InHand(m, t0)'
      BY <3>2, <2>1, <2>2, <2>3 DEF Held
    <3>3. CASE \E i \in 1..Len(queue'[m]) : InQueue(m, i, t0)'
      <4>1. PICK i \in Nat : InQueue(m, i, t0)
        BY <3>1, <3>3, <2>1, <2>3
      <4>2. Held(m, t0)
        BY <4>1 DEF Held, InQueue
      <4> QED
        BY <4>1, <4>2, <2>2
    <3>4. CASE \E v \in Workers : AtWorker(m, v, t0)'
      BY <3>4, <2>1, <2>2, <2>3 DEF Held
    <3> QED
      BY <3>2, <3>3, <3>4 DEF Held
  <2>5. Shrinks
    BY <2>1, <2>3, <2>4 DEF Shrinks
  <2> QED
    BY <2>5, ShrinkKeeps
<1>4. CASE UpdateLog(n, w) \/ WorkerExit(n, w)
  <2>1. /\ UNCHANGED <<task, proc, ppc, hand, queue>>
        /\ \A m \in Nodes, v \in Workers :
              wpc'[m][v] \in Working => wpc'[m][v] = wpc[m][v] /\ wjob'[m][v] = wjob[m][v]
    <3>1. UNCHANGED <<task, proc, ppc, hand, queue>>
      BY <1>4 DEF UpdateLog, WorkerExit, prod, db
    <3>2. (UNCHANGED wjob /\ Goto(n, w, "exit")) \/ NextJob(n, w)
      BY <1>4 DEF UpdateLog, WorkerExit
    <3>3. wpc'[n][w] \notin Working
      BY <3>2 DEF NextJob, Goto, Working, TypeOK
    <3>4. \A m \in Nodes, v \in Workers : (m # n \/ v # w) =>
             wpc'[m][v] = wpc[m][v] /\ wjob'[m][v] = wjob[m][v]
      <4>1. \E pc \in WorkerPCs : wpc' = [wpc EXCEPT ![n][w] = pc]
        BY <3>2 DEF NextJob, Goto, WorkerPCs
      <4>2. wjob' = wjob \/ wjob' = [wjob EXCEPT ![n][w] = None]
        BY <3>2 DEF NextJob
      <4> QED
        BY <4>1, <4>2, OthersAlone
    <3> QED
      BY <3>1, <3>3, <3>4
  <2>2. Shrinks
    BY <2>1 DEF Shrinks, InHand, InQueue, AtWorker, Live
  <2> QED
    BY <2>2, ShrinkKeeps
<1> QED
  BY <1>1, <1>2, <1>3, <1>4 DEF WorkerStep

\* StopTask resets only what no live process holds; a crash and a restart drop
\* what a node held; a new row is held by nobody.
LEMMA NodeKeeps ==
  ASSUME IInv, Typed', NEW n \in Nodes,
         \/ StopStep(n) \/ Stop(n) \/ Crash(n) \/ Restart(n)
         \/ \E t \in Tasks : CreateTask(n, t)
  PROVE  HolderOwns' /\ SingleHolder'
<1> USE DEF IInv, Typed
<1>1. ASSUME NEW t \in Tasks, Reset(n, t) PROVE Shrinks
  <2>1. /\ proc[n] = "resetting"
        /\ UNCHANGED <<proc, ppc, hand, queue, wpc, wjob>>
        /\ task' = task \/ (Resettable(n, t) /\ ResetTaskByID(t))
    BY <1>1 DEF Reset, work
  <2>2. ASSUME NEW m \in Nodes, NEW x \in Tasks, Held(m, x) PROVE task'[x] = task[x]
    <3>1. proc[m] # "resetting"
      BY <2>2 DEF Held, InHand, InQueue, AtWorker, Live
    <3>2. task[x].node = m
      BY <2>2 DEF HolderOwns
    <3>3. Resettable(n, t) => x # t
      BY <2>1, <3>1, <3>2 DEF Resettable
    <3> QED
      BY <2>1, <3>3 DEF ResetTaskByID, TypeOK
  <2> QED
    BY <2>1, <2>2 DEF Shrinks, Held, InHand, InQueue, AtWorker, Live
<1>2. CASE Collect(n) \/ StopEnd(n) \/ Stop(n)
  <2>1. /\ UNCHANGED <<task, ppc, hand, queue, wpc, wjob>>
        /\ \A m \in Nodes : Live(m)' => Live(m)
    BY <1>2 DEF Collect, StopEnd, Stop, Live, db, prod, work, TypeOK
  <2> QED
    BY <2>1, ShrinkKeeps DEF Shrinks, InHand, InQueue, AtWorker
<1>3. CASE Crash(n) \/ Restart(n)
  <2>1. /\ UNCHANGED task
        /\ Fresh(n)
        /\ \A m \in Nodes \ {n} : proc'[m] = proc[m]
    BY <1>3 DEF Crash, Restart, db, TypeOK
  <2>2. /\ ppc'[n] = "scan" /\ queue'[n] = <<>> /\ \A w \in Workers : wpc'[n][w] = "idle"
        /\ \A m \in Nodes \ {n} :
              /\ ppc'[m] = ppc[m] /\ hand'[m] = hand[m] /\ queue'[m] = queue[m]
              /\ wpc'[m] = wpc[m] /\ wjob'[m] = wjob[m]
    BY <2>1 DEF Fresh, TypeOK
  <2>3. Shrinks
    <3> SUFFICES ASSUME NEW m \in Nodes, NEW t \in Tasks
                 PROVE  /\ InHand(m, t)' => InHand(m, t)
                        /\ \A i \in Nat : InQueue(m, i, t)' => InQueue(m, i, t)
                        /\ \A w \in Workers : AtWorker(m, w, t)' => AtWorker(m, w, t)
      BY <2>1 DEF Shrinks
    <3>1. CASE m = n
      BY <3>1, <2>2 DEF InHand, InQueue, AtWorker, Working
    <3>2. CASE m # n
      BY <3>2, <2>1, <2>2 DEF InHand, InQueue, AtWorker, Live
    <3> QED
      BY <3>1, <3>2
  <2> QED
    BY <2>3, ShrinkKeeps
<1>4. ASSUME NEW t \in Tasks, CreateTask(n, t) PROVE Shrinks
  <2>1. /\ UNCHANGED <<proc, ppc, hand, queue, wpc, wjob>>
        /\ task[t].status = Absent
        /\ \A x \in Tasks \ {t} : task'[x] = task[x]
    BY <1>4 DEF CreateTask, prod, work, TypeOK
  <2>2. \A m \in Nodes : ~Held(m, t)
    BY <2>1 DEF HolderOwns, Absent, Running
  <2> QED
    BY <2>1, <2>2 DEF Shrinks, Held, InHand, InQueue, AtWorker, Live
<1> QED
  BY <1>1, <1>2, <1>3, <1>4, ShrinkKeeps DEF StopStep

\* No initial state has a holder.
LEMMA HoldersInit == Init => HolderOwns /\ SingleHolder
  BY DEF Init, HolderOwns, SingleHolder, Held, InHand, InQueue, AtWorker, Working

\* Every step keeps types, ownership and exclusiveness together.
LEMMA Inductive == IInv /\ [Next]_vars => IInv'
<1> SUFFICES ASSUME IInv, [Next]_vars PROVE IInv'
  OBVIOUS
<1>1. Typed'
  BY TypedNext DEF IInv
<1>2. CASE UNCHANGED vars
  <2>1. Shrinks
    BY <1>2 DEF vars, Shrinks, Held, InHand, InQueue, AtWorker, Live
  <2> QED
    BY <1>1, <2>1, ShrinkKeeps DEF IInv, Typed
<1>3. CASE Next
  <2>1. PICK n \in Nodes :
           \/ ProducerStep(n) \/ StopStep(n) \/ Environment(n)
           \/ \E w \in Workers : WorkerStep(n, w)
    BY <1>3 DEF Next
  <2>2. HolderOwns' /\ SingleHolder'
    BY <1>1, <2>1, ProducerKeeps, WorkerKeeps, NodeKeeps DEF Environment
  <2> QED
    BY <1>1, <2>2 DEF IInv
<1> QED
  BY <1>2, <1>3

-----------------------------------------------------------------------------
\* The invariant holds in every behaviour.
THEOREM Invariance == Spec => []IInv
<1>1. Init => IInv
  BY TypedInit, HoldersInit DEF IInv
<1> QED
  BY <1>1, Inductive, PTL DEF Spec

\* Type correctness of the task system (the columns of task_info and task_log,
\* the channel, the goroutines' places).
THEOREM TypeCorrect == Spec => []TypeOK
<1>1. IInv => TypeOK
  BY DEF IInv, Typed
<1> QED
  BY <1>1, Invariance, PTL

\* However many nodes, workers and failures: the holder of a task is the node
\* its row names, so a reset or a second claim never hits a task in execution.
THEOREM HolderIsOwner == Spec => []HolderOwns
<1>1. IInv => HolderOwns
  BY DEF IInv
<1> QED
  BY <1>1, Invariance, PTL

\* A task is never in two places at once: the conditional UPDATE of
\* PreemptiveTaskByID and the order of StopTask are enough for it.
THEOREM AtMostOneExecution == Spec => []SingleHolder
<1>1. IInv => SingleHolder
  BY DEF IInv
<1> QED
  BY <1>1, Invariance, PTL

-----------------------------------------------------------------------------
\* Who may touch a row: it is new or waiting, or a holder writes it, or its
\* owner's StopTask gives it back.
RowChange(t) ==
    \/ task[t].status \in {Absent, Undo}
    \/ \E n \in Nodes : Held(n, t)
    \/ /\ task[t].status = Running /\ task[t].node \in Nodes
       /\ proc[task[t].node] = "resetting"
       /\ task'[t] = [task[t] EXCEPT !.status = Undo, !.node = None]

\* Every step that changes a row is one of these.
LEMMA RowChanges ==
  ASSUME Typed, Next, NEW t \in Tasks, task'[t] # task[t]
  PROVE  RowChange(t)
<1> USE DEF Typed, TypeOK
<1>1. ASSUME NEW n \in Nodes, NEW u \in Tasks, CreateTask(n, u) PROVE RowChange(t)
  BY <1>1 DEF CreateTask, RowChange
<1>2. ASSUME NEW n \in Nodes, Preempt(n) \/ PreemptFault(n) PROVE RowChange(t)
  BY <1>2 DEF Preempt, PreemptFault, PreemptiveTaskByID, Claimable, RowChange, JobsHeld
<1>3. ASSUME NEW n \in Nodes, NEW w \in Workers,
             LinkLog(n, w) \/ Settle(n, w) \/ SettleFault(n, w)
      PROVE  RowChange(t)
  <2>1. Live(n) /\ wpc[n][w] \in Working /\ wjob[n][w] \in Tasks
    BY <1>3 DEF LinkLog, Settle, SettleFault, At, Working, JobsHeld
  <2>2. wjob[n][w] = t
    BY <1>3, <2>1 DEF LinkLog, Settle, SettleFault, SettleTaskByID
  <2>3. Held(n, t)
    BY <2>1, <2>2 DEF Held, AtWorker
  <2> HIDE DEF Typed, TypeOK
  <2> QED
    BY <2>3 DEF RowChange
<1>4. ASSUME NEW n \in Nodes, NEW u \in Tasks, Reset(n, u) PROVE RowChange(t)
  BY <1>4 DEF Reset, Resettable, ResetTaskByID, RowChange
<1>5. CASE UNCHANGED task
  BY <1>5
<1>6. PICK n \in Nodes : \/ ProducerStep(n)
                         \/ \E w \in Workers : WorkerStep(n, w)
                         \/ StopStep(n)
                         \/ Environment(n)
  BY DEF Next
<1>7. CASE ProducerStep(n)
  BY <1>2, <1>5, <1>7
     DEF ProducerStep, Scan, Skip, Choose, Put, ProducerExit, db
<1>8. ASSUME NEW w \in Workers, WorkerStep(n, w) PROVE RowChange(t)
  BY <1>3, <1>5, <1>8
     DEF WorkerStep, Take, CreateLog, HandlerOk, HandlerErr, UpdateLog, WorkerExit, db
<1>9. CASE StopStep(n)
  BY <1>4, <1>5, <1>9 DEF StopStep, Collect, StopEnd, db
<1>10. CASE Environment(n)
  BY <1>1, <1>2, <1>3, <1>5, <1>10 DEF Environment, Stop, Crash, Restart, db
<1> QED
  BY <1>6, <1>7, <1>8, <1>9, <1>10

\* The producers' claims and the workers' outcomes (repo/taskinfo.go, OutcomeFinal):
\* no step of any node changes the status of a task that has an outcome.
THEOREM OutcomesAreFinal == Spec => OutcomeFinal
<1> DEFINE Final == \A t \in Tasks :
                       task[t].status \in Terminal => task'[t].status = task[t].status
<1>1. IInv /\ [Next]_vars => [Final]_vars
  <2> SUFFICES ASSUME IInv, Next, NEW t \in Tasks, task[t].status \in Terminal,
                      task'[t] # task[t]
               PROVE  FALSE
    BY DEF vars
  <2>1. RowChange(t)
    BY RowChanges DEF IInv
  <2>2. \A n \in Nodes : ~Held(n, t)
    BY DEF IInv, HolderOwns, Terminal, Finish, Error, Running
  <2> QED
    BY <2>1, <2>2 DEF RowChange, Terminal, Finish, Error, Running, Absent, Undo
<1> QED
  BY <1>1, Invariance, PTL DEF Spec, OutcomeFinal

\* A crash or a lost claim leaves a task Running with no holder: only the StopTask
\* of the node named in its row ever writes it again, and gives it back whole
\* (dispatch.go:53-55, StrandedFreedByOwner).
THEOREM StrandedWaitsForOwner == Spec => StrandedFreedByOwner
<1> DEFINE Freed == \A t \in Tasks :
          Stranded(t) /\ task'[t] # task[t] =>
              /\ proc[task[t].node] = "resetting"
              /\ task'[t] = [task[t] EXCEPT !.status = Undo, !.node = None]
<1>1. IInv /\ [Next]_vars => [Freed]_vars
  <2> SUFFICES ASSUME IInv, Next, NEW t \in Tasks, Stranded(t), task'[t] # task[t]
               PROVE  /\ proc[task[t].node] = "resetting"
                      /\ task'[t] = [task[t] EXCEPT !.status = Undo, !.node = None]
    BY DEF vars
  <2>1. RowChange(t)
    BY RowChanges DEF IInv
  <2> QED
    BY <2>1 DEF RowChange, Stranded, Absent, Undo, Running
<1> QED
  BY <1>1, Invariance, PTL DEF Spec, StrandedFreedByOwner

-----------------------------------------------------------------------------
(* task_log *)

\* A worker that has settled its task and not yet written the log.
Writing(n, w) == Live(n) /\ wpc[n][w] \in {"logFinish", "logError"}

\* The rows of t with an outcome.
Logged(t) == {i \in DOMAIN logs : logs[i].task = t /\ logs[i].status \in Terminal}

OnlyLog(i) ==
    \A j \in DOMAIN logs : logs[j].task = logs[i].task /\ logs[j].status \in Terminal => j = i

\* A row with an outcome agrees with its task, and has no second.
RowsAgree ==
    \A i \in DOMAIN logs : logs[i].status \in Terminal =>
        /\ task[logs[i].task].status = logs[i].status
        /\ OnlyLog(i)

Unlogged(n, w) == Logged(wjob[n][w]) = {}

\* What a worker is about to write is what it settled, and nobody has written.
WritersAgree ==
    \A n \in Nodes, w \in Workers : Writing(n, w) =>
        /\ task[wjob[n][w]].status = Outcome(wpc[n][w])
        /\ Unlogged(n, w)

OneWriter ==
    \A n, m \in Nodes, w, v \in Workers :
        Writing(n, w) /\ Writing(m, v) /\ wjob[n][w] = wjob[m][v] => n = m /\ w = v

\* A worker's log id is that of a row of its job.
OwnLog ==
    \A n \in Nodes, w \in Workers : wlog[n][w] # 0 =>
        /\ wlog[n][w] \in DOMAIN logs /\ logs[wlog[n][w]].task = wjob[n][w]
        /\ wpc[n][w] \notin {"idle", "create", "exit"}

\* The inductive invariant behind LogsAgree.
LogInv == IInv /\ RowsAgree /\ WritersAgree /\ OneWriter /\ OwnLog

-----------------------------------------------------------------------------
LEMMA LogInit == Init => RowsAgree /\ WritersAgree /\ OneWriter /\ OwnLog
  BY DEF Init, RowsAgree, WritersAgree, OneWriter, OwnLog, Writing, Logged, Unlogged

\* An outcome stays.
LEMMA OutcomeStays ==
  ASSUME IInv, [Next]_vars, NEW t \in Tasks, task[t].status \in Terminal
  PROVE  task'[t].status = task[t].status
<1>1. CASE task'[t] = task[t]
  BY <1>1
<1>2. CASE task'[t] # task[t]
  <2>1. RowChange(t)
    BY <1>2, RowChanges DEF IInv, vars
  <2>2. \A n \in Nodes : ~Held(n, t)
    BY DEF IInv, HolderOwns, Terminal, Finish, Error, Running
  <2> QED
    BY <2>1, <2>2 DEF RowChange, Terminal, Finish, Error, Running, Absent, Undo
<1> QED
  BY <1>1, <1>2

\* A step that writes no log and makes nobody a writer; log ids may be lost.
Quiet ==
    /\ logs' = logs
    /\ \A n \in Nodes, w \in Workers :
          /\ Writing(n, w)' => /\ Writing(n, w)
                               /\ wpc'[n][w] = wpc[n][w] /\ wjob'[n][w] = wjob[n][w]
          /\ wlog'[n][w] # 0 => /\ wlog'[n][w] = wlog[n][w] /\ wjob'[n][w] = wjob[n][w]
                                /\ wpc'[n][w] \notin {"idle", "create", "exit"}

LEMMA QuietKeeps ==
  ASSUME LogInv, [Next]_vars, Quiet
  PROVE  RowsAgree' /\ WritersAgree' /\ OneWriter' /\ OwnLog'
<1> USE DEF LogInv
<1>0. \A t \in Tasks : task[t].status \in Terminal => task'[t].status = task[t].status
  BY OutcomeStays
<1>1. \A i \in DOMAIN logs : logs[i].task \in Tasks
  <2>1. logs \in Seq(TaskLog)
    BY DEF IInv, Typed, TypeOK
  <2>2. \A i \in DOMAIN logs : logs[i] \in TaskLog
    BY <2>1
  <2> QED
    BY <2>2 DEF TaskLog
<1>2. RowsAgree'
  BY <1>0, <1>1 DEF RowsAgree, OnlyLog, Quiet
<1>3. WritersAgree'
  <2> SUFFICES ASSUME NEW n \in Nodes, NEW w \in Workers, Writing(n, w)'
               PROVE  /\ task'[wjob'[n][w]].status = Outcome(wpc'[n][w])
                      /\ Unlogged(n, w)'
    BY DEF WritersAgree
  <2>1. Writing(n, w) /\ wpc'[n][w] = wpc[n][w] /\ wjob'[n][w] = wjob[n][w]
    BY DEF Quiet
  <2>2. wjob[n][w] \in Tasks
    BY <2>1 DEF Writing, IInv, Typed, JobsHeld
  <2>3. task[wjob[n][w]].status = Outcome(wpc[n][w]) /\ Outcome(wpc[n][w]) \in Terminal
    BY <2>1 DEF WritersAgree, Outcome, Terminal
  <2>4. Logged(wjob[n][w]) = {}
    BY <2>1 DEF WritersAgree, Unlogged
  <2>5. Unlogged(n, w)'
    BY <2>1, <2>4 DEF Quiet, Logged, Unlogged
  <2> QED
    BY <1>0, <2>1, <2>2, <2>3, <2>5
<1>4. OneWriter'
  BY DEF OneWriter, Quiet
<1>5. OwnLog'
  BY DEF OwnLog, Quiet
<1> QED
  BY <1>2, <1>3, <1>4, <1>5

-----------------------------------------------------------------------------
\* The steps that are quiet: all but CreateLog, Settle and UpdateLog.
LEMMA QuietSteps ==
  ASSUME LogInv, NEW n \in Nodes,
         \/ ProducerStep(n) \/ StopStep(n) \/ Environment(n)
         \/ \E w \in Workers :
               \/ Take(n, w) \/ LinkLog(n, w) \/ HandlerOk(n, w) \/ HandlerErr(n, w)
               \/ WorkerExit(n, w)
  PROVE  Quiet
<1>0. TypeOK
  BY DEF LogInv, IInv, Typed
<1>1. ASSUME UNCHANGED <<logs, wpc, wjob, wlog>>, \A m \in Nodes : Live(m)' => Live(m)
      PROVE  Quiet
  BY <1>1 DEF Quiet, Writing, LogInv, OwnLog
<1>2. CASE ProducerStep(n)
  BY <1>1, <1>2
  DEF ProducerStep, Scan, Skip, Choose, Preempt, Put, ProducerExit, Live, db, work, prod, count
<1>3. CASE StopStep(n)
  <2>1. UNCHANGED <<logs, wpc, wjob, wlog>>
    BY <1>3 DEF StopStep, Collect, StopEnd, Reset, db, work
  <2>2. \A m \in Nodes : Live(m)' => Live(m)
    BY <1>0, <1>3 DEF StopStep, Collect, StopEnd, Reset, Live, TypeOK
  <2> QED
    BY <1>1, <2>1, <2>2
<1>4. CASE Stop(n)
  <2>1. \A m \in Nodes : Live(m)' => Live(m)
    BY <1>0, <1>4 DEF Stop, Live, TypeOK
  <2> QED
    BY <1>1, <1>4, <2>1 DEF Stop, db, work
<1>5. CASE PreemptFault(n) \/ \E t \in Tasks : CreateTask(n, t)
  BY <1>1, <1>5 DEF PreemptFault, CreateTask, Live, work
<1>6. CASE Crash(n) \/ Restart(n)
  <2>1. \A m \in Nodes, v \in Workers :
           IF m = n THEN wpc'[m][v] = "idle" /\ wlog'[m][v] = 0
           ELSE /\ wpc'[m][v] = wpc[m][v] /\ wjob'[m][v] = wjob[m][v]
                /\ wlog'[m][v] = wlog[m][v] /\ proc'[m] = proc[m]
    BY <1>0, <1>6 DEF Crash, Restart, Fresh, TypeOK
  <2>2. logs' = logs
    BY <1>6 DEF Crash, Restart, db
  <2> QED
    BY <2>1, <2>2 DEF Quiet, Writing, Live, LogInv, OwnLog
<1>7. ASSUME NEW w \in Workers, SettleFault(n, w) PROVE Quiet
  <2>1. \A m \in Nodes, v \in Workers :
           /\ wpc'[m][v] = IF m = n /\ v = w THEN "idle" ELSE wpc[m][v]
           /\ wlog'[m][v] = IF m = n /\ v = w THEN 0 ELSE wlog[m][v]
           /\ wjob'[m][v] = IF m = n /\ v = w THEN None ELSE wjob[m][v]
    <3>1. /\ wpc' = [wpc EXCEPT ![n][w] = "idle"]
          /\ wlog' = [wlog EXCEPT ![n][w] = 0]
          /\ wjob' = [wjob EXCEPT ![n][w] = None]
      BY <1>7 DEF SettleFault, NextJob, Goto
    <3> SUFFICES ASSUME NEW m \in Nodes, NEW v \in Workers
                 PROVE  /\ wpc'[m][v] = IF m = n /\ v = w THEN "idle" ELSE wpc[m][v]
                        /\ wlog'[m][v] = IF m = n /\ v = w THEN 0 ELSE wlog[m][v]
                        /\ wjob'[m][v] = IF m = n /\ v = w THEN None ELSE wjob[m][v]
      OBVIOUS
    <3>2. wpc'[m][v] = IF m = n /\ v = w THEN "idle" ELSE wpc[m][v]
      BY <1>0, <3>1 DEF TypeOK
    <3>3. wlog'[m][v] = IF m = n /\ v = w THEN 0 ELSE wlog[m][v]
      BY <1>0, <3>1 DEF TypeOK
    <3>4. wjob'[m][v] = IF m = n /\ v = w THEN None ELSE wjob[m][v]
      BY <1>0, <3>1 DEF TypeOK
    <3> QED
      BY <3>2, <3>3, <3>4
  <2>2. logs' = logs /\ proc' = proc
    BY <1>7 DEF SettleFault
  <2> QED
    BY <2>1, <2>2 DEF Quiet, Writing, Live, LogInv, OwnLog
<1>8. ASSUME NEW w \in Workers, Take(n, w) PROVE Quiet
  <2>1. \A m \in Nodes, v \in Workers :
           /\ wpc'[m][v] = IF m = n /\ v = w THEN "create" ELSE wpc[m][v]
           /\ wlog'[m][v] = wlog[m][v]
           /\ wjob'[m][v] = IF m = n /\ v = w THEN Head(queue[n]) ELSE wjob[m][v]
    <3>1. /\ wpc' = [wpc EXCEPT ![n][w] = "create"]
          /\ wlog' = wlog
          /\ wjob' = [wjob EXCEPT ![n][w] = Head(queue[n])]
      BY <1>8 DEF Take, Goto
    <3> SUFFICES ASSUME NEW m \in Nodes, NEW v \in Workers
                 PROVE  /\ wpc'[m][v] = IF m = n /\ v = w THEN "create" ELSE wpc[m][v]
                        /\ wlog'[m][v] = wlog[m][v]
                        /\ wjob'[m][v] = IF m = n /\ v = w THEN Head(queue[n]) ELSE wjob[m][v]
      OBVIOUS
    <3>2. wpc'[m][v] = IF m = n /\ v = w THEN "create" ELSE wpc[m][v]
      BY <1>0, <3>1 DEF TypeOK
    <3>3. wlog'[m][v] = wlog[m][v]
      BY <1>0, <3>1 DEF TypeOK
    <3>4. wjob'[m][v] = IF m = n /\ v = w THEN Head(queue[n]) ELSE wjob[m][v]
      BY <1>0, <3>1 DEF TypeOK
    <3> QED
      BY <3>2, <3>3, <3>4
  <2>2. logs' = logs /\ proc' = proc /\ wpc[n][w] = "idle"
    BY <1>8 DEF Take, At, db
  <2> QED
    BY <2>1, <2>2 DEF Quiet, Writing, Live, LogInv, OwnLog
<1>9. ASSUME NEW w \in Workers,
             LinkLog(n, w) \/ HandlerOk(n, w) \/ HandlerErr(n, w) \/ WorkerExit(n, w)
      PROVE  Quiet
  <2>1. PICK to \in {"run", "finish", "error", "exit"} :
           Goto(n, w, to) /\ (to = "exit" => wpc[n][w] = "idle")
    BY <1>9 DEF LinkLog, HandlerOk, HandlerErr, WorkerExit
  <2>2. \A m \in Nodes, v \in Workers :
           wpc'[m][v] = IF m = n /\ v = w THEN to ELSE wpc[m][v]
    BY <1>0, <2>1 DEF TypeOK, Goto
  <2>3. UNCHANGED <<logs, wjob, wlog, proc>>
    BY <1>9 DEF LinkLog, HandlerOk, HandlerErr, WorkerExit, db
  <2> QED
    BY <2>1, <2>2, <2>3 DEF Quiet, Writing, Live, LogInv, OwnLog
<1> QED
  BY <1>2, <1>3, <1>4, <1>5, <1>6, <1>7, <1>8, <1>9 DEF Environment

-----------------------------------------------------------------------------
\* A new row has no outcome yet.
LEMMA CreateLogKeeps ==
  ASSUME LogInv, [Next]_vars, NEW n \in Nodes, NEW w \in Workers, CreateLog(n, w)
  PROVE  RowsAgree' /\ WritersAgree' /\ OneWriter' /\ OwnLog'
<1>0. TypeOK /\ wpc[n][w] = "create" /\ proc' = proc /\ task' = task /\ wjob' = wjob
  BY DEF CreateLog, At, LogInv, IInv, Typed
<1>1. \A m \in Nodes, v \in Workers : wpc'[m][v] = IF m = n /\ v = w THEN "link" ELSE wpc[m][v]
  BY <1>0 DEF CreateLog, Goto, TypeOK
<1>2. CASE logs' = logs
  <2>1. wlog' = [wlog EXCEPT ![n][w] = 0]
    <3>1. logs \in Seq(TaskLog)
      BY <1>0 DEF TypeOK
    <3>2. ASSUME NEW row PROVE Append(logs, row) # logs
      <4>1. Len(Append(logs, row)) = Len(logs) + 1 /\ Len(logs) \in Nat
        BY <3>1
      <4> QED
        BY <4>1
    <3> QED
      BY <1>2, <3>2 DEF CreateLog
  <2>2. \A m \in Nodes, v \in Workers : wlog'[m][v] = IF m = n /\ v = w THEN 0 ELSE wlog[m][v]
    BY <1>0, <2>1 DEF TypeOK
  <2>3. Quiet
    BY <1>0, <1>1, <1>2, <2>2 DEF Quiet, Writing, Live, LogInv, OwnLog
  <2> QED
    BY <2>3, QuietKeeps
<1>3. CASE /\ logs' = Append(logs, [task |-> wjob[n][w], status |-> Running])
           /\ wlog' = [wlog EXCEPT ![n][w] = Len(logs) + 1]
  <2>1. /\ logs \in Seq(TaskLog) /\ Len(logs) \in Nat
        /\ DOMAIN logs = 1..Len(logs) /\ DOMAIN logs' = 1..(Len(logs) + 1)
        /\ \A i \in DOMAIN logs : logs'[i] = logs[i]
        /\ logs'[Len(logs) + 1] = [task |-> wjob[n][w], status |-> Running]
    BY <1>0, <1>3 DEF TypeOK
  <2>2. \A i \in DOMAIN logs' : logs'[i].status \in Terminal => i \in DOMAIN logs /\ logs'[i] = logs[i]
    BY <2>1 DEF Terminal, Running, Finish, Error
  <2>3. DOMAIN logs \subseteq DOMAIN logs'
    BY <2>1
  <2>4. RowsAgree'
    BY <1>0, <2>1, <2>2, <2>3 DEF RowsAgree, OnlyLog, LogInv
  <2>5. \A m \in Nodes, v \in Workers :
           Writing(m, v)' => Writing(m, v) /\ wpc'[m][v] = wpc[m][v]
    BY <1>0, <1>1 DEF Writing, Live
  <2>6. \A m \in Nodes, v \in Workers : Unlogged(m, v) => Unlogged(m, v)'
    BY <1>0, <2>2 DEF Unlogged, Logged
  <2>7. WritersAgree'
    BY <1>0, <2>5, <2>6 DEF WritersAgree, LogInv
  <2>8. OneWriter'
    BY <1>0, <2>5 DEF OneWriter, LogInv
  <2>9. \A m \in Nodes, v \in Workers :
            wlog'[m][v] = IF m = n /\ v = w THEN Len(logs) + 1 ELSE wlog[m][v]
    BY <1>0, <1>3 DEF TypeOK
  <2>10. OwnLog'
    <3> SUFFICES ASSUME NEW m \in Nodes, NEW v \in Workers, wlog'[m][v] # 0
                 PROVE  /\ wlog'[m][v] \in DOMAIN logs'
                        /\ logs'[wlog'[m][v]].task = wjob'[m][v]
                        /\ wpc'[m][v] \notin {"idle", "create", "exit"}
      BY DEF OwnLog
    <3>1. CASE m = n /\ v = w
      BY <1>0, <1>1, <2>1, <2>9, <3>1
    <3>2. CASE m # n \/ v # w
      BY <1>0, <1>1, <2>1, <2>3, <2>9, <3>2 DEF OwnLog, LogInv
    <3> QED
      BY <3>1, <3>2
  <2> QED
    BY <2>4, <2>7, <2>8, <2>10
<1> QED
  BY <1>2, <1>3 DEF CreateLog

\* Whoever settles a task is its first writer: it was Running, so nobody has
\* logged an outcome of it, or is about to.
LEMMA SettleKeeps ==
  ASSUME LogInv, [Next]_vars, NEW n \in Nodes, NEW w \in Workers, Settle(n, w)
  PROVE  RowsAgree' /\ WritersAgree' /\ OneWriter' /\ OwnLog'
<1>0. TypeOK /\ wjob[n][w] \in Tasks /\ logs' = logs /\ proc' = proc
  BY DEF Settle, LogInv, IInv, Typed, JobsHeld
<1>1. CASE NextJob(n, w)
  <2>1. \A m \in Nodes, v \in Workers :
           /\ wpc'[m][v] = IF m = n /\ v = w THEN "idle" ELSE wpc[m][v]
           /\ wlog'[m][v] = IF m = n /\ v = w THEN 0 ELSE wlog[m][v]
           /\ m # n \/ v # w => wjob'[m][v] = wjob[m][v]
    BY <1>0, <1>1 DEF NextJob, Goto, TypeOK
  <2>2. Quiet
    BY <1>0, <2>1 DEF Quiet, Writing, Live, LogInv, OwnLog
  <2> QED
    BY <2>2, QuietKeeps
<1>2. ASSUME Settleable(wjob[n][w]), SettleTaskByID(wjob[n][w], Outcome(wpc[n][w])),
             Goto(n, w, IF wpc[n][w] = "finish" THEN "logFinish" ELSE "logError"),
             UNCHANGED <<wjob, wlog>>
      PROVE  RowsAgree' /\ WritersAgree' /\ OneWriter' /\ OwnLog'
  <2>1. PICK to \in {"logFinish", "logError"} : Goto(n, w, to) /\ Outcome(to) = Outcome(wpc[n][w])
    BY <1>2 DEF Settle, Outcome
  <2>2. \A m \in Nodes, v \in Workers : wpc'[m][v] = IF m = n /\ v = w THEN to ELSE wpc[m][v]
    BY <1>0, <2>1 DEF Goto, TypeOK
  <2>3. /\ task'[wjob[n][w]].status = Outcome(to)
        /\ \A t \in Tasks \ {wjob[n][w]} : task'[t] = task[t]
    BY <1>0, <1>2, <2>1 DEF SettleTaskByID, TypeOK, TaskInfo
  <2>4. task[wjob[n][w]].status = Running
    BY <1>2 DEF Settleable
  <2>5. \A i \in DOMAIN logs : logs[i].task \in Tasks
    <3>1. \A i \in DOMAIN logs : logs[i] \in TaskLog
      BY <1>0 DEF TypeOK
    <3> QED
      BY <3>1 DEF TaskLog
  <2>6. Unlogged(n, w)
    BY <2>4 DEF Unlogged, Logged, LogInv, RowsAgree, Terminal, Running, Finish, Error
  <2>7. ASSUME NEW m \in Nodes, NEW v \in Workers, Writing(m, v)
        PROVE  wjob[m][v] # wjob[n][w]
    BY <2>4, <2>7 DEF LogInv, WritersAgree, Outcome, Running, Finish, Error
  <2>8. RowsAgree'
    <3> SUFFICES ASSUME NEW i \in DOMAIN logs, logs[i].status \in Terminal
                 PROVE  /\ task'[logs[i].task].status = logs[i].status
                        /\ OnlyLog(i)
      BY <1>0 DEF RowsAgree, OnlyLog
    <3>1. task[logs[i].task].status = logs[i].status /\ OnlyLog(i)
      BY DEF LogInv, RowsAgree
    <3>2. logs[i].task # wjob[n][w]
      BY <2>4, <3>1 DEF Terminal, Running, Finish, Error
    <3> QED
      BY <2>3, <2>5, <3>1, <3>2
  <2>9. \A m \in Nodes, v \in Workers : Writing(m, v)' <=> Writing(m, v) \/ (m = n /\ v = w)
    BY <1>0, <2>2 DEF Writing, Live, Settle
  <2>10. \A m \in Nodes, v \in Workers : Unlogged(m, v)' <=> Unlogged(m, v)
    BY <1>0, <1>2 DEF Unlogged, Logged
  <2>11. WritersAgree'
    <3> SUFFICES ASSUME NEW m \in Nodes, NEW v \in Workers, Writing(m, v)'
                 PROVE  task'[wjob[m][v]].status = Outcome(wpc'[m][v]) /\ Unlogged(m, v)
      BY <1>2, <2>10 DEF WritersAgree
    <3>1. CASE m = n /\ v = w
      BY <2>2, <2>3, <2>6, <3>1
    <3>2. CASE m # n \/ v # w
      <4>1. Writing(m, v) /\ wpc'[m][v] = wpc[m][v]
        BY <2>2, <2>9, <3>2
      <4>2. wjob[m][v] \in Tasks \ {wjob[n][w]}
        BY <2>7, <4>1 DEF Writing, LogInv, IInv, Typed, JobsHeld
      <4>3. task[wjob[m][v]].status = Outcome(wpc[m][v]) /\ Unlogged(m, v)
        BY <4>1 DEF LogInv, WritersAgree
      <4> QED
        BY <2>3, <4>1, <4>2, <4>3
    <3> QED
      BY <3>1, <3>2
  <2>12. OneWriter'
    BY <1>2, <2>7, <2>9 DEF OneWriter, LogInv
  <2>13. OwnLog'
    BY <1>0, <1>2, <2>2 DEF OwnLog, LogInv
  <2> QED
    BY <2>8, <2>11, <2>12, <2>13
<1> QED
  BY <1>1, <1>2 DEF Settle

\* The log that is written had no outcome, and nobody else's task is logged.
LEMMA UpdateLogKeeps ==
  ASSUME LogInv, [Next]_vars, NEW n \in Nodes, NEW w \in Workers, UpdateLog(n, w)
  PROVE  RowsAgree' /\ WritersAgree' /\ OneWriter' /\ OwnLog'
<1>0. TypeOK /\ wjob[n][w] \in Tasks /\ proc' = proc /\ task' = task /\ Writing(n, w)
  BY DEF UpdateLog, Writing, LogInv, IInv, Typed, JobsHeld
<1>1. \A m \in Nodes, v \in Workers :
         /\ wpc'[m][v] = IF m = n /\ v = w THEN "idle" ELSE wpc[m][v]
         /\ wlog'[m][v] = IF m = n /\ v = w THEN 0 ELSE wlog[m][v]
         /\ m # n \/ v # w => wjob'[m][v] = wjob[m][v]
  BY <1>0 DEF UpdateLog, NextJob, Goto, TypeOK
<1>2. CASE logs' = logs
  <2>1. Quiet
    BY <1>0, <1>1, <1>2 DEF Quiet, Writing, Live, LogInv, OwnLog
  <2> QED
    BY <2>1, QuietKeeps
<1>3. CASE logs' = [i \in DOMAIN logs |->
                      IF i = wlog[n][w]
                        THEN [logs[i] EXCEPT !.status = Outcome(wpc[n][w])]
                        ELSE logs[i]]
  <2>1. \A i \in DOMAIN logs : logs[i] \in TaskLog
    BY <1>0 DEF TypeOK
  <2>2. /\ DOMAIN logs' = DOMAIN logs
        /\ \A i \in DOMAIN logs :
              /\ logs'[i].task = logs[i].task
              /\ i # wlog[n][w] => logs'[i] = logs[i]
              /\ i = wlog[n][w] => /\ logs'[i].status = Outcome(wpc[n][w])
                                   /\ logs[i].task = wjob[n][w]
    <3>1. wlog[n][w] \in DOMAIN logs => logs[wlog[n][w]].task = wjob[n][w]
      <4>1. logs \in Seq(TaskLog) /\ 0 \notin DOMAIN logs
        BY <1>0 DEF TypeOK
      <4> QED
        BY <4>1 DEF LogInv, OwnLog
    <3> QED
      BY <1>3, <2>1, <3>1 DEF TaskLog
  <2>3. task[wjob[n][w]].status = Outcome(wpc[n][w]) /\ Logged(wjob[n][w]) = {}
    BY <1>0 DEF LogInv, WritersAgree, Unlogged
  <2>4. ASSUME NEW i \in DOMAIN logs, logs'[i].task = wjob[n][w], logs'[i].status \in Terminal
        PROVE  i = wlog[n][w]
    BY <2>2, <2>3, <2>4 DEF Logged
  <2>5. RowsAgree'
    <3> SUFFICES ASSUME NEW i \in DOMAIN logs, logs'[i].status \in Terminal
                 PROVE  /\ task[logs'[i].task].status = logs'[i].status
                        /\ \A j \in DOMAIN logs :
                              logs'[j].task = logs'[i].task /\ logs'[j].status \in Terminal
                                  => j = i
      BY <1>0, <2>2 DEF RowsAgree, OnlyLog
    <3>1. CASE i = wlog[n][w]
      BY <2>2, <2>3, <2>4, <3>1
    <3>2. CASE i # wlog[n][w]
      <4>1. logs'[i] = logs[i] /\ logs[i].status \in Terminal
        BY <2>2, <3>2
      <4>2. task[logs[i].task].status = logs[i].status /\ OnlyLog(i)
        BY <4>1 DEF LogInv, RowsAgree
      <4>3. logs[i].task # wjob[n][w]
        BY <2>3, <4>1 DEF Logged
      <4> QED
        BY <2>2, <4>1, <4>2, <4>3 DEF OnlyLog
    <3> QED
      BY <3>1, <3>2
  <2>6. \A m \in Nodes, v \in Workers : Writing(m, v)' => Writing(m, v) /\ (m # n \/ v # w)
    BY <1>0, <1>1 DEF Writing, Live
  <2>7. WritersAgree'
    <3> SUFFICES ASSUME NEW m \in Nodes, NEW v \in Workers, Writing(m, v)'
                 PROVE  task[wjob'[m][v]].status = Outcome(wpc'[m][v]) /\ Unlogged(m, v)'
      BY <1>0 DEF WritersAgree
    <3>1. /\ Writing(m, v) /\ (m # n \/ v # w)
          /\ wjob'[m][v] = wjob[m][v] /\ wpc'[m][v] = wpc[m][v]
      BY <1>1, <2>6
    <3>2. wjob[m][v] # wjob[n][w]
      BY <1>0, <3>1 DEF LogInv, OneWriter
    <3>3. task[wjob[m][v]].status = Outcome(wpc[m][v]) /\ Logged(wjob[m][v]) = {}
      BY <3>1 DEF LogInv, WritersAgree, Unlogged
    <3>4. Unlogged(m, v)'
      BY <2>2, <3>1, <3>2, <3>3 DEF Unlogged, Logged
    <3> QED
      BY <3>1, <3>3, <3>4
  <2>8. OneWriter'
    BY <1>1, <2>6 DEF OneWriter, LogInv
  <2>9. OwnLog'
    BY <1>1, <2>2 DEF OwnLog, LogInv
  <2> QED
    BY <2>5, <2>7, <2>8, <2>9
<1> QED
  BY <1>2, <1>3 DEF UpdateLog

-----------------------------------------------------------------------------
LEMMA LogKept == LogInv /\ [Next]_vars => LogInv'
<1> SUFFICES ASSUME LogInv, [Next]_vars PROVE RowsAgree' /\ WritersAgree' /\ OneWriter' /\ OwnLog'
  BY Inductive DEF LogInv
<1>1. CASE UNCHANGED vars
  <2>1. Quiet
    BY <1>1 DEF vars, Quiet, Writing, Live, LogInv, OwnLog
  <2> QED
    BY <2>1, QuietKeeps
<1>2. CASE Next
  <2>1. PICK n \in Nodes :
           \/ ProducerStep(n) \/ StopStep(n) \/ Environment(n)
           \/ \E w \in Workers : WorkerStep(n, w)
    BY <1>2 DEF Next
  <2>2. ASSUME NEW w \in Workers, WorkerStep(n, w)
        PROVE  Quiet \/ CreateLog(n, w) \/ Settle(n, w) \/ UpdateLog(n, w)
    BY <2>2, QuietSteps DEF WorkerStep
  <2> QED
    BY <2>1, <2>2, QuietSteps, QuietKeeps, CreateLogKeeps, SettleKeeps, UpdateLogKeeps
<1> QED
  BY <1>1, <1>2

\* However the updates of task_info and task_log fail, and whoever dies between
\* them: the log never runs ahead of the table, and no task is settled by two
\* runs (the two writes of dispatch.go's Transaction, which holds neither).
THEOREM LogsDoAgree == Spec => []LogsAgree
<1>1. Init => LogInv
  BY TypedInit, HoldersInit, LogInit DEF LogInv, IInv
<1>2. LogInv => LogsAgree
  BY DEF LogInv, RowsAgree, LogsAgree, OnlyLog
<1> QED
  BY <1>1, <1>2, LogKept, PTL DEF Spec

-----------------------------------------------------------------------------
(* The lease *)

\* The lease's variables, read off the system's.
Phased == [t \in Tasks |-> Phase(t)]
Owned  == [t \in Tasks |-> task[t].node]

\* Somebody holds t.
HeldBySome(t) == \E n \in Nodes : Held(n, t)

\* What a step does to the holders of t: nothing.
SameHolders(t) ==
    \A m \in Nodes :
        /\ InHand(m, t)' <=> InHand(m, t)
        /\ \A i \in Nat : InQueue(m, i, t)' <=> InQueue(m, i, t)
        /\ \A v \in Workers : AtWorker(m, v, t)' <=> AtWorker(m, v, t)

\* A row whose status, node and holders stay is in the same lease.
SameRow(t) == task'[t].status = task[t].status /\ task'[t].node = task[t].node

-----------------------------------------------------------------------------
LEMMA HoldersSame ==
  ASSUME NEW t \in Tasks, SameHolders(t), TypeOK, TypeOK'
  PROVE  \A m \in Nodes : Held(m, t)' <=> Held(m, t)
<1>1. \A m \in Nodes : 1..Len(queue[m]) \subseteq Nat /\ 1..Len(queue'[m]) \subseteq Nat
  BY DEF TypeOK
<1>2. \A m \in Nodes, i \in Nat :
         /\ InQueue(m, i, t) => i \in 1..Len(queue[m])
         /\ InQueue(m, i, t)' => i \in 1..Len(queue'[m])
  BY DEF InQueue
<1> QED
  BY <1>1, <1>2 DEF Held, SameHolders

LEMMA PhaseSame ==
  ASSUME NEW t \in Tasks, SameRow(t), HeldBySome(t)' <=> HeldBySome(t)
  PROVE  Phase(t)' = Phase(t)
  BY DEF SameRow, Phase, Stranded, HeldBySome

\* What a step that changes one row's lease does to all of them.
LEMMA OneMoves ==
  ASSUME NEW t \in Tasks, \A u \in Tasks \ {t} : Phase(u)' = Phase(u)
  PROVE  Phased' = [Phased EXCEPT ![t] = Phase(t)']
<1>1. Phased' = [u \in Tasks |-> Phase(u)']
  BY DEF Phased
<1>2. [Phased EXCEPT ![t] = Phase(t)'] = [u \in Tasks |-> IF u = t THEN Phase(t)' ELSE Phase(u)]
  BY DEF Phased
<1> QED
  BY <1>1, <1>2

LEMMA OwnersSame ==
  ASSUME \A u \in Tasks : task'[u].node = task[u].node
  PROVE  Owned' = Owned
  BY DEF Owned

\* No row's lease changes.
LEMMA Invisible ==
  ASSUME TypeOK, TypeOK', \A t \in Tasks : SameRow(t) /\ SameHolders(t)
  PROVE  Phased' = Phased /\ Owned' = Owned
<1>1. \A t \in Tasks : Phase(t)' = Phase(t)
  BY HoldersSame, PhaseSame DEF HeldBySome
<1> QED
  BY <1>1, OwnersSame DEF Phased, SameRow

\* Only a Running row is held.
LEMMA HeldRuns ==
  ASSUME HolderOwns, NEW t \in Tasks, HeldBySome(t)
  PROVE  task[t].status = Running /\ Phase(t) = "held" /\ Held(task[t].node, t)
  BY DEF HolderOwns, HeldBySome, Phase, Stranded

\* Node n stops holding the tasks of S, rows and the others' holds stay.
LEMMA Strands ==
  ASSUME IInv, TypeOK', NEW n \in Nodes,
         \A t \in Tasks : SameRow(t),
         \A m \in Nodes \ {n}, t \in Tasks : Held(m, t)' <=> Held(m, t),
         \A t \in Tasks : Held(n, t)' => Held(n, t)
  PROVE  (Phased' = Phased /\ Owned' = Owned) \/ Lease!Strand(n)
<1> USE DEF IInv
<1> DEFINE S == {t \in Tasks : Held(n, t) /\ ~Held(n, t)'}
<1>1. ASSUME NEW t \in S
      PROVE  Phase(t) = "held" /\ task[t].node = n /\ Phase(t)' = "stranded"
  <2>1. task[t].status = Running /\ task[t].node = n /\ Phase(t) = "held"
    BY HeldRuns DEF HolderOwns, HeldBySome
  <2>2. \A m \in Nodes \ {n} : ~Held(m, t)
    BY <2>1 DEF HolderOwns
  <2>3. \A m \in Nodes : ~Held(m, t)'
    BY <2>2
  <2> QED
    BY <2>1, <2>3 DEF Phase, Stranded, SameRow
<1>2. ASSUME NEW t \in Tasks \ S PROVE Phase(t)' = Phase(t)
  BY PhaseSame DEF HeldBySome
<1>3. Owned' = Owned
  BY OwnersSame DEF SameRow
<1> HIDE DEF S
<1>4. Phased' = [t \in Tasks |-> IF t \in S THEN "stranded" ELSE Phased[t]]
  BY <1>1, <1>2 DEF Phased
<1>5. CASE S = {}
  BY <1>3, <1>4, <1>5 DEF Phased
<1>6. CASE S # {}
  <2>1. S \in SUBSET {t \in Tasks : Phased[t] = "held" /\ Owned[t] = n}
    BY <1>1 DEF S, Phased, Owned
  <2> QED
    BY <1>3, <1>4, <1>6, <2>1 DEF Lease!Strand, Phased, Owned
<1> QED
  BY <1>5, <1>6

-----------------------------------------------------------------------------
\* A step of the lease, or one it does not see.
LeaseStep == Lease!Next \/ (Phased' = Phased /\ Owned' = Owned)

\* The claim of a row: of t by n, whose answer came (n holds t now) or was lost.
LEMMA Claims ==
  ASSUME IInv, IInv', NEW n \in Nodes, NEW t \in Tasks, Claimable(t), PreemptiveTaskByID(n, t),
         \A u \in Tasks \ {t} : SameHolders(u)
  PROVE  LeaseStep
<1> USE DEF IInv, Typed
<1>1. /\ task'[t].status = Running /\ task'[t].node = n /\ task[t].status = Undo
      /\ \A u \in Tasks \ {t} : task'[u] = task[u]
  BY DEF TypeOK, TaskInfo, PreemptiveTaskByID, Claimable
<1>2. \A u \in Tasks \ {t} : Phase(u)' = Phase(u)
  BY <1>1, HoldersSame, PhaseSame DEF HeldBySome, SameRow
<1>3. Phased' = [Phased EXCEPT ![t] = Phase(t)']
  BY <1>2, OneMoves
<1>4. Phase(t) = "undo" /\ Phase(t)' \in {"held", "stranded"}
  BY <1>1 DEF Phase, Undo, Running
<1>5. Owned' = [Owned EXCEPT ![t] = n]
  <2>1. Owned' = [u \in Tasks |-> task'[u].node]
    BY DEF Owned
  <2>2. [Owned EXCEPT ![t] = n] = [u \in Tasks |-> IF u = t THEN n ELSE task[u].node]
    BY DEF Owned
  <2> QED
    BY <1>1, <2>1, <2>2
<1>6. Lease!Lease(t)
  <2>1. Phased[t] = "undo"
    BY <1>4 DEF Phased
  <2> QED
    BY <1>3, <1>4, <1>5, <2>1 DEF Lease!Lease, Lease!Move, Phased, Owned
<1> QED
  BY <1>6 DEF LeaseStep, Lease!Next

\* Scanning, filtering, claiming and putting into the queue.
LEMMA ProducerImplements ==
  ASSUME IInv, IInv', NEW n \in Nodes, ProducerStep(n) \/ PreemptFault(n)
  PROVE  LeaseStep
<1> USE DEF IInv, Typed
<1>1. ASSUME UNCHANGED <<task, proc, queue, wpc, wjob>>,
             \A m \in Nodes : /\ ppc'[m] = "put" <=> ppc[m] = "put"
                              /\ ppc[m] = "put" => hand'[m] = hand[m]
      PROVE  LeaseStep
  <2>1. \A t \in Tasks : SameRow(t) /\ SameHolders(t)
    BY <1>1 DEF SameRow, SameHolders, InHand, InQueue, AtWorker, Live
  <2> QED
    BY <2>1, Invisible DEF LeaseStep
<1>2. CASE \/ Scan(n) \/ ProducerExit(n)
           \/ \E t \in Tasks : Skip(n, t) \/ Choose(n, t)
  <2>1. UNCHANGED <<task, proc, queue, wpc, wjob>>
    BY <1>2 DEF Scan, ProducerExit, Skip, Choose, db, work
  <2>2. \A m \in Nodes : /\ ppc'[m] = "put" <=> ppc[m] = "put"
                         /\ ppc[m] = "put" => hand'[m] = hand[m]
    BY <1>2 DEF Scan, ProducerExit, Skip, Choose, TypeOK
  <2> QED
    BY <1>1, <2>1, <2>2
<1>3. CASE (Preempt(n) \/ PreemptFault(n)) /\ UNCHANGED task /\ NextRow(n)
  <2>1. UNCHANGED <<task, proc, queue, wpc, wjob>> /\ ppc[n] = "preempt"
    BY <1>3 DEF Preempt, PreemptFault, work
  <2>2. \A m \in Nodes : /\ ppc'[m] = "put" <=> ppc[m] = "put"
                         /\ ppc[m] = "put" => hand'[m] = hand[m]
    BY <1>3, <2>1 DEF NextRow, TypeOK
  <2> QED
    BY <1>1, <2>1, <2>2
<1>4. CASE /\ Preempt(n) \/ PreemptFault(n)
           /\ Claimable(hand[n]) /\ PreemptiveTaskByID(n, hand[n])
  <2>1. PICK t \in Tasks : t = hand[n]
    BY <1>4 DEF Preempt, PreemptFault, JobsHeld
  <2>2. UNCHANGED <<proc, queue, wpc, wjob>> /\ ppc[n] = "preempt"
    BY <1>4 DEF Preempt, PreemptFault, work
  <2>3. \A m \in Nodes, u \in Tasks \ {t} : InHand(m, u)' <=> InHand(m, u)
    <3>1. \A m \in Nodes \ {n} : ppc'[m] = ppc[m] /\ hand'[m] = hand[m]
      BY <1>4 DEF Preempt, PreemptFault, NextRow, TypeOK
    <3>2. ppc'[n] # "put" \/ hand'[n] = t
      BY <1>4, <2>1 DEF Preempt, PreemptFault, NextRow, TypeOK
    <3> QED
      BY <2>2, <3>1, <3>2 DEF InHand, Live
  <2>4. \A u \in Tasks \ {t} : SameHolders(u)
    BY <2>2, <2>3 DEF SameHolders, InQueue, AtWorker, Live
  <2> QED
    BY <1>4, <2>1, <2>4, Claims
<1>5. CASE Put(n)
  <2>1. PICK t \in Tasks : t = hand[n]
    BY <1>5 DEF Put, JobsHeld
  <2>2. /\ UNCHANGED <<task, proc, wpc, wjob>> /\ Live(n) /\ ppc[n] = "put" /\ ppc'[n] = "scan"
        /\ queue' = [queue EXCEPT ![n] = Append(@, t)]
        /\ \A m \in Nodes \ {n} : ppc'[m] = ppc[m] /\ hand'[m] = hand[m]
    BY <1>5, <2>1 DEF Put, NextRow, TypeOK, db, work
  <2>3. /\ queue[n] \in Seq(Tasks) /\ Len(queue[n]) \in Nat
        /\ Len(queue'[n]) = Len(queue[n]) + 1 /\ queue'[n][Len(queue[n]) + 1] = t
        /\ \A i \in 1..Len(queue[n]) : queue'[n][i] = queue[n][i]
        /\ \A m \in Nodes \ {n} : queue'[m] = queue[m]
    BY <2>2 DEF TypeOK
  <2>4. ASSUME NEW u \in Tasks \ {t} PROVE SameHolders(u)
    <3>1. \A m \in Nodes, i \in Nat : InQueue(m, i, u)' <=> InQueue(m, i, u)
      <4>1. \A m \in Nodes \ {n}, i \in Nat : InQueue(m, i, u)' <=> InQueue(m, i, u)
        BY <2>2, <2>3 DEF InQueue, Live
      <4>2. ASSUME NEW i \in Nat PROVE InQueue(n, i, u)' <=> InQueue(n, i, u)
        <5>1. i \in 1..Len(queue'[n]) <=> i \in 1..Len(queue[n]) \/ i = Len(queue[n]) + 1
          BY <2>3
        <5> QED
          BY <2>2, <2>3, <5>1 DEF InQueue, Live
      <4> QED
        BY <4>1, <4>2
    <3>2. ASSUME NEW m \in Nodes PROVE InHand(m, u)' <=> InHand(m, u)
      <4>1. CASE m = n
        BY <2>1, <2>2, <4>1 DEF InHand
      <4>2. CASE m # n
        BY <2>2, <4>2 DEF InHand, Live
      <4> QED
        BY <4>1, <4>2
    <3>3. \A m \in Nodes, v \in Workers : AtWorker(m, v, u)' <=> AtWorker(m, v, u)
      <4>1. UNCHANGED <<proc, wpc, wjob>>
        BY <2>2
      <4> QED
        BY <4>1 DEF AtWorker, Live
    <3> QED
      BY <3>1, <3>2, <3>3 DEF SameHolders
  <2>5. HeldBySome(t) /\ HeldBySome(t)'
    <3>1. InHand(n, t)
      BY <2>1, <2>2 DEF InHand
    <3>2. PICK k \in Nat : k = Len(queue[n]) + 1
      BY <2>3
    <3>3. k \in 1..Len(queue'[n]) /\ queue'[n][k] = t
      BY <2>3, <3>2
    <3>4. InQueue(n, k, t)'
      BY <2>2, <3>3 DEF InQueue, Live
    <3> QED
      BY <3>1, <3>3, <3>4 DEF HeldBySome, Held
  <2>6. \A u \in Tasks : SameRow(u)
    BY <2>2 DEF SameRow
  <2>7. \A u \in Tasks : Phase(u)' = Phase(u)
    BY <2>4, <2>5, <2>6, HoldersSame, PhaseSame DEF HeldBySome
  <2> QED
    BY <2>6, <2>7, OwnersSame DEF LeaseStep, Phased, SameRow
<1> QED
  BY <1>2, <1>3, <1>4, <1>5 DEF ProducerStep, Preempt, PreemptFault

-----------------------------------------------------------------------------
\* A worker takes a job from the queue: the same node holds it still.
LEMMA TakeImplements ==
  ASSUME IInv, IInv', NEW n \in Nodes, NEW w \in Workers, Take(n, w)
  PROVE  LeaseStep
<1> USE DEF IInv, Typed
<1>1. /\ queue[n] \in Seq(Tasks) /\ queue[n] # <<>> /\ Len(queue[n]) \in Nat \ {0}
      /\ Live(n) /\ wpc[n][w] = "idle"
  BY DEF Take, At, TypeOK
<1>2. PICK t \in Tasks : t = Head(queue[n]) /\ t = queue[n][1]
  BY <1>1
<1>3. /\ UNCHANGED <<task, proc, ppc, hand>>
      /\ wjob' = [wjob EXCEPT ![n][w] = t]
      /\ wpc' = [wpc EXCEPT ![n][w] = "create"]
      /\ queue' = [queue EXCEPT ![n] = Tail(@)]
  BY <1>2 DEF Take, Goto, db, prod
<1>4. /\ \A m \in Nodes \ {n} : queue'[m] = queue[m]
      /\ Len(queue'[n]) = Len(queue[n]) - 1
      /\ \A i \in 1..Len(queue'[n]) : queue'[n][i] = queue[n][i + 1]
  BY <1>1, <1>3 DEF TypeOK
<1>5. \A m \in Nodes, v \in Workers :
         /\ wpc'[m][v] = IF m = n /\ v = w THEN "create" ELSE wpc[m][v]
         /\ wjob'[m][v] = IF m = n /\ v = w THEN t ELSE wjob[m][v]
  <2> SUFFICES ASSUME NEW m \in Nodes, NEW v \in Workers
               PROVE  /\ wpc'[m][v] = IF m = n /\ v = w THEN "create" ELSE wpc[m][v]
                      /\ wjob'[m][v] = IF m = n /\ v = w THEN t ELSE wjob[m][v]
    OBVIOUS
  <2>1. wpc'[m][v] = IF m = n /\ v = w THEN "create" ELSE wpc[m][v]
    BY <1>3 DEF TypeOK
  <2>2. wjob'[m][v] = IF m = n /\ v = w THEN t ELSE wjob[m][v]
    BY <1>3 DEF TypeOK
  <2> QED
    BY <2>1, <2>2
<1>6. HeldBySome(t) /\ HeldBySome(t)'
  <2>1. 1 \in 1..Len(queue[n]) /\ InQueue(n, 1, t)
    BY <1>1, <1>2 DEF InQueue
  <2>2. AtWorker(n, w, t)'
    BY <1>1, <1>3, <1>5 DEF AtWorker, Live, Working
  <2> QED
    BY <2>1, <2>2 DEF HeldBySome, Held
<1>7. ASSUME NEW u \in Tasks \ {t} PROVE HeldBySome(u)' <=> HeldBySome(u)
  <2>1. \A m \in Nodes : InHand(m, u)' <=> InHand(m, u)
    <3>1. UNCHANGED <<proc, ppc, hand>>
      BY <1>3
    <3> QED
      BY <3>1 DEF InHand, Live
  <2>2. \A m \in Nodes, v \in Workers : AtWorker(m, v, u)' <=> AtWorker(m, v, u)
    <3> SUFFICES ASSUME NEW m \in Nodes, NEW v \in Workers
                 PROVE  AtWorker(m, v, u)' <=> AtWorker(m, v, u)
      OBVIOUS
    <3>1. CASE m = n /\ v = w
      BY <1>1, <1>5, <3>1 DEF AtWorker, Working
    <3>2. CASE m # n \/ v # w
      BY <1>3, <1>5, <3>2 DEF AtWorker, Live
    <3> QED
      BY <3>1, <3>2
  <2>3. ASSUME NEW m \in Nodes
        PROVE  (\E i \in 1..Len(queue'[m]) : InQueue(m, i, u)')
                  <=> (\E i \in 1..Len(queue[m]) : InQueue(m, i, u))
    <3>1. CASE m # n
      BY <1>3, <1>4, <3>1 DEF InQueue, Live
    <3>2. CASE m = n
      <4>1. ASSUME NEW i \in 1..Len(queue'[n]), InQueue(n, i, u)'
            PROVE  \E j \in 1..Len(queue[n]) : InQueue(n, j, u)
        <5>1. i + 1 \in 1..Len(queue[n]) /\ queue[n][i + 1] = u
          BY <1>1, <1>4, <4>1 DEF InQueue
        <5>2. InQueue(n, i + 1, u)
          BY <1>1, <5>1 DEF InQueue
        <5> QED
          BY <5>1, <5>2
      <4>2. ASSUME NEW i \in 1..Len(queue[n]), InQueue(n, i, u)
            PROVE  \E j \in 1..Len(queue'[n]) : InQueue(n, j, u)'
        <5>1. i # 1 /\ queue[n][i] = u
          BY <1>2, <4>2 DEF InQueue
        <5>2. PICK j \in 1..Len(queue'[n]) : i = j + 1
          <6>1. i - 1 \in 1..Len(queue'[n]) /\ i = (i - 1) + 1
            BY <1>1, <1>4, <5>1
          <6> QED
            BY <6>1
        <5>3. queue'[n][j] = u
          BY <1>4, <5>1, <5>2
        <5>4. Live(n)'
          BY <1>1, <1>3 DEF Live
        <5>5. InQueue(n, j, u)'
          BY <5>3, <5>4 DEF InQueue
        <5> QED
          BY <5>5
      <4> QED
        BY <3>2, <4>1, <4>2
    <3> QED
      BY <3>1, <3>2
  <2> QED
    BY <2>1, <2>2, <2>3 DEF HeldBySome, Held
<1>8. \A u \in Tasks : SameRow(u)
  BY <1>3 DEF SameRow
<1>9. \A u \in Tasks : Phase(u)' = Phase(u)
  BY <1>6, <1>7, <1>8, PhaseSame
<1> QED
  BY <1>8, <1>9, OwnersSame DEF LeaseStep, Phased, SameRow

\* A worker's other steps: its task is settled, or stranded by a fault, or stays.
LEMMA WorkerImplements ==
  ASSUME IInv, IInv', NEW n \in Nodes, NEW w \in Workers,
         WorkerStep(n, w) \/ SettleFault(n, w)
  PROVE  LeaseStep
<1> USE DEF IInv, Typed
<1>1. CASE \/ CreateLog(n, w) \/ LinkLog(n, w) \/ HandlerOk(n, w) \/ HandlerErr(n, w)
           \/ UpdateLog(n, w) \/ WorkerExit(n, w)
  <2>1. UNCHANGED <<proc, ppc, hand, queue>>
    BY <1>1 DEF CreateLog, LinkLog, HandlerOk, HandlerErr, UpdateLog, WorkerExit, prod
  <2>2. ASSUME NEW t \in Tasks PROVE SameRow(t)
    <3>1. task' = task \/ task' = [task EXCEPT ![wjob[n][w]].log = wlog[n][w]]
      BY <1>1 DEF CreateLog, LinkLog, HandlerOk, HandlerErr, UpdateLog, WorkerExit, db
    <3>2. task[t] \in TaskInfo
      BY DEF TypeOK
    <3>3. task'[t] = task[t] \/ task'[t] = [task[t] EXCEPT !.log = wlog[n][w]]
      BY <3>1 DEF TypeOK
    <3> QED
      BY <3>2, <3>3 DEF SameRow, TaskInfo
  <2>3. \/ wjob' = wjob /\ wpc[n][w] \in Working
           /\ \E to \in Working : wpc' = [wpc EXCEPT ![n][w] = to]
        \/ (wjob' = wjob \/ wjob' = [wjob EXCEPT ![n][w] = None]) /\ wpc[n][w] \notin Working
           /\ \E to \in {"idle", "exit"} : wpc' = [wpc EXCEPT ![n][w] = to]
    BY <1>1 DEF CreateLog, LinkLog, HandlerOk, HandlerErr, UpdateLog, WorkerExit, NextJob, Goto,
                At, Working
  <2>4. \A m \in Nodes, v \in Workers : (m # n \/ v # w) =>
           wpc'[m][v] = wpc[m][v] /\ wjob'[m][v] = wjob[m][v]
    <3>1. \E to \in WorkerPCs : wpc' = [wpc EXCEPT ![n][w] = to]
      BY <2>3 DEF WorkerPCs, Working
    <3> QED
      BY <2>3, <3>1, OthersAlone
  <2>5. (wpc'[n][w] \in Working <=> wpc[n][w] \in Working)
        /\ (wpc[n][w] \in Working => wjob'[n][w] = wjob[n][w])
    BY <2>3 DEF Working, TypeOK
  <2>6. \A t \in Tasks : SameHolders(t)
    BY <2>1, <2>4, <2>5 DEF SameHolders, InHand, InQueue, AtWorker, Live
  <2> QED
    BY <2>2, <2>6, Invisible DEF LeaseStep
<1>2. CASE Settle(n, w) \/ SettleFault(n, w)
  <2>1. PICK t \in Tasks : t = wjob[n][w]
    BY <1>2 DEF Settle, SettleFault, JobsHeld
  <2>2. /\ UNCHANGED <<proc, ppc, hand, queue>> /\ AtWorker(n, w, t)
        /\ wpc[n][w] \in {"finish", "error"} /\ wpc'[n][w] \notin Working
    BY <1>2, <2>1 DEF Settle, SettleFault, AtWorker, NextJob, Goto, Working, TypeOK, prod
  <2>3. \A m \in Nodes, v \in Workers : (m # n \/ v # w) =>
           wpc'[m][v] = wpc[m][v] /\ wjob'[m][v] = wjob[m][v]
    <3>1. \E to \in WorkerPCs : wpc' = [wpc EXCEPT ![n][w] = to]
      BY <1>2 DEF Settle, SettleFault, NextJob, Goto, WorkerPCs
    <3>2. wjob' = wjob \/ wjob' = [wjob EXCEPT ![n][w] = None]
      BY <1>2 DEF Settle, SettleFault, NextJob
    <3> QED
      BY <3>1, <3>2, OthersAlone
  <2>4. HeldBySome(t) /\ Phase(t) = "held" /\ Settleable(t)
    <3>1. HeldBySome(t)
      BY <2>2 DEF HeldBySome, Held
    <3> QED
      BY <3>1, HeldRuns DEF Settleable
  <2>5. CASE task' = task
    <3>1. \A m \in Nodes \ {n}, u \in Tasks : Held(m, u)' <=> Held(m, u)
      BY <2>2, <2>3 DEF Held, InHand, InQueue, AtWorker, Live
    <3>2. ASSUME NEW u \in Tasks, Held(n, u)' PROVE Held(n, u)
      <4>1. /\ InHand(n, u)' => InHand(n, u)
            /\ \A i : InQueue(n, i, u)' => InQueue(n, i, u)
            /\ \A v \in Workers : AtWorker(n, v, u)' => AtWorker(n, v, u)
        BY <2>2, <2>3 DEF InHand, InQueue, AtWorker, Live
      <4> QED
        BY <2>2, <3>2, <4>1 DEF Held
    <3>3. \A u \in Tasks : SameRow(u)
      BY <2>5 DEF SameRow
    <3> QED
      BY <3>1, <3>2, <3>3, Strands DEF LeaseStep, Lease!Next
  <2>6. ASSUME NEW s \in Terminal, SettleTaskByID(t, s) PROVE LeaseStep
    <3>1. /\ task'[t].status = s /\ task'[t].node = task[t].node
          /\ \A u \in Tasks \ {t} : task'[u] = task[u]
      BY <2>6 DEF SettleTaskByID, TypeOK, TaskInfo
    <3>2. ASSUME NEW u \in Tasks \ {t} PROVE SameHolders(u)
      <4>1. \A m \in Nodes, v \in Workers : AtWorker(m, v, u)' <=> AtWorker(m, v, u)
        BY <2>1, <2>2, <2>3 DEF AtWorker, Live
      <4> QED
        BY <2>2, <4>1 DEF SameHolders, InHand, InQueue, Live
    <3>3. \A u \in Tasks \ {t} : Phase(u)' = Phase(u)
      BY <3>1, <3>2, HoldersSame, PhaseSame DEF HeldBySome, SameRow
    <3>4. Phased' = [Phased EXCEPT ![t] = Phase(t)']
      BY <3>3, OneMoves
    <3>5. Owned' = Owned
      BY <3>1, OwnersSame
    <3>6. Phase(t)' \in {"finish", "error"}
      BY <2>6, <3>1 DEF Phase, Terminal, Finish, Error, Running
    <3>7. Phased[t] = "held"
      BY <2>4 DEF Phased
    <3>8. Lease!Settle(t)
      BY <3>4, <3>5, <3>6, <3>7 DEF Lease!Settle, Lease!Move, Phased, Owned
    <3> QED
      BY <3>8 DEF LeaseStep, Lease!Next
  <2>7. task' = task \/ \E s \in Terminal : SettleTaskByID(t, s)
    BY <1>2, <2>1 DEF Settle, SettleFault, Outcome, Terminal
  <2> QED
    BY <2>5, <2>6, <2>7
<1> QED
  BY <1>1, <1>2, TakeImplements DEF WorkerStep

-----------------------------------------------------------------------------
\* Requests, StopTask, crashes and restarts.
LEMMA NodeImplements ==
  ASSUME IInv, IInv', NEW n \in Nodes,
         \/ StopStep(n) \/ Stop(n) \/ Crash(n) \/ Restart(n)
         \/ \E t \in Tasks : CreateTask(n, t)
  PROVE  LeaseStep
<1> USE DEF IInv, Typed
<1>1. CASE Stop(n) \/ StopEnd(n)
  <2>1. UNCHANGED <<task, ppc, hand, queue, wpc, wjob>> /\ \A m \in Nodes : Live(m)' <=> Live(m)
    BY <1>1 DEF Stop, StopEnd, Live, TypeOK, db, prod, work
  <2>2. \A t \in Tasks : SameRow(t) /\ SameHolders(t)
    BY <2>1 DEF SameRow, SameHolders, InHand, InQueue, AtWorker
  <2> QED
    BY <2>2, Invisible DEF LeaseStep
<1>2. CASE Collect(n)
  <2>1. /\ UNCHANGED <<task, ppc, hand, queue, wpc, wjob>> /\ ~Live(n)'
        /\ \A m \in Nodes \ {n} : proc'[m] = proc[m]
    BY <1>2 DEF Collect, Live, TypeOK, db, work
  <2>2. \A m \in Nodes \ {n}, t \in Tasks : Held(m, t)' <=> Held(m, t)
    BY <2>1 DEF Held, InHand, InQueue, AtWorker, Live
  <2>3. \A t \in Tasks : ~Held(n, t)'
    BY <2>1 DEF Held, InHand, InQueue, AtWorker
  <2>4. \A t \in Tasks : SameRow(t)
    BY <2>1 DEF SameRow
  <2> QED
    BY <2>2, <2>3, <2>4, Strands DEF LeaseStep, Lease!Next
<1>3. CASE Crash(n) \/ Restart(n)
  <2>1. UNCHANGED task /\ Fresh(n) /\ \A m \in Nodes \ {n} : proc'[m] = proc[m]
    BY <1>3 DEF Crash, Restart, db, TypeOK
  <2>2. /\ ppc'[n] = "scan" /\ queue'[n] = <<>> /\ \A w \in Workers : wpc'[n][w] = "idle"
        /\ \A m \in Nodes \ {n} :
              /\ ppc'[m] = ppc[m] /\ hand'[m] = hand[m] /\ queue'[m] = queue[m]
              /\ wpc'[m] = wpc[m] /\ wjob'[m] = wjob[m]
    BY <2>1 DEF Fresh, TypeOK
  <2>3. \A m \in Nodes \ {n}, t \in Tasks : Held(m, t)' <=> Held(m, t)
    BY <2>1, <2>2 DEF Held, InHand, InQueue, AtWorker, Live
  <2>4. \A t \in Tasks : ~Held(n, t)'
    BY <2>2 DEF Held, InHand, InQueue, AtWorker, Working
  <2>5. \A t \in Tasks : SameRow(t)
    BY <2>1 DEF SameRow
  <2> QED
    BY <2>3, <2>4, <2>5, Strands DEF LeaseStep, Lease!Next
<1>4. ASSUME NEW t \in Tasks, Reset(n, t) \/ CreateTask(n, t), task' # task PROVE LeaseStep
  <2>1. /\ UNCHANGED <<proc, ppc, hand, queue, wpc, wjob>>
        /\ \A u \in Tasks \ {t} : task'[u] = task[u]
    BY <1>4 DEF Reset, ResetTaskByID, CreateTask, TypeOK, prod, work
  <2>2. ASSUME NEW u \in Tasks \ {t} PROVE Phase(u)' = Phase(u)
    <3>1. SameHolders(u) /\ SameRow(u)
      BY <2>1 DEF SameHolders, SameRow, InHand, InQueue, AtWorker, Live
    <3> QED
      BY <3>1, HoldersSame, PhaseSame DEF HeldBySome
  <2>3. Phased' = [Phased EXCEPT ![t] = Phase(t)']
    BY <2>2, OneMoves
  <2>4. CASE CreateTask(n, t)
    <3>1. /\ task[t].status = Absent
          /\ task'[t].status = Undo /\ task'[t].node = task[t].node
      BY <2>4 DEF CreateTask, TypeOK, TaskInfo
    <3>2. Owned' = Owned
      BY <2>1, <3>1, OwnersSame
    <3>3. Phase(t) = "absent" /\ Phase(t)' = "undo"
      BY <3>1 DEF Phase, Absent, Undo, Running
    <3>4. Lease!Submit(t)
      BY <2>3, <3>2, <3>3 DEF Lease!Submit, Lease!Move, Phased, Owned
    <3> QED
      BY <3>4 DEF LeaseStep, Lease!Next
  <2>5. CASE Reset(n, t)
    <3>1. /\ proc[n] = "resetting" /\ task[t].status = Running /\ task[t].node = n
          /\ ResetTaskByID(t)
      BY <1>4, <2>5 DEF Reset, Resettable
    <3>2. task'[t].status = Undo /\ task'[t].node = None
      BY <3>1 DEF ResetTaskByID, TypeOK, TaskInfo
    <3>3. \A m \in Nodes : ~Held(m, t)
      BY <3>1 DEF HolderOwns, Held, InHand, InQueue, AtWorker, Live
    <3>4. Phase(t) = "stranded" /\ Phase(t)' = "undo"
      BY <3>1, <3>2, <3>3 DEF Phase, Stranded, Undo, Running
    <3>5. Owned' = [Owned EXCEPT ![t] = None]
      <4>1. Owned' = [u \in Tasks |-> task'[u].node]
        BY DEF Owned
      <4>2. [Owned EXCEPT ![t] = None] = [u \in Tasks |-> IF u = t THEN None ELSE task[u].node]
        BY DEF Owned
      <4> QED
        BY <2>1, <3>2, <4>1, <4>2
    <3>6. Lease!GiveBack(t)
      BY <2>3, <3>4, <3>5 DEF Lease!GiveBack, Lease!Move, Phased, Owned
    <3> QED
      BY <3>6 DEF LeaseStep, Lease!Next
  <2> QED
    BY <1>4, <2>4, <2>5
<1>5. ASSUME NEW t \in Tasks, Reset(n, t) \/ CreateTask(n, t), task' = task PROVE LeaseStep
  <2>1. UNCHANGED <<task, proc, ppc, hand, queue, wpc, wjob>>
    BY <1>5 DEF Reset, CreateTask, prod, work
  <2>2. \A u \in Tasks : SameRow(u) /\ SameHolders(u)
    BY <2>1 DEF SameRow, SameHolders, InHand, InQueue, AtWorker, Live
  <2> QED
    BY <2>2, Invisible DEF LeaseStep
<1> QED
  BY <1>1, <1>2, <1>3, <1>4, <1>5 DEF StopStep

-----------------------------------------------------------------------------
\* Every step of the system is a step of the lease or invisible to it.
LEMMA StepImplements ==
  IInv /\ [Next]_vars => [Lease!Next]_<<Phased, Owned>>
<1> SUFFICES ASSUME IInv, [Next]_vars PROVE LeaseStep
  BY DEF LeaseStep
<1>0. IInv'
  BY Inductive
<1>1. CASE UNCHANGED vars
  <2>1. \A t \in Tasks : SameRow(t) /\ SameHolders(t)
    BY <1>1 DEF vars, SameRow, SameHolders, InHand, InQueue, AtWorker, Live
  <2> QED
    BY <1>0, <2>1, Invisible DEF LeaseStep, IInv, Typed
<1>2. CASE Next
  <2>1. PICK n \in Nodes :
           \/ ProducerStep(n) \/ StopStep(n) \/ Environment(n)
           \/ \E w \in Workers : WorkerStep(n, w)
    BY <1>2 DEF Next
  <2> QED
    BY <1>0, <2>1, ProducerImplements, WorkerImplements, NodeImplements DEF Environment
<1> QED
  BY <1>1, <1>2

\* The task system of app/pkg/event/dispatch implements the lease protocol of
\* TaskLease: whatever the producers, the workers, StopTask, crashes and failing
\* updates do, a waiting task is leased to one node, which alone settles it, a
\* lease whose holder is gone only goes back to waiting, and an outcome is final.
THEOREM DispatchImplementsLease == Spec => ImplementsLease
<1>1. Init => Lease!Init
  BY DEF Init, Lease!Init, Phase, Absent, Running
<1>2. IInv /\ [Next]_vars => [Lease!Next]_<<[t \in Tasks |-> Phase(t)],
                                            [t \in Tasks |-> task[t].node]>>
  BY StepImplements DEF Phased, Owned
<1> QED
  BY <1>1, <1>2, Invariance, PTL DEF Spec, ImplementsLease, Lease!Spec
=============================================================================
