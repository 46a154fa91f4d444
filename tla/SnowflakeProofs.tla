--------------------------- MODULE SnowflakeProofs ---------------------------
(* Theorems about Snowflake for any nodes, worker ids, sequence numbers,     *)
(* clocks and bounds.                                                        *)
EXTENDS Snowflake, TLAPS

\* A worker id is a node's if redis keeps it under the node's address, or the
\* node's process has it.
Has(n, w) == known[n] = w \/ ((pc[n] = "set" \/ Begun(n)) /\ workerId[n] = w)

\* A process that has counted a number has a number, and no clock shows 0.
Counted ==
    /\ \A n \in Nodes : pc[n] = "set" => workerId[n] \in Nat
    /\ \A n \in Nodes : clock[n] > 0

\* No number is two nodes', and none is that has not been counted yet.
Owned ==
    \A n \in Nodes, w \in Nat : Has(n, w) =>
        /\ w <= workId
        /\ \A m \in Nodes : Has(m, w) => m = n

\* The ids of a process's worker id are not past its last one, unless it was
\* taken up early.
Ordered ==
    \A n \in Nodes :
        /\ Begun(n) /\ lastTimestamp[n] # 0 /\ workerId[n] \notin early
        => \A id \in issued : id.workerId = workerId[n] =>
              /\ id.time <= lastTimestamp[n]
              /\ id.time = lastTimestamp[n] /\ pc[n] # "spin" => id.sequence <= sequence[n]

\* The inductive invariant.
SnowInv == TypeOK /\ Counted /\ Owned /\ Ordered /\ UniqueIds

-----------------------------------------------------------------------------
LEMMA SnowInvInit == Init => SnowInv
  BY SnowflakeAssumption
  DEF Init, SnowInv, TypeOK, Places, Begun, Counted, Owned, Has, Ordered, UniqueIds, Ids

\* Only NextId hands out ids; the rest of a step is about redis, a clock or a
\* process that begins.
Quiet == UNCHANGED idVars

\* The steps of main that leave the counter and the Snowflake alone.
MainStep(n) ==
    \/ Passes(n, "boot", "address") \/ Passes(n, "address", "init") \/ Passes(n, "store", "up")
    \/ \E l \in {"boot", "address", "init", "store"} : Panics(n, l)

LEMMA BootSteps ==
  ASSUME NEW n \in Nodes, Boot(n)
  PROVE  Start(n) \/ MainStep(n) \/ Remembered(n) \/ Increment(n) \/ Remember(n)
  BY DEF Boot, MainStep, Plug, PlugFails, AskAddress, AddressFails, InitFails, OpenStorage,
         StorageFails

LEMMA TypeKept == TypeOK /\ Counted /\ [Next]_vars => TypeOK' /\ Counted'
<1> SUFFICES ASSUME TypeOK, Counted, [Next]_vars PROVE TypeOK' /\ Counted'
  OBVIOUS
<1> USE SnowflakeAssumption
    DEF TypeOK, Counted, Places, Begun, Goto, redisVars, flakeVars, idVars, boundVars
<1>1. ASSUME NEW n \in Nodes, Start(n) \/ MainStep(n) \/ Crash(n)
      PROVE  TypeOK' /\ Counted'
  <2>1. CASE Start(n)
    BY <2>1 DEF Start
  <2>2. CASE MainStep(n)
    <3>1. \E l \in {"down", "address", "init"} : Goto(n, l)
            \/ (pc[n] = "store" /\ Goto(n, "up"))
      BY <2>2 DEF MainStep, Passes, Panics
    <3>2. /\ UNCHANGED <<redisVars, clock, flakeVars, idVars, zeros, backs, starts>>
          /\ faults' \in Nat
      BY <2>2 DEF MainStep, Passes, Panics, Fault
    <3> QED
      BY <3>1, <3>2
  <2>3. CASE Crash(n)
    BY <2>3 DEF Crash
  <2> QED
    BY <1>1, <2>1, <2>2, <2>3
<1>2. ASSUME NEW n \in Nodes, Tick(n) \/ PutBack(n) PROVE TypeOK' /\ Counted'
  <2>1. CASE Tick(n)
    BY <2>1 DEF Tick
  <2>2. CASE PutBack(n)
    <3>1. clock' = [clock EXCEPT ![n] = @ - 1] /\ clock[n] - 1 \in Nat \ {0}
      BY <2>2 DEF PutBack
    <3> QED
      BY <2>2, <3>1 DEF PutBack
  <2> QED
    BY <1>2, <2>1, <2>2
<1>3. ASSUME NEW n \in Nodes, NEW w \in Nat, Begin(n, w), UNCHANGED clock
      PROVE  /\ pc' \in [Nodes -> Places]
             /\ workerId' \in [Nodes -> Nat \cup {None}]
             /\ \A m \in Nodes : Begun(m)' => workerId'[m] \in 0 .. MaxWorker
             /\ lastTimestamp' \in [Nodes -> Nat]
             /\ sequence' \in [Nodes -> 0 .. SequenceMask]
             /\ Counted'
  <2>1. CASE w > MaxWorker
    BY <1>3, <2>1 DEF Begin
  <2>2. CASE w <= MaxWorker
    BY <1>3, <2>2 DEF Begin
  <2> QED
    BY <2>1, <2>2
<1>4. ASSUME NEW n \in Nodes, Remembered(n) PROVE TypeOK' /\ Counted'
  <2>1. known[n] \in Nat
    BY <1>4 DEF Remembered
  <2> QED
    BY <1>3, <1>4, <2>1 DEF Remembered
<1>5. ASSUME NEW n \in Nodes, Increment(n) PROVE TypeOK' /\ Counted'
  BY <1>5 DEF Increment, Fault
<1>6. ASSUME NEW n \in Nodes, Remember(n) PROVE TypeOK' /\ Counted'
  <2>1. workerId[n] \in Nat
    BY <1>6 DEF Remember
  <2> QED
    BY <1>3, <1>6, <2>1 DEF Remember, Fault
<1>7. ASSUME NEW n \in Nodes, NEW s \in 0 .. SequenceMask, pc[n] \in {"up", "spin"},
             Issue(n, s)
      PROVE  TypeOK' /\ Counted'
  <2>1. Id(clock[n], workerId[n], s) \in Ids
    BY <1>7 DEF Id, Ids
  <2>2. issued' \subseteq Ids /\ twice' \subseteq issued' /\ early' \subseteq Nat
    <3>1. issued' \subseteq Ids
      BY <1>7, <2>1 DEF Issue
    <3>2. twice' \subseteq issued'
      BY <1>7 DEF Issue
    <3>3. early' \subseteq Nat
      <4>1. workerId[n] \in Nat
        BY <1>7
      <4>2. Early(n) \subseteq {workerId[n]}
        BY DEF Early
      <4>3. early' = early \cup Early(n)
        BY <1>7 DEF Issue
      <4> QED
        BY <4>1, <4>2, <4>3
    <3> QED
      BY <3>1, <3>2, <3>3
  <2> QED
    BY <1>7, <2>2 DEF Issue
<1>8. ASSUME NEW n \in Nodes, NextId(n) PROVE TypeOK' /\ Counted'
  <2>1. CASE UsedUp(n)
    BY <2>1 DEF UsedUp
  <2>2. CASE SameTime(n)
    BY <1>7, <2>2 DEF SameTime
  <2>3. CASE NewTime(n) \/ SpinEnds(n)
    BY <1>7, <2>3 DEF NewTime, SpinEnds
  <2> QED
    BY <1>8, <2>1, <2>2, <2>3 DEF NextId
<1>9. ASSUME NEW n \in Nodes, ResumeZero(n) PROVE TypeOK' /\ Counted'
  BY <1>9 DEF ResumeZero
<1>10. CASE UNCHANGED vars
  BY <1>10 DEF vars
<1> QED
  BY <1>1, <1>2, <1>4, <1>5, <1>6, <1>8, <1>9, <1>10, BootSteps DEF Next

\* A number becomes a node's when it is counted, and is nobody's else.
LEMMA OwnedKept == SnowInv /\ [Next]_vars => Owned'
<1> SUFFICES ASSUME SnowInv, [Next]_vars PROVE Owned'
  OBVIOUS
<1>0. TypeOK /\ Counted /\ Owned
  BY DEF SnowInv
<1> USE <1>0, SnowflakeAssumption
    DEF TypeOK, Counted, Places, Begun, Goto, redisVars, flakeVars, idVars, boundVars
<1>1. ASSUME workId' = workId, \A n \in Nodes, w \in Nat : Has(n, w)' => Has(n, w)
      PROVE  Owned'
  BY <1>1 DEF Owned
<1>2. ASSUME NEW n \in Nodes, NEW w \in Nat, Begin(n, w), Has(n, w),
             known' = known \/ known' = [known EXCEPT ![n] = w], workId' = workId
      PROVE  Owned'
  <2>1. \A m \in Nodes, v \in Nat : m # n => (Has(m, v)' <=> Has(m, v))
    BY <1>2 DEF Begin, Has
  <2>2. \A v \in Nat : Has(n, v)' => Has(n, v)
    <3>1. CASE w > MaxWorker
      BY <1>2, <3>1 DEF Begin, Has
    <3>2. CASE w <= MaxWorker
      BY <1>2, <3>2 DEF Begin, Has
    <3> QED
      BY <3>1, <3>2
  <2> QED
    BY <1>1, <1>2, <2>1, <2>2
<1>3. ASSUME NEW n \in Nodes, Start(n) \/ MainStep(n) \/ Crash(n) PROVE Owned'
  BY <1>1, <1>3 DEF Start, MainStep, Passes, Panics, Crash, Has
<1>4. ASSUME NEW n \in Nodes, Remembered(n) PROVE Owned'
  BY <1>2, <1>4 DEF Remembered, Has
<1>5. ASSUME NEW n \in Nodes, Remember(n) PROVE Owned'
  BY <1>2, <1>5 DEF Remember, Has
<1>6. ASSUME NEW n \in Nodes, Increment(n) PROVE Owned'
  <2>1. /\ workId' = workId + 1 /\ known' = known
        /\ workerId' = [workerId EXCEPT ![n] = workId + 1] /\ pc' = [pc EXCEPT ![n] = "set"]
    BY <1>6 DEF Increment
  <2>2. \A m \in Nodes, v \in Nat : Has(m, v)' => Has(m, v) \/ (m = n /\ v = workId + 1)
    BY <2>1 DEF Has
  <2>3. \A m \in Nodes : ~Has(m, workId + 1)
    BY DEF Owned
  <2> QED
    BY <2>1, <2>2, <2>3 DEF Owned
<1>7. ASSUME NEW n \in Nodes, Tick(n) \/ PutBack(n) \/ ResumeZero(n) PROVE Owned'
  BY <1>1, <1>7 DEF Tick, PutBack, ResumeZero, Has
<1>8. ASSUME NEW n \in Nodes, NextId(n) PROVE Owned'
  <2>1. /\ UNCHANGED <<workId, known, workerId>> /\ pc[n] \in {"up", "spin"}
        /\ \E l \in {"up", "spin"} : pc' = [pc EXCEPT ![n] = l]
    BY <1>8 DEF NextId, SameTime, NewTime, UsedUp, SpinEnds, Issue
  <2> QED
    BY <1>1, <2>1 DEF Has
<1>9. CASE UNCHANGED vars
  BY <1>1, <1>9 DEF vars, Has
<1> QED
  BY <1>3, <1>4, <1>5, <1>6, <1>7, <1>8, <1>9, BootSteps DEF Next

-----------------------------------------------------------------------------
\* An id of the process's clock, past all it has handed out, keeps the order,
\* and is new unless the worker id was taken up early.
LEMMA IssueKeeps ==
  ASSUME SnowInv, NEW n \in Nodes, NEW s \in 0 .. SequenceMask, Issue(n, s),
         \/ pc[n] \in {"up", "spin"} /\ clock[n] > lastTimestamp[n]
         \/ pc[n] = "up" /\ clock[n] = lastTimestamp[n] /\ s = sequence[n] + 1
  PROVE  Ordered' /\ UniqueIds'
<1> USE SnowflakeAssumption DEF TypeOK, Begun, Goto, redisVars
<1>0. TypeOK /\ Counted /\ Owned /\ Ordered /\ UniqueIds
  BY DEF SnowInv
<1> DEFINE id == Id(clock[n], workerId[n], s)
<1>1. /\ issued' = issued \cup {id} /\ twice' = twice \cup ({id} \cap issued)
      /\ early' = early \cup Early(n)
      /\ lastTimestamp' = [lastTimestamp EXCEPT ![n] = clock[n]]
      /\ sequence' = [sequence EXCEPT ![n] = s] /\ pc' = [pc EXCEPT ![n] = "up"]
      /\ workerId' = workerId
  BY DEF Issue
<1>2. id.time = clock[n] /\ id.workerId = workerId[n] /\ id.sequence = s
  BY DEF Id
<1>3. \A i \in issued : i.time \in Nat /\ i.sequence \in Nat
  BY <1>0 DEF Ids
<1>4. ASSUME workerId[n] \notin early', NEW i \in issued, i.workerId = workerId[n]
      PROVE  i.time < clock[n] \/ (i.time = clock[n] /\ i.sequence < s)
  <2>1. CASE lastTimestamp[n] = 0
    <3>1. ~(i.time >= clock[n])
      BY <1>1, <1>4, <2>1 DEF Early
    <3> QED
      BY <1>0, <1>3, <3>1
  <2>2. CASE lastTimestamp[n] # 0
    <3>1. workerId[n] \notin early
      BY <1>1, <1>4
    <3>2. /\ i.time <= lastTimestamp[n]
          /\ i.time = lastTimestamp[n] /\ pc[n] = "up" => i.sequence <= sequence[n]
      BY <1>0, <1>4, <2>2, <3>1 DEF Ordered
    <3>3. clock[n] \in Nat /\ lastTimestamp[n] \in Nat /\ sequence[n] \in Nat /\ s \in Nat
      BY <1>0
    <3> QED
      BY <1>3, <3>2, <3>3
  <2> QED
    BY <2>1, <2>2
<1>5. UniqueIds'
  <2>1. id \in issued => workerId[n] \in early'
    BY <1>0, <1>2, <1>4
  <2> QED
    BY <1>0, <1>1, <1>2, <2>1 DEF UniqueIds
<1>6. ASSUME NEW m \in Nodes, Begun(m)', lastTimestamp'[m] # 0,
             workerId'[m] \notin early', NEW i \in issued', i.workerId = workerId'[m]
      PROVE  /\ i.time <= lastTimestamp'[m]
             /\ i.time = lastTimestamp'[m] /\ pc'[m] # "spin" => i.sequence <= sequence'[m]
  <2>1. CASE m = n
    <3>1. lastTimestamp'[m] = clock[n] /\ sequence'[m] = s
      BY <1>0, <1>1, <2>1
    <3>2. CASE i = id
      BY <1>0, <1>2, <3>1, <3>2
    <3>3. CASE i # id
      <4>1. i \in issued
        BY <1>1, <1>6, <3>3
      <4>2. i.time < clock[n] \/ (i.time = clock[n] /\ i.sequence < s)
        BY <1>1, <1>4, <1>6, <2>1, <4>1
      <4> QED
        BY <1>0, <1>3, <3>1, <4>1, <4>2
    <3> QED
      BY <3>2, <3>3
  <2>2. CASE m # n
    <3>1. /\ pc[m] = pc'[m] /\ lastTimestamp'[m] = lastTimestamp[m]
          /\ sequence'[m] = sequence[m] /\ workerId[m] \notin early
      BY <1>0, <1>1, <1>6, <2>2
    <3>2. workerId[m] \in Nat /\ Has(m, workerId[m])
      BY <1>0, <1>6, <3>1 DEF Has
    <3>3. pc[n] \in {"up", "spin"}
      OBVIOUS
    <3>4. workerId[n] # workerId[m]
      BY <1>0, <2>2, <3>2, <3>3 DEF Owned, Has
    <3>5. i \in issued
      BY <1>1, <1>2, <1>6, <3>4
    <3> QED
      BY <1>0, <1>1, <1>6, <3>1, <3>5 DEF Ordered
  <2> QED
    BY <2>1, <2>2
<1> QED
  BY <1>5, <1>6 DEF Ordered

LEMMA OrderKept == SnowInv /\ [Next]_vars => Ordered' /\ UniqueIds'
<1> SUFFICES ASSUME SnowInv, [Next]_vars PROVE Ordered' /\ UniqueIds'
  OBVIOUS
<1>0. TypeOK /\ Ordered /\ UniqueIds
  BY DEF SnowInv
<1> USE <1>0, SnowflakeAssumption DEF Begun, Goto, redisVars, flakeVars, idVars, boundVars
<1>1. ASSUME Quiet,
             \A n \in Nodes :
                Begun(n)' =>
                   \/ lastTimestamp'[n] = 0
                   \/ /\ lastTimestamp'[n] = lastTimestamp[n] /\ workerId'[n] = workerId[n]
                      /\ Begun(n)
                      /\ \/ sequence'[n] = sequence[n] /\ pc[n] # "spin"
                         \/ pc'[n] = "spin"
      PROVE  Ordered' /\ UniqueIds'
  BY <1>1 DEF Quiet, Ordered, UniqueIds
<1>2. ASSUME NEW n \in Nodes, NEW w, Begin(n, w), Quiet PROVE Ordered' /\ UniqueIds'
  BY <1>1, <1>2 DEF Begin, TypeOK
<1>3. ASSUME NEW n \in Nodes,
             Start(n) \/ MainStep(n) \/ Crash(n) \/ Tick(n) \/ PutBack(n) \/ ResumeZero(n)
      PROVE  Ordered' /\ UniqueIds'
  BY <1>1, <1>3
  DEF Start, MainStep, Passes, Panics, Crash, Tick, PutBack, ResumeZero, Quiet, TypeOK
<1>4. ASSUME NEW n \in Nodes, Remembered(n) \/ Remember(n) PROVE Ordered' /\ UniqueIds'
  BY <1>2, <1>4 DEF Remembered, Remember, Quiet
<1>5. ASSUME NEW n \in Nodes, Increment(n) PROVE Ordered' /\ UniqueIds'
  BY <1>1, <1>5 DEF Increment, Quiet, TypeOK
<1>6. ASSUME NEW n \in Nodes, UsedUp(n) PROVE Ordered' /\ UniqueIds'
  BY <1>1, <1>6 DEF UsedUp, Quiet, TypeOK
<1>7. ASSUME NEW n \in Nodes, SameTime(n) \/ NewTime(n) \/ SpinEnds(n)
      PROVE  Ordered' /\ UniqueIds'
  BY <1>7, IssueKeeps DEF SameTime, NewTime, SpinEnds, TypeOK
<1>8. CASE UNCHANGED vars
  BY <1>1, <1>8 DEF vars, Quiet
<1> QED
  BY <1>3, <1>4, <1>5, <1>6, <1>7, <1>8, BootSteps DEF Next, NextId

-----------------------------------------------------------------------------
THEOREM SnowInvariance == Spec => []SnowInv
<1>1. Init => SnowInv
  BY SnowInvInit
<1>2. SnowInv /\ [Next]_vars => SnowInv'
  BY TypeKept, OwnedKept, OrderKept DEF SnowInv
<1> QED
  BY <1>1, <1>2, PTL DEF Spec

\* The fields of an id fit into their bits (snowflaker.go:82-99, 121-139).
THEOREM FieldsFit == Spec => []TypeOK
<1>1. SnowInv => TypeOK
  BY DEF SnowInv
<1> QED
  BY <1>1, SnowInvariance, PTL

\* For any number of nodes, starts and faults of redis (snowflaker.go:55-72).
THEOREM WorkersAreApart == Spec => []WorkersApart
<1>1. ASSUME SnowInv PROVE WorkersApart
  <2>1. TypeOK /\ Owned
    BY <1>1 DEF SnowInv
  <2> SUFFICES ASSUME NEW m \in Nodes, NEW n \in Nodes, m # n
               PROVE  /\ Begun(m) /\ Begun(n) => workerId[m] # workerId[n]
                      /\ known[m] # None => known[m] # known[n]
    BY DEF WorkersApart
  <2>2. ASSUME Begun(m), Begun(n)
        PROVE  workerId[m] # workerId[n]
    BY <2>1, <2>2, SnowflakeAssumption DEF TypeOK, Owned, Has, Begun
  <2>3. ASSUME known[m] # None PROVE known[m] # known[n]
    BY <2>1, <2>3 DEF TypeOK, Owned, Has
  <2> QED
    BY <2>2, <2>3
<1> QED
  BY <1>1, SnowInvariance, PTL

\* For any clocks, however often they are put back under a process that runs
\* (snowflaker.go:117-143): only a restart can repeat an id.
THEOREM IdsAreUnique == Spec => []UniqueIds
<1>1. SnowInv => UniqueIds
  BY DEF SnowInv
<1> QED
  BY <1>1, SnowInvariance, PTL
=============================================================================
