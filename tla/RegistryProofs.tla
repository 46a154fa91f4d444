--------------------------- MODULE RegistryProofs ----------------------------
(* Theorems about Registry for any nodes, clocks, periods and bounds that    *)
(* satisfy its assumption.                                                   *)
EXTENDS Registry, TLAPS

\* A node that is up was started.
Started == \A n \in Nodes : status[n] # "down" => life[n] # 0

\* What a node's entry says of it.  A node that has not yet written has no
\* entry of this life; one whose heartbeats are in time has an entry no older
\* than its timer, or none because it was taken for one of an earlier life.
EntryInv(n) ==
    /\ status[n] = "starting" => beat[n] = "first"
    /\ entry[n] # None =>
          /\ entry[n].life <= life[n]
          /\ beat[n] = "first" => entry[n].life < life[n]
    /\ Steady(n) =>
          /\ since[n] <= Longest
          /\ entry[n] # None => entry[n].age <= since[n]
          /\ life[n] = 1 => entry[n] # None

\* What a reader is about to delete is of an earlier life of a node that is
\* steady, or that may become so.
DoomInv ==
    \A r \in Nodes : look[r] # None =>
        \A s \in look[r].stale :
            /\ s.life <= life[s.node]
            /\ beat[s.node] = "first" \/ Steady(s.node) => s.life < life[s.node]

\* The inductive invariant.
RegInv == RegTypeOK /\ Started /\ (\A n \in Nodes : EntryInv(n)) /\ DoomInv

-----------------------------------------------------------------------------
LEMMA RegInvInit == Init => RegInv
  BY RegistryAssumption
  DEF Init, RegInv, Started, RegTypeOK, EntryInv, DoomInv, Statuses, Steady, Healthy, Longest

\* Every step keeps the types.
LEMMA RegTypeKept == RegTypeOK /\ Started /\ [Next]_regVars => RegTypeOK'
<1> SUFFICES ASSUME RegTypeOK, Started, [Next]_regVars PROVE RegTypeOK'
  OBVIOUS
<1> USE RegistryAssumption, NoneAssumption DEF RegTypeOK, Become
<1>0. Old \in Nat /\ Longest \in Nat
  BY DEF Old, Longest
<1>1. CASE Tick
  <2>1. since' \in [Nodes -> 0 .. Longest + 1]
    BY <1>0, <1>1 DEF Tick, Later
  <2>2. entry' \in [Nodes -> Entries \cup {None}]
    <3> SUFFICES ASSUME NEW n \in Nodes, entry[n] # None
                 PROVE  [entry[n] EXCEPT !.age = Later(@, Old)] \in Entries
      BY <1>1 DEF Tick
    <3>1. entry[n] \in Entries
      OBVIOUS
    <3>2. Later(entry[n].age, Old) \in 0 .. Old
      BY <1>0, <3>1 DEF Later, Entries
    <3> QED
      BY <3>1, <3>2 DEF Entries
  <2>3. late' \subseteq Nodes /\ faults' \in 0 .. MaxFaults
    BY <1>1 DEF Tick, Fault, Overdue
  <2> QED
    BY <1>1, <2>1, <2>2, <2>3 DEF Tick
<1>2. ASSUME NEW n \in Nodes, Start(n) \/ Serve(n) \/ Signal(n) \/ CloseListener(n)
      PROVE  RegTypeOK'
  BY <1>2 DEF Start, Serve, Signal, CloseListener, Statuses
<1>3. ASSUME NEW n \in Nodes, Exit(n) \/ Crash(n) PROVE RegTypeOK'
  BY <1>3 DEF Exit, Crash, Down, Statuses
<1>4. ASSUME NEW n \in Nodes, Beat(n) PROVE RegTypeOK'
  <2>1. life[n] \in 1 .. MaxLives
    BY <1>4 DEF Beat, Rewind, Healthy, Started
  <2>2. [age |-> 0, life |-> life[n]] \in Entries
    BY <1>0, <2>1 DEF Entries
  <2> QED
    BY <1>0, <1>4, <2>2 DEF Beat, Rewind
<1>5. ASSUME NEW n \in Nodes, BeatLost(n) PROVE RegTypeOK'
  BY <1>0, <1>5 DEF BeatLost, Rewind, Fault
<1>6. ASSUME NEW r \in Nodes, Read(r) PROVE RegTypeOK'
  <2>1. [found |-> {n \in Nodes : entry[n] # None /\ ~Stale(r, n)},
         stale |-> {[node |-> n, life |-> entry[n].life] : n \in {k \in Nodes : Stale(r, k)}}]
           \in Looks
    BY DEF Looks, Doomed, Entries, Stale
  <2> QED
    BY <1>6, <2>1 DEF Read
<1>7. ASSUME NEW r \in Nodes, NEW s, Prune(r, s) PROVE RegTypeOK'
  <2>1. [look[r] EXCEPT !.stale = @ \ {s}] \in Looks
    BY <1>7 DEF Prune, Looks
  <2>2. faults' \in 0 .. MaxFaults /\ entry' \in [Nodes -> Entries \cup {None}]
    BY <1>7 DEF Prune, Fault
  <2> QED
    BY <1>7, <2>1, <2>2 DEF Prune
<1>8. ASSUME NEW r \in Nodes, ReadDone(r) PROVE RegTypeOK'
  BY <1>8 DEF ReadDone
<1>9. CASE UNCHANGED regVars
  BY <1>9 DEF regVars
<1> QED
  BY <1>1, <1>2, <1>3, <1>4, <1>5, <1>6, <1>7, <1>8, <1>9 DEF Next, NodeStep, Discovery

LEMMA StartedKept == RegTypeOK /\ Started /\ [Next]_regVars => Started'
<1> SUFFICES ASSUME RegTypeOK, Started, [Next]_regVars, NEW n \in Nodes, status'[n] # "down"
             PROVE  life'[n] # 0
  BY DEF Started
<1> USE RegistryAssumption DEF RegTypeOK, Become, Started
<1>1. ASSUME NEW m \in Nodes, Start(m) PROVE life'[n] # 0
  BY <1>1 DEF Start
<1>2. ASSUME NEW m \in Nodes,
             \/ Serve(m) \/ Signal(m) \/ CloseListener(m) \/ Exit(m) \/ Crash(m)
      PROVE  life'[n] # 0
  BY <1>2 DEF Serve, Signal, CloseListener, Exit, Crash, Down
<1>3. ASSUME UNCHANGED <<status, life>> PROVE life'[n] # 0
  BY <1>3
<1> QED
  BY <1>1, <1>2, <1>3
  DEF Next, NodeStep, Discovery, Tick, Beat, BeatLost, Rewind, Read, Prune, ReadDone, regVars

-----------------------------------------------------------------------------
\* A steady node's entry, if there is one, is fresh for every reader.
LEMMA SteadyFresh ==
  ASSUME RegTypeOK, NEW n \in Nodes, EntryInv(n), Steady(n), NEW r \in Nodes
  PROVE  ~Stale(r, n)
<1> SUFFICES ASSUME entry[n] # None
             PROVE  entry[n].age + Offset[r] - Offset[n] <= Boundary
  BY RegistryAssumption DEF Stale, RegTypeOK, Entries, Old
<1>1. entry[n].age <= since[n] /\ since[n] <= Period + Slack
  BY DEF EntryInv, Longest
<1>2. entry[n].age \in Nat /\ since[n] \in Nat
  BY RegistryAssumption DEF RegTypeOK, Entries, Old, Longest
<1>3. Offset[r] \in 0 .. Skew /\ Offset[n] \in 0 .. Skew
  BY RegistryAssumption
<1> QED
  BY <1>1, <1>2, <1>3, RegistryAssumption

\* What a step may do to one node: nothing, or it keeps what its entry says.
SameNode(n) ==
    /\ status'[n] = status[n] /\ life'[n] = life[n] /\ beat'[n] = beat[n]
    /\ since'[n] = since[n] /\ entry'[n] = entry[n] /\ (n \in late' <=> n \in late)

LEMMA SameNodeKeeps ==
  ASSUME NEW n \in Nodes, EntryInv(n), SameNode(n)
  PROVE  EntryInv(n)' /\ (Steady(n)' <=> Steady(n))
  BY DEF EntryInv, SameNode, Steady, Healthy

\* A step of the node itself, of another node, or of time.
LEMMA EntryKept ==
  RegInv /\ [Next]_regVars => \A n \in Nodes : EntryInv(n)'
<1> SUFFICES ASSUME RegInv, [Next]_regVars, NEW n \in Nodes PROVE EntryInv(n)'
  OBVIOUS
<1> USE RegistryAssumption, NoneAssumption DEF RegTypeOK, Become
<1>0. RegTypeOK /\ EntryInv(n) /\ Old \in Nat /\ Longest \in Nat
  BY DEF RegInv, Old, Longest
<1>1. CASE Tick
  <2>1. /\ status' = status /\ life' = life /\ beat' = beat /\ late' = late \cup Overdue
        /\ since'[n] = Later(since[n], Longest + 1)
        /\ entry'[n] = IF entry[n] = None THEN None
                       ELSE [entry[n] EXCEPT !.age = Later(@, Old)]
    BY <1>1 DEF Tick
  <2>2. entry[n] # None => /\ entry'[n] # None /\ entry'[n].life = entry[n].life
                           /\ entry'[n].age = Later(entry[n].age, Old)
                           /\ entry[n].age \in 0 .. Old
    <3> SUFFICES ASSUME entry[n] # None
                 PROVE  /\ entry'[n] # None /\ entry'[n].life = entry[n].life
                        /\ entry'[n].age = Later(entry[n].age, Old)
                        /\ entry[n].age \in 0 .. Old
      OBVIOUS
    <3>1. entry[n] \in Entries
      BY <1>0
    <3>2. RegTypeOK'
      BY <1>0, RegTypeKept DEF RegInv
    <3>3. entry'[n] = [entry[n] EXCEPT !.age = Later(@, Old)]
      BY <2>1
    <3>4. Later(entry[n].age, Old) \in 0 .. Old
      BY <1>0, <3>1 DEF Entries, Later
    <3>5. entry'[n] \in Entries
      BY <3>1, <3>3, <3>4 DEF Entries
    <3> QED
      BY <3>1, <3>3, <3>5 DEF Entries
  <2>3. ASSUME Steady(n)'
        PROVE  /\ Steady(n) /\ since'[n] <= Longest /\ since'[n] = since[n] + 1
    <3>1. Healthy(n) /\ beat[n] = "later" /\ n \notin late /\ n \notin Overdue
      BY <2>1, <2>3 DEF Steady, Healthy
    <3>2. Steady(n) /\ since[n] # Longest
      BY <3>1 DEF Steady, Overdue
    <3> QED
      BY <1>0, <2>1, <3>2 DEF EntryInv, Later
  <2>4. ASSUME Steady(n)', entry'[n] # None PROVE entry'[n].age <= since'[n]
    <3>1. entry[n] # None /\ entry[n].age <= since[n]
      BY <1>0, <2>1, <2>3, <2>4 DEF EntryInv
    <3> QED
      BY <1>0, <2>2, <2>3, <2>4, <3>1 DEF Later
  <2>5. entry'[n] # None => entry[n] # None
    BY <2>1
  <2> QED
    BY <1>0, <2>1, <2>2, <2>3, <2>4, <2>5 DEF EntryInv
<1>2. ASSUME NEW m \in Nodes, NodeStep(m) \/ Exit(m) \/ Crash(m), m # n PROVE EntryInv(n)'
  <2>1. SameNode(n)
    BY <1>0, <1>2 DEF NodeStep, Start, Serve, Signal, CloseListener, Beat, BeatLost, Rewind,
                      Exit, Crash, Down, SameNode
  <2> QED
    BY <1>0, <2>1, SameNodeKeeps
<1>3. CASE Start(n)
  BY <1>0, <1>3 DEF Start, EntryInv, Steady, Healthy, Entries
<1>4. CASE Serve(n)
  BY <1>0, <1>4 DEF Serve, EntryInv, Steady, Healthy
<1>5. CASE Signal(n) \/ CloseListener(n)
  BY <1>0, <1>5 DEF Signal, CloseListener, EntryInv, Steady, Healthy
<1>6. CASE Exit(n) \/ Crash(n)
  BY <1>0, <1>6 DEF Exit, Crash, Down, EntryInv, Steady, Healthy
<1>7. CASE Beat(n)
  <2>1. /\ status' = status /\ life' = life /\ beat'[n] = "later" /\ since'[n] = 0
        /\ entry'[n] = [age |-> 0, life |-> life[n]] /\ status[n] # "starting"
    BY <1>0, <1>7 DEF Beat, Rewind, Healthy
  <2>2. life[n] \in 1 .. MaxLives
    BY <1>0, <1>7 DEF RegInv, Started, Beat, Rewind, Healthy
  <2>3. entry'[n] # None
    BY <1>0, <2>1, <2>2 DEF Entries
  <2> QED
    BY <1>0, <2>1, <2>2, <2>3 DEF EntryInv
<1>8. CASE BeatLost(n)
  BY <1>0, <1>8 DEF BeatLost, Rewind, EntryInv, Steady, Healthy
<1>9. ASSUME NEW r \in Nodes, Read(r) \/ ReadDone(r) PROVE EntryInv(n)'
  BY <1>0, <1>9, SameNodeKeeps DEF Read, ReadDone, SameNode
<1>10. ASSUME NEW r \in Nodes, NEW s, Prune(r, s) PROVE EntryInv(n)'
  <2>1. /\ UNCHANGED <<status, life, beat, since, late>>
        /\ s \in look[r].stale /\ look[r] # None
        /\ entry' = entry \/ entry' = [entry EXCEPT ![s.node] = None]
    BY <1>10 DEF Prune
  <2>2. CASE entry'[n] = entry[n]
    BY <1>0, <2>1, <2>2, SameNodeKeeps DEF SameNode
  <2>3. CASE entry'[n] # entry[n]
    <3>1. s.node = n /\ entry'[n] = None
      BY <1>0, <2>1, <2>3
    <3>2. s.life \in 1 .. MaxLives
      BY <1>0, <2>1 DEF Looks, Doomed
    <3>3. Steady(n) => s.life < life[n]
      BY <2>1, <3>1 DEF RegInv, DoomInv
    <3>4. ~(Steady(n) /\ life[n] = 1)
      BY <3>2, <3>3
    <3> QED
      BY <1>0, <2>1, <3>1, <3>4 DEF EntryInv, Steady, Healthy
  <2> QED
    BY <2>2, <2>3
<1>11. CASE UNCHANGED regVars
  BY <1>0, <1>11, SameNodeKeeps DEF regVars, SameNode
<1> QED
  BY <1>1, <1>2, <1>3, <1>4, <1>5, <1>6, <1>7, <1>8, <1>9, <1>10, <1>11
  DEF Next, NodeStep, Discovery

\* A node comes to write its first entry, or to be steady, in a new life or
\* from one to the other.
LEMMA LivesGrow ==
  ASSUME RegInv, [Next]_regVars, NEW n \in Nodes
  PROVE  /\ life[n] \in Nat /\ life'[n] \in Nat /\ life[n] <= life'[n]
         /\ beat'[n] = "first" \/ Steady(n)' =>
              life[n] < life'[n] \/ beat[n] = "first" \/ Steady(n)
<1> USE RegistryAssumption DEF RegTypeOK, Become
<1> DEFINE Kept == /\ life'[n] = life[n]
                   /\ beat'[n] = "first" => beat[n] = "first"
                   /\ Steady(n)' => beat[n] = "first" \/ Steady(n)
<1>0. RegTypeOK /\ EntryInv(n) /\ RegTypeOK'
  BY RegTypeKept DEF RegInv
<1>1. life[n] \in Nat /\ life'[n] \in Nat
  BY <1>0
<1>2. ASSUME SameNode(n) PROVE Kept
  BY <1>0, <1>2, SameNodeKeeps DEF SameNode
<1>3. ASSUME Tick PROVE Kept
  BY <1>3 DEF Tick, Steady, Healthy
<1>4. ASSUME NEW m \in Nodes, NodeStep(m) \/ Exit(m) \/ Crash(m)
      PROVE  Kept \/ (life'[n] = life[n] + 1)
  <2>1. CASE m # n
    <3>1. SameNode(n)
      BY <1>0, <1>4, <2>1 DEF NodeStep, Start, Serve, Signal, CloseListener, Beat, BeatLost,
                              Rewind, Exit, Crash, Down, SameNode
    <3> QED
      BY <1>2, <3>1
  <2>2. CASE Start(n)
    BY <1>0, <2>2 DEF Start
  <2>3. CASE Serve(n)
    BY <1>0, <2>3 DEF Serve, EntryInv
  <2>4. CASE Signal(n)
    BY <1>0, <2>4 DEF Signal, Steady, Healthy
  <2>5. CASE CloseListener(n) \/ Exit(n) \/ Crash(n)
    BY <1>0, <2>5 DEF CloseListener, Exit, Crash, Down, Steady, Healthy
  <2>6. CASE Beat(n) \/ BeatLost(n)
    BY <1>0, <2>6 DEF Beat, BeatLost, Rewind, Due, Steady, Healthy
  <2> QED
    BY <1>4, <2>1, <2>2, <2>3, <2>4, <2>5, <2>6 DEF NodeStep
<1>5. ASSUME NEW r \in Nodes, Discovery(r) PROVE Kept
  BY <1>5 DEF Discovery, Read, ReadDone, Prune, Steady, Healthy
<1>6. ASSUME UNCHANGED regVars PROVE Kept
  BY <1>6 DEF regVars, Steady, Healthy
<1>7. Kept \/ life'[n] = life[n] + 1
  BY <1>3, <1>4, <1>5, <1>6 DEF Next
<1> QED
  BY <1>1, <1>7

\* What a reader has still to delete it knew before, or has just read.
LEMMA DoomKnown ==
  ASSUME RegInv, [Next]_regVars, NEW r \in Nodes, look'[r] # None, NEW s \in look'[r].stale
  PROVE  \/ look[r] # None /\ s \in look[r].stale
         \/ /\ UNCHANGED <<status, life, beat, late, entry, since>>
            /\ \E n \in Nodes : Stale(r, n) /\ s = [node |-> n, life |-> entry[n].life]
<1> USE DEF RegTypeOK
<1>0. RegTypeOK /\ look \in [Nodes -> Looks \cup {None}]
  BY DEF RegInv
<1>1. CASE look'[r] = look[r]
  BY <1>1
<1>2. ASSUME NEW q \in Nodes, Read(q), look'[r] # look[r]
      PROVE  /\ UNCHANGED <<status, life, beat, late, entry, since>>
             /\ \E n \in Nodes : Stale(r, n) /\ s = [node |-> n, life |-> entry[n].life]
  <2>1. q = r
    BY <1>0, <1>2 DEF Read
  <2>2. look'[r].stale = {[node |-> n, life |-> entry[n].life] :
                            n \in {k \in Nodes : Stale(r, k)}}
    BY <1>0, <1>2, <2>1 DEF Read
  <2> QED
    BY <1>2, <2>2 DEF Read
<1>3. ASSUME NEW q \in Nodes, NEW d, Prune(q, d), look'[r] # look[r]
      PROVE  look[r] # None /\ s \in look[r].stale
  <2>1. q = r /\ look[r] # None
    BY <1>0, <1>3 DEF Prune
  <2>2. look'[r] = [look[r] EXCEPT !.stale = @ \ {d}] /\ look[r] \in Looks
    BY <1>0, <1>3, <2>1 DEF Prune
  <2> QED
    BY <2>1, <2>2 DEF Looks
<1>4. ASSUME NEW q \in Nodes, ReadDone(q) \/ Exit(q) \/ Crash(q), look'[r] # look[r]
      PROVE  FALSE
  BY <1>0, <1>4 DEF ReadDone, Exit, Crash, Down
<1> QED
  BY <1>1, <1>2, <1>3, <1>4
  DEF Next, NodeStep, Discovery, Tick, Start, Serve, Signal, CloseListener, Beat, BeatLost,
      Rewind, regVars

LEMMA DoomKept == RegInv /\ [Next]_regVars => DoomInv'
<1> SUFFICES ASSUME RegInv, [Next]_regVars,
                    NEW r \in Nodes, look'[r] # None, NEW s \in look'[r].stale
             PROVE  /\ s.life <= life'[s.node]
                    /\ beat'[s.node] = "first" \/ Steady(s.node)' => s.life < life'[s.node]
  BY DEF DoomInv
<1>1. s \in Doomed
  BY RegTypeKept DEF RegInv, RegTypeOK, Looks
<1>2. s.node \in Nodes /\ s.life \in Nat
  BY <1>1, RegistryAssumption DEF Doomed
<1>3. CASE look[r] # None /\ s \in look[r].stale
  <2>1. /\ s.life <= life[s.node]
        /\ beat[s.node] = "first" \/ Steady(s.node) => s.life < life[s.node]
    BY <1>3 DEF RegInv, DoomInv
  <2> QED
    BY <1>2, <2>1, LivesGrow
<1>4. CASE /\ UNCHANGED <<status, life, beat, late, entry, since>>
           /\ \E n \in Nodes : Stale(r, n) /\ s = [node |-> n, life |-> entry[n].life]
  <2>1. PICK n \in Nodes : Stale(r, n) /\ s = [node |-> n, life |-> entry[n].life]
    BY <1>4
  <2>2. RegTypeOK /\ EntryInv(n) /\ entry[n] # None /\ s.node = n /\ s.life = entry[n].life
    BY <2>1 DEF RegInv, Stale
  <2>3. ~Steady(n)
    BY <2>1, <2>2, SteadyFresh
  <2>4. ~Steady(n)' /\ life'[n] = life[n] /\ beat'[n] = beat[n]
    BY <1>4, <2>3 DEF Steady, Healthy
  <2> QED
    BY <2>2, <2>4 DEF EntryInv
<1> QED
  BY <1>3, <1>4, DoomKnown

-----------------------------------------------------------------------------
THEOREM RegInvariance == Spec => []RegInv
<1>1. Init => RegInv
  BY RegInvInit
<1>2. RegInv /\ [Next]_regVars => RegInv'
  BY RegTypeKept, StartedKept, EntryKept, DoomKept DEF RegInv
<1> QED
  BY <1>1, <1>2, PTL DEF Spec

\* The registry keeps its types.
THEOREM RegTypeCorrect == Spec => []RegTypeOK
<1>1. RegInv => RegTypeOK
  BY DEF RegInv
<1> QED
  BY <1>1, RegInvariance, PTL

\* Whatever period, boundary and clocks there are (constant.go:12,
\* registanddiscover.go:119), if a round and the difference of two clocks fit
\* into the boundary.
THEOREM SteadyIsListed == Spec => []SteadyListed
<1>1. ASSUME RegInv PROVE SteadyListed
  <2> SUFFICES ASSUME NEW n \in Nodes, Steady(n)
               PROVE  (\A r \in Nodes : ~Stale(r, n)) /\ (life[n] = 1 => entry[n] # None)
    BY DEF SteadyListed
  <2>1. RegTypeOK /\ EntryInv(n)
    BY <1>1 DEF RegInv
  <2> QED
    BY <2>1, SteadyFresh DEF EntryInv
<1> QED
  BY <1>1, RegInvariance, PTL

\* What HDel may remove of a node whose heartbeats are in time
\* (registanddiscover.go:127), for any number of lives and readers.
THEOREM DeletesAreOld == Spec => []DeletesOldOnly
<1>1. RegInv => DeletesOldOnly
  BY DEF RegInv, DoomInv, DeletesOldOnly
<1> QED
  BY <1>1, RegInvariance, PTL

-----------------------------------------------------------------------------
(* Registry implements Membership. *)

Open(n) == IF Healthy(n) THEN "open" ELSE status[n]
Sure    == {n \in Nodes : Steady(n) /\ life[n] = 1}
Found(r) == IF look[r] = None THEN None ELSE look[r].found

LEMMA PromiseInit == Init => M!MemInit
  BY DEF Init, M!MemInit, Steady, Healthy

\* A set of nodes is not None.
LEMMA FoundSome ==
  ASSUME RegTypeOK, NEW r \in Nodes
  PROVE  (Found(r) = None) <=> (look[r] = None)
<1> USE NoneAssumption
<1>1. ASSUME look[r] # None PROVE look[r].found # None
  <2>1. look[r] \in Looks
    BY <1>1 DEF RegTypeOK
  <2> QED
    BY <2>1 DEF Looks
<1> QED
  BY <1>1 DEF Found

\* A step that changes one node's status, and nothing else a reader sees.
LEMMA StatusSteps ==
  ASSUME RegInv, NEW n \in Nodes,
         Start(n) \/ Serve(n) \/ Signal(n) \/ CloseListener(n) \/ Exit(n) \/ Crash(n)
  PROVE  [M!MemNext]_(M!memVars)
<1> USE DEF RegTypeOK, Become
<1>0. RegTypeOK /\ EntryInv(n)
  BY DEF RegInv
<1>1. CASE Start(n)
  <2>1. M!Rise(n)
    BY <1>0, <1>1 DEF Start, M!Rise, Steady, Healthy
  <2> QED
    BY <2>1 DEF M!MemNext
<1>2. CASE Serve(n)
  <2>1. M!Open(n)
    BY <1>0, <1>2 DEF Serve, M!Open, EntryInv, Steady, Healthy
  <2> QED
    BY <2>1 DEF M!MemNext
<1>3. CASE Signal(n)
  <2>1. UNCHANGED M!memVars
    BY <1>0, <1>3 DEF Signal, M!memVars, Steady, Healthy
  <2> QED
    BY <2>1
<1>4. CASE CloseListener(n)
  <2>1. M!Shut(n)
    BY <1>0, <1>4 DEF CloseListener, M!Shut, Steady, Healthy
  <2> QED
    BY <2>1 DEF M!MemNext
<1>5. CASE Exit(n) \/ Crash(n)
  <2>1. /\ status[n] # "down" /\ status' = [status EXCEPT ![n] = "down"]
        /\ look' = [look EXCEPT ![n] = None]
        /\ UNCHANGED <<life, late, faults>> /\ \A k \in Nodes \ {n} : beat'[k] = beat[k]
    BY <1>0, <1>5 DEF Exit, Crash, Down
  <2>2. /\ Open(n) # "down" /\ Open(n)' = "down"
        /\ \A k \in Nodes \ {n} : Open(k)' = Open(k)
    BY <1>0, <2>1 DEF Open, Healthy
  <2>3. Sure' = Sure \ {n}
    BY <1>0, <2>1 DEF Sure, Steady, Healthy
  <2>4. Found(n)' = None /\ \A k \in Nodes \ {n} : Found(k)' = Found(k)
    BY <1>0, <2>1 DEF Found
  <2>5. /\ [k \in Nodes |-> Open(k)'] = [[k \in Nodes |-> Open(k)] EXCEPT ![n] = "down"]
        /\ [k \in Nodes |-> Found(k)'] = [[k \in Nodes |-> Found(k)] EXCEPT ![n] = None]
    BY <2>2, <2>4
  <2>6. M!Fall(n)
    BY <2>1, <2>2, <2>3, <2>5 DEF M!Fall, Open, Sure, Found
  <2> QED
    BY <2>6 DEF M!MemNext
<1> QED
  BY <1>1, <1>2, <1>3, <1>4, <1>5

\* A heartbeat, and time.
LEMMA BeatSteps ==
  ASSUME RegInv, Tick \/ \E n \in Nodes : Beat(n) \/ BeatLost(n)
  PROVE  [M!MemNext]_(M!memVars)
<1> USE DEF RegTypeOK
<1>0. RegTypeOK
  BY DEF RegInv
<1>1. CASE Tick
  <2>1. UNCHANGED <<status, life, beat, look>> /\ late' = late \cup Overdue
    BY <1>1 DEF Tick
  <2>2. CASE Overdue = {}
    <3>1. UNCHANGED M!memVars
      BY <1>1, <2>1, <2>2 DEF Tick, M!memVars, Steady, Healthy
    <3> QED
      BY <3>1
  <2>3. CASE Overdue # {}
    <3>1. Fault
      BY <1>1, <2>3 DEF Tick
    <3>2. PICK S \in SUBSET Nodes : S = Overdue
      BY DEF Overdue
    <3>3. M!Lapse(S)
      BY <2>1, <3>1, <3>2 DEF M!Lapse, M!Fault, Fault, Steady, Healthy
    <3> QED
      BY <3>3 DEF M!MemNext
  <2> QED
    BY <2>2, <2>3
<1>2. ASSUME NEW n \in Nodes, Beat(n) PROVE [M!MemNext]_(M!memVars)
  <2>1. /\ UNCHANGED <<status, life, late, look, faults>> /\ Healthy(n)
        /\ beat'[n] = "later" /\ \A k \in Nodes \ {n} : beat'[k] = beat[k]
    BY <1>0, <1>2 DEF Beat, Rewind
  <2>2. CASE n \in Sure' /\ n \notin Sure
    <3>1. M!Enlist(n)
      BY <2>1, <2>2 DEF M!Enlist, Sure, Steady, Healthy
    <3> QED
      BY <3>1 DEF M!MemNext
  <2>3. CASE ~(n \in Sure' /\ n \notin Sure)
    <3>1. UNCHANGED M!memVars
      BY <1>0, <2>1, <2>3 DEF M!memVars, Sure, Steady, Healthy
    <3> QED
      BY <3>1
  <2> QED
    BY <2>2, <2>3
<1>3. ASSUME NEW n \in Nodes, BeatLost(n) PROVE [M!MemNext]_(M!memVars)
  <2>1. /\ UNCHANGED <<status, life, look>> /\ late' = late \cup {n} /\ Fault
        /\ \A k \in Nodes \ {n} : beat'[k] = beat[k]
    BY <1>0, <1>3 DEF BeatLost, Rewind
  <2>2. M!Lapse({n})
    BY <2>1 DEF M!Lapse, M!Fault, Fault, Steady, Healthy
  <2> QED
    BY <2>2 DEF M!MemNext
<1> QED
  BY <1>1, <1>2, <1>3

\* Discovery: who is sure is found.
LEMMA ReadSteps ==
  ASSUME RegInv, NEW r \in Nodes, Discovery(r)
  PROVE  [M!MemNext]_(M!memVars)
<1> USE DEF RegTypeOK
<1>0. RegTypeOK /\ (look[r] # None => look[r] \in Looks)
  BY DEF RegInv
<1>1. CASE Read(r)
  <2> DEFINE S == {n \in Nodes : entry[n] # None /\ ~Stale(r, n)}
  <2>1. S \in SUBSET Nodes /\ Sure \subseteq S
    <3>1. ASSUME NEW n \in Sure PROVE n \in S
      <4>1. n \in Nodes /\ Steady(n) /\ EntryInv(n) /\ entry[n] # None
        BY <3>1 DEF Sure, RegInv, EntryInv
      <4> QED
        BY <1>0, <4>1, SteadyFresh
    <3> QED
      BY <3>1
  <2>2. /\ UNCHANGED <<status, life, beat, late, faults>>
        /\ look[r] = None /\ status[r] # "down"
        /\ \A k \in Nodes : Found(k)' = IF k = r THEN S ELSE Found(k)
    <3>1. look'[r] # None /\ look'[r].found = S
      <4>1. look'[r] = [found |-> S,
                        stale |-> {[node |-> n, life |-> entry[n].life] :
                                     n \in {k \in Nodes : Stale(r, k)}}]
        BY <1>0, <1>1 DEF Read
      <4>2. look'[r] \in Looks
        BY <4>1 DEF Looks, Doomed, Entries, Stale, RegInv
      <4> QED
        BY <4>1, <4>2, NoneAssumption
    <3> QED
      BY <1>0, <1>1, <3>1 DEF Read, Found
  <2>3. M!Lookup(r)
    <3>1. [k \in Nodes |-> Found(k)'] = [[k \in Nodes |-> Found(k)] EXCEPT ![r] = S]
      BY <2>2
    <3> QED
      BY <2>1, <2>2, <3>1 DEF M!Lookup, Found, Sure, Steady, Healthy
  <2> QED
    BY <2>3 DEF M!MemNext
<1>2. CASE ReadDone(r)
  <2>1. /\ UNCHANGED <<status, life, beat, late, faults>> /\ look[r] # None
        /\ look'[r] = None /\ \A k \in Nodes \ {r} : look'[k] = look[k]
    BY <1>0, <1>2 DEF ReadDone
  <2>2. Found(r) # None
    BY <1>0, <2>1, FoundSome
  <2>3. Found(r)' = None /\ \A k \in Nodes \ {r} : Found(k)' = Found(k)
    BY <2>1 DEF Found
  <2>4. M!LookupDone(r)
    BY <2>1, <2>2, <2>3 DEF M!LookupDone, Found, Steady, Healthy
  <2> QED
    BY <2>4 DEF M!MemNext
<1>3. ASSUME NEW s, Prune(r, s) PROVE [M!MemNext]_(M!memVars)
  <2>1. /\ UNCHANGED <<status, life, beat, late>> /\ (UNCHANGED faults \/ Fault)
        /\ look[r] # None /\ look' = [look EXCEPT ![r].stale = @ \ {s}]
    BY <1>3 DEF Prune
  <2>2. \A k \in Nodes : Found(k)' = Found(k)
    <3>1. look'[r] = [look[r] EXCEPT !.stale = @ \ {s}]
      BY <1>0, <2>1
    <3>2. look'[r] \in Looks /\ look'[r].found = look[r].found
      BY <1>0, <2>1, <3>1 DEF Looks
    <3>3. look'[r] # None
      BY <3>2, NoneAssumption
    <3> QED
      BY <1>0, <2>1, <3>2, <3>3 DEF Found
  <2>3. CASE UNCHANGED faults
    <3>1. UNCHANGED M!memVars
      BY <2>1, <2>2, <2>3 DEF M!memVars, Found, Steady, Healthy
    <3> QED
      BY <3>1
  <2>4. CASE Fault
    <3>1. M!Lapse({})
      BY <2>1, <2>2, <2>4 DEF M!Lapse, M!Fault, Fault, Found, Steady, Healthy
    <3> QED
      BY <3>1 DEF M!MemNext
  <2> QED
    BY <2>1, <2>3, <2>4
<1> QED
  BY <1>1, <1>2, <1>3 DEF Discovery

\* Whatever heartbeats and readers do, they keep the promise the upload through
\* any node is built on (Membership, which Cluster extends).
THEOREM PromiseKept == Spec => KeepsPromise
<1>1. Init => M!MemInit
  BY PromiseInit
<1>2. RegInv /\ [Next]_regVars => [M!MemNext]_(M!memVars)
  <2>1. UNCHANGED regVars => UNCHANGED M!memVars
    BY DEF regVars, M!memVars, Steady, Healthy
  <2> QED
    BY <2>1, StatusSteps, BeatSteps, ReadSteps DEF Next, NodeStep
<1> QED
  BY <1>1, <1>2, RegInvariance, PTL DEF Spec, KeepsPromise, M!MemSpec
=============================================================================
