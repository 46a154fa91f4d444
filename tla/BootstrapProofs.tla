--------------------------- MODULE BootstrapProofs ---------------------------
(* Theorems about Bootstrap for any nodes, plugins, stores and bounds.        *)
EXTENDS Bootstrap, TLAPS

\* The places where a process makes what it has not found, and what that is.
Making == {"makeTable", "makeBucket"}

Wanted(n) == IF pc[n] = "makeTable" THEN Tables[at[n]] ELSE Buckets[at[n]]

\* Who is to make a thing wants one of the list, and has not lost it before: it
\* would have been made, and found.
NeverAgain ==
    /\ \A n \in Nodes, t \in Shared : lost[n][t] > 0 => t \in made
    /\ \A n \in Nodes : pc[n] \in Making => Wanted(n) \in Shared /\ lost[n][Wanted(n)] = 0

\* The inductive invariant.
BootInv == BootTypeOK /\ NeverAgain /\ LostOnce

-----------------------------------------------------------------------------
LEMMA BootInvInit == Init => BootInv
  BY BootstrapAssumption
  DEF Init, BootInv, BootTypeOK, NeverAgain, LostOnce, Making

\* A step that makes and loses nothing, and leads nobody to make something.
LEMMA Elsewhere ==
  ASSUME BootInv, BootTypeOK', UNCHANGED <<made, lost>>,
         \A n \in Nodes : pc'[n] \in Making => pc'[n] = pc[n] /\ at'[n] = at[n]
  PROVE  BootInv'
  BY DEF BootInv, NeverAgain, LostOnce, Wanted

\* Whoever looks finds the thing, or wants one that is not there.
LEMMA LookKeeps ==
  ASSUME BootInv, BootTypeOK', NEW n \in Nodes, UNCHANGED <<made, lost>>, pc[n] \notin Making,
         \/ Look(n, Tables, "makeTable", "health")
         \/ Look(n, Buckets, "makeBucket", "up")
  PROVE  BootInv'
<1> USE BootstrapAssumption DEF BootInv, BootTypeOK, Look, Goto, Making
<1>1. \A m \in Nodes \ {n} : pc'[m] = pc[m] /\ at'[m] = at[m]
  OBVIOUS
<1>2. ASSUME pc'[n] \in Making PROVE Wanted(n)' \in Shared /\ Wanted(n)' \notin made
  <2>1. at' = at
    BY <1>2
  <2>2. CASE Look(n, Tables, "makeTable", "health")
    <3>1. at[n] \in DOMAIN Tables /\ Tables[at[n]] \notin made /\ pc'[n] = "makeTable"
      BY <1>2, <2>1, <2>2
    <3> QED
      BY <2>1, <3>1 DEF Wanted, Shared
  <2>3. CASE Look(n, Buckets, "makeBucket", "up")
    <3>1. at[n] \in DOMAIN Buckets /\ Buckets[at[n]] \notin made /\ pc'[n] = "makeBucket"
      BY <1>2, <2>1, <2>3
    <3> QED
      BY <2>1, <3>1 DEF Wanted, Shared
  <2> QED
    BY <2>2, <2>3
<1>3. ASSUME pc'[n] \in Making PROVE Wanted(n)' \in Shared /\ lost'[n][Wanted(n)'] = 0
  <2>1. PICK t \in Shared : t = Wanted(n)' /\ t \notin made
    BY <1>2, <1>3
  <2>2. lost[n][t] \in 0 .. 2 /\ ~(lost[n][t] > 0)
    BY <2>1 DEF NeverAgain
  <2> QED
    BY <2>1, <2>2
<1>4. \A m \in Nodes \ {n} :
          pc'[m] \in Making => Wanted(m)' \in Shared /\ lost'[m][Wanted(m)'] = 0
  BY <1>1 DEF NeverAgain, Wanted
<1> QED
  BY <1>3, <1>4 DEF NeverAgain, LostOnce

\* Whoever makes what it has not found makes it, or loses it for the first time.
LEMMA MakeKeeps ==
  ASSUME BootInv, BootTypeOK', NEW n \in Nodes, pc[n] \in Making,
         NEW look, look \notin Making, Make(n, Wanted(n), look)
  PROVE  BootInv'
<1> DEFINE t == Wanted(n)
<1>0. t \in Shared /\ lost[n][t] = 0
  BY DEF BootInv, NeverAgain
<1>1. \A m \in Nodes \ {n} : pc'[m] = pc[m] /\ at'[m] = at[m]
  BY DEF Make, End, Goto, BootInv, BootTypeOK
<1>2. pc'[n] \notin Making
  BY DEF Make, End, Goto, BootInv, BootTypeOK, Making
<1>3. CASE t \in made \cap Refused
  <2>1. lost' = [lost EXCEPT ![n][t] = 1] /\ made' = made
    BY <1>0, <1>3 DEF Make
  <2>2. \A m \in Nodes, u \in Shared :
            lost'[m][u] = IF m = n /\ u = t THEN 1 ELSE lost[m][u]
    BY <1>0, <2>1 DEF BootInv, BootTypeOK
  <2>3. LostOnce'
    <3> SUFFICES ASSUME NEW m \in Nodes, NEW u \in Shared PROVE lost'[m][u] <= 1
      BY DEF LostOnce
    <3> QED
      BY <2>2 DEF BootInv, LostOnce
  <2>4. \A m \in Nodes, u \in Shared : lost'[m][u] > 0 => u \in made'
    <3> SUFFICES ASSUME NEW m \in Nodes, NEW u \in Shared, lost'[m][u] > 0
                 PROVE  u \in made'
      OBVIOUS
    <3>1. CASE m = n /\ u = t
      BY <1>3, <2>1, <3>1
    <3>2. CASE ~(m = n /\ u = t)
      BY <2>1, <2>2, <3>2 DEF BootInv, NeverAgain
    <3> QED
      BY <3>1, <3>2
  <2>5. \A m \in Nodes :
            pc'[m] \in Making => Wanted(m)' \in Shared /\ lost'[m][Wanted(m)'] = 0
    <3> SUFFICES ASSUME NEW m \in Nodes, pc'[m] \in Making
                 PROVE  Wanted(m)' \in Shared /\ lost'[m][Wanted(m)'] = 0
      OBVIOUS
    <3>1. m # n
      BY <1>2
    <3>2. Wanted(m)' = Wanted(m) /\ pc[m] \in Making
      BY <1>1, <3>1 DEF Wanted
    <3>3. Wanted(m) \in Shared /\ lost[m][Wanted(m)] = 0
      BY <3>2 DEF BootInv, NeverAgain
    <3> HIDE DEF t
    <3> QED
      BY <2>2, <3>1, <3>2, <3>3
  <2> QED
    BY <2>3, <2>4, <2>5 DEF BootInv, NeverAgain
<1>4. CASE t \notin made \cap Refused
  <2>1. made' = made \cup {t} /\ lost' = lost
    BY <1>4 DEF Make
  <2>2. \A m \in Nodes : pc'[m] \in Making =>
            pc[m] \in Making /\ Wanted(m)' = Wanted(m)
    BY <1>1, <1>2 DEF Wanted
  <2> QED
    BY <2>1, <2>2 DEF BootInv, NeverAgain, LostOnce
<1> QED
  BY <1>3, <1>4

\* Every step keeps the types.
LEMMA TypeKept == BootInv /\ [Next]_vars => BootTypeOK'
<1> SUFFICES ASSUME BootInv, [Next]_vars PROVE BootTypeOK'
  OBVIOUS
<1> USE BootstrapAssumption
    DEF BootInv, BootTypeOK, Goto, Fault, Fails, End, Begin, sharedVars, procVars
<1>0. ASSUME NEW n \in Nodes, NEW look \in {"tables", "buckets"}, pc[n] \in Making,
             Make(n, Wanted(n), look)
      PROVE  /\ made' \subseteq Shared /\ lost' \in [Nodes -> [Shared -> 0 .. 2]]
             /\ at' \in [Nodes -> Nat \ {0}] /\ plugged' \in [Nodes -> SUBSET Plugins]
             /\ \E l \in {"down", look} : Goto(n, l)
  <2> DEFINE t == Wanted(n)
  <2>0. t \in Shared
    BY <1>0 DEF NeverAgain
  <2>1. CASE t \in made \cap Refused
    <3>1. PICK k \in 0 .. 2 : lost' = [lost EXCEPT ![n][t] = k]
      <4>1. lost[n][t] \in 0 .. 2
        BY <2>0
      <4>2. (IF lost[n][t] < 2 THEN lost[n][t] + 1 ELSE lost[n][t]) \in 0 .. 2
        BY <4>1
      <4> QED
        BY <1>0, <2>1, <4>2 DEF Make
    <3>2. [lost[n] EXCEPT ![t] = k] \in [Shared -> 0 .. 2]
      <4>1. lost[n] \in [Shared -> 0 .. 2]
        OBVIOUS
      <4> QED
        BY <4>1
    <3>3. lost' = [lost EXCEPT ![n] = [lost[n] EXCEPT ![t] = k]]
      BY <3>1
    <3>4. lost' \in [Nodes -> [Shared -> 0 .. 2]]
      BY <3>2, <3>3
    <3>5. End(n) /\ made' = made
      BY <1>0, <2>1 DEF Make
    <3> HIDE DEF t
    <3> QED
      BY <3>4, <3>5
  <2>2. CASE t \notin made \cap Refused
    <3>1. /\ made' = made \cup {t} /\ at' = [at EXCEPT ![n] = @ + 1]
          /\ Goto(n, look) /\ UNCHANGED <<lost, plugged>>
      BY <1>0, <2>2 DEF Make
    <3> HIDE DEF t
    <3>2. made' \subseteq Shared
      BY <2>0, <3>1
    <3>3. at' \in [Nodes -> Nat \ {0}]
      BY <3>1
    <3> QED
      BY <3>1, <3>2, <3>3
  <2> QED
    BY <2>1, <2>2
<1>00. ASSUME NEW n \in Nodes,
              \/ Look(n, Tables, "makeTable", "health")
              \/ Look(n, Buckets, "makeBucket", "up")
       PROVE  /\ at' \in [Nodes -> Nat \ {0}]
              /\ pc' = pc \/ \E l \in {"makeTable", "health", "makeBucket", "up"} : Goto(n, l)
  BY <1>00 DEF Look
<1>1. ASSUME NEW n \in Nodes, Main(n) PROVE BootTypeOK'
  <2>1. CASE Start(n)
    BY <2>1 DEF Start
  <2>2. CASE OpenDB(n)
    BY <2>2 DEF OpenDB
  <2>3. CASE LookForTable(n) \/ LookForBucket(n)
    BY <1>00, <2>3 DEF LookForTable, LookForBucket
  <2>4. CASE MakeTable(n) \/ MakeBucket(n)
    <3>1. pc[n] \in Making /\ \E look \in {"tables", "buckets"} : Make(n, Wanted(n), look)
      BY <2>4 DEF MakeTable, MakeBucket, Making, Wanted
    <3>2. UNCHANGED <<workId, known, faults, crashes>>
      BY <2>4 DEF MakeTable, MakeBucket
    <3> QED
      BY <1>0, <3>1, <3>2
  <2>5. CASE CheckDB(n)
    BY <2>5 DEF CheckDB
  <2>6. CASE \E p \in Plugins : Plug(n, p)
    BY <2>6 DEF Plug
  <2>7. CASE AllPlugged(n) \/ AskAddress(n)
    BY <2>7 DEF AllPlugged, AskAddress
  <2>8. CASE InitSnowFlake(n)
    <3>1. workId' \in Nat
      BY <2>8 DEF InitSnowFlake
    <3>2. known' \in [Nodes -> Nat]
      BY <2>8 DEF InitSnowFlake
    <3>3. faults' \in 0 .. MaxFaults
      BY <2>8 DEF InitSnowFlake
    <3>4. UNCHANGED <<made, lost, crashes>>
      BY <2>8 DEF InitSnowFlake
    <3>5. Begin(n, known[n]) \/ Begin(n, workId + 1)
      BY <2>8 DEF InitSnowFlake
    <3>6. at' = [at EXCEPT ![n] = 1]
      BY <3>5
    <3>7. plugged' = plugged \/ plugged' = [plugged EXCEPT ![n] = {}]
      BY <3>5
    <3>8. Goto(n, "down") \/ Goto(n, "buckets")
      BY <3>5
    <3>9. at' \in [Nodes -> Nat \ {0}]
      <4>1. 1 \in Nat \ {0} /\ at \in [Nodes -> Nat \ {0}]
        OBVIOUS
      <4> QED
        BY <3>6, <4>1
    <3>10. plugged' \in [Nodes -> SUBSET Plugins]
      BY <3>7
    <3> QED
      BY <3>1, <3>2, <3>3, <3>4, <3>8, <3>9, <3>10
  <2> QED
    BY <1>1, <2>1, <2>2, <2>3, <2>4, <2>5, <2>6, <2>7, <2>8 DEF Main
<1>2. ASSUME NEW n \in Nodes, Breaks(n) PROVE BootTypeOK'
  <2>1. UNCHANGED <<sharedVars, lost, crashes>> /\ Fault /\ End(n)
    BY <1>2 DEF Breaks, DBFails, PlugFails, AddressFails, RedisFails, StoreFails
  <2>2. faults' \in 0 .. MaxFaults
    BY <2>1
  <2> QED
    BY <2>1, <2>2
<1>3. ASSUME NEW n \in Nodes, Crash(n) PROVE BootTypeOK'
  BY <1>3 DEF Crash
<1>4. CASE UNCHANGED vars
  BY <1>4 DEF vars
<1> QED
  BY <1>1, <1>2, <1>3, <1>4 DEF Next

LEMMA BootKept == BootInv /\ [Next]_vars => BootInv'
<1> SUFFICES ASSUME BootInv, [Next]_vars PROVE BootInv'
  OBVIOUS
<1>0. BootTypeOK /\ BootTypeOK'
  BY TypeKept DEF BootInv
<1>1. ASSUME NEW n \in Nodes, LookForTable(n) \/ LookForBucket(n) PROVE BootInv'
  BY <1>0, <1>1, LookKeeps DEF LookForTable, LookForBucket, Making, sharedVars
<1>2. ASSUME NEW n \in Nodes, MakeTable(n) \/ MakeBucket(n) PROVE BootInv'
  <2>1. pc[n] \in Making /\ \E look \in {"tables", "buckets"} : Make(n, Wanted(n), look)
    BY <1>2 DEF MakeTable, MakeBucket, Making, Wanted
  <2> QED
    BY <1>0, <2>1, MakeKeeps DEF Making
<1>3. ASSUME NEW n \in Nodes, Main(n) \/ Breaks(n) \/ Crash(n),
             ~LookForTable(n), ~LookForBucket(n), ~MakeTable(n), ~MakeBucket(n)
      PROVE  BootInv'
  <2>1. UNCHANGED <<made, lost>>
    BY <1>3 DEF Main, Breaks, Crash, Start, OpenDB, CheckDB, Plug, AllPlugged, AskAddress,
                InitSnowFlake, DBFails, PlugFails, AddressFails, RedisFails, StoreFails, Fails,
                sharedVars, procVars
  <2>2. UNCHANGED <<pc, at>> \/ \E l : Goto(n, l) /\ l \notin Making
    BY <1>3 DEF Main, Breaks, Crash, Start, OpenDB, CheckDB, Plug, AllPlugged, AskAddress,
                InitSnowFlake, Begin, End, DBFails, PlugFails, AddressFails, RedisFails,
                StoreFails, Fails, Making, sharedVars, procVars
  <2>3. \A m \in Nodes \ {n} : at'[m] = at[m]
    BY <1>0, <1>3 DEF Main, Breaks, Crash, Start, OpenDB, CheckDB, Plug, AllPlugged, AskAddress,
                InitSnowFlake, Begin, End, DBFails, PlugFails, AddressFails, RedisFails,
                StoreFails, Fails, BootTypeOK, sharedVars, procVars
  <2>4. \A m \in Nodes : pc'[m] \in Making => pc'[m] = pc[m] /\ at'[m] = at[m]
    BY <1>0, <2>2, <2>3 DEF Goto, BootTypeOK
  <2> QED
    BY <1>0, <2>1, <2>4, Elsewhere
<1>4. CASE UNCHANGED vars
  BY <1>0, <1>4, Elsewhere DEF vars, sharedVars, procVars
<1> QED
  BY <1>1, <1>2, <1>3, <1>4 DEF Next

\* In every behaviour of any number of processes, tables and buckets.
THEOREM BootInvariance == Spec => []BootInv
<1> QED
  BY BootInvInit, BootKept, PTL DEF Spec

\* For any number of nodes that start together (database.go:229,
\* miniostorage.go:27-34) and any tables and buckets: each node loses the race
\* for each of them at most once.
THEOREM RacesAreLostOnce == Spec => []LostOnce
<1>1. BootInv => LostOnce
  BY DEF BootInv
<1> QED
  BY <1>1, BootInvariance, PTL
=============================================================================
