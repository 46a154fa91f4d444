---------------------------- MODULE ClusterProofs ----------------------------
(* Theorems about an upload in a cluster, for any nodes, frames and bounds.  *)
EXTENDS Cluster, SequenceTheorems, TLAPS

\* Until a stream is opened nothing has come to the owner for this request.
Early ==
    pc \in {"enter", "local", "discover", "ask"} =>
        /\ remote = "off" /\ file = <<>>
        /\ got = (IF kind = "http" THEN frames ELSE 1) /\ (kind # "http" => frames > 0)
        /\ (pc # "enter" => ~stored)

\* Nor does anything while the upload is done here.
Here == pc = "finish" => remote = "off" /\ file = <<>> /\ stored

\* Without an excuse the owner is sure, is in what a discovery has found, and
\* is asked or has said yes.
OwnerAsked ==
    /\ pc # "idle" /\ ~excused => Owner \in sure
    /\ \A n \in Nodes : found[n] # None => pc = "discover" /\ n = at
    /\ pc = "discover" /\ ~excused /\ found[at] # None => Owner \in found[at]
    /\ pc = "ask" /\ ~excused => yes \/ Owner \in asked
    /\ result = "notfound" => excused

\* Whoever says ok, or is about to, has the object stored; the directory goes
\* only when it is.
OkStored ==
    /\ dir \/ stored
    /\ reply = "ok" \/ remote = "drop" \/ result = "ok" => stored

\* The relay and the handler at the owner have each frame once: as long as no
\* end was sent, what is written, with what is on the wire, is what was taken.
Relaying ==
    /\ remote \in {"first", "write", "put"} => Ordered(file, wire, frames)
    /\ remote = "first" => file = <<>>
    /\ pc = "relay" /\ remote # "off" =>
          /\ remote \in {"first", "write"}
          /\ \A i \in 1 .. Len(wire) : wire[i] \notin {End, Cut}
          /\ got = Len(file) + Len(wire)

\* A stream that nobody relays any more ends in a cut, or its relay could not read on.
Orphaned ==
    pc = "idle" /\ remote # "off" =>
        client = "gone" \/ broke \/ (Len(wire) > 0 /\ wire[Len(wire)] = Cut)

\* The inductive invariant.
ClusterInv == TypeOK /\ Early /\ Here /\ OwnerAsked /\ OkStored /\ Relaying /\ Orphaned

-----------------------------------------------------------------------------
\* One more frame, the next, goes on a wire without an end.
LEMMA SendFrame ==
  ASSUME NEW f \in Seq(1 .. MaxFrames), NEW w \in Seq(Signals), NEW n \in 0 .. MaxFrames,
         Ordered(f, w, n), \A i \in 1 .. Len(w) : w[i] \notin {End, Cut},
         Len(f) + Len(w) < n
  PROVE  LET v == Append(w, Len(f) + Len(w) + 1)
         IN  /\ v \in Seq(Signals) /\ Len(v) = Len(w) + 1
             /\ Ordered(f, v, n) /\ \A i \in 1 .. Len(v) : v[i] \notin {End, Cut}
<1> DEFINE v == Append(w, Len(f) + Len(w) + 1)
<1> USE ClusterAssumption DEF End, Cut
<1>1. Len(f) \in Nat /\ Len(w) \in Nat /\ Len(f) + Len(w) + 1 \in 1 .. MaxFrames
  BY LenProperties
<1>0. Len(f) + Len(w) + 1 \in Signals
  BY <1>1 DEF Signals
<1>2. /\ v \in Seq(Signals) /\ Len(v) = Len(w) + 1
      /\ \A i \in 1 .. Len(w) : v[i] = w[i]
      /\ v[Len(w) + 1] = Len(f) + Len(w) + 1
  BY <1>0, AppendProperties
<1> HIDE DEF v
<1>3. \A i \in 1 .. Len(w) : w[i] = Len(f) + i
  BY <1>1 DEF Ordered
<1>4. ASSUME NEW i \in 1 .. Len(v) PROVE v[i] = Len(f) + i
  <2>1. i \in 1 .. Len(w) \/ i = Len(w) + 1
    BY <1>1, <1>2
  <2> QED
    BY <1>1, <1>2, <1>3, <2>1
<1>5. Ordered(f, v, n)
  BY <1>1, <1>2, <1>4 DEF Ordered
<1>6. \A i \in 1 .. Len(v) : v[i] \notin {End, Cut}
  BY <1>1, <1>4
<1> QED
  BY <1>2, <1>5, <1>6 DEF v

\* An end may go on any wire, and on what arrived of it.
LEMMA SendEnd ==
  ASSUME NEW f \in Seq(1 .. MaxFrames), NEW w \in Seq(Signals), NEW n \in 0 .. MaxFrames,
         Ordered(f, w, n), NEW k \in 0 .. Len(w), NEW e \in {End, Cut}
  PROVE  LET v == Append(SubSeq(w, 1, k), e)
         IN  /\ v \in Seq(Signals) /\ Len(v) = k + 1 /\ v[k + 1] = e
             /\ Ordered(f, v, n)
<1> DEFINE u == SubSeq(w, 1, k)
           v == Append(u, e)
<1> USE ClusterAssumption DEF End, Cut
<1>1. Len(f) \in Nat /\ Len(w) \in Nat /\ \A i \in 1 .. Len(w) : w[i] \in Signals
  BY LenProperties
<1>2. u \in Seq(Signals) /\ Len(u) = k /\ \A i \in 1 .. k : u[i] = w[i]
  BY <1>1, SubSeqProperties
<1> HIDE DEF u
<1>3. /\ v \in Seq(Signals) /\ Len(v) = k + 1
      /\ \A i \in 1 .. k : v[i] = w[i]
      /\ v[k + 1] = e
  <2>1. e \in Signals
    BY DEF Signals
  <2>2. /\ v \in Seq(Signals) /\ Len(v) = Len(u) + 1 /\ v[Len(u) + 1] = e
        /\ \A i \in 1 .. Len(u) : v[i] = u[i]
    BY <1>2, <2>1, AppendProperties
  <2> QED
    BY <1>2, <2>2
<1> HIDE DEF v
<1>4. ASSUME NEW i \in 1 .. Len(v)
      PROVE  /\ v[i] = Len(f) + i \/ \A j \in i .. Len(v) : v[j] \in {End, Cut}
             /\ v[i] <= n
  <2>1. CASE i = k + 1
    BY <1>1, <1>3, <2>1
  <2>2. CASE i \in 1 .. k
    <3>1. i \in 1 .. Len(w) /\ v[i] = w[i] /\ v[i] <= n
      BY <1>1, <1>3, <2>2 DEF Ordered
    <3>2. CASE w[i] = Len(f) + i
      BY <3>1, <3>2
    <3>3. CASE \A j \in i .. Len(w) : w[j] \in {End, Cut}
      <4>1. ASSUME NEW j \in i .. k PROVE v[j] \in {End, Cut}
        <5>1. j \in 1 .. k /\ j \in i .. Len(w)
          BY <1>1, <2>2
        <5> QED
          BY <1>3, <3>3, <5>1
      <4>2. \A j \in i .. Len(v) : j \in i .. k \/ j = k + 1
        BY <1>1, <1>3, <2>2
      <4> QED
        BY <1>3, <3>1, <4>1, <4>2
    <3> QED
      BY <3>1, <3>2, <3>3 DEF Ordered
  <2> QED
    BY <1>3, <2>1, <2>2
<1>5. Ordered(f, v, n)
  BY <1>4 DEF Ordered
<1> QED
  BY <1>3, <1>5 DEF u, v

\* What is taken from the wire is the next frame, or an end, with nothing but
\* ends after it.
LEMMA TakeSignal ==
  ASSUME NEW f \in Seq(1 .. MaxFrames), NEW w \in Seq(Signals), NEW n \in 0 .. MaxFrames,
         Ordered(f, w, n), w # <<>>
  PROVE  /\ Tail(w) \in Seq(Signals) /\ Len(w) \in Nat \ {0} /\ Len(Tail(w)) = Len(w) - 1
         /\ \A i \in 1 .. Len(Tail(w)) : Tail(w)[i] = w[i + 1]
         /\ Head(w) = w[1] /\ w[1] \in Signals
         /\ Head(w) \in {End, Cut} => Ordered(f, Tail(w), n)
         /\ Head(w) \notin {End, Cut} =>
               /\ Head(w) = Len(f) + 1
               /\ Append(f, Head(w)) \in Seq(1 .. MaxFrames)
               /\ Len(Append(f, Head(w))) = Len(f) + 1
               /\ Ordered(Append(f, Head(w)), Tail(w), n)
<1> DEFINE t == Tail(w)
<1> USE ClusterAssumption DEF End, Cut
<1>1. Len(f) \in Nat /\ Len(w) \in Nat \ {0} /\ Head(w) = w[1] /\ w[1] \in Signals
  BY LenProperties, EmptySeq
<1>2. /\ t \in Seq(Signals) /\ Len(t) = Len(w) - 1
      /\ \A i \in 1 .. Len(t) : t[i] = w[i + 1]
  BY HeadTailProperties
<1> HIDE DEF t
<1>3. ASSUME w[1] \in {End, Cut} PROVE Ordered(f, t, n)
  <2>0. 1 \in 1 .. Len(w) /\ w[1] # Len(f) + 1
    BY <1>1, <1>3
  <2>1. \A j \in 1 .. Len(w) : w[j] \in {End, Cut}
    BY <2>0 DEF Ordered
  <2>2. \A j \in 1 .. Len(t) : t[j] \in {End, Cut}
    BY <1>1, <1>2, <2>1
  <2> QED
    BY <1>1, <1>2, <2>2 DEF Ordered
<1>4. ASSUME w[1] \notin {End, Cut}
      PROVE  /\ w[1] = Len(f) + 1
             /\ Append(f, w[1]) \in Seq(1 .. MaxFrames)
             /\ Len(Append(f, w[1])) = Len(f) + 1
             /\ Ordered(Append(f, w[1]), t, n)
  <2> DEFINE g == Append(f, w[1])
  <2>0. (w[1] = Len(f) + 1 \/ \A j \in 1 .. Len(w) : w[j] \in {End, Cut}) /\ w[1] <= n
    BY <1>1 DEF Ordered
  <2>1. w[1] = Len(f) + 1 /\ w[1] \in 1 .. MaxFrames /\ w[1] <= n
    BY <1>1, <1>4, <2>0 DEF Signals
  <2>2. /\ g \in Seq(1 .. MaxFrames) /\ Len(g) = Len(f) + 1
        /\ \A i \in 1 .. Len(f) : g[i] = f[i]
        /\ g[Len(f) + 1] = Len(f) + 1
    BY <2>1, AppendProperties
  <2> HIDE DEF g
  <2>3. ASSUME NEW i \in 1 .. Len(g) PROVE g[i] = i
    <3>1. i \in 1 .. Len(f) \/ i = Len(f) + 1
      BY <1>1, <2>2
    <3> QED
      BY <2>2, <3>1 DEF Ordered
  <2>4. ASSUME NEW i \in 1 .. Len(t)
        PROVE  t[i] = Len(g) + i \/ \A j \in i .. Len(t) : t[j] \in {End, Cut}
    <3>1. i + 1 \in 1 .. Len(w) /\ t[i] = w[i + 1]
      BY <1>1, <1>2
    <3>2. CASE w[i + 1] = Len(f) + (i + 1)
      BY <1>1, <2>2, <3>1, <3>2
    <3>3. CASE \A j \in i + 1 .. Len(w) : w[j] \in {End, Cut}
      <4>1. \A j \in i .. Len(t) : j + 1 \in i + 1 .. Len(w) /\ t[j] = w[j + 1]
        BY <1>1, <1>2
      <4> QED
        BY <3>3, <4>1
    <3> QED
      BY <3>1, <3>2, <3>3 DEF Ordered
  <2>5. Len(g) <= n /\ \A i \in 1 .. Len(t) : t[i] <= n
    BY <1>1, <1>2, <2>1, <2>2 DEF Ordered
  <2>6. Ordered(g, t, n)
    BY <2>3, <2>4, <2>5 DEF Ordered
  <2> QED
    BY <2>1, <2>2, <2>6 DEF g
<1> QED
  BY <1>1, <1>2, <1>3, <1>4 DEF t

\* As long as a cut is last and is not taken, it is last.
LEMMA CutStaysLast ==
  ASSUME NEW w \in Seq(Signals), Len(w) > 0, w[Len(w)] = Cut, Head(w) # Cut
  PROVE  Len(Tail(w)) > 0 /\ Tail(w)[Len(Tail(w))] = Cut
<1>1. w # <<>> /\ Len(w) \in Nat /\ Head(w) = w[1]
  BY EmptySeq, LenProperties
<1>2. Len(Tail(w)) = Len(w) - 1 /\ \A i \in 1 .. Len(Tail(w)) : Tail(w)[i] = w[i + 1]
  BY <1>1, HeadTailProperties
<1>3. Len(w) # 1
  BY <1>1
<1> QED
  BY <1>1, <1>2, <1>3

\* What arrives of a stream whose connection broke ends in a cut.
LEMMA CutArrives ==
  ASSUME TypeOK, NEW v \in Arrived
  PROVE  /\ v \in Seq(Signals) /\ Len(v) > 0 /\ v[Len(v)] = Cut
         /\ Ordered(file, wire, frames) => Ordered(file, v, frames)
<1>1. /\ wire \in Seq(Signals) /\ file \in Seq(1 .. MaxFrames) /\ frames \in 0 .. MaxFrames
      /\ Len(wire) \in Nat /\ \A i \in 1 .. Len(wire) : wire[i] \in Signals
  BY ClusterAssumption, LenProperties DEF TypeOK
<1>2. PICK k \in 0 .. Len(wire) : v = Append(SubSeq(wire, 1, k), Cut)
  BY DEF Arrived
<1>3. SubSeq(wire, 1, k) \in Seq(Signals) /\ Len(SubSeq(wire, 1, k)) = k
  BY <1>1, SubSeqProperties
<1>4. Cut \in Signals
  BY DEF Signals
<1>5. v \in Seq(Signals) /\ Len(v) = k + 1 /\ v[k + 1] = Cut
  BY <1>2, <1>3, <1>4, AppendProperties
<1>6. Ordered(file, wire, frames) => Ordered(file, v, frames)
  BY <1>1, <1>2, SendEnd
<1> QED
  BY <1>5, <1>6

-----------------------------------------------------------------------------
\* Every step keeps it: first those that start, take or end a stream.

LEMMA EnterKeeps == ClusterInv /\ Enter => ClusterInv'
<1> SUFFICES ASSUME ClusterInv, Enter PROVE ClusterInv'
  OBVIOUS
<1>1. /\ UNCHANGED <<status, sure, found, faults, kind, at, client, excused, broke, wire, remote, file,
                     reply, single, frames, stored, stops, leaves, asked, yes, got, left>>
      /\ pc = "enter" /\ pc' \in {"idle", "local", "discover"}
      /\ result' \in {"none", "ok", "error", "notfound"}
      /\ pc' # "idle" => ~stored /\ result' = result
      /\ pc' = "idle" => result' \in {"ok", "error"}
      /\ result' = "ok" => stored \/ result = "ok"
  BY DEF Enter, TakeOver, Answer, memVars, reqVars, farVars, fileVars, diskVars, boundVars,
         askVars, ClusterInv, TypeOK
<1>2. /\ remote = "off" /\ file = <<>>
      /\ got = (IF kind = "http" THEN frames ELSE 1) /\ (kind # "http" => frames > 0)
  BY <1>1 DEF ClusterInv, Early
<1>3. dir' \in BOOLEAN /\ (dir' \/ stored')
  <2>1. CASE TakeOver
    BY <1>1, <2>1 DEF TakeOver
  <2>2. CASE UNCHANGED dir
    BY <1>1, <2>2 DEF ClusterInv, TypeOK, OkStored
  <2> QED
    BY <2>1, <2>2 DEF Enter, diskVars
<1>4. TypeOK'
  BY <1>1, <1>3 DEF ClusterInv, TypeOK
<1>5. Early'
  BY <1>1, <1>2 DEF Early
<1>6. OwnerAsked'
  <2>1. \A n \in Nodes : found[n] = None
    BY <1>1 DEF ClusterInv, OwnerAsked
  <2>2. at \in Nodes
    BY DEF ClusterInv, TypeOK
  <2>3. ~excused => Owner \in sure
    BY <1>1 DEF ClusterInv, OwnerAsked
  <2>4. result' = "notfound" => excused
    BY <1>1 DEF ClusterInv, OwnerAsked
  <2> QED
    BY <1>1, <2>1, <2>2, <2>3, <2>4 DEF OwnerAsked
<1>7. OkStored'
  BY <1>1, <1>3 DEF ClusterInv, OkStored
<1>8. Relaying' /\ Orphaned' /\ Here'
  BY <1>1, <1>2 DEF Relaying, Orphaned, Here
<1> QED
  BY <1>4, <1>5, <1>6, <1>7, <1>8 DEF ClusterInv

LEMMA LocalKeeps == ClusterInv /\ Local => ClusterInv'
<1> SUFFICES ASSUME ClusterInv, Local PROVE ClusterInv'
  OBVIOUS
<1>1. /\ UNCHANGED <<status, sure, found, faults, kind, at, client, excused, broke, wire, remote, file,
                     reply, single, frames, stops, leaves, asked, yes, left>>
      /\ pc = "local" /\ UNCHANGED dir
  BY DEF Local, memVars, reqVars, farVars, fileVars, boundVars, askVars
<1>2. \/ UNCHANGED <<stored, got>> /\ result' = "error" /\ pc' = "idle"
      \/ stored' = TRUE /\ got' = frames /\ UNCHANGED result /\ pc' = "finish"
  BY DEF Local, Answer
<1>3. remote = "off" /\ file = <<>>
  BY <1>1 DEF ClusterInv, Early
<1>4. dir' \in BOOLEAN /\ stored' \in BOOLEAN
  BY <1>1, <1>2, Zenon DEF ClusterInv, TypeOK
<1>5. TypeOK'
  BY <1>1, <1>2, <1>4, ClusterAssumption DEF ClusterInv, TypeOK
<1> QED
  BY <1>1, <1>2, <1>3, <1>5
  DEF ClusterInv, Early, Here, OwnerAsked, OkStored, Relaying, Orphaned

LEMMA LocalDropKeeps == ClusterInv /\ LocalDrop => ClusterInv'
<1> SUFFICES ASSUME ClusterInv, LocalDrop PROVE ClusterInv'
  OBVIOUS
<1>1. /\ UNCHANGED <<status, sure, found, faults, kind, at, client, excused, broke, wire, remote,
                     file, reply, single, frames, stored, stops, leaves, asked, yes, got, left>>
      /\ pc = "finish" /\ pc' = "idle" /\ result' = "ok" /\ dir' = ~single
  BY DEF LocalDrop, Answer, memVars, reqVars, farVars, fileVars, boundVars, askVars
<1>2. remote = "off" /\ stored
  BY <1>1 DEF ClusterInv, Here
<1>3. dir' \in BOOLEAN
  BY <1>1 DEF ClusterInv, TypeOK
<1>4. TypeOK'
  BY <1>1, <1>3 DEF ClusterInv, TypeOK
<1> QED
  BY <1>1, <1>2, <1>4 DEF ClusterInv, Early, Here, OwnerAsked, OkStored, Relaying, Orphaned

LEMMA DiscoveryKeeps == ClusterInv /\ EndDiscovery => ClusterInv'
<1> SUFFICES ASSUME ClusterInv, EndDiscovery PROVE ClusterInv'
  OBVIOUS
<1>1. /\ UNCHANGED <<status, sure, faults, kind, at, client, excused, broke, wire, remote, file, reply,
                     single, frames, dir, stored, stops, leaves, got, result, left>>
      /\ found' = [found EXCEPT ![at] = None] /\ asked' = found[at] /\ yes' = FALSE
      /\ pc = "discover" /\ pc' = "ask" /\ found[at] # None
  BY DEF EndDiscovery, LookupDone, reqVars, farVars, fileVars, diskVars, boundVars
<1>2. found[at] \in SUBSET Nodes /\ found' \in [Nodes -> (SUBSET Nodes) \cup {None}]
  BY <1>1 DEF ClusterInv, TypeOK
<1>3. TypeOK'
  <2>1. asked' \subseteq Nodes /\ yes' \in BOOLEAN
    BY <1>1, <1>2
  <2>2. UNCHANGED <<status, sure, faults, kind, at, client, excused, broke, wire, remote, file, reply,
                    single, frames, dir, stored, stops, leaves, got, result, left>>
    BY <1>1
  <2>3. pc' \in {"idle", "enter", "local", "finish", "discover", "ask", "relay", "await"}
    BY <1>1
  <2> QED
    BY <1>2, <2>1, <2>2, <2>3 DEF ClusterInv, TypeOK
<1>4. OwnerAsked'
  BY <1>1, <1>2 DEF ClusterInv, TypeOK, OwnerAsked
<1> QED
  BY <1>1, <1>3, <1>4 DEF ClusterInv, Early, Here, OkStored, Relaying, Orphaned

LEMMA PickKeeps == ClusterInv /\ Pick => ClusterInv'
<1> SUFFICES ASSUME ClusterInv, Pick PROVE ClusterInv'
  OBVIOUS
<1>1. /\ UNCHANGED <<status, sure, found, faults, kind, at, client, excused, broke, file, reply, single,
                     frames, dir, stored, stops, leaves, asked, yes, left>>
      /\ pc = "ask" /\ asked = {}
  BY DEF Pick, memVars, reqVars, fileVars, diskVars, boundVars, askVars
<1>2. /\ remote = "off" /\ file = <<>> /\ got = (IF kind = "http" THEN frames ELSE 1)
      /\ kind # "http" => frames > 0
  BY <1>1 DEF ClusterInv, Early
<1>3. CASE yes /\ status[Owner] = "open"
  <2>1. /\ pc' = "relay" /\ remote' = "first" /\ result' = result
        /\ wire' = (IF kind = "http" THEN <<>> ELSE <<1>>)
        /\ got' = (IF kind = "http" THEN 0 ELSE got)
    BY <1>3 DEF Pick
  <2>2. frames \in Nat /\ frames <= MaxFrames /\ MaxFrames \in Nat \ {0}
    BY ClusterAssumption DEF ClusterInv, TypeOK
  <2>3. /\ wire' \in Seq(Signals) /\ Len(wire') = got' /\ got' \in 0 .. frames
        /\ \A i \in 1 .. Len(wire') : wire'[i] = i /\ i <= frames
    <3>1. CASE kind = "http"
      BY <1>2, <2>1, <2>2, <3>1, EmptySeq
    <3>2. CASE kind # "http"
      <4>1. wire' = <<1>> /\ got' = 1 /\ 1 <= frames /\ 1 \in Signals
        BY <1>2, <2>1, <2>2, <3>2 DEF Signals
      <4> QED
        BY <2>2, <4>1
    <3> QED
      BY <3>1, <3>2
  <2>4. Len(file) = 0
    BY <1>2
  <2>5. Ordered(file', wire', frames')
    BY <1>1, <2>2, <2>3, <2>4 DEF Ordered
  <2>6. \A i \in 1 .. Len(wire') : wire'[i] \notin {End, Cut}
    BY <2>2, <2>3 DEF End, Cut
  <2>7. Relaying'
    BY <1>1, <1>2, <2>1, <2>2, <2>3, <2>4, <2>5, <2>6 DEF Relaying
  <2>8. TypeOK'
    BY <1>1, <2>1, <2>2, <2>3 DEF ClusterInv, TypeOK
  <2> QED
    BY <1>1, <2>1, <2>7, <2>8 DEF ClusterInv, Early, Here, OwnerAsked, OkStored, Orphaned
<1>4. CASE ~(yes /\ status[Owner] = "open")
  <2>1. /\ pc' = "idle" /\ result' = (IF yes THEN "error" ELSE "notfound")
        /\ UNCHANGED <<remote, wire, got>>
    BY <1>4 DEF Pick, Answer
  <2> QED
    BY <1>1, <1>2, <2>1
    DEF ClusterInv, TypeOK, Early, Here, OwnerAsked, OkStored, Relaying, Orphaned
<1> QED
  BY <1>3, <1>4

LEMMA RelayCutKeeps == ClusterInv /\ RelayCut => ClusterInv'
<1> SUFFICES ASSUME ClusterInv, RelayCut PROVE ClusterInv'
  OBVIOUS
<1>1. /\ UNCHANGED <<status, sure, found, kind, at, client, broke, remote, file, reply, single,
                     frames, dir, stored, stops, leaves, asked, yes, got, left>>
      /\ pc \in {"relay", "await"} /\ pc' = "idle" /\ result' = "error" /\ excused' = TRUE
      /\ faults' \in 0 .. MaxFaults
  BY ClusterAssumption
  DEF RelayCut, CallFails, Fault, Answer, fileVars, diskVars, boundVars, askVars, ClusterInv, TypeOK
<1>2. CASE remote = "off"
  <2>1. UNCHANGED wire
    BY <1>2 DEF RelayCut
  <2>2. TypeOK'
    BY <1>1, <2>1 DEF ClusterInv, TypeOK
  <2> QED
    BY <1>1, <1>2, <2>1, <2>2
    DEF ClusterInv, Early, Here, OwnerAsked, OkStored, Relaying, Orphaned
<1>3. CASE remote # "off"
  <2>1. wire' \in Arrived
    BY <1>3 DEF RelayCut
  <2>2. /\ wire' \in Seq(Signals) /\ Len(wire') > 0 /\ wire'[Len(wire')] = Cut
        /\ Ordered(file, wire, frames) => Ordered(file, wire', frames)
    BY <2>1, CutArrives DEF ClusterInv
  <2>3. TypeOK'
    BY <1>1, <2>2 DEF ClusterInv, TypeOK
  <2>4. Relaying' /\ Orphaned'
    BY <1>1, <2>2 DEF ClusterInv, Relaying, Orphaned
  <2> QED
    BY <1>1, <2>3, <2>4 DEF ClusterInv, Early, Here, OwnerAsked, OkStored
<1> QED
  BY <1>2, <1>3

LEMMA RemoteFirstKeeps == ClusterInv /\ RemoteFirst => ClusterInv'
<1> SUFFICES ASSUME ClusterInv, RemoteFirst PROVE ClusterInv'
  OBVIOUS
<1>1. /\ UNCHANGED <<status, sure, found, faults, kind, at, client, excused, broke, single, frames,
                     stored, stops, leaves, asked, yes, pc, got, result, left>>
      /\ remote = "first" /\ wire # <<>> /\ wire' = Tail(wire)
  BY DEF RemoteFirst, memVars, reqVars, fileVars, boundVars, askVars
<1>2. file = <<>> /\ Ordered(file, wire, frames)
  BY <1>1 DEF ClusterInv, Relaying
<1>3. /\ wire \in Seq(Signals) /\ file \in Seq(1 .. MaxFrames) /\ frames \in 0 .. MaxFrames
      /\ Len(file) \in Nat
  BY ClusterAssumption, LenProperties DEF ClusterInv, TypeOK
<1>4. /\ wire' \in Seq(Signals) /\ Len(wire) \in Nat \ {0} /\ Len(wire') = Len(wire) - 1
      /\ \A i \in 1 .. Len(wire') : wire'[i] = wire[i + 1]
      /\ Head(wire) = wire[1]
  BY <1>1, <1>2, <1>3, TakeSignal
<1>5. CASE remote' = "off"
  <2>1. /\ UNCHANGED file
        /\ \/ reply' = "error" /\ UNCHANGED dir
           \/ reply' = "ok" /\ stored /\ dir' = (dir /\ ~single)
    BY <1>5 DEF RemoteFirst, Reply
  <2>2. dir' \in BOOLEAN
    BY <2>1 DEF ClusterInv, TypeOK
  <2>3. TypeOK'
    BY <1>1, <1>4, <1>5, <2>1, <2>2 DEF ClusterInv, TypeOK
  <2> QED
    BY <1>1, <1>5, <2>1, <2>3 DEF ClusterInv, Early, Here, OwnerAsked, OkStored, Relaying, Orphaned
<1>6. CASE remote' # "off"
  <2>1. /\ Head(wire) \notin {End, Cut} /\ remote' = "write" /\ file' = <<Head(wire)>>
        /\ UNCHANGED <<reply, dir>>
    BY <1>6 DEF RemoteFirst, Reply
  <2>2. file' = Append(file, Head(wire))
    BY <1>2, <2>1
  <2>3. /\ file' \in Seq(1 .. MaxFrames) /\ Len(file') = Len(file) + 1
        /\ Ordered(file', wire', frames)
    <3>1. Head(wire) \notin {End, Cut}
      BY <2>1
    <3> QED
      BY <1>1, <1>2, <1>3, <2>2, <3>1, TakeSignal
  <2>4. TypeOK'
    BY <1>1, <1>4, <2>1, <2>3 DEF ClusterInv, TypeOK
  <2>5. Relaying'
    BY <1>1, <1>3, <1>4, <2>1, <2>3 DEF ClusterInv, Relaying
  <2>6. Orphaned'
    BY <1>1, <1>3, <2>1, CutStaysLast DEF ClusterInv, Orphaned
  <2> QED
    BY <1>1, <2>1, <2>4, <2>5, <2>6 DEF ClusterInv, Early, Here, OwnerAsked, OkStored
<1> QED
  BY <1>5, <1>6

LEMMA RemoteWriteKeeps == ClusterInv /\ RemoteWrite => ClusterInv'
<1> SUFFICES ASSUME ClusterInv, RemoteWrite PROVE ClusterInv'
  OBVIOUS
<1>1. /\ UNCHANGED <<status, sure, found, faults, kind, at, client, excused, broke, single, frames, dir,
                     stored, stops, leaves, asked, yes, pc, got, result, left>>
      /\ remote = "write" /\ wire # <<>> /\ wire' = Tail(wire)
  BY DEF RemoteWrite, memVars, reqVars, fileVars, diskVars, boundVars, askVars
<1>2. Ordered(file, wire, frames)
  BY <1>1 DEF ClusterInv, Relaying
<1>3. /\ wire \in Seq(Signals) /\ file \in Seq(1 .. MaxFrames) /\ frames \in 0 .. MaxFrames
      /\ Len(file) \in Nat
  BY ClusterAssumption, LenProperties DEF ClusterInv, TypeOK
<1>4. /\ wire' \in Seq(Signals) /\ Len(wire) \in Nat \ {0} /\ Len(wire') = Len(wire) - 1
      /\ \A i \in 1 .. Len(wire') : wire'[i] = wire[i + 1]
      /\ Head(wire) = wire[1]
  BY <1>1, <1>2, <1>3, TakeSignal
<1>5. CASE Head(wire) = End
  <2>1. remote' = "put" /\ UNCHANGED <<file, reply>>
    BY <1>5 DEF RemoteWrite, Reply, End, Cut
  <2>2. Ordered(file', wire', frames)
    BY <1>1, <1>2, <1>3, <1>5, <2>1, TakeSignal
  <2>3. pc # "relay"
    <3>1. wire[1] \in {End, Cut} /\ 1 \in 1 .. Len(wire)
      BY <1>4, <1>5
    <3> QED
      BY <1>1, <3>1 DEF ClusterInv, Relaying
  <2>4. TypeOK'
    BY <1>1, <1>4, <2>1 DEF ClusterInv, TypeOK
  <2>5. Orphaned'
    BY <1>1, <1>3, <1>5, <2>1, CutStaysLast DEF ClusterInv, Orphaned, End, Cut
  <2> QED
    BY <1>1, <2>1, <2>2, <2>3, <2>4, <2>5
    DEF ClusterInv, Early, Here, OwnerAsked, OkStored, Relaying
<1>6. CASE Head(wire) = Cut
  <2>1. remote' = "off" /\ reply' = "error" /\ UNCHANGED file
    BY <1>6 DEF RemoteWrite, Reply, End, Cut
  <2>2. TypeOK'
    BY <1>1, <1>4, <2>1 DEF ClusterInv, TypeOK
  <2> QED
    BY <1>1, <2>1, <2>2 DEF ClusterInv, Early, Here, OwnerAsked, OkStored, Relaying, Orphaned
<1>7. CASE Head(wire) \notin {End, Cut}
  <2>1. file' = Append(file, Head(wire)) /\ UNCHANGED <<remote, reply>>
    BY <1>7 DEF RemoteWrite
  <2>2. /\ file' \in Seq(1 .. MaxFrames) /\ Len(file') = Len(file) + 1
        /\ Ordered(file', wire', frames)
    BY <1>1, <1>2, <1>3, <1>7, <2>1, TakeSignal
  <2>3. TypeOK'
    BY <1>1, <1>4, <2>1, <2>2 DEF ClusterInv, TypeOK
  <2>4. Relaying'
    BY <1>1, <1>3, <1>4, <2>1, <2>2 DEF ClusterInv, Relaying
  <2>5. Orphaned'
    BY <1>1, <1>3, <1>7, <2>1, CutStaysLast DEF ClusterInv, Orphaned
  <2> QED
    BY <1>1, <2>1, <2>3, <2>4, <2>5 DEF ClusterInv, Early, Here, OwnerAsked, OkStored
<1> QED
  BY <1>5, <1>6, <1>7

LEMMA RemotePutKeeps == ClusterInv /\ RemotePut => ClusterInv'
<1> SUFFICES ASSUME ClusterInv, RemotePut PROVE ClusterInv'
  OBVIOUS
<1>1. /\ UNCHANGED <<status, sure, found, faults, kind, at, client, excused, broke, wire, file, single,
                     frames, dir, stops, leaves, asked, yes, pc, got, result, left>>
      /\ remote = "put"
      /\ \/ remote' = "drop" /\ stored' = TRUE /\ UNCHANGED reply
         \/ remote' = "off" /\ reply' = "error" /\ UNCHANGED stored
  BY DEF RemotePut, Reply, memVars, reqVars, fileVars, boundVars, askVars
<1>2. stored' \in BOOLEAN
  BY <1>1, Zenon DEF ClusterInv, TypeOK
<1>3. TypeOK'
  BY <1>1, <1>2 DEF ClusterInv, TypeOK
<1> QED
  BY <1>1, <1>3 DEF ClusterInv, Early, Here, OwnerAsked, OkStored, Relaying, Orphaned

LEMMA StopKeeps == ASSUME ClusterInv, NEW n \in Nodes, Stop(n) PROVE ClusterInv'
<1>1. /\ status' = [status EXCEPT ![n] = "down"] /\ sure' = sure \ {n}
      /\ found' = [found EXCEPT ![n] = None] /\ excused' = TRUE
      /\ UNCHANGED <<faults, kind, at, client, broke, file, single, frames, dir, stored, asked,
                     yes, got, leaves>>
      /\ stops' \in 0 .. MaxStops /\ left' \in SUBSET Nodes
  BY ClusterAssumption DEF Stop, Fall, fileVars, diskVars, askVars, ClusterInv, TypeOK
<1>2. \/ n = at /\ pc # "idle" /\ result' = "error" /\ pc' = "idle"
      \/ ~(n = at /\ pc # "idle") /\ UNCHANGED <<result, pc>>
  BY DEF Stop, Answer
<1>3. /\ status' \in [Nodes -> {"down", "starting", "open", "closing"}]
      /\ sure' \subseteq {m \in Nodes : status'[m] = "open"}
      /\ found' \in [Nodes -> (SUBSET Nodes) \cup {None}]
      /\ \A m \in Nodes : found'[m] # None => m # n /\ found'[m] = found[m]
  BY <1>1 DEF ClusterInv, TypeOK
<1>4. OwnerAsked'
  BY <1>1, <1>2, <1>3 DEF ClusterInv, OwnerAsked
<1>5. CASE n = Owner
  <2>1. remote' = "off" /\ wire' = <<>> /\ reply' \in {reply, "error"}
    BY <1>5 DEF Stop
  <2>2. TypeOK'
    BY <1>1, <1>2, <1>3, <2>1, EmptySeq DEF ClusterInv, TypeOK
  <2> QED
    BY <1>1, <1>2, <1>4, <2>1, <2>2 DEF ClusterInv, Early, Here, OkStored, Relaying, Orphaned
<1>6. CASE n # Owner /\ n = at /\ remote # "off"
  <2>1. UNCHANGED <<remote, reply>>
    BY <1>6 DEF Stop
  <2>2. wire' \in Arrived
    BY <1>6 DEF Stop
  <2>3. pc' = "idle"
    BY <1>2, <1>6
  <2>4. /\ wire' \in Seq(Signals) /\ Len(wire') > 0 /\ wire'[Len(wire')] = Cut
        /\ Ordered(file, wire, frames) => Ordered(file, wire', frames)
    BY <2>2, CutArrives DEF ClusterInv
  <2>5. Relaying'
    BY <1>1, <2>1, <2>3, <2>4 DEF ClusterInv, Relaying
  <2>6. TypeOK'
    BY <1>1, <1>2, <1>3, <2>1, <2>4 DEF ClusterInv, TypeOK
  <2>7. Early' /\ Here' /\ OkStored' /\ Orphaned'
    BY <1>1, <1>2, <2>1, <2>3, <2>4 DEF ClusterInv, Early, Here, OkStored, Orphaned
  <2> QED
    BY <1>4, <2>5, <2>6, <2>7 DEF ClusterInv
<1>7. CASE n # Owner /\ ~(n = at /\ remote # "off")
  <2>1. UNCHANGED <<wire, remote, reply>>
    BY <1>7 DEF Stop
  <2>2. TypeOK'
    BY <1>1, <1>2, <1>3, <2>1 DEF ClusterInv, TypeOK
  <2> QED
    BY <1>1, <1>2, <1>4, <1>7, <2>1, <2>2 DEF ClusterInv, Early, Here, OkStored, Relaying, Orphaned
<1> QED
  BY <1>5, <1>6, <1>7

-----------------------------------------------------------------------------
\* The others, one by one.
LEMMA ClusterKept == ClusterInv /\ Next => ClusterInv'
<1> SUFFICES ASSUME ClusterInv, Next PROVE ClusterInv'
  OBVIOUS
<1> USE ClusterAssumption
    DEF ClusterInv, TypeOK, Kinds, End, Cut, vars, memVars, clVars, reqVars, farVars, fileVars,
        diskVars, boundVars, askVars
<1>1. ASSUME NEW k \in Kinds, NEW n \in Nodes, Ask(k, n) PROVE ClusterInv'
  <2>1. /\ UNCHANGED <<memVars, diskVars, boundVars, askVars>>
        /\ kind' = k /\ at' = n /\ client' = "here" /\ excused' = (Owner \notin sure)
        /\ broke' = FALSE /\ pc = "idle" /\ pc' = "enter" /\ result' = "none"
        /\ k # "http" => frames > 0
        /\ got' = (IF k = "http" THEN frames ELSE 1) /\ left' \in SUBSET Nodes
        /\ wire' = <<>> /\ remote' = "off" /\ file' = <<>> /\ reply' = "none"
    BY <1>1 DEF Ask
  <2>2. TypeOK'
    <3>1. excused' \in BOOLEAN /\ broke' \in BOOLEAN
      BY <2>1
    <3>2. got' \in 0 .. MaxFrames
      BY <2>1
    <3>3. wire' \in Seq(Signals) /\ file' \in Seq(1 .. MaxFrames)
      BY <2>1, EmptySeq
    <3> QED
      BY <2>1, <3>1, <3>2, <3>3
  <2>3. Early' /\ Here' /\ Relaying' /\ Orphaned'
    BY <2>1 DEF Early, Here, Relaying, Orphaned
  <2>4. OwnerAsked' /\ OkStored'
    BY <2>1 DEF OwnerAsked, OkStored
  <2> QED
    BY <2>2, <2>3, <2>4
<1>2. CASE ClientLeaves
  BY <1>2 DEF ClientLeaves, Early, Here, OwnerAsked, OkStored, Relaying, Ordered, Orphaned
<1>3. CASE Enter
  BY <1>3, EnterKeeps
<1>4. CASE EnterFails
  <2>1. remote = "off"
    BY <1>4 DEF EnterFails, Early, Here
  <2> QED
    BY <1>4, <2>1 DEF EnterFails, CallFails, Fault, Answer, Early, Here, OwnerAsked, OkStored, Relaying,
                      Ordered, Orphaned
<1>5. CASE Local
  BY <1>5, LocalKeeps
<1>6. CASE StartDiscovery
  BY <1>6 DEF StartDiscovery, Lookup, Early, Here, OwnerAsked, OkStored, Relaying, Ordered, Orphaned
<1>7. CASE EndDiscovery
  BY <1>7, DiscoveryKeeps
<1>8. CASE DiscoveryFails
  <2>1. remote = "off"
    BY <1>8 DEF DiscoveryFails, Early
  <2> QED
    BY <1>8, <2>1 DEF DiscoveryFails, CallFails, Fault, Answer, Early, Here, OwnerAsked, OkStored,
                      Relaying, Ordered, Orphaned
<1>9. ASSUME NEW n \in Nodes, Locate(n) PROVE ClusterInv'
  <2>1. dir
    BY <1>9 DEF Locate, Early, Here, OkStored
  <2>2. /\ pc = "ask" /\ n \in asked /\ asked' = asked \ {n}
        /\ yes' = (yes \/ (status[n] = "open" /\ Has(n)))
        /\ UNCHANGED <<memVars, reqVars, farVars, diskVars, boundVars, pc, got, result, left>>
    BY <1>9 DEF Locate
  <2>3. yes' \in BOOLEAN /\ (yes => yes')
    BY <2>2
  <2>4. n = Owner /\ ~excused => yes'
    BY <2>1, <2>2 DEF OwnerAsked, Has
  <2>5. OwnerAsked'
    BY <2>2, <2>3, <2>4 DEF OwnerAsked
  <2> QED
    BY <2>2, <2>3, <2>5 DEF Early, Here, OkStored, Relaying, Ordered, Orphaned
<1>10. ASSUME NEW n \in Nodes, LocateFails(n) PROVE ClusterInv'
  BY <1>10 DEF LocateFails, CallFails, Fault, Early, Here, OwnerAsked, OkStored, Relaying, Ordered,
               Orphaned
<1>11. CASE Pick
  BY <1>11, PickKeeps
<1>12. CASE RelayNext
  <2>1. /\ pc = "relay" /\ got < frames /\ got' = got + 1
        /\ UNCHANGED <<memVars, reqVars, remote, file, reply, diskVars, boundVars, askVars, pc,
                       result, left>>
    BY <1>12 DEF RelayNext
  <2>2. CASE remote = "off"
    <3>1. wire' = wire
      BY <1>12, <2>2 DEF RelayNext, Sent
    <3> QED
      BY <2>1, <2>2, <3>1 DEF Early, Here, OwnerAsked, OkStored, Relaying, Orphaned
  <2>3. CASE remote # "off"
    <3>1. /\ Ordered(file, wire, frames) /\ got = Len(file) + Len(wire)
          /\ \A i \in 1 .. Len(wire) : wire[i] \notin {End, Cut}
      BY <2>1, <2>3 DEF Relaying
    <3>2. wire' = Append(wire, Len(file) + Len(wire) + 1)
      BY <1>12, <2>3, <3>1 DEF RelayNext, Sent
    <3>3. /\ wire' \in Seq(Signals) /\ Len(wire') = Len(wire) + 1
          /\ Ordered(file, wire', frames) /\ \A i \in 1 .. Len(wire') : wire'[i] \notin {End, Cut}
      BY <2>1, <3>1, <3>2, SendFrame
    <3>4. Len(file) \in Nat /\ Len(wire) \in Nat
      BY LenProperties
    <3>5. Relaying'
      BY <2>1, <3>1, <3>3, <3>4 DEF Relaying
    <3>6. TypeOK'
      BY <2>1, <3>3
    <3> QED
      BY <2>1, <3>5, <3>6 DEF Early, Here, OwnerAsked, OkStored, Orphaned
  <2> QED
    BY <2>2, <2>3
<1>13. CASE RelayEnd
  <2>1. /\ pc = "relay" /\ pc' = "await"
        /\ UNCHANGED <<memVars, reqVars, remote, file, reply, diskVars, boundVars, askVars, got,
                       result, left>>
    BY <1>13 DEF RelayEnd
  <2>2. CASE remote = "off"
    <3>1. wire' = wire
      BY <1>13, <2>2 DEF RelayEnd, Sent
    <3> QED
      BY <2>1, <2>2, <3>1 DEF Early, Here, OwnerAsked, OkStored, Relaying, Orphaned
  <2>3. CASE remote # "off"
    <3>1. Ordered(file, wire, frames) /\ Len(wire) \in Nat
      BY <2>1, <2>3, LenProperties DEF Relaying
    <3>2. wire' = Append(SubSeq(wire, 1, Len(wire)), End)
      BY <1>13, <2>3, SubSeqFull DEF RelayEnd, Sent
    <3>3. wire' \in Seq(Signals) /\ Ordered(file, wire', frames)
      BY <3>1, <3>2, SendEnd
    <3>4. Relaying'
      BY <2>1, <3>3 DEF Relaying
    <3>5. TypeOK'
      BY <2>1, <3>3
    <3> QED
      BY <2>1, <3>4, <3>5 DEF Early, Here, OwnerAsked, OkStored, Orphaned
  <2> QED
    BY <2>2, <2>3
<1>14. CASE RelayBreaks
  BY <1>14 DEF RelayBreaks, Receives, Answer, Early, Here, OwnerAsked, OkStored, Relaying, Ordered,
               Orphaned
<1>15. CASE Await
  BY <1>15 DEF Await, Answer, Early, Here, OwnerAsked, OkStored, Relaying, Ordered, Orphaned
<1>16. CASE RemoteFirst
  BY <1>16, RemoteFirstKeeps
<1>17. CASE RemoteWrite
  BY <1>17, RemoteWriteKeeps
<1>18. CASE RemotePut
  BY <1>18, RemotePutKeeps
<1>19. CASE RemoteDrop
  BY <1>19 DEF RemoteDrop, Reply, Early, Here, OwnerAsked, OkStored, Relaying, Ordered, Orphaned
<1>20. CASE RemoteFails
  BY <1>20 DEF RemoteFails, CallFails, Fault, Reply, Early, Here, OwnerAsked, OkStored, Relaying,
               Ordered, Orphaned
<1>21. ASSUME NEW n \in Nodes, NodeStep(n) PROVE ClusterInv'
  BY <1>21 DEF NodeStep, Rise, Open, Enlist, Early, Here, OwnerAsked, OkStored, Relaying, Ordered,
               Orphaned
<1>22. ASSUME NEW n \in Nodes, Stop(n) PROVE ClusterInv'
  BY <1>22, StopKeeps
<1>23. ASSUME NEW n \in Nodes, Shutdown(n) PROVE ClusterInv'
  <2>1. /\ status[n] = "open" /\ status' = [status EXCEPT ![n] = "closing"] /\ sure' = sure \ {n}
        /\ excused' = (excused \/ n = Owner)
        /\ stops < MaxStops /\ stops' = stops + 1
        /\ UNCHANGED <<found, faults, kind, at, client, broke, leaves, farVars, diskVars, askVars,
                       pc, got, result, left>>
    BY <1>23 DEF Shutdown, Shut
  <2>2. excused' \in BOOLEAN /\ (excused => excused') /\ (n = Owner => excused')
    BY <2>1
  <2>3. OwnerAsked'
    BY <2>1, <2>2 DEF OwnerAsked
  <2> QED
    BY <2>1, <2>2, <2>3 DEF Early, Here, OkStored, Relaying, Ordered, Orphaned
<1>24. CASE LocalDrop
  BY <1>24, LocalDropKeeps
<1>25. CASE RelayUnread
  <2>1. pc = "relay" /\ pc' = "idle" /\ result' = "error" /\ broke' = TRUE /\ CallFails
    BY <1>25 DEF RelayUnread, Answer
  <2> QED
    BY <1>25, <2>1 DEF RelayUnread, CallFails, Fault, Early, Here, OwnerAsked, OkStored, Relaying,
                       Ordered, Orphaned
<1>26. CASE RelayCut
  BY <1>26, RelayCutKeeps
<1>27. CASE Late
  BY <1>27 DEF Late, Lapse, Fault, Early, Here, OwnerAsked, OkStored, Relaying, Ordered, Orphaned
<1> QED
  BY <1>1, <1>2, <1>3, <1>4, <1>5, <1>6, <1>7, <1>8, <1>9, <1>10, <1>11, <1>12, <1>13, <1>14,
     <1>15, <1>16, <1>17, <1>18, <1>19, <1>20, <1>21, <1>22, <1>23, <1>24,
     <1>25, <1>26, <1>27
  DEF Next, Handler, Remote

LEMMA ClusterInvInit == Init => ClusterInv
<1> SUFFICES ASSUME Init PROVE ClusterInv
  OBVIOUS
<1>1. /\ frames \in {0, MaxFrames} /\ MaxFrames \in Nat \ {0} /\ Owner \in Nodes
      /\ single \in BOOLEAN /\ dir = TRUE /\ stored = FALSE
      /\ kind = "grpc" /\ at = Owner /\ client = "here" /\ excused = FALSE /\ broke = FALSE
      /\ wire = <<>> /\ remote = "off" /\ file = <<>> /\ reply = "none"
      /\ stops = 0 /\ leaves = 0 /\ faults = 0
      /\ asked = {} /\ yes = FALSE /\ pc = "idle" /\ got = 0 /\ result = "none" /\ left = {}
      /\ status = [n \in Nodes |-> "down"] /\ sure = {} /\ found = [n \in Nodes |-> None]
  BY ClusterAssumption DEF Init, MemInit
<1>2. wire \in Seq(Signals) /\ file \in Seq(1 .. MaxFrames)
  BY <1>1, EmptySeq
<1>3. TypeOK
  <2>1. /\ status \in [Nodes -> {"down", "starting", "open", "closing"}]
        /\ sure \subseteq {n \in Nodes : status[n] = "open"}
        /\ found \in [Nodes -> (SUBSET Nodes) \cup {None}]
    BY <1>1
  <2>2. dir \in BOOLEAN /\ stored \in BOOLEAN /\ excused \in BOOLEAN /\ broke \in BOOLEAN
        /\ yes \in BOOLEAN
    BY <1>1
  <2>3. /\ faults \in 0 .. MaxFaults /\ stops \in 0 .. MaxStops /\ leaves \in 0 .. MaxLeaves
        /\ got \in 0 .. MaxFrames
    BY <1>1, ClusterAssumption
  <2> QED
    BY <1>1, <1>2, <2>1, <2>2, <2>3 DEF TypeOK, Kinds
<1> QED
  BY <1>1, <1>3 DEF ClusterInv, Early, Here, OwnerAsked, OkStored, Relaying, Orphaned

\* The invariant holds in every state of the specification.
THEOREM ClusterInvariance == Spec => []ClusterInv
<1>1. ClusterInv /\ [Next]_vars => ClusterInv'
  <2>1. ASSUME ClusterInv, UNCHANGED vars PROVE ClusterInv'
    BY <2>1
    DEF vars, memVars, clVars, reqVars, farVars, fileVars, diskVars, boundVars, askVars, ClusterInv,
        TypeOK, Early, Here, OwnerAsked, OkStored, Relaying, Ordered, Orphaned
  <2> QED
    BY <2>1, ClusterKept
<1> QED
  BY <1>1, ClusterInvInit, PTL DEF Spec

\* Every variable of an upload, and of the registry under it, has its type.
THEOREM ClusterTypeCorrect == Spec => []TypeOK
<1>1. ClusterInv => TypeOK
  BY DEF ClusterInv
<1> QED
  BY <1>1, ClusterInvariance, PTL

\* At any node, over any relay, with nodes stopping at any step: a client that is
\* told ok has its object stored, whole.
THEOREM OkIsStored == Spec => []OkMeansStored
<1>1. ClusterInv => OkMeansStored
  BY DEF ClusterInv, OkStored, OkMeansStored
<1> QED
  BY <1>1, ClusterInvariance, PTL

\* The owner gets the frames once, in order and from the first, for files of any length.
THEOREM RelayInOrder == Spec => []RelayedPrefix
<1>1. ClusterInv => RelayedPrefix
  BY DEF ClusterInv, Relaying, RelayedPrefix
<1> QED
  BY <1>1, ClusterInvariance, PTL

\* Among any nodes, a request is told that nobody has its directory only if the owner
\* was not sure for a while of it, or a call failed.
THEOREM OwnerIsFound == Spec => []FoundIfSure
<1>1. ClusterInv => FoundIfSure
  BY DEF ClusterInv, OwnerAsked, FoundIfSure
<1> QED
  BY <1>1, ClusterInvariance, PTL

\* A stream that nobody will end is left behind only by a relay that could not read on:
\* its client has gone, or a read failed.
THEOREM OnlyUnreadIsLeft == Spec => LeftUnread
<1>1. ClusterInv /\ [Next]_vars => (left' \subseteq left \/ client = "gone" \/ broke)
  <2> SUFFICES ASSUME ClusterInv, [Next]_vars 
                 PROVE  left' \subseteq left \/ client = "gone" \/ broke
    OBVIOUS
  <2>1. ASSUME NEW k \in Kinds, NEW n \in Nodes, Ask(k, n)
        PROVE  left' \subseteq left \/ client = "gone" \/ broke
    <3>1. pc = "idle" /\ (remote = "off" \/ wire = <<>>)
          /\ left' = (IF remote = "off" THEN left ELSE left \cup {at})
      BY <2>1 DEF Ask
    <3>2. CASE remote = "off"
      BY <3>1, <3>2
    <3>3. CASE remote # "off"
      BY <3>1, <3>3 DEF ClusterInv, Orphaned
    <3> QED
      BY <3>2, <3>3
  <2>2. ASSUME NEW n \in Nodes, Stop(n) PROVE left' \subseteq left
    BY <2>2 DEF Stop
  <2>3. ASSUME NEW n \in Nodes, NodeStep(n) \/ Shutdown(n) \/ Locate(n) \/ LocateFails(n)
        PROVE  left' = left
    BY <2>3 DEF NodeStep, Shutdown, Locate, LocateFails, clVars
  <2>4. CASE Enter \/ EnterFails \/ Local \/ StartDiscovery \/ EndDiscovery \/ DiscoveryFails
             \/ Pick \/ RelayNext \/ RelayEnd \/ RelayBreaks \/ RelayUnread \/ RelayCut \/ Await
             \/ LocalDrop
    BY <2>4 DEF Enter, TakeOver, EnterFails, Local, StartDiscovery, EndDiscovery, DiscoveryFails,
                Pick, RelayNext, RelayEnd, RelayBreaks, RelayUnread, RelayCut, Await, LocalDrop,
                clVars
  <2>5. CASE ClientLeaves \/ Remote \/ Late \/ UNCHANGED vars
    BY <2>5 DEF ClientLeaves, Remote, RemoteFirst, RemoteWrite, RemotePut, RemoteDrop, RemoteFails,
                Late, vars, clVars
  <2> QED
    BY <2>1, <2>2, <2>3, <2>4, <2>5 DEF Next, Handler
<1> QED
  BY <1>1, ClusterInvariance, PTL DEF Spec, LeftUnread

\* The cluster uses the registry as Membership promises, no more and no less: every step
\* is one of Membership, or leaves it alone.  RegistryProofs shows that redis does.
THEOREM ClusterUsesMembership == Spec => MemSpec
<1>1. Init => MemInit
  BY DEF Init
<1>2. ClusterInv /\ [Next]_vars => [MemNext]_memVars
  <2> SUFFICES ASSUME ClusterInv, [Next]_vars PROVE [MemNext]_memVars
    OBVIOUS
  <2>1. CASE UNCHANGED memVars
    BY <2>1
  <2>2. ASSUME NEW n \in Nodes, NodeStep(n) \/ Stop(n) \/ Shutdown(n) PROVE MemNext
    BY <2>2 DEF NodeStep, Stop, Shutdown, MemNext
  <2>3. CASE CallFails
    <3>1. Lapse({})
      BY <2>3 DEF CallFails, Lapse
    <3> QED
      BY <3>1 DEF MemNext
  <2>4. CASE Late
    <3>1. Lapse({Owner}) /\ {Owner} \in SUBSET Nodes
      BY <2>4, ClusterAssumption DEF Late
    <3> QED
      BY <3>1 DEF MemNext
  <2>5. CASE StartDiscovery \/ EndDiscovery
    <3>1. at \in Nodes
      BY DEF ClusterInv, TypeOK
    <3> QED
      BY <2>5, <3>1 DEF StartDiscovery, EndDiscovery, MemNext
  <2>6. ASSUME NEW n \in Nodes, NEW k \in Kinds, Ask(k, n) \/ Locate(n) PROVE UNCHANGED memVars
    BY <2>6 DEF Ask, Locate
  <2>7. CASE Enter \/ Local \/ LocalDrop \/ Pick \/ RelayNext \/ RelayEnd \/ RelayBreaks \/ Await
    BY <2>7 DEF Enter, TakeOver, Local, LocalDrop, Pick, RelayNext, RelayEnd, RelayBreaks, Await
  <2>8. CASE ClientLeaves \/ RemoteFirst \/ RemoteWrite \/ RemotePut \/ RemoteDrop
    BY <2>8 DEF ClientLeaves, RemoteFirst, RemoteWrite, RemotePut, RemoteDrop
  <2>9. CASE EnterFails \/ DiscoveryFails \/ RelayUnread \/ RelayCut \/ RemoteFails
             \/ \E n \in Nodes : LocateFails(n)
    BY <2>3, <2>9 DEF EnterFails, DiscoveryFails, RelayUnread, RelayCut, RemoteFails, LocateFails
  <2>10. CASE UNCHANGED vars
    BY <2>10 DEF vars
  <2> QED
    BY <2>1, <2>2, <2>4, <2>5, <2>6, <2>7, <2>8, <2>9, <2>10 DEF Next, Handler, Remote, Kinds
<1> QED
  BY <1>1, <1>2, ClusterInvariance, PTL DEF Spec, MemSpec
=============================================================================
