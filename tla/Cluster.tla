------------------------------ MODULE Cluster -------------------------------
(***************************************************************************)
(* The upload of one file, or of one part of a file, in a cluster.  Its    *)
(* directory is on the node Owner, where its link was made; the client may *)
(* go to any node.  A node that has not got the directory asks the nodes   *)
(* it finds which of them has it (Discovery, Locate), and relays the       *)
(* frames it receives to the first that says yes (UploadForward,           *)
(* UploadWebForward).  Nodes stop and start, the client may leave, calls   *)
(* may fail; a client whose upload failed tries again.  What an upload     *)
(* does beside this, the lock of a part, and two uploads at once, are in   *)
(* SingleUpload and PartUpload.                                            *)
(***************************************************************************)
EXTENDS Membership, Sequences

CONSTANTS
    Owner,
    MaxFrames,    \* bound: frames of a file
    MaxStops,     \* bound: ends of a process
    MaxLeaves     \* bound: clients that leave

ASSUME ClusterAssumption ==
    /\ Owner \in Nodes
    /\ MaxFrames \in Nat \ {0}
    /\ MaxFaults \in Nat /\ MaxStops \in Nat /\ MaxLeaves \in Nat

VARIABLES
    single,   \* a whole file is uploaded, not a part
    frames,   \* frames of the file; an empty one has none
    dir,      \* Owner has the directory
    stored,   \* the object is stored whole and its row says so
    kind,     \* the request: "grpc", "http" or "proxy" (UploadSingleProxyHandler)
    at,       \* the node the client went to
    pc,       \* its handler: idle, enter, local, finish, discover, ask, relay, await
    got,      \* frames the handler has of the file
    client,   \* "here" or "gone"
    asked,    \* nodes whose answer to Locate is still to come
    yes,      \* one of them said it has the directory
    wire,     \* the stream to the remote handler: frames, End, Cut
    remote,   \* the handler at Owner: off, first, write, put, drop
    file,     \* the frames it has written
    reply,    \* what it answered
    result,   \* what the client was answered: none, ok, error, notfound
    excused,  \* something went wrong that the request's handlers cannot help
    broke,    \* its relay could not read on, with the client there
    left,     \* nodes with a relayed stream that nobody will ever end
    stops, leaves

reqVars  == <<kind, at, client, excused, broke>>
farVars  == <<wire, remote, file, reply>>
fileVars == <<single, frames>>
diskVars == <<fileVars, dir, stored>>
boundVars == <<stops, leaves>>
askVars  == <<asked, yes>>
clVars   == <<reqVars, farVars, diskVars, boundVars, askVars, pc, got, result, left>>
vars     == <<memVars, clVars>>

End == 0
Cut == -1
Whole == [i \in 1 .. frames |-> i]
Signals == {End, Cut} \cup 1 .. MaxFrames

Init ==
    /\ MemInit
    /\ single \in BOOLEAN /\ frames \in {0, MaxFrames} /\ dir = TRUE /\ stored = FALSE
    /\ kind = "grpc" /\ at = Owner /\ client = "here" /\ excused = FALSE /\ broke = FALSE
    /\ wire = <<>> /\ remote = "off" /\ file = <<>> /\ reply = "none"
    /\ stops = 0 /\ leaves = 0
    /\ asked = {} /\ yes = FALSE /\ pc = "idle" /\ got = 0 /\ result = "none"
    /\ left = {}

\* The handler returns.
Answer(r) == result' = r /\ pc' = "idle"

\* A call to redis, to the database, to the disk or to the object store fails.
CallFails == Fault /\ excused' = TRUE /\ UNCHANGED <<status, sure, found>>

-----------------------------------------------------------------------------
(* The client and the node it goes to *)

\* A stream of gRPC has a first frame, an HTTP request has the whole file.  What
\* the last request left at Owner waits for ever, or has come to its end.
Ask(k, n) ==
    /\ pc = "idle" /\ status[n] = "open"
    /\ remote = "off" \/ wire = <<>>
    /\ k # "http" => frames > 0
    /\ k = "proxy" => single
    /\ kind' = k /\ at' = n /\ client' = "here" /\ excused' = (Owner \notin sure)
    /\ broke' = FALSE
    /\ pc' = "enter" /\ got' = (IF k = "http" THEN frames ELSE 1) /\ result' = "none"
    /\ left' = (IF remote = "off" THEN left ELSE left \cup {at})
    /\ wire' = <<>> /\ remote' = "off" /\ file' = <<>> /\ reply' = "none"
    /\ UNCHANGED <<memVars, diskVars, boundVars, askVars>>

ClientLeaves ==
    /\ pc # "idle" /\ client = "here" /\ leaves < MaxLeaves
    /\ client' = "gone" /\ leaves' = leaves + 1
    /\ UNCHANGED <<memVars, farVars, diskVars, askVars, kind, at, excused, broke, pc,
                   got, result, left, stops>>

\* An object with this md5 is there already and the row takes it over, or the
\* part is there already.
TakeOver ==
    /\ stored /\ Answer("ok")
    /\ dir' = (dir /\ ~(single /\ at = Owner))
    /\ UNCHANGED <<memVars, reqVars, farVars, boundVars, askVars, got, left, fileVars, stored>>

IsLocal == at = Owner /\ dir

\* a slip: UploadSingleHandler with the condition of UploadSingleProxyHandler
EnterInverted ==
    /\ pc = "enter"
    /\ \/ TakeOver
       \/ /\ ~stored
          /\ IF IsLocal THEN pc' = "discover" /\ UNCHANGED result ELSE Answer("error")
          /\ UNCHANGED <<memVars, reqVars, farVars, diskVars, boundVars, askVars, got, left>>

\* UploadSingleProxyHandler asks the others when it has the directory, and goes
\* on here when it has not; os.Create fails then.
Enter ==
    /\ pc = "enter"
    /\ \/ TakeOver
       \/ /\ ~stored
          /\ \/ kind # "proxy" /\ IsLocal /\ pc' = "local" /\ UNCHANGED result
             \/ (kind = "proxy" <=> IsLocal) /\ pc' = "discover" /\ UNCHANGED result
             \/ kind = "proxy" /\ ~IsLocal /\ Answer("error")
          /\ UNCHANGED <<memVars, reqVars, farVars, diskVars, boundVars, askVars, got, left>>

\* With a part put and its row made, nothing can fail any more.
EnterFails ==
    /\ pc \in {"enter", "local", "finish"} /\ (pc = "finish" => single)
    /\ CallFails /\ Answer("error")
    /\ UNCHANGED <<kind, at, client, broke, farVars, diskVars, boundVars, askVars, got, left>>

\* The upload here, if the client sends all of it.  The type of a file without a
\* byte cannot be told; that of a part is not asked for.
Local ==
    /\ pc = "local"
    /\ IF (kind # "http" /\ client = "gone") \/ (single /\ frames = 0)
         THEN Answer("error") /\ UNCHANGED <<stored, got>>
         ELSE pc' = "finish" /\ stored' = TRUE /\ got' = frames /\ UNCHANGED result
    /\ UNCHANGED <<memVars, reqVars, farVars, boundVars, askVars, left, fileVars, dir>>

\* The row is read back and cached, the directory removed.
LocalDrop ==
    /\ pc = "finish" /\ Answer("ok") /\ dir' = ~single
    /\ UNCHANGED <<memVars, reqVars, farVars, boundVars, askVars, got, left, fileVars, stored>>

-----------------------------------------------------------------------------
(* Discovery and Locate *)

StartDiscovery ==
    /\ pc = "discover" /\ Lookup(at)
    /\ UNCHANGED clVars

EndDiscovery ==
    /\ pc = "discover" /\ found[at] # None /\ LookupDone(at)
    /\ asked' = found[at] /\ yes' = FALSE /\ pc' = "ask"
    /\ UNCHANGED <<reqVars, farVars, diskVars, boundVars, got, result, left>>

DiscoveryFails ==
    /\ pc = "discover" /\ found[at] = None /\ CallFails /\ Answer("error")
    /\ UNCHANGED <<kind, at, client, broke, farVars, diskVars, boundVars, askVars, got, left>>

\* ProxyHandler of the node n; whoever cannot be reached does not answer.
Has(n) == n = Owner /\ dir

\* a slip: the last answer counts, not the first that says yes
LocateLast(n) ==
    /\ pc = "ask" /\ n \in asked /\ asked' = asked \ {n}
    /\ yes' = (status[n] = "open" /\ Has(n))
    /\ UNCHANGED <<memVars, reqVars, farVars, diskVars, boundVars, pc, got, result, left>>

Locate(n) ==
    /\ pc = "ask" /\ n \in asked /\ asked' = asked \ {n}
    /\ yes' = (yes \/ (status[n] = "open" /\ Has(n)))
    /\ UNCHANGED <<memVars, reqVars, farVars, diskVars, boundVars, pc, got, result, left>>

LocateFails(n) ==
    /\ pc = "ask" /\ n \in asked /\ asked' = asked \ {n}
    /\ CallFails
    /\ UNCHANGED <<kind, at, client, broke, farVars, diskVars, boundVars, yes, pc, got, result, left>>

\* a slip: the frame that was received already is not sent on
PickUnsent ==
    /\ pc = "ask" /\ asked = {}
    /\ IF yes /\ status[Owner] = "open"
         THEN /\ pc' = "relay" /\ remote' = "first" /\ wire' = <<>>
              /\ got' = (IF kind = "http" THEN 0 ELSE got)
              /\ UNCHANGED result
         ELSE /\ Answer(IF yes THEN "error" ELSE "notfound")
              /\ UNCHANGED <<remote, wire, got>>
    /\ UNCHANGED <<memVars, reqVars, file, reply, diskVars, boundVars, askVars, left>>

\* All have answered; the first answer is taken, and a stream opened to its node.
Pick ==
    /\ pc = "ask" /\ asked = {}
    /\ IF yes /\ status[Owner] = "open"
         THEN /\ pc' = "relay" /\ remote' = "first"
              /\ wire' = (IF kind = "http" THEN <<>> ELSE <<1>>)
              /\ got' = (IF kind = "http" THEN 0 ELSE got)
              /\ UNCHANGED result
         ELSE /\ Answer(IF yes THEN "error" ELSE "notfound")
              /\ UNCHANGED <<remote, wire, got>>
    /\ UNCHANGED <<memVars, reqVars, file, reply, diskVars, boundVars, askVars, left>>

-----------------------------------------------------------------------------
(* UploadForward, UploadWebForward *)

\* SendMsg to a handler that has ended returns io.EOF, which is ignored.
Sent(x) == wire' = IF remote = "off" THEN wire ELSE Append(wire, x)

Receives == kind = "http" \/ client = "here"

RelayNext ==
    /\ pc = "relay" /\ got < frames /\ Receives
    /\ got' = got + 1 /\ Sent(got + 1)
    /\ UNCHANGED <<memVars, reqVars, remote, file, reply, diskVars, boundVars, askVars,
                   pc, result, left>>

RelayEnd ==
    /\ pc = "relay" /\ got = frames /\ Receives
    /\ Sent(End) /\ pc' = "await"
    /\ UNCHANGED <<memVars, reqVars, remote, file, reply, diskVars, boundVars, askVars,
                   got, result, left>>

\* RecvMsg of the client's stream fails: the stream to the remote handler, whose
\* context is the Background, is neither closed nor cancelled.
RelayBreaks ==
    /\ pc = "relay" /\ ~Receives /\ Answer("error")
    /\ UNCHANGED <<memVars, reqVars, farVars, diskVars, boundVars, askVars, got, left>>

\* It fails with the client there, or Read of the uploaded file does.
RelayUnread ==
    /\ pc = "relay" /\ CallFails /\ Answer("error") /\ broke' = TRUE
    /\ UNCHANGED <<kind, at, client, farVars, diskVars, boundVars, askVars, got, left>>

\* What was on its way when a connection broke arrives in part.
Arrived == {Append(SubSeq(wire, 1, k), Cut) : k \in 0 .. Len(wire)}

\* The connection to the owner breaks: an error of SendMsg, or of RecvMsg.
RelayCut ==
    /\ pc \in {"relay", "await"} /\ CallFails /\ Answer("error")
    /\ IF remote = "off" THEN UNCHANGED wire ELSE wire' \in Arrived
    /\ UNCHANGED <<kind, at, client, broke, remote, file, reply, diskVars, boundVars,
                   askVars, got, left>>

\* a slip: the error of the remote handler is not looked at
AwaitBlind ==
    /\ pc = "await" /\ remote = "off" /\ Answer("ok")
    /\ UNCHANGED <<memVars, reqVars, farVars, diskVars, boundVars, askVars, got, left>>

\* RecvMsg of the remote handler's answer.
Await ==
    /\ pc = "await" /\ remote = "off" /\ Answer(reply)
    /\ UNCHANGED <<memVars, reqVars, farVars, diskVars, boundVars, askVars, got, left>>

-----------------------------------------------------------------------------
(* UploadSingleHandler or UploadMultiPartHandler at Owner, called by the relay *)

Reply(r) == reply' = r /\ remote' = "off"

\* Without a first frame there is no uid, which is invalid.
RemoteFirst ==
    /\ remote = "first" /\ wire # <<>> /\ wire' = Tail(wire)
    /\ \/ Head(wire) \in {End, Cut} /\ Reply("error") /\ UNCHANGED <<file, dir>>
       \/ /\ Head(wire) \notin {End, Cut} /\ stored
          /\ Reply("ok") /\ dir' = (dir /\ ~single) /\ UNCHANGED file
       \/ /\ Head(wire) \notin {End, Cut} /\ ~stored
          /\ remote' = "write" /\ file' = <<Head(wire)>> /\ UNCHANGED <<reply, dir>>
    /\ UNCHANGED <<memVars, reqVars, fileVars, stored, boundVars, askVars, pc, got, result, left>>

\* a slip: every error of Recv but EOF is passed over
RemoteWriteDeaf ==
    /\ remote = "write" /\ wire # <<>> /\ wire' = Tail(wire)
    /\ \/ Head(wire) = End /\ remote' = "put" /\ UNCHANGED <<file, reply>>
       \/ Head(wire) = Cut /\ UNCHANGED <<remote, reply, file>>
       \/ Head(wire) \notin {End, Cut} /\ file' = Append(file, Head(wire))
          /\ UNCHANGED <<remote, reply>>
    /\ UNCHANGED <<memVars, reqVars, diskVars, boundVars, askVars, pc, got, result, left>>

RemoteWrite ==
    /\ remote = "write" /\ wire # <<>> /\ wire' = Tail(wire)
    /\ \/ Head(wire) = End /\ remote' = "put" /\ UNCHANGED <<file, reply>>
       \/ Head(wire) = Cut /\ Reply("error") /\ UNCHANGED file
       \/ Head(wire) \notin {End, Cut} /\ file' = Append(file, Head(wire))
          /\ UNCHANGED <<remote, reply>>
    /\ UNCHANGED <<memVars, reqVars, diskVars, boundVars, askVars, pc, got, result, left>>

\* The md5 is compared, the object put and its row written.
RemotePut ==
    /\ remote = "put"
    /\ IF file = Whole THEN remote' = "drop" /\ stored' = TRUE /\ UNCHANGED reply
                       ELSE Reply("error") /\ UNCHANGED stored
    /\ UNCHANGED <<memVars, reqVars, wire, file, fileVars, dir, boundVars, askVars, pc, got,
                   result, left>>

RemoteDrop ==
    /\ remote = "drop" /\ dir' = ~single /\ Reply("ok")
    /\ UNCHANGED <<memVars, reqVars, wire, file, fileVars, stored, boundVars, askVars, pc, got,
                   result, left>>

RemoteFails ==
    /\ remote # "off" /\ (remote = "drop" => single)
    /\ CallFails /\ Reply("error")
    /\ UNCHANGED <<kind, at, client, broke, wire, file, diskVars, boundVars, askVars, pc, got,
                   result, left>>

-----------------------------------------------------------------------------
(* Nodes *)

\* Handlers of a node go on after its listener closed, for five seconds.
NodeStep(n) ==
    /\ Rise(n) \/ Open(n) \/ Enlist(n)
    /\ UNCHANGED clVars

Stop(n) ==
    /\ IF status[n] = "closing" THEN UNCHANGED stops ELSE stops < MaxStops /\ stops' = stops + 1
    /\ Fall(n) /\ excused' = TRUE
    /\ IF n = at /\ pc # "idle" THEN Answer("error") ELSE UNCHANGED <<result, pc>>
    /\ IF n = Owner
         THEN /\ remote' = "off" /\ wire' = <<>> /\ left' = {}
              /\ reply' = (IF remote = "off" THEN reply ELSE "error")
         ELSE /\ left' = left \ {n}
              /\ IF n = at /\ remote # "off" THEN wire' \in Arrived ELSE UNCHANGED wire
              /\ UNCHANGED <<remote, reply>>
    /\ UNCHANGED <<kind, at, client, broke, file, diskVars, askVars, got, leaves>>

Shutdown(n) ==
    /\ stops < MaxStops /\ stops' = stops + 1 /\ Shut(n)
    /\ excused' = (excused \/ n = Owner)
    /\ UNCHANGED <<kind, at, client, broke, leaves, farVars, diskVars, askVars, pc, got, result, left>>

\* The owner's heartbeat is late.
Late ==
    /\ Lapse({Owner}) /\ excused' = TRUE
    /\ UNCHANGED <<kind, at, client, broke, farVars, diskVars, boundVars, askVars, pc, got, result, left>>

-----------------------------------------------------------------------------
Kinds == {"grpc", "http", "proxy"}

Handler ==
    \/ Enter \/ EnterFails \/ Local \/ LocalDrop
    \/ StartDiscovery \/ EndDiscovery \/ DiscoveryFails
    \/ \E n \in Nodes : Locate(n) \/ LocateFails(n)
    \/ Pick \/ RelayNext \/ RelayEnd \/ RelayBreaks \/ RelayUnread \/ RelayCut \/ Await

Remote == RemoteFirst \/ RemoteWrite \/ RemotePut \/ RemoteDrop \/ RemoteFails

Next ==
    \/ \E k \in Kinds, n \in Nodes : Ask(k, n)
    \/ ClientLeaves \/ Handler \/ Remote \/ Late
    \/ \E n \in Nodes : NodeStep(n) \/ Stop(n) \/ Shutdown(n)

\* Handlers run, nodes are started again and write their entry, and a client
\* who has a file to upload tries again.
Fairness ==
    /\ WF_vars(Handler) /\ WF_vars(Remote)
    /\ \A n \in Nodes : WF_vars(NodeStep(n)) /\ WF_vars(status[n] = "closing" /\ Stop(n))
    /\ SF_vars(\E n \in Nodes : Ask("grpc", n))

Spec == Init /\ [][Next]_vars /\ Fairness

-----------------------------------------------------------------------------
TypeOK ==
    /\ status \in [Nodes -> {"down", "starting", "open", "closing"}]
    /\ sure \subseteq {n \in Nodes : status[n] = "open"}
    /\ found \in [Nodes -> (SUBSET Nodes) \cup {None}] /\ faults \in 0 .. MaxFaults
    /\ single \in BOOLEAN /\ frames \in {0, MaxFrames} /\ dir \in BOOLEAN /\ stored \in BOOLEAN
    /\ kind \in Kinds /\ at \in Nodes /\ client \in {"here", "gone"} /\ excused \in BOOLEAN
    /\ broke \in BOOLEAN
    /\ pc \in {"idle", "enter", "local", "finish", "discover", "ask", "relay", "await"}
    /\ got \in 0 .. MaxFrames /\ asked \subseteq Nodes /\ yes \in BOOLEAN
    /\ wire \in Seq(Signals) /\ file \in Seq(1 .. MaxFrames)
    /\ remote \in {"off", "first", "write", "put", "drop"}
    /\ reply \in {"none", "ok", "error"}
    /\ result \in {"none", "ok", "error", "notfound"}
    /\ left \subseteq Nodes /\ stops \in 0 .. MaxStops /\ leaves \in 0 .. MaxLeaves

\* Whichever node the client went to, and whatever was lost on the way: when it
\* is told that its file was uploaded, the object is stored, whole.
OkMeansStored == result = "ok" => stored

\* Frame i of n is the i-th of what was written, f, and of what is on the wire, w,
\* where no frame follows an end.
Ordered(f, w, n) ==
    /\ \A i \in 1 .. Len(f) : f[i] = i
    /\ \A i \in 1 .. Len(w) :
          \/ w[i] = Len(f) + i
          \/ \A j \in i .. Len(w) : w[j] \in {End, Cut}
    /\ Len(f) <= n /\ \A i \in 1 .. Len(w) : w[i] <= n

\* What the owner has written and has still to read is the file from its start,
\* in order: the relay neither drops the frame it had taken nor sends one twice.
RelayedPrefix == remote \in {"write", "put"} => Ordered(file, wire, frames)

\* A request at a node without the directory finds the owner, if nothing went
\* wrong since it came: the owner was sure and stayed so, no call failed.  (But
\* UploadSingleProxyHandler does not ask, see ProxyForwards.)
FoundIfSure == result = "notfound" /\ kind # "proxy" => excused

\* A handler waits for ever at the owner only if its relay could not read on in
\* the middle of what the client sent: because the client had left, or by an error
\* of the read alone (rpcproxy.go:66-73, 133-135).  The death of the relay's node,
\* a broken connection and a failure at the owner end it.
LeftUnread == [][left' \subseteq left \/ client = "gone" \/ broke]_vars

\* A client that tries again, wherever, has its file stored at last.
UploadDone == frames > 0 => <>stored

\* UploadSingleProxyHandler forwards what is not here (a comment at upload.go:370).
ProxyForwards == (kind = "proxy" /\ result = "error") => (excused \/ client = "gone")

\* Every stream a relay opened comes to an end (rpcclient.go:18, "timeout control").
NoneLeft == left = {}
=============================================================================
