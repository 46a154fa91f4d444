---------------------------- MODULE Membership ------------------------------
(***************************************************************************)
(* What the registry of a cluster promises to whoever looks a node up: a   *)
(* node that is known for sure is in every answer.  A node may be sure     *)
(* while it takes requests, and stops to be only when its listener closes, *)
(* when it dies, or by a fault.  Whom else an answer names, nobody knows:  *)
(* a node that is dead, or that never will be found again.                 *)
(***************************************************************************)
EXTENDS Integers

CONSTANTS
    Nodes,
    None,
    MaxFaults    \* bound: faults

VARIABLES
    status,   \* each node: "down", "starting", "open" (takes requests), "closing"
    sure,     \* the open nodes that every reader finds
    found,    \* each reader's answer, or None
    faults

memVars == <<status, sure, found, faults>>

Fault == faults < MaxFaults /\ faults' = faults + 1

MemInit ==
    /\ status = [n \in Nodes |-> "down"]
    /\ sure = {}
    /\ found = [n \in Nodes |-> None]
    /\ faults = 0

Rise(n) ==
    /\ status[n] = "down" /\ status' = [status EXCEPT ![n] = "starting"]
    /\ UNCHANGED <<sure, found, faults>>

Open(n) ==
    /\ status[n] = "starting" /\ status' = [status EXCEPT ![n] = "open"]
    /\ UNCHANGED <<sure, found, faults>>

Enlist(n) ==
    /\ status[n] = "open" /\ n \notin sure /\ sure' = sure \cup {n}
    /\ UNCHANGED <<status, found, faults>>

\* The listener of an open node closes.
Shut(n) ==
    /\ status[n] = "open" /\ status' = [status EXCEPT ![n] = "closing"]
    /\ sure' = sure \ {n}
    /\ UNCHANGED <<found, faults>>

Fall(n) ==
    /\ status[n] # "down" /\ status' = [status EXCEPT ![n] = "down"]
    /\ sure' = sure \ {n}
    /\ found' = [found EXCEPT ![n] = None]
    /\ UNCHANGED faults

\* One fault: the nodes of S, perhaps none, are no longer sure.
Lapse(S) ==
    /\ Fault /\ sure' = sure \ S
    /\ UNCHANGED <<status, found>>

Lookup(r) ==
    /\ status[r] # "down" /\ found[r] = None
    /\ \E S \in SUBSET Nodes : sure \subseteq S /\ found' = [found EXCEPT ![r] = S]
    /\ UNCHANGED <<status, sure, faults>>

LookupDone(r) ==
    /\ found[r] # None /\ found' = [found EXCEPT ![r] = None]
    /\ UNCHANGED <<status, sure, faults>>

MemNext ==
    \/ \E n \in Nodes : \/ Rise(n) \/ Open(n) \/ Enlist(n) \/ Shut(n) \/ Fall(n)
                        \/ Lookup(n) \/ LookupDone(n)
    \/ \E S \in SUBSET Nodes : Lapse(S)

MemSpec == MemInit /\ [][MemNext]_memVars
=============================================================================
