------------------------------ MODULE TaskLease ------------------------------
(***************************************************************************)
(* What the task system of app/pkg/event/dispatch promises about one row   *)
(* of task_info, whatever the nodes, queues and workers do: a waiting task *)
(* is leased to one node, which alone may settle it; a lease whose holder  *)
(* is gone is stranded and can only go back to waiting; an outcome is      *)
(* final.                                                                  *)
(***************************************************************************)
CONSTANTS Tasks, Nodes, None

VARIABLES
    phase,   \* absent, undo, held, stranded, finish or error
    owner    \* the node that leased the task, kept after the outcome

Phases == {"absent", "undo", "held", "stranded", "finish", "error"}

TypeOK ==
    /\ phase \in [Tasks -> Phases]
    /\ owner \in [Tasks -> Nodes \cup {None}]

Init ==
    /\ phase = [t \in Tasks |-> "absent"]
    /\ owner = [t \in Tasks |-> None]

Move(t, from, to) ==
    phase[t] = from /\ \E p \in to : phase' = [phase EXCEPT ![t] = p]

Submit(t) == Move(t, "absent", {"undo"}) /\ UNCHANGED owner

\* The claim may be stranded at once, when its answer is lost.
Lease(t) ==
    /\ Move(t, "undo", {"held", "stranded"})
    /\ \E n \in Nodes : owner' = [owner EXCEPT ![t] = n]

Settle(t) == Move(t, "held", {"finish", "error"}) /\ UNCHANGED owner

GiveBack(t) ==
    /\ Move(t, "stranded", {"undo"})
    /\ owner' = [owner EXCEPT ![t] = None]

\* A node gives up all it holds, in a crash or a stop, or one task on a fault.
Strand(n) ==
    /\ \E S \in SUBSET {t \in Tasks : phase[t] = "held" /\ owner[t] = n} :
          /\ S # {}
          /\ phase' = [t \in Tasks |-> IF t \in S THEN "stranded" ELSE phase[t]]
    /\ UNCHANGED owner

Next ==
    \/ \E t \in Tasks : Submit(t) \/ Lease(t) \/ Settle(t) \/ GiveBack(t)
    \/ \E n \in Nodes : Strand(n)

Spec == Init /\ [][Next]_<<phase, owner>>

=============================================================================
