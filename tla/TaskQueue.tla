----------------------------- MODULE TaskQueue -----------------------------
(***************************************************************************)
(* What the task queue of the master promises to the nodes, whatever the   *)
(* interleaving of API requests, Fetch calls, restarts and failures: a     *)
(* task passes through the queue at most once, nothing is handed to a node *)
(* while the item is still queued, and every node is handed a task at most *)
(* once and only if the task was not assigned to another node.             *)
(*                                                                         *)
(* It does NOT promise that a task is handed to at most one node, nor that *)
(* it is handed to any node at all: TaskDispatch shows why the code        *)
(* guarantees neither.                                                     *)
(***************************************************************************)
CONSTANTS Tasks,    \* task ids
          Nodes,    \* nodes of the cluster
          NoNode    \* the zero ObjectID: "any node"

VARIABLES assigned, \* assigned[t]: the node the task was created for
          stage,    \* stage[t]: "new", "queued" or "gone"
          got       \* got[t]: the nodes the task has been handed to

vars == <<assigned, stage, got>>

Init ==
    /\ assigned \in [Tasks -> Nodes \cup {NoNode}]
    /\ stage = [t \in Tasks |-> "new"]
    /\ got = [t \in Tasks |-> {}]

Put(t) ==
    /\ stage[t] = "new"
    /\ stage' = [stage EXCEPT ![t] = "queued"]
    /\ UNCHANGED <<assigned, got>>

\* One item is taken out by a Fetch or a Cancel, all of them by the start-up
\* of the master.
Remove(S) ==
    /\ \A t \in S : stage[t] = "queued"
    /\ stage' = [t \in Tasks |-> IF t \in S THEN "gone" ELSE stage[t]]
    /\ UNCHANGED <<assigned, got>>

Hand(t, n) ==
    /\ stage[t] = "gone"
    /\ assigned[t] \in {NoNode, n}
    /\ n \notin got[t]
    /\ got' = [got EXCEPT ![t] = @ \cup {n}]
    /\ UNCHANGED <<assigned, stage>>

Next ==
    \/ \E t \in Tasks : Put(t)
    \/ \E S \in SUBSET Tasks : Remove(S)
    \/ \E t \in Tasks, n \in Nodes : Hand(t, n)

Spec == Init /\ [][Next]_vars
=============================================================================
