----------------------------- MODULE Precedence -----------------------------
(***************************************************************************)
(* What the DAG tracker promises to everything around it, without tokens,  *)
(* counters, buses or time: a node of a DAG is released exactly once, at   *)
(* the moment the data of the last of its predecessors arrives, and data   *)
(* only ever comes from a node that has completed.                         *)
(***************************************************************************)
CONSTANTS
    Node,       \* the nodes of all DAGs
    Edge        \* the pairs <<predecessor, successor>>

VARIABLES
    stage,      \* node -> where its job is
    arrived     \* the edges whose data is at the successor

Incoming(n) == {e \in Edge : e[2] = n}

Init ==
    /\ stage = [n \in Node |-> IF Incoming(n) = {} THEN "released" ELSE "blocked"]
    /\ arrived = {}

Complete(n) ==
    /\ stage[n] = "released"
    /\ stage' = [stage EXCEPT ![n] = "completed"]
    /\ UNCHANGED arrived

Drop(n) ==
    /\ stage[n] = "released"
    /\ stage' = [stage EXCEPT ![n] = "dropped"]
    /\ UNCHANGED arrived

Deliver(e) ==
    /\ e \notin arrived
    /\ stage[e[1]] = "completed"
    /\ stage[e[2]] = "blocked"
    /\ arrived' = arrived \cup {e}
    /\ stage' = IF Incoming(e[2]) \subseteq arrived'
                THEN [stage EXCEPT ![e[2]] = "released"]
                ELSE stage

Next ==
    \/ \E n \in Node : Complete(n) \/ Drop(n)
    \/ \E e \in Edge : Deliver(e)

Spec == Init /\ [][Next]_<<stage, arrived>>
=============================================================================
