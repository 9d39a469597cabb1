----------------------------- MODULE MCAnalysis -----------------------------
(* Small task sets, conditional DAGs and task graphs for the analyses.       *)
EXTENDS Analyses

(* A task of period p and deadline d that needs `serial` plus `parallel` on  *)
(* one thread.                                                               *)
Timed(p, d, serial, parallel) ==
    [period |-> p, deadline |-> d, wcet |-> serial + parallel, priority |-> 0,
     device |-> 1, threads |-> 2, serial |-> serial, parallel |-> parallel,
     overhead |-> 0, critical |-> 0]

Shapes == {Timed(3, 3, 1, 0), Timed(3, 2, 1, 0), Timed(4, 4, 0, 2),
           Timed(4, 3, 1, 0), Timed(6, 6, 0, 2), Timed(6, 5, 1, 2), Timed(4, 7, 1, 1)}
Placed(t, prio, dev) == [t EXCEPT !.priority = prio, !.device = dev]

SmallSets ==
    {<<Placed(a, 1, 1), Placed(b, prio, dev), Placed(c, 2, 1)>> :
        a \in Shapes, b \in Shapes, c \in Shapes, prio \in {1, 2, 3}, dev \in {1, 2}}

(* Every graph of five nodes over at most six of these edges: with cycles,   *)
(* dangling and parallel edges, several sinks, branches that lack an outcome *)
(* and nested branches on one condition or on two; a graph with more         *)
(* conditions than there may be; and graphs without nodes.                   *)
CondEdge(from, to, transfer, cond) ==
    [from |-> from, to |-> to, transfer |-> transfer, cond |-> cond]
Lit(id, expected) == {[id |-> id, expected |-> expected]}
EdgePool ==
    <<CondEdge(1, 2, 0, Lit(7, TRUE)), CondEdge(1, 3, 1, Lit(7, FALSE)),
      CondEdge(2, 4, 3, Lit(9, TRUE)), CondEdge(2, 5, 0, Lit(9, FALSE)),
      CondEdge(3, 4, 0, Lit(7, FALSE)), CondEdge(3, 5, 0, Lit(7, TRUE)),
      CondEdge(1, 2, 1, {}), CondEdge(1, 3, 2, {}), CondEdge(3, 4, 1, {}), CondEdge(3, 5, 0, {}),
      CondEdge(2, 3, 0, {}), CondEdge(4, 2, 0, {}), CondEdge(1, 4, 4, {}), CondEdge(2, 6, 0, {})>>
ThreeConditions ==
    <<CondEdge(1, 2, 0, Lit(7, TRUE)), CondEdge(1, 3, 0, Lit(7, FALSE)),
      CondEdge(2, 4, 0, Lit(8, TRUE)), CondEdge(2, 5, 0, Lit(8, FALSE)),
      CondEdge(3, 6, 0, Lit(9, TRUE)), CondEdge(3, 7, 0, Lit(9, FALSE))>>
SmallConditionalGraphs ==
    LET pool(S) == LET sorted == SetToSortSeq(S, <)
                   IN [k \in DOMAIN sorted |-> EdgePool[sorted[k]]]
    IN {[wcet |-> <<1, 3, 2, 0, 1>>, edges |-> pool(S)] :
            S \in UNION {kSubset(k, DOMAIN EdgePool) : k \in 0 .. 6}}
       \cup {[wcet |-> <<1, 1, 1, 1, 1, 1, 1>>, edges |-> ThreeConditions]}
       \cup {[wcet |-> <<>>, edges |-> pool(S)] : S \in {{}, {13}}}

-----------------------------------------------------------------------------
(* Task graphs of four nodes on two CPUs and a GPU, whose nodes are numbered *)
(* against the order of the edges.                                           *)
ListTypes == <<"Cpu", "Gpu", "Cpu">>
Exec(cpu, gpu) == <<[type |-> "Cpu", wcet |-> cpu], [type |-> "Gpu", wcet |-> gpu]>>
GraphEdges == {<<4, 2>>, <<4, 3>>, <<2, 1>>, <<3, 1>>, <<4, 1>>}
SmallTaskGraphs ==
    {[affinity |-> <<<<"Cpu">>, a, <<"Gpu", "Cpu">>, <<"Fpga">>>>,
      exec |-> <<Exec(1, 1), x, y, <<>>>>,
      edges |-> edges, bytes |-> [e \in {<<4, 2>>, <<3, 1>>} |-> size]] :
        a \in {<<"Cpu">>, <<"Gpu">>}, x \in {Exec(1, 3), Exec(3, 1)},
        y \in {Exec(2, 1), Exec(4, 2)}, size \in {0, 1, 3},
        edges \in SUBSET GraphEdges}
=============================================================================
