--------------------------- MODULE ConditionalDag ---------------------------
(***************************************************************************)
(* analyze_conditional_dag of hprss-validate: a topological sort, a check  *)
(* of the branches, and for every assignment of truth values to the        *)
(* conditions a relaxation in topological order that gives the response    *)
(* time of that scenario and a critical path.                              *)
(*                                                                         *)
(* A graph is [wcet, edges]: wcet a sequence, one entry per node (numbered *)
(* from 1), edges a sequence of [from, to, transfer, cond], where cond is  *)
(* a set of at most one literal [id, expected].                            *)
(***************************************************************************)
EXTENDS Integers, Sequences, FiniteSets, FiniteSetsExt

CONSTANTS
    ConditionalGraphs,
    MaxConditions   \* MAX_CONDITIONS_SUPPORTED, 63 on a 64-bit machine

(* Times are naturals; an edge may name a node the graph does not have.     *)
IsConditionalGraph(g) ==
    /\ g.wcet \in Seq(Nat)
    /\ g.edges \in Seq([from : Nat, to : Nat, transfer : Nat,
                        cond : SUBSET [id : Nat, expected : BOOLEAN]])

ASSUME CdagAssumption ==
    /\ \A g \in ConditionalGraphs : IsConditionalGraph(g)
    /\ MaxConditions \in Nat

VARIABLES
    cdag,           \* the graph
    cstage,         \* "sort", "branches", "relax", "done"
    outcome,        \* the error returned, "" for none yet, or "Ok"
    indegree, queued, order,        \* the topological sort
    mask, at, distance, predecessor,\* the scenario and the node being relaxed
    scenarios       \* scenario_reports: [response, path] by mask

cdagVars == <<cdag, cstage, outcome, indegree, queued, order, mask, at, distance,
              predecessor, scenarios>>
sortVars == <<indegree, queued, order>>
relaxVars == <<mask, at, distance, predecessor, scenarios>>

Nodes == DOMAIN cdag.wcet
Edges == DOMAIN cdag.edges
From(n) == {e \in Edges : cdag.edges[e].from = n}
Into(n) == {e \in Edges : cdag.edges[e].to = n}

-----------------------------------------------------------------------------
(* topological_sort: nodes are queued when their last predecessor is done.  *)
InvalidEndpoints == \E e \in Edges : {cdag.edges[e].from, cdag.edges[e].to} \ Nodes # {}

Fail(error) == outcome' = error /\ cstage' = "done" /\ UNCHANGED <<cdag, relaxVars>>

(* The arguments of a function in the order of its values, which differ.    *)
InOrderOf(key) == {s \in [1 .. Cardinality(DOMAIN key) -> DOMAIN key] :
                      \A i, k \in DOMAIN s : i < k => key[s[i]] < key[s[k]]}

PopNode ==
    /\ cstage = "sort" /\ queued # <<>>
    /\ LET node == Head(queued)
           left == [n \in Nodes |-> indegree[n] - Cardinality(From(node) \cap Into(n))]
           freed == {n \in Nodes : indegree[n] > 0 /\ left[n] = 0}
           lastEdge == [n \in freed |-> Max(From(node) \cap Into(n))]
       IN /\ indegree' = left
          /\ order' = Append(order, node)
          /\ \E next \in InOrderOf(lastEdge) : queued' = Tail(queued) \o next
    /\ UNCHANGED <<cdag, cstage, outcome, relaxVars>>

Sorted ==
    /\ cstage = "sort" /\ queued = <<>>
    /\ IF Len(order) # Len(cdag.wcet) THEN Fail("CyclicGraph")
       ELSE cstage' = "branches" /\ UNCHANGED <<cdag, outcome, relaxVars>>
    /\ UNCHANGED sortVars

-----------------------------------------------------------------------------
(* validate_branch_model: a node with conditional outgoing edges has two,   *)
(* one for either value of one condition.                                   *)
Conditional(n) == {e \in From(n) : cdag.edges[e].cond # {}}
Literals(S) == UNION {cdag.edges[e].cond : e \in S}
ConditionIds == {l.id : l \in Literals(Edges)}

CompleteSplit(n) ==
    Conditional(n) # {} =>
        /\ Conditional(n) = From(n)
        /\ Cardinality({l.id : l \in Literals(From(n))}) = 1
        /\ {l.expected : l \in Literals(From(n))} = BOOLEAN
        /\ Cardinality(From(n)) = 2

Roots == {n \in Nodes : Into(n) = {}}
FromRoots == [n \in Nodes |-> IF n \in Roots THEN {cdag.wcet[n]} ELSE {}]

CheckBranches ==
    /\ cstage = "branches"
    /\ IF \E n \in Nodes : ~CompleteSplit(n) THEN Fail("InvalidBranches")
       ELSE IF Cardinality(ConditionIds) > MaxConditions THEN Fail("ScenarioSpaceTooLarge")
       ELSE /\ cstage' = "relax"
            /\ distance' = FromRoots
            /\ UNCHANGED <<cdag, outcome, mask, at, predecessor, scenarios>>
    /\ UNCHANGED sortVars

-----------------------------------------------------------------------------
(* evaluate_scenario, for the assignment whose bits are those of `mask`.    *)
Value(m, id) == (m \div 2^Cardinality({c \in ConditionIds : c < id})) % 2 = 1
Takes(m, e) == \A l \in cdag.edges[e].cond : Value(m, l.id) = l.expected
Active(e) == Takes(mask, e)
ActiveFrom(n) == {e \in From(n) : Active(e)}

(* A distance is a set: empty for a node not reached.  Only a greater       *)
(* distance replaces one.                                                   *)
RelaxNode ==
    /\ cstage = "relax" /\ at \in DOMAIN order
    /\ LET node == order[at]
           via(n) == {d + cdag.edges[e].transfer + cdag.wcet[n] :
                         d \in distance[node], e \in ActiveFrom(node) \cap Into(n)}
           improves(n) == \E c \in via(n) : \A d \in distance[n] : c > d
       IN /\ distance' = [n \in Nodes |-> IF improves(n) THEN {Max(via(n))} ELSE distance[n]]
          /\ predecessor' = [n \in Nodes |-> IF improves(n) THEN {node} ELSE predecessor[n]]
    /\ at' = at + 1
    /\ UNCHANGED <<cdag, cstage, outcome, sortVars, mask, scenarios>>

Sinks == {n \in Nodes : distance[n] # {} /\ ActiveFrom(n) = {}}

(* Faulty variant: the last of the sinks, whatever its distance.            *)
LastSink == {n \in Sinks : \A m \in Sinks : m <= n}

(* The last of the sinks with the greatest distance.                        *)
ChosenSink ==
    LET finish(n) == CHOOSE d \in distance[n] : TRUE
    IN {n \in Sinks : \A m \in Sinks \ {n} :
            finish(m) < finish(n) \/ (finish(m) = finish(n) /\ m < n)}

CriticalPath(sink) ==
    LET to[n \in Nodes] ==
            IF predecessor[n] = {} THEN <<n>>
            ELSE Append(to[CHOOSE p \in predecessor[n] : TRUE], n)
    IN to[sink]

Conclude ==
    /\ cstage = "relax" /\ at \notin DOMAIN order
    /\ IF ChosenSink = {} THEN Fail("NoReachableSink")
       ELSE \E sink \in ChosenSink : \E response \in distance[sink] :
               /\ scenarios' = Append(scenarios, [response |-> response,
                                                  path |-> CriticalPath(sink)])
               /\ mask' = mask + 1 /\ at' = 1
               /\ distance' = FromRoots
               /\ predecessor' = [n \in Nodes |-> {}]
               /\ IF mask + 1 = 2^Cardinality(ConditionIds)
                  THEN cstage' = "done" /\ outcome' = "Ok"
                  ELSE UNCHANGED <<cstage, outcome>>
               /\ UNCHANGED cdag
    /\ UNCHANGED sortVars

-----------------------------------------------------------------------------
CdagStart(graph) ==
    /\ cdag = graph
    /\ indegree = [n \in Nodes |-> Cardinality(Into(n))]
    /\ queued \in InOrderOf([n \in Roots |-> n]) /\ order = <<>>
    /\ mask = 0 /\ at = 1
    /\ distance = [n \in Nodes |-> {}] /\ predecessor = [n \in Nodes |-> {}]
    /\ scenarios = IF graph.wcet = <<>> THEN <<[response |-> 0, path |-> <<>>]>> ELSE <<>>

(* A graph without nodes has one scenario whatever its edges say; invalid   *)
(* endpoints are an error.                                                  *)
CdagInit ==
    \E graph \in ConditionalGraphs :
        /\ CdagStart(graph)
        /\ CASE graph.wcet = <<>> -> cstage = "done" /\ outcome = "Ok"
             [] graph.wcet # <<>> /\ InvalidEndpoints ->
                  cstage = "done" /\ outcome = "InvalidEdgeEndpoint"
             [] OTHER -> cstage = "sort" /\ outcome = ""

CdagNext == PopNode \/ Sorted \/ CheckBranches \/ RelaxNode \/ Conclude
CdagSpec == CdagInit /\ [][CdagNext]_cdagVars

-----------------------------------------------------------------------------
(* Reference: the paths from a root under the assignment of a mask.         *)
Links(m, a, b) == {e \in From(a) \cap Into(b) : Takes(m, e)}
IsPath(m, p) == /\ p[1] \in Roots
                /\ \A k \in 1 .. Len(p) - 1 : Links(m, p[k], p[k + 1]) # {}
Hop(m, a, b) == Max({cdag.edges[e].transfer : e \in Links(m, a, b)})
PathLength(m, p) ==
    LET upTo[k \in DOMAIN p] ==
            IF k = 1 THEN cdag.wcet[p[1]]
            ELSE upTo[k - 1] + Hop(m, p[k - 1], p[k]) + cdag.wcet[p[k]]
    IN upTo[Len(p)]
AllPaths(m) ==
    LET to[n \in Nodes] ==
            {<<n>> : r \in {n} \cap Roots}
            \cup {Append(p, n) : p \in UNION {to[a] : a \in {b \in Nodes : Links(m, b, n) # {}}}}
    IN UNION {to[n] : n \in Nodes}

(* Every scenario of an accepted graph has a response, which is the length  *)
(* of the longest active path and of the critical path reported with it; no *)
(* accepted graph has a scenario without a sink, although nodes become      *)
(* unreachable when a branch is not taken.                                  *)
ScenariosAreLongestPaths ==
    /\ outcome # "NoReachableSink"
    /\ cdag.wcet # <<>> => \A k \in DOMAIN scenarios :
          LET m == k - 1
              s == scenarios[k]
          IN /\ IsPath(m, s.path) /\ PathLength(m, s.path) = s.response
             /\ \A p \in AllPaths(m) : PathLength(m, p) <= s.response
    /\ outcome = "Ok" /\ cdag.wcet # <<>> => Len(scenarios) = 2^Cardinality(ConditionIds)
=============================================================================
