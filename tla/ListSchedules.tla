---------------------------- MODULE ListSchedules ----------------------------
(***************************************************************************)
(* The two list schedulers for a task graph: the HEFT planner of           *)
(* hprss-scheduler maps the nodes to devices in the order of their upward  *)
(* ranks; exact_tiny_dag_reference of hprss-validate places nodes that     *)
(* have their devices, the one that can start first before the others.  A  *)
(* behaviour plans a graph and then runs the reference on the plan.        *)
(*                                                                         *)
(* A graph is [affinity, exec, edges, bytes]: for each node its device     *)
(* types and its execution times, a sequence of [type, wcet]; a set of     *)
(* pairs of nodes; and the size of the data a node expects of another.     *)
(* Floating-point ranks are kept exact by a common denominator.            *)
(***************************************************************************)
EXTENDS Integers, Sequences, FiniteSets, FiniteSetsExt, SequencesExt

CONSTANTS
    TaskGraphs,     \* the graphs a behaviour may pick from
    ListDevice,     \* sequence of device types
    RankScale       \* a multiple of every number of candidates

(* candidate_devices for an affinity, in its order, then of the devices.    *)
DevicesOfTypes(types) ==
    LET ofType(type) == FlattenSeq([d \in DOMAIN ListDevice |->
                                       IF ListDevice[d] = type THEN <<d>> ELSE <<>>])
        matching == FlattenSeq([k \in DOMAIN types |-> ofType(types[k])])
    IN IF matching = <<>> THEN [d \in DOMAIN ListDevice |-> d] ELSE matching

(* A graph as both take it: without a cycle (the planner recurses along the *)
(* edges, the reference panics).                                            *)
IsTaskGraph(g) ==
    LET nodes == DOMAIN g.affinity
    IN /\ g.affinity \in Seq(Seq(STRING))
       /\ g.exec \in [nodes -> Seq([type : STRING, wcet : Nat])]
       /\ \A S \in SUBSET nodes : S # {} => \E n \in S : \A s \in S : <<n, s>> \notin g.edges
       /\ \A e \in DOMAIN g.bytes : g.bytes[e] \in Nat

ASSUME ListAssumption ==
    /\ ListDevice \in Seq(STRING) /\ ListDevice # <<>> /\ RankScale \in Nat
    /\ \A g \in TaskGraphs :
          /\ IsTaskGraph(g)
          /\ \A types \in {g.affinity[n] : n \in DOMAIN g.affinity} :
                \E k \in 1 .. RankScale : RankScale = k * Len(DevicesOfTypes(types))

VARIABLES
    graph,
    listStage,      \* "plan", "reference" or "done"
    planned,        \* mapping, start and finish of the nodes planned so far
    placed          \* the same for the reference

listVars == <<graph, listStage, planned, placed>>

GraphNodes == DOMAIN graph.affinity
ListDevices == DOMAIN ListDevice
Unplaced(s) == GraphNodes \ DOMAIN s
Predecessors(n) == {p \in GraphNodes : <<p, n>> \in graph.edges}
Successors(n) == {s \in GraphNodes : <<n, s>> \in graph.edges}
EdgeBytes(p, n) == IF <<p, n>> \in DOMAIN graph.bytes THEN graph.bytes[<<p, n>>] ELSE 0

NothingPlaced == [n \in {} |-> 0]
PlaceNode(s, n, at) == [m \in DOMAIN s \cup {n} |-> IF m = n THEN at ELSE s[m]]

(* device_available: when the last node placed on a device finishes.        *)
Available(s, d) == Max({0} \cup {s[n].finish : n \in {m \in DOMAIN s : s[m].dev = d}})

-----------------------------------------------------------------------------
(* HEFT                                                                     *)

CandidateDevices(n) == DevicesOfTypes(graph.affinity[n])

(* exec_cost_on: the entry of the type, or the first entry, or 1.           *)
ExecCostOn(n, d) ==
    LET times == graph.exec[n]
        ofType == {k \in DOMAIN times : times[k].type = ListDevice[d]}
    IN IF times = <<>> THEN 1
       ELSE times[IF ofType = {} THEN 1 ELSE Min(ofType)].wcet

(* avg_compute_cost, times RankScale.                                       *)
AverageCost(n) ==
    LET c == CandidateDevices(n)
    IN FoldLeft(LAMBDA sum, d : sum + ExecCostOn(n, d), 0, c) * (RankScale \div Len(c))

(* Faulty variant: ranks of the nodes alone, which say nothing of those     *)
(* that follow.                                                             *)
CostAsRank == [n \in GraphNodes |-> AverageCost(n)]

(* compute_rank_u: the longest way to the end of the graph.                 *)
RankU ==
    LET rank[n \in GraphNodes] ==
            AverageCost(n)
            + Max({0} \cup {RankScale * EdgeBytes(n, s) + rank[s] : s \in Successors(n)})
    IN rank

(* The next node of `order`, a stable sort by descending rank.              *)
NextByRank ==
    {n \in Unplaced(planned) : \A m \in Unplaced(planned) \ {n} :
        RankU[n] > RankU[m] \/ (RankU[n] = RankU[m] /\ n < m)}

(* The data of a predecessor on another device takes time (its bytes are    *)
(* counted as time); a predecessor not yet planned counts as finished at 0. *)
ReadyOn(n, d) ==
    Max({0} \cup {planned[p].finish + (IF planned[p].dev = d THEN 0 ELSE EdgeBytes(p, n)) :
                    p \in Predecessors(n) \cap DOMAIN planned})
EarliestStart(n, d) == Max({ReadyOn(n, d), Available(planned, d)})
EarliestFinish(n, d) == EarliestStart(n, d) + ExecCostOn(n, d)

(* The first of the candidates with the least finish time.                  *)
BestDevice(n) ==
    LET c == CandidateDevices(n)
        best == {k \in DOMAIN c :
                    \A m \in DOMAIN c : EarliestFinish(n, c[k]) <= EarliestFinish(n, c[m])}
    IN c[Min(best)]

MapNode ==
    /\ listStage = "plan"
    /\ \E n \in NextByRank :
          LET d == BestDevice(n)
          IN planned' = PlaceNode(planned, n, [dev |-> d, start |-> EarliestStart(n, d),
                                               finish |-> EarliestFinish(n, d)])
    /\ UNCHANGED <<graph, listStage, placed>>

StartReference ==
    /\ listStage = "plan" /\ Unplaced(planned) = {}
    /\ listStage' = "reference"
    /\ UNCHANGED <<graph, planned, placed>>

-----------------------------------------------------------------------------
(* exact_tiny_dag_reference: an edge delays its successor by its transfer   *)
(* time on whatever devices the two are.                                    *)
PlaceableNodes == {n \in Unplaced(placed) : Predecessors(n) \subseteq DOMAIN placed}
StartAt(n) ==
    Max({Available(placed, planned[n].dev)}
        \cup {placed[p].finish + EdgeBytes(p, n) : p \in Predecessors(n)})

(* Faulty variant: the first node whose predecessors are placed.            *)
FirstPlaceable == {n \in PlaceableNodes : \A m \in PlaceableNodes : n <= m}
FirstToStart ==
    {n \in PlaceableNodes : \A m \in PlaceableNodes \ {n} :
        StartAt(n) < StartAt(m) \/ (StartAt(n) = StartAt(m) /\ n < m)}

PlaceReference ==
    /\ listStage = "reference"
    /\ \E n \in FirstToStart :
          LET d == planned[n].dev
          IN placed' = PlaceNode(placed, n, [dev |-> d, start |-> StartAt(n),
                                             finish |-> StartAt(n) + ExecCostOn(n, d)])
    /\ UNCHANGED <<graph, listStage, planned>>

FinishReference ==
    /\ listStage = "reference" /\ Unplaced(placed) = {}
    /\ listStage' = "done"
    /\ UNCHANGED <<graph, planned, placed>>

-----------------------------------------------------------------------------
ListInit ==
    /\ graph \in TaskGraphs
    /\ listStage = "plan" /\ planned = NothingPlaced /\ placed = NothingPlaced

ListNext == MapNode \/ StartReference \/ PlaceReference \/ FinishReference
ListSpec == ListInit /\ [][ListNext]_listVars

-----------------------------------------------------------------------------
(* No node starts before its predecessors have finished and their data has  *)
(* come, and no two nodes overlap on a device.                              *)
Feasible(s, Delay(_, _)) ==
    \A n \in DOMAIN s :
        /\ \A p \in Predecessors(n) :
              p \in DOMAIN s /\ s[p].finish + Delay(p, n) <= s[n].start
        /\ \A m \in DOMAIN s \ {n} :
              s[m].dev = s[n].dev => s[m].finish <= s[n].start \/ s[n].finish <= s[m].start

(* Data moves between devices only.                                         *)
PlannedDelay(p, n) == IF planned[p].dev = planned[n].dev THEN 0 ELSE EdgeBytes(p, n)

(* Every plan is feasible as far as it goes: although the planner never     *)
(* looks whether a predecessor is planned, and counts it as finished at 0   *)
(* if it is not, the order of the ranks plans it first whenever the nodes   *)
(* have positive execution times.                                           *)
PlansAreFeasible == Feasible(planned, PlannedDelay)

(* The reference is feasible and delays no node for nothing: from the       *)
(* moment its data is there until it starts, its device is busy, though     *)
(* nodes are chosen one at a time and never moved into an earlier gap.      *)
ReferenceIsEager ==
    /\ Feasible(placed, EdgeBytes)
    /\ \A n \in DOMAIN placed :
          LET dataReady == Max({0} \cup {placed[p].finish + EdgeBytes(p, n) :
                                            p \in Predecessors(n)})
          IN \A t \in dataReady .. placed[n].start - 1 :
                \E m \in DOMAIN placed : /\ placed[m].dev = placed[n].dev
                                         /\ placed[m].start <= t /\ t < placed[m].finish
=============================================================================
