------------------------------- MODULE DagInv -------------------------------
(***************************************************************************)
(* Properties of Dag, and the inductive invariant its refinement of        *)
(* Precedence rests on.                                                    *)
(***************************************************************************)
EXTENDS Dag

(* Types.  remaining is a usize, so a count below zero would be a panic.    *)
DagTypeOK ==
    /\ now \in Nat
    /\ stage \in [TaskIds -> Stages]
    /\ remaining \in [TaskIds -> Nat]
    /\ satisfied \subseteq EdgeSet
    /\ sending \subseteq [edge: Pairs, from: DeviceIds]
    /\ active \subseteq [id: TransferIds, bus: BusIds \cup {NoBus}]
    /\ pending \subseteq MoveRecord
    /\ events \subseteq [time: Nat, id: TransferIds]
    /\ stamp \in Nat
    /\ others \in [DOMAIN OtherJobs -> {"waiting", "moving", "arrived", "dropped"}]
    /\ ended \in BOOLEAN

-----------------------------------------------------------------------------
(* The inductive invariant                                                  *)

Unsatisfied(n) == Incoming(n) \ satisfied

(* How often the edges into n are listed more than once.                    *)
Surplus(n) == InitialTokens(n) - Cardinality(Incoming(n))

(* The counter of a node is the number of its unsatisfied edges, plus the   *)
(* repetitions in the list, which are counted and never satisfied.          *)
TokensMatch ==
    \A n \in TaskIds : remaining[n] = Cardinality(Unsatisfied(n)) + Surplus(n)

(* A node is blocked exactly while tokens are missing.                      *)
BlockedByTokens ==
    \A n \in TaskIds : stage[n] = "blocked" <=> remaining[n] > 0

(* Data is satisfied, on its way, waiting or about to be sent only when its *)
(* node has completed.                                                      *)
Sent(n) == stage[n] = "completed"
OnlySentByCompleted ==
    /\ \A e \in satisfied : Sent(e[1])
    /\ \A s \in sending : Sent(s.edge[1])
    /\ \A p \in pending : p.id.kind = "Edge" => Sent(p.id.from)
    /\ \A ev \in events : ev.id.kind = "Edge" => Sent(ev.id.from)

InTime == now <= Duration

DagIInv == DagTypeOK /\ TokensMatch /\ BlockedByTokens /\ OnlySentByCompleted /\ InTime

-----------------------------------------------------------------------------
(* Where the data of an edge is                                             *)

Queued(id) == \E p \in pending : p.id = id
Moving(id) == \E ev \in events : ev.id = id
ToBeSent(e) == \E s \in sending : s.edge = e
InFlight(e) == ToBeSent(e) \/ Queued(EdgeId(e)) \/ Moving(EdgeId(e))

(* No edge transfer is lost, duplicated or cancelled with somebody else's:  *)
(* once its node has completed, the data of an edge whose successor has a   *)
(* device is to be sent, queued, moving or delivered, and only one of them. *)
EdgesAccounted ==
    \A e \in EdgeSet :
        stage[e[1]] = "completed" /\ TargetDevices(e[2]) # {} =>
            /\ InFlight(e) \/ e \in satisfied
            /\ e \in satisfied => ~InFlight(e)
            /\ Queued(EdgeId(e)) => ~Moving(EdgeId(e))
            /\ ToBeSent(e) => ~Queued(EdgeId(e)) /\ ~Moving(EdgeId(e))
            /\ \A v, w \in events : v.id = EdgeId(e) /\ w.id = EdgeId(e) => v = w
            /\ \A p, q \in pending : p.id = EdgeId(e) /\ q.id = EdgeId(e) => p = q

(* The same for every transfer, whichever job it belongs to: it waits or    *)
(* moves, once.                                                             *)
AtMostOnce(id) ==
    /\ Queued(id) => ~Moving(id)
    /\ \A v, w \in events : v.id = id /\ w.id = id => v = w
    /\ \A p, q \in pending : p.id = id /\ q.id = id => p = q

(* The data of any pair is in one place, and is delivered once.             *)
EdgesAreOnce ==
    \A e \in Pairs :
        /\ AtMostOnce(EdgeId(e))
        /\ ToBeSent(e) => ~Queued(EdgeId(e)) /\ ~Moving(EdgeId(e))
        /\ \A s, t \in sending : s.edge = e /\ t.edge = e => s = t
        /\ e \in satisfied => ~InFlight(e)

(* The bus a transfer waits for has a link to its target.                   *)
WaitingCanStart == \A p \in pending : LinkOnBus(p.bus, p.dev) # {}

(* What makes EdgesAccounted inductive, relative to DagIInv.                *)
EdgesIInv == WaitingCanStart /\ EdgesAreOnce /\ EdgesAccounted

(* Repetitions in DagTask.edges are counted twice and satisfied once.       *)
DistinctEdges ==
    \A i, k \in DOMAIN Edges : Edges[i] = Edges[k] => i = k

(* The tracker forgets nobody: a node is blocked only because of an edge    *)
(* whose node has not completed or whose data is still on its way (or has   *)
(* nowhere to go).  Nothing else ever calls the tracker about the node, so  *)
(* otherwise it would wait for ever.                                        *)
NobodyForgotten ==
    DistinctEdges =>
        \A n \in TaskIds : stage[n] = "blocked" =>
            \E e \in Incoming(n) :
                stage[e[1]] # "completed" \/ InFlight(e) \/ TargetDevices(n) = {}

-----------------------------------------------------------------------------
(* The tracker with its transfers does what Precedence says: every release  *)
(* follows the arrival of the last input, and happens once.                 *)
Promise == INSTANCE Precedence WITH Node <- TaskIds, Edge <- EdgeSet,
                                    stage <- stage, arrived <- satisfied
ImplementsPrecedence == Promise!Spec

=============================================================================
