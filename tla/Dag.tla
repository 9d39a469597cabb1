-------------------------------- MODULE Dag --------------------------------
(***************************************************************************)
(* DAGs in the engine: the tracker's edge tokens, the edge transfers that  *)
(* satisfy them, and the interconnect those share with the transfers of    *)
(* other jobs.                                                             *)
(*                                                                         *)
(* Every node has a proxy task; with no other tasks registered before them *)
(* the proxies of all DAGs are the tasks 0 .. NumTasks - 1, and Edges lists*)
(* the edges of all DAGs (no edge joins two of them, so the tracker's maps *)
(* per instance are one map here).                                         *)
(*                                                                         *)
(* How a released job gets to run is the subject of Engine.  Here it may   *)
(* complete at any later instant on any device its node has affinity for,  *)
(* or be dropped; a proxy carries no data of its own (data_size is 0), so  *)
(* only edges move data, and its deadline check finds nothing late (see    *)
(* LateJobsAreCaught in EngineClaims).  Events of one instant are taken in *)
(* any order.  OtherJobs are jobs outside the DAGs: what they do to the    *)
(* interconnect is modelled, the rest of them is not.                      *)
(***************************************************************************)
EXTENDS Platform, FiniteSets

CONSTANTS
    Duration,   \* SimConfig.duration_ns
    Edges,      \* DagTask.edges, as listed
    Bytes,      \* SubTask.data_deps: <<predecessor, node>> -> bytes
    OtherJobs   \* jobs of other tasks that need a transfer

Pairs == TaskIds \X TaskIds

(* A job that is dispatched from one device to another with its data.       *)
OtherRecord == [from: DeviceIds, to: DeviceIds, size: Nat, priority: Nat]

ASSUME DagAssumption ==
    /\ Duration \in Nat
    /\ Edges \in Seq(Pairs)
    /\ DOMAIN Bytes \subseteq Pairs
    /\ \A e \in DOMAIN Bytes : Bytes[e] \in Nat
    /\ OtherJobs \in Seq(OtherRecord)

VARIABLES
    now,        \* simulation clock
    stage,      \* node -> where its job is
    remaining,  \* node -> unsatisfied_incoming
    satisfied,  \* the edges with edge_satisfied
    sending,    \* transfers the current completion has still to start
    active,     \* transfers in progress
    pending,    \* transfers waiting for their bus
    events,     \* pending completions of transfers
    stamp,      \* order of scheduling
    others,     \* other job -> where its transfer is
    ended       \* SimulationEnd has been popped

trackerVars == <<stage, remaining, satisfied>>
transferVars == <<active, pending, events, stamp>>
vars == <<now, trackerVars, sending, transferVars, others, ended>>

-----------------------------------------------------------------------------
(* The graph                                                                *)

EdgeSet == {Edges[i] : i \in DOMAIN Edges}
Incoming(n) == {e \in EdgeSet : e[2] = n}

(* The pairs data is sent for: every edge, of 0 bytes unless a data         *)
(* dependency says otherwise, and every data dependency.                    *)
EdgeBytes(e) == IF e \in DOMAIN Bytes THEN Bytes[e] ELSE 0
OutgoingEdges(n) == {e \in EdgeSet \cup DOMAIN Bytes : e[1] = n}

(* Faulty variant: the first edge of the list is not counted.               *)
TokensButFirst(n) == Cardinality({i \in DOMAIN Edges : i > 1 /\ Edges[i][2] = n})
(* The tokens a node waits for: one per listed edge.                        *)
InitialTokens(n) == Cardinality({i \in DOMAIN Edges : Edges[i][2] = n})

(* The data goes to the first device of the type the successor names first. *)
TargetDevices(n) ==
    IF Task[n].affinity = <<>> THEN {} ELSE DeviceForType(Task[n].affinity[1])

Stages == {"blocked", "released", "completed", "dropped"}

-----------------------------------------------------------------------------
(* Transfers                                                                *)

(* TransferId: an edge, or the job of OtherJobs with that index.            *)
EdgeId(e) == [kind |-> "Edge", from |-> e[1], to |-> e[2]]
JobId(k) == [kind |-> "Job", from |-> k, to |-> k]
TransferIds == {EdgeId(e) : e \in Pairs} \cup {JobId(k) : k \in DOMAIN OtherJobs}

Move(id, dev, size, priority, bus, s) ==
    [id |-> id, dev |-> dev, size |-> size, priority |-> priority, bus |-> bus,
     stamp |-> s]
MoveRecord == [id: TransferIds, dev: DeviceIds, size: Nat, priority: Nat,
               bus: BusIds, stamp: Nat]

Arrival(time, id) == [time |-> time, id |-> id]

BusBusy(bus) == \E a \in active : a.bus = bus

(* initiate_transfer and initiate_edge_transfer.                            *)
Initiate(id, from, to, size, priority) ==
    /\ IF FindInterconnect(from, to) = {}
       THEN events' = events \cup {Arrival(now, id)} /\ UNCHANGED <<active, pending>>
       ELSE \E link \in FindInterconnect(from, to) :
            \/ /\ link.bus # NoBus
               /\ BusBusy(link.bus)
               /\ pending' = pending \cup {Move(id, to, size, priority, link.bus, stamp)}
               /\ UNCHANGED <<active, events>>
            \/ /\ link.bus = NoBus \/ ~BusBusy(link.bus)
               /\ active' = active \cup {[id |-> id, bus |-> link.bus]}
               /\ events' = events \cup {Arrival(now + TransferTime(link, size), id)}
               /\ UNCHANGED pending
    /\ stamp' = stamp + 1

(* Lowest number first on a priority bus, first come first served on others.*)
Precedes(p, q) ==
    IF p.bus \in PriorityBuses /\ p.priority # q.priority
    THEN p.priority < q.priority
    ELSE p.stamp <= q.stamp

NextOnBus(bus, waiting) ==
    {p \in waiting : p.bus = bus /\ \A q \in waiting : q.bus = bus => Precedes(p, q)}

(* The transfers of `gone` leave the interconnect, those of `waiting` still *)
(* wait, `rest` are the other events: start_next_pending for their buses.   *)
Leave(gone, waiting, rest) ==
    LET next == UNION {NextOnBus(a.bus, waiting) : a \in gone}
        started == {p \in next : LinkOnBus(p.bus, p.dev) # {}}
    IN /\ pending' = waiting \ next
       /\ active' = (active \ gone) \cup {[id |-> p.id, bus |-> p.bus] : p \in started}
       /\ events' = rest \cup UNION {{Arrival(now + TransferTime(link, p.size), p.id) :
                                        link \in LinkOnBus(p.bus, p.dev)} : p \in next}
       /\ UNCHANGED stamp

(* on_transfer_complete, on_edge_transfer_complete.                         *)
Finish(ev) == Leave({a \in active : a.id = ev.id}, pending, events \ {ev})

(* Faulty variant: everything that waits is cancelled.                      *)
CancelAll(owned) ==
    IF \E a \in active : a.id \in owned
    THEN \E a \in active : a.id \in owned /\ Leave({a}, {}, events)
    ELSE pending' = {} /\ UNCHANGED <<active, events, stamp>>
(* cancel_job: the waiting transfers of a job go, and one of those in       *)
(* progress.                                                                *)
Cancel(owned) ==
    LET waiting == {p \in pending : p.id \notin owned}
    IN IF \E a \in active : a.id \in owned
       THEN \E a \in active : a.id \in owned /\ Leave({a}, waiting, events)
       ELSE pending' = waiting /\ UNCHANGED <<active, events, stamp>>

-----------------------------------------------------------------------------
(* register_dags: the nodes without incoming edges are released at 0.       *)

Init ==
    /\ now = 0
    /\ remaining = [n \in TaskIds |-> InitialTokens(n)]
    /\ stage = [n \in TaskIds |-> IF remaining[n] = 0 THEN "released" ELSE "blocked"]
    /\ satisfied = {}
    /\ sending = {}
    /\ active = {}
    /\ pending = {}
    /\ events = {}
    /\ stamp = 0
    /\ others = [k \in DOMAIN OtherJobs |-> "waiting"]
    /\ ended = FALSE

-----------------------------------------------------------------------------
(* Handlers                                                                 *)

(* The next event may be popped.                                            *)
Polling == sending = {} /\ ~ended

AffinityDevices(n) ==
    {d \in DeviceIds : \E i \in DOMAIN Task[n].affinity :
                           Task[n].affinity[i] = Device[d].type}

(* Faulty variant: a successor without data dependency is not sent to.      *)
SendsDataOnly(n) ==
    {e \in OutgoingEdges(n) : TargetDevices(e[2]) # {} /\ EdgeBytes(e) > 0}
(* The successors without a device are passed over.                         *)
Sends(n) == {e \in OutgoingEdges(n) : TargetDevices(e[2]) # {}}

(* handle_job_complete for the job of node n on device d, up to the loop    *)
(* over its outgoing edges ...                                              *)
CompleteNode(n, d) ==
    /\ Polling
    /\ stage[n] = "released"
    /\ stage' = [stage EXCEPT ![n] = "completed"]
    /\ sending' = {[edge |-> e, from |-> d] : e \in Sends(n)}
    /\ UNCHANGED <<now, remaining, satisfied, transferVars, others, ended>>

(* ... and one iteration of it.  The order is that of a HashMap.            *)
StartEdgeTransfer(s) ==
    /\ \E to \in TargetDevices(s.edge[2]) :
          Initiate(EdgeId(s.edge), s.from, to, EdgeBytes(s.edge),
                   Task[s.edge[1]].priority)
    /\ sending' = sending \ {s}
    /\ UNCHANGED <<now, trackerVars, others, ended>>

(* drop_job for the job of node n.  Nobody drops a job that has completed,  *)
(* whose edge transfers cancel_job would take (DropsSpareCompletedJobs of   *)
(* Engine).                                                                 *)
DropNode(n) ==
    /\ Polling
    /\ stage[n] = "released"
    /\ stage' = [stage EXCEPT ![n] = "dropped"]
    /\ Cancel({EdgeId(<<n, m>>) : m \in TaskIds})
    /\ UNCHANGED <<now, remaining, satisfied, sending, others, ended>>

(* Faulty variant: one token early.                                         *)
ReleasedOneEarly(before, after) == after <= 1 /\ before > 0
(* A node is released by the token that leaves none.                        *)
ReleasedBy(before, after) == after = 0

(* mark_edge_satisfied, and schedule_job_release for the node it releases.  *)
MarkEdgeSatisfied(e) ==
    IF e \in EdgeSet \ satisfied
    THEN LET n == e[2]
             left == IF remaining[n] > 0 THEN remaining[n] - 1 ELSE 0
             freed == ReleasedBy(remaining[n], left) /\ now <= Duration
         IN /\ satisfied' = satisfied \cup {e}
            /\ remaining' = [remaining EXCEPT ![n] = left]
            /\ stage' = IF freed THEN [stage EXCEPT ![n] = "released"] ELSE stage
    ELSE UNCHANGED trackerVars

HandleEdgeTransferComplete(ev) ==
    /\ Polling
    /\ ev.id.kind = "Edge"
    /\ ev.time = now
    /\ Finish(ev)
    /\ MarkEdgeSatisfied(<<ev.id.from, ev.id.to>>)
    /\ UNCHANGED <<now, sending, others, ended>>

-----------------------------------------------------------------------------
(* Other jobs on the interconnect                                           *)

DispatchOther(k) ==
    /\ Polling
    /\ others[k] = "waiting"
    /\ Initiate(JobId(k), OtherJobs[k].from, OtherJobs[k].to, OtherJobs[k].size,
                OtherJobs[k].priority)
    /\ others' = [others EXCEPT ![k] = "moving"]
    /\ UNCHANGED <<now, trackerVars, sending, ended>>

(* A completion whose job was dropped is stale and is discarded.            *)
HandleTransferComplete(ev) ==
    /\ Polling
    /\ ev.id.kind = "Job"
    /\ ev.time = now
    /\ IF others[ev.id.from] = "moving"
       THEN /\ Finish(ev)
            /\ others' = [others EXCEPT ![ev.id.from] = "arrived"]
       ELSE /\ events' = events \ {ev}
            /\ UNCHANGED <<active, pending, stamp, others>>
    /\ UNCHANGED <<now, trackerVars, sending, ended>>

DropOther(k) ==
    /\ Polling
    /\ others[k] = "moving"
    /\ Cancel({JobId(k)})
    /\ others' = [others EXCEPT ![k] = "dropped"]
    /\ UNCHANGED <<now, trackerVars, sending, ended>>

-----------------------------------------------------------------------------
(* The clock moves to the next event, or to the end of the simulation.      *)
Tick ==
    /\ Polling
    /\ now < Duration
    /\ \A ev \in events : ev.time > now
    /\ now' = now + 1
    /\ UNCHANGED <<trackerVars, sending, transferVars, others, ended>>

EndSimulation ==
    /\ Polling
    /\ now = Duration
    /\ ended' = TRUE
    /\ UNCHANGED <<now, trackerVars, sending, transferVars, others>>

Stopped ==
    /\ ended
    /\ UNCHANGED vars

Next ==
    \/ \E n \in TaskIds : \E d \in AffinityDevices(n) : CompleteNode(n, d)
    \/ \E s \in sending : StartEdgeTransfer(s)
    \/ \E n \in TaskIds : DropNode(n)
    \/ \E ev \in events : HandleEdgeTransferComplete(ev)
    \/ \E k \in DOMAIN OtherJobs : DispatchOther(k)
    \/ \E ev \in events : HandleTransferComplete(ev)
    \/ \E k \in DOMAIN OtherJobs : DropOther(k)
    \/ Tick
    \/ EndSimulation
    \/ Stopped

Spec == Init /\ [][Next]_vars
=============================================================================
