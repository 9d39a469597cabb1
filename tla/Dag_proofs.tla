----------------------------- MODULE Dag_proofs -----------------------------
(***************************************************************************)
(* The inductive invariant of Dag, for every DAG, platform and mix of      *)
(* other jobs, and the refinement of Precedence for every DAG that lists   *)
(* each of its edges once; and that every edge of a completed node is      *)
(* under way or has arrived, and no node waits for nothing.                *)
(***************************************************************************)
EXTENDS DagInv, Platform_proofs, FiniteSetTheorems

-----------------------------------------------------------------------------
(* Counting tokens                                                          *)

Listings(n) == {i \in DOMAIN Edges : Edges[i][2] = n}

(* Listing the edges into n maps their positions onto them.                 *)
LEMMA ListingIsOnto ==
    ASSUME NEW n
    PROVE  [i \in Listings(n) |-> Edges[i]] \in Surjection(Listings(n), Incoming(n))
  <1> DEFINE f == [i \in Listings(n) |-> Edges[i]]
  <1>1. \A i \in Listings(n) : Edges[i] \in Incoming(n)
    BY DEF Listings, Incoming, EdgeSet
  <1>2. f \in [Listings(n) -> Incoming(n)]
    BY <1>1
  <1>3. \A e \in Incoming(n) : \E i \in Listings(n) : f[i] = e
    BY DEF Listings, Incoming, EdgeSet
  <1> QED BY <1>2, <1>3 DEF Surjection

(* A node waits for finitely many edges, at least as many tokens as edges.  *)
LEMMA TokensOfNode ==
    ASSUME NEW n
    PROVE  /\ IsFiniteSet(Listings(n))
           /\ IsFiniteSet(Incoming(n))
           /\ InitialTokens(n) \in Nat
           /\ Cardinality(Incoming(n)) \in Nat
           /\ Surplus(n) \in Nat
           /\ InitialTokens(n) = 0 <=> Incoming(n) = {}
  <1>1. Listings(n) \in SUBSET (1 .. Len(Edges)) /\ Len(Edges) \in Nat
    BY DagAssumption DEF Listings
  <1>2. IsFiniteSet(1 .. Len(Edges))
    BY <1>1, FS_Interval
  <1>3. IsFiniteSet(Listings(n))
    BY <1>1, <1>2, FS_Subset
  <1>4. InitialTokens(n) = Cardinality(Listings(n)) /\ InitialTokens(n) \in Nat
    BY <1>3, FS_CardinalityType DEF InitialTokens, Listings
  <1>5. IsFiniteSet(Incoming(n)) /\ Cardinality(Incoming(n)) <= Cardinality(Listings(n))
    BY <1>3, ListingIsOnto, FS_Surjection
  <1>6. Cardinality(Incoming(n)) \in Nat
    BY <1>5, FS_CardinalityType
  <1>7. Listings(n) = {} <=> Incoming(n) = {}
    BY DEF Listings, Incoming, EdgeSet
  <1>8. InitialTokens(n) = 0 <=> Incoming(n) = {}
    BY <1>3, <1>4, <1>7, FS_EmptySet
  <1>9. Surplus(n) \in Nat
    BY <1>4, <1>5, <1>6 DEF Surplus
  <1> QED BY <1>3, <1>4, <1>5, <1>6, <1>8, <1>9

(* Without repetitions, a node waits for exactly as many tokens as edges.   *)
LEMMA NoSurplus ==
    ASSUME DistinctEdges, NEW n
    PROVE  Surplus(n) = 0
  <1> DEFINE f == [i \in Listings(n) |-> Edges[i]]
  <1>1. f \in Injection(Listings(n), Incoming(n))
    <2>1. f \in [Listings(n) -> Incoming(n)]
      BY ListingIsOnto DEF Surjection
    <2>2. IsInjective(f)
      BY DEF DistinctEdges, Listings, IsInjective
    <2> QED BY <2>1, <2>2 DEF Injection
  <1>2. Cardinality(Incoming(n)) = Cardinality(Listings(n))
    BY <1>1, ListingIsOnto, TokensOfNode, FS_Surjection
  <1> QED BY <1>2, TokensOfNode DEF Surplus, InitialTokens, Listings

-----------------------------------------------------------------------------
(* What the operations on the interconnect preserve                         *)

TransfersTyped ==
    /\ now \in Nat
    /\ active \subseteq [id: TransferIds, bus: BusIds \cup {NoBus}]
    /\ pending \subseteq MoveRecord
    /\ events \subseteq [time: Nat, id: TransferIds]
    /\ stamp \in Nat

TransfersTypedAfter ==
    /\ active' \subseteq [id: TransferIds, bus: BusIds \cup {NoBus}]
    /\ pending' \subseteq MoveRecord
    /\ events' \subseteq [time: Nat, id: TransferIds]
    /\ stamp' \in Nat

(* Every transfer that waits or moves did so before.                        *)
NoNewTransfer ==
    /\ \A p \in pending' : p \in pending
    /\ \A ev \in events' : ev \in events \/ \E p \in pending : p.id = ev.id

(* Starting the transfers that can start invents none.                      *)
LEMMA LeaveEffect ==
    ASSUME TransfersTyped, NEW gone, NEW waiting \in SUBSET pending,
           NEW rest \in SUBSET events, Leave(gone, waiting, rest)
    PROVE  TransfersTypedAfter /\ NoNewTransfer
  <1> DEFINE next == UNION {NextOnBus(a.bus, waiting) : a \in gone}
             started == {p \in next : LinkOnBus(p.bus, p.dev) # {}}
             arrivals(p) == {Arrival(now + TransferTime(link, p.size), p.id) :
                                link \in LinkOnBus(p.bus, p.dev)}
  <1>1. next \subseteq waiting
    BY DEF NextOnBus
  <1>2. \A p \in next : p \in pending /\ p \in MoveRecord
    BY <1>1 DEF TransfersTyped
  <1>3. \A p \in next : \A v \in arrivals(p) :
           v \in [time: Nat, id: TransferIds] /\ v.id = p.id
    <2> SUFFICES ASSUME NEW p \in next, NEW link \in LinkOnBus(p.bus, p.dev)
                 PROVE  /\ Arrival(now + TransferTime(link, p.size), p.id)
                                \in [time: Nat, id: TransferIds]
                        /\ Arrival(now + TransferTime(link, p.size), p.id).id = p.id
      OBVIOUS
    <2>1. p.size \in Nat /\ p.id \in TransferIds
      BY <1>2 DEF MoveRecord
    <2>2. TransferTime(link, p.size) \in Nat
      BY <2>1, LinksAreLinks, TransferTimeNat
    <2> QED BY <2>1, <2>2 DEF Arrival, TransfersTyped
  <1>4. pending' = waiting \ next
    BY DEF Leave
  <1>5. active' = (active \ gone) \cup {[id |-> p.id, bus |-> p.bus] : p \in started}
    BY DEF Leave
  <1>6. events' = rest \cup UNION {arrivals(p) : p \in next}
    BY DEF Leave
  <1>7. active' \subseteq [id: TransferIds, bus: BusIds \cup {NoBus}]
    BY <1>2, <1>5 DEF TransfersTyped, MoveRecord
  <1>8. /\ events' \subseteq [time: Nat, id: TransferIds]
        /\ \A ev \in events' : ev \in events \/ \E p \in pending : p.id = ev.id
    BY <1>2, <1>3, <1>6 DEF TransfersTyped
  <1>9. stamp' \in Nat
    BY DEF Leave, TransfersTyped
  <1> QED BY <1>4, <1>7, <1>8, <1>9 DEF TransfersTyped, TransfersTypedAfter, NoNewTransfer

(* Nor does a completion, which starts others,                              *)
LEMMA FinishEffect ==
    ASSUME TransfersTyped, NEW ev \in events, Finish(ev)
    PROVE  TransfersTypedAfter /\ NoNewTransfer
  <1>1. Leave({a \in active : a.id = ev.id}, pending, events \ {ev})
    BY DEF Finish
  <1> QED BY <1>1, LeaveEffect

(* nor the cancellation of a job's transfers,                               *)
LEMMA CancelEffect ==
    ASSUME TransfersTyped, NEW owned, Cancel(owned)
    PROVE  TransfersTypedAfter /\ NoNewTransfer
  <1> DEFINE waiting == {p \in pending : p.id \notin owned}
  <1>1. CASE \E a \in active : a.id \in owned
    <2>1. PICK a \in active : Leave({a}, waiting, events)
      BY <1>1 DEF Cancel
    <2> QED BY <2>1, LeaveEffect
  <1>2. CASE ~\E a \in active : a.id \in owned
    <2>1. pending' = waiting /\ UNCHANGED <<active, events, stamp>>
      BY <1>2 DEF Cancel
    <2> QED BY <2>1 DEF TransfersTyped, TransfersTypedAfter, NoNewTransfer
  <1> QED BY <1>1, <1>2

(* and a transfer that is requested is the only new one.                    *)
LEMMA InitiateEffect ==
    ASSUME TransfersTyped, NEW id \in TransferIds, NEW from \in DeviceIds,
           NEW to \in DeviceIds, NEW size \in Nat, NEW priority \in Nat,
           Initiate(id, from, to, size, priority)
    PROVE  /\ TransfersTypedAfter
           /\ \A p \in pending' : p \in pending \/ p.id = id
           /\ \A ev \in events' : ev \in events \/ ev.id = id
  <1>1. stamp' \in Nat
    BY DEF Initiate, TransfersTyped
  <1>2. CASE FindInterconnect(from, to) = {}
    <2>1. events' = events \cup {Arrival(now, id)} /\ UNCHANGED <<active, pending>>
      BY <1>2 DEF Initiate
    <2>2. Arrival(now, id) \in [time: Nat, id: TransferIds] /\ Arrival(now, id).id = id
      BY DEF Arrival, TransfersTyped
    <2> QED BY <1>1, <2>1, <2>2 DEF TransfersTyped, TransfersTypedAfter
  <1>3. ASSUME NEW link \in FindInterconnect(from, to), link.bus # NoBus,
               pending' = pending \cup {Move(id, to, size, priority, link.bus, stamp)},
               UNCHANGED <<active, events>>
        PROVE  /\ TransfersTypedAfter
               /\ \A p \in pending' : p \in pending \/ p.id = id
               /\ \A ev \in events' : ev \in events \/ ev.id = id
    <2>1. link.bus \in BusIds
      BY <1>3, LinksAreLinks DEF LinkRecord
    <2>2. /\ Move(id, to, size, priority, link.bus, stamp) \in MoveRecord
          /\ Move(id, to, size, priority, link.bus, stamp).id = id
      BY <2>1 DEF Move, MoveRecord, TransfersTyped
    <2> QED BY <1>1, <1>3, <2>2 DEF TransfersTyped, TransfersTypedAfter
  <1>4. ASSUME NEW link \in FindInterconnect(from, to),
               active' = active \cup {[id |-> id, bus |-> link.bus]},
               events' = events \cup {Arrival(now + TransferTime(link, size), id)},
               UNCHANGED pending
        PROVE  /\ TransfersTypedAfter
               /\ \A p \in pending' : p \in pending \/ p.id = id
               /\ \A ev \in events' : ev \in events \/ ev.id = id
    <2>1. link \in LinkRecord /\ TransferTime(link, size) \in Nat
      BY LinksAreLinks, TransferTimeNat
    <2>2. link.bus \in BusIds \cup {NoBus}
      BY <2>1 DEF LinkRecord
    <2>3. /\ Arrival(now + TransferTime(link, size), id) \in [time: Nat, id: TransferIds]
          /\ Arrival(now + TransferTime(link, size), id).id = id
      BY <2>1 DEF Arrival, TransfersTyped
    <2> QED BY <1>1, <1>4, <2>2, <2>3 DEF TransfersTyped, TransfersTypedAfter
  <1> QED BY <1>2, <1>3, <1>4 DEF Initiate

-----------------------------------------------------------------------------
(* The tracker                                                              *)

TrackerTyped ==
    /\ stage \in [TaskIds -> Stages]
    /\ remaining \in [TaskIds -> Nat]
    /\ satisfied \subseteq EdgeSet

(* A delivered token is taken from one node; no node's job is undone, and a *)
(* node is released exactly when its last token is taken.                   *)
LEMMA TokenTaken ==
    ASSUME DagIInv, NEW e \in Pairs, Sent(e[1]), MarkEdgeSatisfied(e)
    PROVE  /\ TrackerTyped'
           /\ TokensMatch'
           /\ BlockedByTokens'
           /\ \A n \in TaskIds : Sent(n) => Sent(n)'
           /\ \A x \in satisfied' : x \in satisfied \/ x = e
  <1> USE DEF DagIInv, DagTypeOK
  <1>1. CASE e \notin EdgeSet \ satisfied
    <2>1. UNCHANGED trackerVars
      BY <1>1 DEF MarkEdgeSatisfied
    <2> QED
      BY <2>1 DEF trackerVars, TrackerTyped, TokensMatch, BlockedByTokens, Unsatisfied, Sent
  <1>2. CASE e \in EdgeSet \ satisfied
    <2> DEFINE n == e[2]
               left == IF remaining[n] > 0 THEN remaining[n] - 1 ELSE 0
    <2>1. n \in TaskIds /\ e[1] \in TaskIds
      BY DEF Pairs
    <2>2. e \in Unsatisfied(n) /\ IsFiniteSet(Unsatisfied(n))
      <3>1. Unsatisfied(n) \in SUBSET Incoming(n)
        BY DEF Unsatisfied
      <3>2. IsFiniteSet(Incoming(n))
        BY TokensOfNode
      <3>3. IsFiniteSet(Unsatisfied(n))
        BY <3>1, <3>2, FS_Subset
      <3> QED BY <1>2, <3>3 DEF Unsatisfied, Incoming
    <2>3. Cardinality(Unsatisfied(n)) \in Nat /\ Cardinality(Unsatisfied(n)) # 0
      BY <2>2, FS_CardinalityType, FS_EmptySet
    <2>4. remaining[n] > 0 /\ left = remaining[n] - 1 /\ left \in Nat
      <3>1. remaining[n] = Cardinality(Unsatisfied(n)) + Surplus(n)
        BY <2>1 DEF TokensMatch
      <3>2. Surplus(n) \in Nat
        BY TokensOfNode
      <3>3. remaining[n] \in Nat
        BY <2>1
      <3> QED BY <2>3, <3>1, <3>2, <3>3
    <2>5. /\ satisfied' = satisfied \cup {e}
          /\ remaining' = [remaining EXCEPT ![n] = left]
          /\ stage' = IF left = 0 THEN [stage EXCEPT ![n] = "released"] ELSE stage
      BY <1>2 DEF MarkEdgeSatisfied, ReleasedBy, InTime
    <2>6. TrackerTyped'
      BY <1>2, <2>1, <2>4, <2>5 DEF TrackerTyped, Stages
    <2>7. TokensMatch'
      <3> SUFFICES ASSUME NEW m \in TaskIds
                   PROVE  remaining'[m] = Cardinality(Unsatisfied(m)') + Surplus(m)
        BY DEF TokensMatch, Surplus, InitialTokens, Incoming, EdgeSet
      <3>1. remaining[m] = Cardinality(Unsatisfied(m)) + Surplus(m)
        BY DEF TokensMatch
      <3>2. CASE m = n
        <4>1. Unsatisfied(m)' = Unsatisfied(n) \ {e}
          BY <2>5, <3>2 DEF Unsatisfied, Incoming, EdgeSet
        <4>2. Cardinality(Unsatisfied(n) \ {e}) = Cardinality(Unsatisfied(n)) - 1
          BY <2>2, FS_RemoveElement
        <4>3. remaining'[m] = remaining[n] - 1
          BY <2>1, <2>4, <2>5, <3>2
        <4>4. Surplus(n) \in Nat
          BY TokensOfNode
        <4> QED BY <2>3, <3>1, <3>2, <4>1, <4>2, <4>3, <4>4
      <3>3. CASE m # n
        <4>1. Unsatisfied(m)' = Unsatisfied(m)
          BY <2>5, <3>3 DEF Unsatisfied, Incoming, EdgeSet
        <4>2. remaining'[m] = remaining[m]
          BY <2>1, <2>5, <3>3
        <4> QED BY <3>1, <4>1, <4>2
      <3> QED BY <3>2, <3>3
    <2>8. BlockedByTokens'
      <3> SUFFICES ASSUME NEW m \in TaskIds
                   PROVE  stage'[m] = "blocked" <=> remaining'[m] > 0
        BY DEF BlockedByTokens
      <3>1. stage[m] = "blocked" <=> remaining[m] > 0
        BY DEF BlockedByTokens
      <3> QED BY <2>1, <2>4, <2>5, <3>1
    <2>9. \A m \in TaskIds : Sent(m) => Sent(m)'
      <3>1. stage[n] = "blocked"
        BY <2>1, <2>4 DEF BlockedByTokens
      <3> QED BY <2>1, <2>5, <3>1 DEF Sent
    <2> QED BY <2>5, <2>6, <2>7, <2>8, <2>9
  <1> QED BY <1>1, <1>2

-----------------------------------------------------------------------------
(* The inductive invariant                                                  *)

(* The invariant holds when the DAGs have been registered.                  *)
LEMMA InitEstablishes == Init => DagIInv
  <1> SUFFICES ASSUME Init PROVE DagIInv
    OBVIOUS
  <1> USE DEF Init
  <1>1. \A n \in TaskIds : remaining[n] = InitialTokens(n) /\ InitialTokens(n) \in Nat
    BY TokensOfNode
  <1>2. DagTypeOK
    <2>1. remaining \in [TaskIds -> Nat]
      BY <1>1
    <2>2. others \in [DOMAIN OtherJobs -> {"waiting", "moving", "arrived", "dropped"}]
      OBVIOUS
    <2> QED BY <2>1, <2>2 DEF DagTypeOK, Stages
  <1>3. TokensMatch
    <2> SUFFICES ASSUME NEW n \in TaskIds
                 PROVE  remaining[n] = Cardinality(Unsatisfied(n)) + Surplus(n)
      BY DEF TokensMatch
    <2>1. Unsatisfied(n) = Incoming(n)
      BY DEF Unsatisfied
    <2>2. Cardinality(Incoming(n)) \in Nat
      BY TokensOfNode
    <2> QED BY <1>1, <2>1, <2>2 DEF Surplus
  <1>4. BlockedByTokens
    BY <1>1 DEF BlockedByTokens
  <1>5. OnlySentByCompleted
    BY DEF OnlySentByCompleted
  <1>6. InTime
    BY DagAssumption DEF InTime
  <1> QED BY <1>2, <1>3, <1>4, <1>5, <1>6 DEF DagIInv

(* A step that leaves the counters alone and moves no node into or out of   *)
(* "blocked" keeps what relates them.                                       *)
LEMMA CountersKept ==
    ASSUME DagIInv, UNCHANGED <<remaining, satisfied>>,
           \A n \in TaskIds : stage'[n] = "blocked" <=> stage[n] = "blocked"
    PROVE  TokensMatch' /\ BlockedByTokens'
  BY DEF DagIInv, TokensMatch, BlockedByTokens, Unsatisfied

(* Transfers that were there before come from nodes that have completed.    *)
LEMMA SentKept ==
    ASSUME DagIInv, NoNewTransfer, \A n \in TaskIds : Sent(n) => Sent(n)'
    PROVE  /\ \A p \in pending' : p.id.kind = "Edge" => Sent(p.id.from)'
           /\ \A ev \in events' : ev.id.kind = "Edge" => Sent(ev.id.from)'
  <1>1. \A id \in TransferIds : id.kind = "Edge" => id.from \in TaskIds
    BY DEF TransferIds, EdgeId, JobId, Pairs
  <1>2. /\ \A p \in pending : p.id \in TransferIds
        /\ \A ev \in events : ev.id \in TransferIds
    BY DEF DagIInv, DagTypeOK, MoveRecord
  <1>3. /\ \A p \in pending : p.id.kind = "Edge" => Sent(p.id.from)
        /\ \A ev \in events : ev.id.kind = "Edge" => Sent(ev.id.from)
    BY DEF DagIInv, OnlySentByCompleted
  <1> QED BY <1>1, <1>2, <1>3 DEF NoNewTransfer

(* Every step of the engine keeps the invariant.                            *)
LEMMA StepKeeps == DagIInv /\ [Next]_vars => DagIInv'
  <1> SUFFICES ASSUME DagIInv, [Next]_vars PROVE DagIInv'
    OBVIOUS
  <1> USE DEF DagIInv
  <1>0. /\ TransfersTyped
        /\ TrackerTyped
        /\ \A n \in TaskIds : Sent(n) => n \in TaskIds
    BY DEF TransfersTyped, TrackerTyped, DagTypeOK
  <1>1. ASSUME NEW n \in TaskIds, NEW d \in AffinityDevices(n), CompleteNode(n, d)
        PROVE  DagIInv'
    <2> USE <1>1 DEF CompleteNode
    <2>1. \A m \in TaskIds : stage'[m] = IF m = n THEN "completed" ELSE stage[m]
      BY DEF DagTypeOK
    <2>2. sending' \subseteq [edge: Pairs, from: DeviceIds]
      <3>1. \A e \in Sends(n) : e \in Pairs
        BY DagAssumption DEF Sends, OutgoingEdges, EdgeSet
      <3> QED BY <3>1 DEF AffinityDevices
    <2>3. \A s \in sending' : s.edge[1] = n
      BY DEF Sends, OutgoingEdges
    <2>4. DagTypeOK'
      BY <2>2 DEF DagTypeOK, transferVars, Stages
    <2>5. TokensMatch' /\ BlockedByTokens'
      BY <2>1, CountersKept
    <2>6. \A m \in TaskIds : Sent(m) => Sent(m)'
      BY <2>1 DEF Sent
    <2>7. NoNewTransfer
      BY DEF NoNewTransfer, transferVars
    <2>8. \A e \in satisfied : e[1] \in TaskIds
      BY DagAssumption DEF DagTypeOK, EdgeSet, Pairs
    <2>9. OnlySentByCompleted'
      BY <2>1, <2>3, <2>6, <2>7, <2>8, SentKept DEF OnlySentByCompleted, Sent
    <2> QED BY <2>4, <2>5, <2>9 DEF InTime
  <1>2. ASSUME NEW s \in sending, StartEdgeTransfer(s)
        PROVE  DagIInv'
    <2> USE <1>2 DEF StartEdgeTransfer
    <2>1. /\ s.edge \in Pairs /\ s.from \in DeviceIds
          /\ s.edge[1] \in TaskIds /\ s.edge[2] \in TaskIds
      BY DEF DagTypeOK, Pairs
    <2>2. PICK to \in TargetDevices(s.edge[2]) :
             Initiate(EdgeId(s.edge), s.from, to, EdgeBytes(s.edge), Task[s.edge[1]].priority)
      OBVIOUS
    <2>3. to \in DeviceIds
      BY DeviceForTypeIsDevice DEF TargetDevices
    <2>4. EdgeBytes(s.edge) \in Nat /\ Task[s.edge[1]].priority \in Nat
      BY <2>1, DagAssumption, PlatformAssumption DEF EdgeBytes, TaskRecord
    <2>5. EdgeId(s.edge) \in TransferIds
      BY <2>1 DEF TransferIds
    <2>6. /\ TransfersTypedAfter
          /\ \A p \in pending' : p \in pending \/ p.id = EdgeId(s.edge)
          /\ \A ev \in events' : ev \in events \/ ev.id = EdgeId(s.edge)
      BY <1>0, <2>1, <2>2, <2>3, <2>4, <2>5, InitiateEffect
    <2>7. DagTypeOK'
      BY <2>6 DEF DagTypeOK, TransfersTypedAfter, trackerVars
    <2>8. TokensMatch' /\ BlockedByTokens'
      BY CountersKept DEF trackerVars
    <2>9. OnlySentByCompleted'
      <3>1. \A m : Sent(m)' <=> Sent(m)
        BY DEF Sent, trackerVars
      <3>2. Sent(EdgeId(s.edge).from)
        BY DEF OnlySentByCompleted, EdgeId
      <3> QED BY <2>6, <3>1, <3>2 DEF OnlySentByCompleted, trackerVars
    <2> QED BY <2>7, <2>8, <2>9 DEF InTime
  <1>3. ASSUME NEW n \in TaskIds, DropNode(n)
        PROVE  DagIInv'
    <2> USE <1>3 DEF DropNode
    <2>1. \A m \in TaskIds : stage'[m] = IF m = n THEN "dropped" ELSE stage[m]
      BY DEF DagTypeOK
    <2>2. TransfersTypedAfter /\ NoNewTransfer
      BY <1>0, CancelEffect
    <2>3. DagTypeOK'
      BY <2>2 DEF DagTypeOK, TransfersTypedAfter, Stages
    <2>4. TokensMatch' /\ BlockedByTokens'
      BY <2>1, CountersKept
    <2>5. \A m \in TaskIds : Sent(m) => Sent(m)'
      BY <2>1 DEF Sent
    <2>6. \A e \in satisfied : e[1] \in TaskIds
      BY DagAssumption DEF DagTypeOK, EdgeSet, Pairs
    <2>7. \A x \in sending : x.edge[1] \in TaskIds
      BY DEF DagTypeOK, Pairs
    <2>8. OnlySentByCompleted'
      BY <2>2, <2>5, <2>6, <2>7, SentKept DEF OnlySentByCompleted
    <2> QED BY <2>3, <2>4, <2>8 DEF InTime
  <1>4. ASSUME NEW ev \in events, HandleEdgeTransferComplete(ev)
        PROVE  DagIInv'
    <2> USE <1>4 DEF HandleEdgeTransferComplete
    <2> DEFINE e == <<ev.id.from, ev.id.to>>
    <2>1. e \in Pairs
      BY DEF DagTypeOK, TransferIds, EdgeId, JobId, Pairs
    <2>2. Sent(e[1])
      BY DEF OnlySentByCompleted
    <2>3. /\ TrackerTyped'
          /\ TokensMatch'
          /\ BlockedByTokens'
          /\ \A n \in TaskIds : Sent(n) => Sent(n)'
          /\ \A x \in satisfied' : x \in satisfied \/ x = e
      BY <2>1, <2>2, TokenTaken
    <2>4. TransfersTypedAfter /\ NoNewTransfer
      BY <1>0, FinishEffect
    <2>5. DagTypeOK'
      BY <2>3, <2>4 DEF DagTypeOK, TransfersTypedAfter, TrackerTyped
    <2>6. \A x \in satisfied' : Sent(x[1])'
      <3>1. \A x \in satisfied : x[1] \in TaskIds
        BY DagAssumption DEF DagTypeOK, EdgeSet, Pairs
      <3>2. e[1] \in TaskIds
        BY <2>1 DEF Pairs
      <3> QED BY <2>2, <2>3, <3>1, <3>2 DEF OnlySentByCompleted
    <2>7. sending' = {}
      BY DEF Polling
    <2>8. OnlySentByCompleted'
      BY <2>3, <2>4, <2>6, <2>7, SentKept DEF OnlySentByCompleted
    <2> QED BY <2>3, <2>5, <2>8 DEF InTime
  <1>5. ASSUME UNCHANGED trackerVars, UNCHANGED sending, UNCHANGED now, NoNewTransfer,
               TransfersTypedAfter, ended' \in BOOLEAN,
               others' \in [DOMAIN OtherJobs -> {"waiting", "moving", "arrived", "dropped"}]
        PROVE  DagIInv'
    <2> USE <1>5 DEF trackerVars
    <2>1. DagTypeOK'
      BY DEF DagTypeOK, TransfersTypedAfter
    <2>2. TokensMatch' /\ BlockedByTokens'
      BY CountersKept
    <2>3. \A m : Sent(m)' <=> Sent(m)
      BY DEF Sent
    <2>4. OnlySentByCompleted'
      BY <2>3, SentKept DEF OnlySentByCompleted
    <2> QED BY <2>1, <2>2, <2>4 DEF InTime
  <1>6. ASSUME NEW k \in DOMAIN OtherJobs, DispatchOther(k)
        PROVE  DagIInv'
    <2> USE <1>6 DEF DispatchOther
    <2>1. OtherJobs[k] \in OtherRecord
      BY DagAssumption
    <2>2. JobId(k) \in TransferIds /\ JobId(k).kind = "Job"
      BY DEF TransferIds, JobId
    <2>3. /\ TransfersTypedAfter
          /\ \A p \in pending' : p \in pending \/ p.id = JobId(k)
          /\ \A ev \in events' : ev \in events \/ ev.id = JobId(k)
      BY <1>0, <2>1, <2>2, InitiateEffect DEF OtherRecord
    <2>4. DagTypeOK'
      BY <2>3 DEF DagTypeOK, TransfersTypedAfter, trackerVars
    <2>5. TokensMatch' /\ BlockedByTokens'
      BY CountersKept DEF trackerVars
    <2>6. \A m : Sent(m)' <=> Sent(m)
      BY DEF Sent, trackerVars
    <2>7. OnlySentByCompleted'
      BY <2>2, <2>3, <2>6 DEF OnlySentByCompleted, trackerVars
    <2> QED BY <2>4, <2>5, <2>7 DEF InTime
  <1>7. ASSUME NEW ev \in events, HandleTransferComplete(ev)
        PROVE  DagIInv'
    <2> USE <1>7 DEF HandleTransferComplete
    <2>1. TransfersTypedAfter /\ NoNewTransfer
      <3>1. CASE others[ev.id.from] = "moving"
        BY <1>0, <3>1, FinishEffect
      <3>2. CASE others[ev.id.from] # "moving"
        BY <1>0, <3>2 DEF TransfersTyped, TransfersTypedAfter, NoNewTransfer
      <3> QED BY <3>1, <3>2
    <2>2. others' \in [DOMAIN OtherJobs -> {"waiting", "moving", "arrived", "dropped"}]
      BY DEF DagTypeOK
    <2>3. ended' \in BOOLEAN
      BY DEF DagTypeOK
    <2> QED BY <1>5, <2>1, <2>2, <2>3
  <1>8. ASSUME NEW k \in DOMAIN OtherJobs, DropOther(k)
        PROVE  DagIInv'
    <2> USE <1>8 DEF DropOther
    <2>1. TransfersTypedAfter /\ NoNewTransfer
      BY <1>0, CancelEffect
    <2>2. /\ others' \in [DOMAIN OtherJobs -> {"waiting", "moving", "arrived", "dropped"}]
          /\ ended' \in BOOLEAN
      BY DEF DagTypeOK
    <2> QED BY <1>5, <2>1, <2>2
  <1>9. ASSUME Tick \/ EndSimulation \/ UNCHANGED vars
        PROVE  DagIInv'
    <2>1. /\ UNCHANGED <<trackerVars, sending, transferVars, others>>
          /\ now' \in Nat
          /\ now' <= Duration
          /\ ended' \in BOOLEAN
      <3>1. now \in Nat /\ Duration \in Nat /\ now <= Duration /\ ended \in BOOLEAN
        BY DagAssumption DEF DagTypeOK, InTime
      <3>2. CASE Tick
        BY <3>1, <3>2 DEF Tick
      <3>3. CASE EndSimulation
        BY <3>1, <3>3 DEF EndSimulation
      <3>4. CASE UNCHANGED vars
        BY <3>1, <3>4 DEF vars
      <3> QED BY <1>9, <3>2, <3>3, <3>4
    <2>2. DagTypeOK'
      BY <2>1 DEF DagTypeOK, trackerVars, transferVars
    <2>3. TokensMatch' /\ BlockedByTokens'
      BY <2>1, CountersKept DEF trackerVars
    <2>4. OnlySentByCompleted'
      BY <2>1 DEF OnlySentByCompleted, Sent, trackerVars, transferVars
    <2> QED BY <2>1, <2>2, <2>3, <2>4 DEF InTime
  <1> QED
    BY <1>1, <1>2, <1>3, <1>4, <1>6, <1>7, <1>8, <1>9 DEF Next, Stopped

(* For every set of DAGs, platform and other traffic: tokens, counters,     *)
(* node stages and transfers agree in every reachable state.                *)
THEOREM DagInvariance == Spec => []DagIInv
  BY InitEstablishes, StepKeeps, PTL DEF Spec

-----------------------------------------------------------------------------
(* Every transfer is accounted for                                          *)

(* Transfer id is among those that wait in P or move in E.                  *)
OnTheWay(id, P, E) == (\E p \in P : p.id = id) \/ (\E v \in E : v.id = id)

(* What an operation that starts with the waiting transfers P and the       *)
(* arrivals E does to transfer id: it is neither lost nor duplicated.       *)
Keeps(id, P, E) ==
    /\ OnTheWay(id, pending', events') <=> OnTheWay(id, P, E)
    /\ AtMostOnce(id) => AtMostOnce(id)'

(* The transfers that wait for a released bus start when it is theirs, and  *)
(* none is lost: their bus has a link to their target, and only one.        *)
LEMMA LeaveKeeps ==
    ASSUME WaitingCanStart, NEW gone, NEW waiting \in SUBSET pending,
           NEW rest \in SUBSET events, Leave(gone, waiting, rest)
    PROVE  WaitingCanStart' /\ \A id : Keeps(id, waiting, rest)
  <1> DEFINE next == UNION {NextOnBus(a.bus, waiting) : a \in gone}
             arrivals(p) == {Arrival(now + TransferTime(link, p.size), p.id) :
                                link \in LinkOnBus(p.bus, p.dev)}
  <1>1. next \subseteq waiting
    BY DEF NextOnBus
  <1>2. pending' = waiting \ next
    BY DEF Leave
  <1>3. events' = rest \cup UNION {arrivals(p) : p \in next}
    BY DEF Leave
  <1>4. \A p \in next : /\ \E v : v \in arrivals(p)
                        /\ \A v \in arrivals(p) : v.id = p.id
                        /\ \A v, w \in arrivals(p) : v = w
    <2> SUFFICES ASSUME NEW p \in next
                 PROVE  /\ \E v : v \in arrivals(p)
                        /\ \A v \in arrivals(p) : v.id = p.id
                        /\ \A v, w \in arrivals(p) : v = w
      OBVIOUS
    <2>1. LinkOnBus(p.bus, p.dev) # {}
      BY <1>1 DEF WaitingCanStart
    <2>2. \A l, m \in LinkOnBus(p.bus, p.dev) : l = m
      BY LinkOnBusIsUnique
    <2>3. \A t : Arrival(t, p.id).id = p.id
      BY DEF Arrival
    <2> QED BY <2>1, <2>2, <2>3
  <1>5. WaitingCanStart'
    BY <1>2 DEF WaitingCanStart
  <1> HIDE DEF next, arrivals
  <1>6. ASSUME NEW id PROVE Keeps(id, waiting, rest)
    <2>1. OnTheWay(id, pending', events') <=> OnTheWay(id, waiting, rest)
      BY <1>1, <1>2, <1>3, <1>4 DEF OnTheWay
    <2>2. ASSUME AtMostOnce(id) PROVE AtMostOnce(id)'
      <3>1. ASSUME NEW p \in pending', NEW v \in events', p.id = id, v.id = id
            PROVE  FALSE
        <4>1. p \in waiting /\ p \notin next
          BY <1>2, <3>1
        <4>2. v \notin rest
          BY <2>2, <3>1, <4>1 DEF AtMostOnce, Queued, Moving
        <4>3. PICK q \in next : v \in arrivals(q)
          BY <1>3, <4>2
        <4>4. q.id = id /\ q \in pending /\ p \in pending
          BY <1>1, <1>4, <3>1, <4>1, <4>3
        <4> QED BY <2>2, <3>1, <4>1, <4>4 DEF AtMostOnce
      <3>2. ASSUME NEW v \in events', NEW w \in events', v.id = id, w.id = id
            PROVE  v = w
        <4>1. CASE v \in rest /\ w \in rest
          BY <2>2, <3>2, <4>1 DEF AtMostOnce
        <4>2. ASSUME NEW q \in next, q.id = id PROVE v \notin rest /\ w \notin rest
          BY <1>1, <2>2, <3>2, <4>2 DEF AtMostOnce, Queued, Moving
        <4>3. CASE v \notin rest \/ w \notin rest
          <5>1. PICK q \in next : q.id = id
            BY <1>3, <1>4, <3>2, <4>3
          <5>2. v \notin rest /\ w \notin rest
            BY <4>2, <5>1
          <5>3. PICK p \in next : v \in arrivals(p)
            BY <1>3, <5>2
          <5>4. PICK r \in next : w \in arrivals(r)
            BY <1>3, <5>2
          <5>5. p.id = id /\ r.id = id /\ p \in pending /\ r \in pending
            BY <1>1, <1>4, <3>2, <5>3, <5>4
          <5>6. p = r
            BY <2>2, <5>5 DEF AtMostOnce
          <5> QED BY <1>4, <5>3, <5>4, <5>6
        <4> QED BY <4>1, <4>3
      <3>3. \A p, q \in pending' : p.id = id /\ q.id = id => p = q
        BY <1>2, <2>2 DEF AtMostOnce
      <3> QED BY <3>1, <3>2, <3>3 DEF AtMostOnce, Queued, Moving
    <2> QED BY <2>1, <2>2 DEF Keeps
  <1> QED BY <1>5, <1>6

(* So a transfer that completes leaves the others where they are.           *)
LEMMA FinishKeeps ==
    ASSUME WaitingCanStart, NEW ev \in events, Finish(ev)
    PROVE  WaitingCanStart' /\ \A id : Keeps(id, pending, events \ {ev})
  <1>1. Leave({a \in active : a.id = ev.id}, pending, events \ {ev})
    BY DEF Finish
  <1> QED BY <1>1, LeaveKeeps

(* A job that is cancelled takes no other's transfer with it.               *)
LEMMA CancelKeeps ==
    ASSUME WaitingCanStart, NEW owned, Cancel(owned)
    PROVE  /\ WaitingCanStart'
           /\ \A id : Keeps(id, {p \in pending : p.id \notin owned}, events)
  <1> DEFINE waiting == {p \in pending : p.id \notin owned}
  <1>1. CASE \E a \in active : a.id \in owned
    <2>1. PICK a \in active : Leave({a}, waiting, events)
      BY <1>1 DEF Cancel
    <2> QED BY <2>1, LeaveKeeps
  <1>2. CASE ~\E a \in active : a.id \in owned
    <2>1. pending' = waiting /\ UNCHANGED <<active, events, stamp>>
      BY <1>2 DEF Cancel
    <2> QED
      BY <2>1 DEF WaitingCanStart, Keeps, OnTheWay, AtMostOnce, Queued, Moving
  <1> QED BY <1>1, <1>2

(* A transfer that is started is on its way, once, and the others stay.     *)
LEMMA InitiateKeeps ==
    ASSUME WaitingCanStart, NEW id, NEW from, NEW to, NEW size, NEW priority,
           Initiate(id, from, to, size, priority)
    PROVE  /\ WaitingCanStart'
           /\ \A x : x # id => Keeps(x, pending, events)
           /\ OnTheWay(id, pending', events')
           /\ ~OnTheWay(id, pending, events) => AtMostOnce(id)'
  <1>1. ASSUME NEW t, events' = events \cup {Arrival(t, id)}, UNCHANGED pending
        PROVE  /\ WaitingCanStart'
               /\ \A x : x # id => Keeps(x, pending, events)
               /\ OnTheWay(id, pending', events')
               /\ ~OnTheWay(id, pending, events) => AtMostOnce(id)'
    <2>1. Arrival(t, id).id = id
      BY DEF Arrival
    <2> QED BY <1>1, <2>1 DEF WaitingCanStart, Keeps, OnTheWay, AtMostOnce, Queued, Moving
  <1>2. ASSUME NEW link \in FindInterconnect(from, to),
               pending' = pending \cup {Move(id, to, size, priority, link.bus, stamp)},
               UNCHANGED events
        PROVE  /\ WaitingCanStart'
               /\ \A x : x # id => Keeps(x, pending, events)
               /\ OnTheWay(id, pending', events')
               /\ ~OnTheWay(id, pending, events) => AtMostOnce(id)'
    <2> DEFINE p == Move(id, to, size, priority, link.bus, stamp)
    <2>1. p.id = id /\ p.bus = link.bus /\ p.dev = to
      BY DEF Move
    <2>2. LinkOnBus(p.bus, p.dev) # {}
      BY <2>1, BusReachesTarget
    <2>3. pending' = pending \cup {p}
      BY <1>2
    <2> HIDE DEF p
    <2> QED
      BY <1>2, <2>1, <2>2, <2>3
      DEF WaitingCanStart, Keeps, OnTheWay, AtMostOnce, Queued, Moving
  <1> QED BY <1>1, <1>2 DEF Initiate

(* A pair is named by the ids of its transfer only.                         *)
LEMMA EdgeIdIsInjective ==
    \A e, f \in Pairs : EdgeId(e) = EdgeId(f) => e = f
  BY DEF Pairs, EdgeId

(* The edges of the DAGs are pairs of nodes.                                *)
LEMMA EdgesArePairs == EdgeSet \subseteq Pairs /\ \A e \in Pairs : e[1] \in TaskIds /\ e[2] \in TaskIds
  BY DagAssumption DEF EdgeSet, Pairs

(* What a step must do for EdgesIInv to survive it.                         *)
LEMMA EdgesFrame ==
    ASSUME DagIInv, EdgesIInv, WaitingCanStart',
           \A e \in Pairs : Keeps(EdgeId(e), pending, events),
           UNCHANGED <<sending, satisfied>>,
           \A n \in TaskIds : stage'[n] = "completed" => stage[n] = "completed"
    PROVE  EdgesIInv'
  <1>1. ASSUME NEW e \in Pairs
        PROVE  /\ (Queued(EdgeId(e)) \/ Moving(EdgeId(e)))' <=> Queued(EdgeId(e)) \/ Moving(EdgeId(e))
               /\ ToBeSent(e)' <=> ToBeSent(e)
               /\ AtMostOnce(EdgeId(e))'
    BY <1>1 DEF EdgesIInv, EdgesAreOnce, Keeps, OnTheWay, Queued, Moving, ToBeSent
  <1>2. EdgesAreOnce'
    BY <1>1 DEF EdgesIInv, EdgesAreOnce, InFlight
  <1>3. EdgesAccounted'
    <2> SUFFICES ASSUME NEW e \in EdgeSet, stage'[e[1]] = "completed", TargetDevices(e[2]) # {}
                 PROVE  InFlight(e)' \/ e \in satisfied'
      BY <1>1, <1>2, EdgesArePairs DEF EdgesAccounted, EdgesAreOnce, AtMostOnce
    <2>1. e \in Pairs /\ stage[e[1]] = "completed"
      BY EdgesArePairs
    <2>2. InFlight(e) \/ e \in satisfied
      BY <2>1 DEF EdgesIInv, EdgesAccounted
    <2> QED BY <1>1, <2>1, <2>2 DEF InFlight
  <1> QED BY <1>2, <1>3 DEF EdgesIInv

(* The edges of a node that has just completed are all to be sent.          *)
LEMMA CompleteNodeEdges ==
    ASSUME DagIInv, EdgesIInv, NEW n \in TaskIds, NEW d, CompleteNode(n, d)
    PROVE  EdgesIInv'
  <1> USE DEF CompleteNode
  <1>1. /\ sending = {} /\ UNCHANGED <<satisfied, pending, events>>
        /\ sending' = {[edge |-> e, from |-> d] : e \in Sends(n)}
        /\ \A m \in TaskIds : m # n => stage'[m] = stage[m]
    BY DEF Polling, transferVars, DagIInv, DagTypeOK
  <1>2. \A e \in Pairs : ToBeSent(e)' <=> e \in Sends(n)
    <2> SUFFICES ASSUME NEW e \in Pairs
                 PROVE  (\E s \in sending' : s.edge = e) <=> e \in Sends(n)
      BY DEF ToBeSent
    <2>1. ASSUME NEW s \in sending', s.edge = e
          PROVE  e \in Sends(n)
      BY <1>1, <2>1
    <2>2. ASSUME e \in Sends(n)
          PROVE  \E s \in sending' : s.edge = e
      <3>1. [edge |-> e, from |-> d] \in sending'
        BY <1>1, <2>2
      <3>2. [edge |-> e, from |-> d].edge = e
        OBVIOUS
      <3> QED BY <3>1, <3>2
    <2> QED BY <2>1, <2>2
  <1>3. \A e \in Sends(n) : e[1] = n
    BY DEF Sends, OutgoingEdges
  <1>4. ASSUME NEW e \in Pairs, e[1] = n
        PROVE  ~Queued(EdgeId(e)) /\ ~Moving(EdgeId(e)) /\ e \notin satisfied
    <2>1. ~Sent(n)
      BY DEF Sent
    <2>2. EdgeId(e).kind = "Edge" /\ EdgeId(e).from = n
      BY <1>4 DEF EdgeId
    <2> QED BY <1>4, <2>1, <2>2 DEF DagIInv, OnlySentByCompleted, Queued, Moving
  <1>5. \A id : /\ Queued(id)' <=> Queued(id)
                /\ Moving(id)' <=> Moving(id)
                /\ AtMostOnce(id)' <=> AtMostOnce(id)
    BY <1>1 DEF Queued, Moving, AtMostOnce
  <1>6. EdgesAreOnce'
    <2> SUFFICES ASSUME NEW e \in Pairs
                 PROVE  /\ AtMostOnce(EdgeId(e))'
                        /\ ToBeSent(e)' => ~Queued(EdgeId(e))' /\ ~Moving(EdgeId(e))'
                        /\ \A s, t \in sending' : s.edge = e /\ t.edge = e => s = t
                        /\ e \in satisfied' => ~InFlight(e)'
      BY DEF EdgesAreOnce
    <2>1. AtMostOnce(EdgeId(e))
      BY DEF EdgesIInv, EdgesAreOnce
    <2>2. ToBeSent(e)' => e[1] = n
      BY <1>2, <1>3
    <2>3. e \in satisfied => ~Queued(EdgeId(e)) /\ ~Moving(EdgeId(e))
      BY DEF EdgesIInv, EdgesAreOnce, InFlight
    <2>4. \A s, t \in sending' : s.edge = e /\ t.edge = e => s = t
      BY <1>1
    <2> QED BY <1>1, <1>4, <1>5, <2>1, <2>2, <2>3, <2>4 DEF InFlight
  <1>7. EdgesAccounted'
    <2> SUFFICES ASSUME NEW e \in EdgeSet, stage'[e[1]] = "completed", TargetDevices(e[2]) # {}
                 PROVE  InFlight(e)' \/ e \in satisfied'
      BY <1>6, EdgesArePairs DEF EdgesAccounted, EdgesAreOnce, AtMostOnce
    <2>1. e \in Pairs /\ e[1] \in TaskIds
      BY EdgesArePairs
    <2>2. CASE e[1] = n
      <3>1. e \in Sends(n)
        BY <2>2 DEF Sends, OutgoingEdges
      <3> QED BY <1>2, <2>1, <3>1 DEF InFlight
    <2>3. CASE e[1] # n
      <3>1. InFlight(e) \/ e \in satisfied
        BY <1>1, <2>1, <2>3 DEF EdgesIInv, EdgesAccounted
      <3>2. ~ToBeSent(e)
        BY <1>1 DEF ToBeSent
      <3> QED BY <1>1, <1>5, <3>1, <3>2 DEF InFlight
    <2> QED BY <2>2, <2>3
  <1>8. WaitingCanStart'
    BY <1>1 DEF EdgesIInv, WaitingCanStart
  <1> QED BY <1>6, <1>7, <1>8 DEF EdgesIInv

(* A transfer that is started was to be sent, and is now on its way.        *)
LEMMA StartEdgeTransferEdges ==
    ASSUME DagIInv, EdgesIInv, NEW s \in sending, StartEdgeTransfer(s)
    PROVE  EdgesIInv'
  <1> PICK f : f = s.edge
    OBVIOUS
  <1>1. /\ sending' = sending \ {s} /\ UNCHANGED <<stage, satisfied>>
        /\ f \in Pairs
    BY DEF StartEdgeTransfer, trackerVars, DagIInv, DagTypeOK
  <1>2. PICK to : Initiate(EdgeId(f), s.from, to, EdgeBytes(f), Task[f[1]].priority)
    BY DEF StartEdgeTransfer
  <1>3. /\ WaitingCanStart'
        /\ \A x : x # EdgeId(f) => Keeps(x, pending, events)
        /\ OnTheWay(EdgeId(f), pending', events')
        /\ ~OnTheWay(EdgeId(f), pending, events) => AtMostOnce(EdgeId(f))'
    BY <1>2, InitiateKeeps DEF EdgesIInv
  <1>4. /\ ToBeSent(f) /\ ~OnTheWay(EdgeId(f), pending, events) /\ f \notin satisfied
        /\ \A t \in sending : t.edge = f => t = s
    <2>1. ToBeSent(f)
      BY DEF ToBeSent
    <2> QED BY <1>1, <2>1 DEF EdgesIInv, EdgesAreOnce, OnTheWay, Queued, Moving, InFlight
  <1>5. ~ToBeSent(f)' /\ \A e : e # f => (ToBeSent(e)' <=> ToBeSent(e))
    BY <1>1, <1>4 DEF ToBeSent
  <1>6. ASSUME NEW e \in Pairs, e # f
        PROVE  /\ AtMostOnce(EdgeId(e))'
               /\ (Queued(EdgeId(e)) \/ Moving(EdgeId(e)))' <=> Queued(EdgeId(e)) \/ Moving(EdgeId(e))
    <2>1. EdgeId(e) # EdgeId(f)
      BY <1>1, <1>6, EdgeIdIsInjective
    <2>2. Keeps(EdgeId(e), pending, events)
      BY <1>3, <2>1
    <2> QED BY <2>2 DEF EdgesIInv, EdgesAreOnce, Keeps, OnTheWay, Queued, Moving
  <1>7. EdgesAreOnce'
    <2> SUFFICES ASSUME NEW e \in Pairs
                 PROVE  /\ AtMostOnce(EdgeId(e))'
                        /\ ToBeSent(e)' => ~Queued(EdgeId(e))' /\ ~Moving(EdgeId(e))'
                        /\ \A u, t \in sending' : u.edge = e /\ t.edge = e => u = t
                        /\ e \in satisfied' => ~InFlight(e)'
      BY DEF EdgesAreOnce
    <2>1. \A u, t \in sending' : u.edge = e /\ t.edge = e => u = t
      BY <1>1 DEF EdgesIInv, EdgesAreOnce
    <2>2. CASE e = f
      BY <1>1, <1>3, <1>4, <1>5, <2>1, <2>2
    <2>3. CASE e # f
      BY <1>1, <1>5, <1>6, <2>1, <2>3 DEF EdgesIInv, EdgesAreOnce, InFlight
    <2> QED BY <2>2, <2>3
  <1>8. EdgesAccounted'
    <2> SUFFICES ASSUME NEW e \in EdgeSet, stage'[e[1]] = "completed", TargetDevices(e[2]) # {}
                 PROVE  InFlight(e)' \/ e \in satisfied'
      BY <1>7, EdgesArePairs DEF EdgesAccounted, EdgesAreOnce, AtMostOnce
    <2>1. CASE e = f
      BY <1>3, <2>1 DEF OnTheWay, InFlight, Queued, Moving
    <2>2. CASE e # f
      <3>1. e \in Pairs /\ (InFlight(e) \/ e \in satisfied)
        BY <1>1, EdgesArePairs DEF EdgesIInv, EdgesAccounted
      <3> QED BY <1>1, <1>5, <1>6, <2>2, <3>1 DEF InFlight
    <2> QED BY <2>1, <2>2
  <1> QED BY <1>3, <1>7, <1>8 DEF EdgesIInv

(* The data of an edge that has arrived is delivered, once.                 *)
LEMMA EdgeTransferEdges ==
    ASSUME DagIInv, EdgesIInv, NEW ev \in events, HandleEdgeTransferComplete(ev)
    PROVE  EdgesIInv'
  <1> PICK f : f = <<ev.id.from, ev.id.to>>
    OBVIOUS
  <1>1. sending = {} /\ sending' = {} /\ Finish(ev) /\ MarkEdgeSatisfied(f) /\ ev.id.kind = "Edge"
    BY DEF HandleEdgeTransferComplete, Polling
  <1>2. f \in Pairs /\ EdgeId(f) = ev.id
    BY <1>1 DEF DagIInv, DagTypeOK, TransferIds, EdgeId, JobId, Pairs
  <1>3. WaitingCanStart' /\ \A id : Keeps(id, pending, events \ {ev})
    BY <1>1, FinishKeeps DEF EdgesIInv
  <1>4. /\ ~OnTheWay(EdgeId(f), pending, events \ {ev})
        /\ \A id : id # ev.id => (OnTheWay(id, pending, events \ {ev}) <=> OnTheWay(id, pending, events))
    <2>1. Moving(EdgeId(f)) /\ AtMostOnce(EdgeId(f))
      BY <1>2 DEF Moving, EdgesIInv, EdgesAreOnce
    <2> QED BY <1>2, <2>1 DEF OnTheWay, AtMostOnce, Queued
  <1>5. /\ f \in EdgeSet => f \in satisfied'
        /\ satisfied \subseteq satisfied' /\ satisfied' \subseteq satisfied \cup {f}
        /\ \A n \in TaskIds : stage'[n] = "completed" => stage[n] = "completed"
    BY <1>1 DEF MarkEdgeSatisfied, trackerVars, DagIInv, DagTypeOK
  <1>6. \A e : ~ToBeSent(e) /\ ~ToBeSent(e)'
    BY <1>1 DEF ToBeSent
  <1>7. ASSUME NEW e \in Pairs
        PROVE  /\ AtMostOnce(EdgeId(e))'
               /\ InFlight(e)' <=> InFlight(e) /\ e # f
    <2>1. AtMostOnce(EdgeId(e)) /\ Keeps(EdgeId(e), pending, events \ {ev})
      BY <1>3 DEF EdgesIInv, EdgesAreOnce
    <2>2. e # f => EdgeId(e) # EdgeId(f)
      BY <1>2, EdgeIdIsInjective
    <2> QED BY <1>2, <1>4, <1>6, <2>1, <2>2 DEF Keeps, OnTheWay, InFlight, Queued, Moving
  <1>8. EdgesAreOnce'
    BY <1>1, <1>5, <1>6, <1>7 DEF EdgesAreOnce, EdgesIInv
  <1>9. EdgesAccounted'
    <2> SUFFICES ASSUME NEW e \in EdgeSet, stage'[e[1]] = "completed", TargetDevices(e[2]) # {}
                 PROVE  InFlight(e)' \/ e \in satisfied'
      BY <1>8, EdgesArePairs DEF EdgesAccounted, EdgesAreOnce, AtMostOnce
    <2>1. e \in Pairs /\ stage[e[1]] = "completed"
      BY <1>5, EdgesArePairs
    <2>2. InFlight(e) \/ e \in satisfied
      BY <2>1 DEF EdgesIInv, EdgesAccounted
    <2> QED BY <1>5, <1>7, <2>1, <2>2
  <1> QED BY <1>3, <1>8, <1>9 DEF EdgesIInv

(* A job that is dropped had sent nothing.                                  *)
LEMMA DropNodeEdges ==
    ASSUME DagIInv, EdgesIInv, NEW n \in TaskIds, DropNode(n)
    PROVE  EdgesIInv'
  <1> DEFINE owned == {EdgeId(<<n, m>>) : m \in TaskIds}
  <1>1. /\ stage[n] = "released" /\ UNCHANGED <<sending, satisfied>>
        /\ stage' = [stage EXCEPT ![n] = "dropped"] /\ Cancel(owned)
    BY DEF DropNode
  <1>2. WaitingCanStart' /\ \A id : Keeps(id, {p \in pending : p.id \notin owned}, events)
    BY <1>1, CancelKeeps DEF EdgesIInv
  <1>3. ~Sent(n) /\ \A id \in owned : id.kind = "Edge" /\ id.from = n
    BY <1>1 DEF Sent, EdgeId
  <1>4. \A p \in pending : p.id \notin owned
    BY <1>3 DEF DagIInv, OnlySentByCompleted
  <1>5. \A e \in Pairs : Keeps(EdgeId(e), pending, events)
    <2>1. {p \in pending : p.id \notin owned} = pending
      BY <1>4
    <2> QED BY <1>2, <2>1
  <1>6. \A m \in TaskIds : stage'[m] = "completed" => stage[m] = "completed"
    BY <1>1 DEF DagIInv, DagTypeOK
  <1> QED BY <1>1, <1>2, <1>5, <1>6, EdgesFrame

(* What other jobs do to the interconnect.                                  *)
LEMMA OtherJobsEdges ==
    ASSUME DagIInv, EdgesIInv,
           \/ \E k \in DOMAIN OtherJobs : DispatchOther(k) \/ DropOther(k)
           \/ \E ev \in events : HandleTransferComplete(ev)
    PROVE  EdgesIInv'
  <1>1. UNCHANGED <<stage, satisfied, sending>>
    BY DEF DispatchOther, DropOther, HandleTransferComplete, trackerVars
  <1>2. \A e, k : EdgeId(e) # JobId(k) /\ EdgeId(e).kind = "Edge"
    BY DEF EdgeId, JobId
  <1>3. WaitingCanStart' /\ \A e \in Pairs : Keeps(EdgeId(e), pending, events)
    <2>1. ASSUME NEW k \in DOMAIN OtherJobs, DispatchOther(k)
          PROVE  WaitingCanStart' /\ \A e \in Pairs : Keeps(EdgeId(e), pending, events)
      <3>1. PICK from, to, size, priority : Initiate(JobId(k), from, to, size, priority)
        BY <2>1 DEF DispatchOther
      <3>2. WaitingCanStart' /\ \A x : x # JobId(k) => Keeps(x, pending, events)
        BY <3>1, InitiateKeeps DEF EdgesIInv
      <3> QED BY <1>2, <3>2
    <2>2. ASSUME NEW k \in DOMAIN OtherJobs, DropOther(k)
          PROVE  WaitingCanStart' /\ \A e \in Pairs : Keeps(EdgeId(e), pending, events)
      <3>1. WaitingCanStart'
            /\ \A id : Keeps(id, {p \in pending : p.id \notin {JobId(k)}}, events)
        BY <2>2, CancelKeeps DEF DropOther, EdgesIInv
      <3>2. \A e : OnTheWay(EdgeId(e), {p \in pending : p.id \notin {JobId(k)}}, events)
                   <=> OnTheWay(EdgeId(e), pending, events)
        BY <1>2 DEF OnTheWay
      <3> QED BY <3>1, <3>2 DEF Keeps
    <2>3. ASSUME NEW ev \in events, HandleTransferComplete(ev)
          PROVE  WaitingCanStart' /\ \A e \in Pairs : Keeps(EdgeId(e), pending, events)
      <3>1. \A e : EdgeId(e) # ev.id
        BY <1>2, <2>3 DEF HandleTransferComplete
      <3>2. \A e : OnTheWay(EdgeId(e), pending, events \ {ev})
                   <=> OnTheWay(EdgeId(e), pending, events)
        BY <3>1 DEF OnTheWay
      <3>3. CASE Finish(ev)
        BY <3>2, <3>3, FinishKeeps DEF Keeps, EdgesIInv
      <3>4. CASE events' = events \ {ev} /\ UNCHANGED <<active, pending, stamp, others>>
        BY <3>1, <3>4
        DEF EdgesIInv, WaitingCanStart, Keeps, OnTheWay, AtMostOnce, Queued, Moving
      <3> QED BY <2>3, <3>3, <3>4 DEF HandleTransferComplete
    <2> QED BY <2>1, <2>2, <2>3
  <1> QED BY <1>1, <1>3, EdgesFrame

(* Every step keeps every transfer accounted for.                           *)
LEMMA StepAccounts == DagIInv /\ EdgesIInv /\ [Next]_vars => EdgesIInv'
  <1> SUFFICES ASSUME DagIInv, EdgesIInv, [Next]_vars PROVE EdgesIInv'
    OBVIOUS
  <1>1. CASE Tick \/ EndSimulation \/ UNCHANGED vars
    <2>1. UNCHANGED <<stage, satisfied, sending, pending, events>>
      BY <1>1 DEF Tick, EndSimulation, vars, trackerVars, transferVars
    <2>2. WaitingCanStart' /\ \A id : Keeps(id, pending, events)
      BY <2>1 DEF EdgesIInv, WaitingCanStart, Keeps, OnTheWay, AtMostOnce, Queued, Moving
    <2> QED BY <2>1, <2>2, EdgesFrame
  <1> QED
    BY <1>1, CompleteNodeEdges, StartEdgeTransferEdges, EdgeTransferEdges, DropNodeEdges,
       OtherJobsEdges
    DEF Next, Stopped

(* At first no transfer has been asked for.                                 *)
LEMMA InitAccounts == Init => EdgesIInv
  <1> SUFFICES ASSUME Init PROVE EdgesIInv
    OBVIOUS
  <1>1. \A n \in TaskIds : stage[n] # "completed"
    BY DEF Init
  <1>2. EdgesAccounted
    BY <1>1, EdgesArePairs DEF EdgesAccounted
  <1> QED
    BY <1>2 DEF Init, EdgesIInv, WaitingCanStart, EdgesAreOnce, AtMostOnce, InFlight, Queued,
                Moving, ToBeSent

(* The inductive invariant of the transfers holds in every reachable state. *)
THEOREM EdgesInvariance == Spec => []EdgesIInv
  BY InitAccounts, StepAccounts, DagInvariance, PTL DEF Spec

(* No transfer of an edge is lost, duplicated or cancelled with that of     *)
(* another job, whatever shares the interconnect with it.                   *)
THEOREM EdgesAreAccounted == Spec => []EdgesAccounted
  <1>1. EdgesIInv => EdgesAccounted
    BY DEF EdgesIInv
  <1> QED BY <1>1, EdgesInvariance, PTL

(* A node that waits, waits for a predecessor that has not completed, for   *)
(* data that is on its way, or for data that has nowhere to go.             *)
THEOREM NobodyIsForgotten == Spec => []NobodyForgotten
  <1>1. DagIInv /\ EdgesIInv => NobodyForgotten
    <2> SUFFICES ASSUME DagIInv, EdgesIInv, DistinctEdges, NEW n \in TaskIds, stage[n] = "blocked"
                 PROVE  \E e \in Incoming(n) :
                           stage[e[1]] # "completed" \/ InFlight(e) \/ TargetDevices(n) = {}
      BY DEF NobodyForgotten
    <2>1. Surplus(n) = 0 /\ remaining[n] > 0 /\ remaining[n] = Cardinality(Unsatisfied(n)) + Surplus(n)
      BY NoSurplus DEF DagIInv, BlockedByTokens, TokensMatch
    <2>2. Unsatisfied(n) # {}
      <3>1. Cardinality({}) = 0
        BY FS_EmptySet
      <3> QED BY <2>1, <3>1
    <2>3. PICK e \in Incoming(n) : e \notin satisfied
      BY <2>2 DEF Unsatisfied
    <2>4. e \in EdgeSet /\ e[2] = n
      BY DEF Incoming
    <2> QED BY <2>3, <2>4 DEF EdgesIInv, EdgesAccounted
  <1> QED BY <1>1, DagInvariance, EdgesInvariance, PTL

-----------------------------------------------------------------------------
(* Refinement                                                               *)

(* Registration leaves the nodes as Precedence has them.                    *)
LEMMA InitRefines == Init => Promise!Init
  <1> SUFFICES ASSUME Init PROVE Promise!Init
    OBVIOUS
  <1>1. \A n \in TaskIds : Promise!Incoming(n) = Incoming(n)
    BY DEF Promise!Incoming, Incoming
  <1>2. \A n \in TaskIds : remaining[n] = 0 <=> Incoming(n) = {}
    BY TokensOfNode DEF Init
  <1>3. stage = [n \in TaskIds |->
                   IF Promise!Incoming(n) = {} THEN "released" ELSE "blocked"]
    BY <1>1, <1>2 DEF Init
  <1> QED BY <1>3 DEF Init, Promise!Init

(* A delivered token is a delivery of Precedence, or changes nothing it     *)
(* sees.                                                                    *)
LEMMA TokenRefines ==
    ASSUME DistinctEdges, DagIInv, NEW e \in Pairs, Sent(e[1]), MarkEdgeSatisfied(e)
    PROVE  \/ e \in EdgeSet /\ Promise!Deliver(e)
           \/ UNCHANGED <<stage, satisfied>>
  <1> USE DEF DagIInv, DagTypeOK
  <1> DEFINE n == e[2]
  <1>1. CASE e \notin EdgeSet \ satisfied
    BY <1>1 DEF MarkEdgeSatisfied, trackerVars
  <1>2. CASE e \in EdgeSet \ satisfied
    <2>1. n \in TaskIds
      BY DEF Pairs
    <2>2. e \in Unsatisfied(n) /\ IsFiniteSet(Unsatisfied(n))
      <3>1. Unsatisfied(n) \in SUBSET Incoming(n) /\ IsFiniteSet(Incoming(n))
        BY TokensOfNode DEF Unsatisfied
      <3>2. IsFiniteSet(Unsatisfied(n))
        BY <3>1, FS_Subset
      <3> QED BY <1>2, <3>2 DEF Unsatisfied, Incoming
    <2>3. remaining[n] = Cardinality(Unsatisfied(n)) /\ remaining[n] \in Nat
      <3>1. Cardinality(Unsatisfied(n)) \in Nat
        BY <2>2, FS_CardinalityType
      <3> QED BY <2>1, <3>1, NoSurplus DEF TokensMatch
    <2>4. remaining[n] > 0
      BY <2>2, <2>3, FS_EmptySet
    <2>5. stage[n] = "blocked"
      BY <2>1, <2>4 DEF BlockedByTokens
    <2>6. remaining[n] - 1 = 0 <=> Unsatisfied(n) \ {e} = {}
      <3>1. /\ IsFiniteSet(Unsatisfied(n) \ {e})
            /\ Cardinality(Unsatisfied(n) \ {e}) = remaining[n] - 1
        BY <2>2, <2>3, FS_RemoveElement
      <3> QED BY <3>1, FS_EmptySet
    <2>7. /\ satisfied' = satisfied \cup {e}
          /\ stage' = IF remaining[n] - 1 = 0
                      THEN [stage EXCEPT ![n] = "released"] ELSE stage
      BY <1>2, <2>4 DEF MarkEdgeSatisfied, ReleasedBy, InTime
    <2>8. Unsatisfied(n) \ {e} = {} <=> Promise!Incoming(n) \subseteq satisfied'
      BY <2>7 DEF Unsatisfied, Incoming, Promise!Incoming
    <2> QED BY <1>2, <2>5, <2>6, <2>7, <2>8 DEF Promise!Deliver, Sent
  <1> QED BY <1>1, <1>2

(* Every step of Dag is one of Precedence or leaves what it sees alone.     *)
LEMMA StepRefines ==
    ASSUME DistinctEdges, DagIInv, [Next]_vars
    PROVE  [Promise!Next]_<<stage, satisfied>>
  <1>1. ASSUME NEW n \in TaskIds, NEW d \in AffinityDevices(n), CompleteNode(n, d)
        PROVE  Promise!Next
    BY <1>1 DEF CompleteNode, Promise!Next, Promise!Complete
  <1>2. ASSUME NEW n \in TaskIds, DropNode(n)
        PROVE  Promise!Next
    BY <1>2 DEF DropNode, Promise!Next, Promise!Drop
  <1>3. ASSUME NEW ev \in events, HandleEdgeTransferComplete(ev)
        PROVE  [Promise!Next]_<<stage, satisfied>>
    <2> DEFINE e == <<ev.id.from, ev.id.to>>
    <2>1. e \in Pairs
      BY <1>3 DEF HandleEdgeTransferComplete, DagIInv, DagTypeOK, TransferIds, EdgeId,
                  JobId, Pairs
    <2>2. Sent(e[1])
      BY <1>3 DEF HandleEdgeTransferComplete, DagIInv, OnlySentByCompleted
    <2>3. MarkEdgeSatisfied(e)
      BY <1>3 DEF HandleEdgeTransferComplete
    <2>4. (e \in EdgeSet /\ Promise!Deliver(e)) \/ UNCHANGED <<stage, satisfied>>
      BY <2>1, <2>2, <2>3, TokenRefines
    <2> QED BY <2>4 DEF Promise!Next
  <1>4. ASSUME \/ \E s \in sending : StartEdgeTransfer(s)
               \/ \E k \in DOMAIN OtherJobs : DispatchOther(k) \/ DropOther(k)
               \/ \E ev \in events : HandleTransferComplete(ev)
               \/ Tick \/ EndSimulation \/ UNCHANGED vars
        PROVE  UNCHANGED <<stage, satisfied>>
    BY <1>4 DEF StartEdgeTransfer, DispatchOther, DropOther, HandleTransferComplete,
                Tick, EndSimulation, vars, trackerVars
  <1> QED BY <1>1, <1>2, <1>3, <1>4 DEF Next, Stopped

(* When no edge is listed twice, nodes are released exactly once, when the  *)
(* data of the last of their predecessors has arrived: for every DAG,       *)
(* interconnect, order of events and traffic of other jobs.                 *)
THEOREM DagImplementsPrecedence ==
    ASSUME DistinctEdges
    PROVE  Spec => ImplementsPrecedence
  <1>1. Init => Promise!Init
    BY InitRefines
  <1>2. DagIInv /\ [Next]_vars => [Promise!Next]_<<stage, satisfied>>
    BY StepRefines
  <1>3. Spec => []DagIInv
    BY DagInvariance
  <1> QED BY <1>1, <1>2, <1>3, PTL DEF Spec, ImplementsPrecedence, Promise!Spec
=============================================================================
