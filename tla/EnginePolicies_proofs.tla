----------------------- MODULE EnginePolicies_proofs -----------------------
(***************************************************************************)
(* Every scheduler of the repository is one of the schedulers Engine       *)
(* allows: each of its answers is in the class of the callback, so every   *)
(* step of the engine under it is a step of Engine, whatever it remembers. *)
(* And what these answers and that memory keep in step with the engine, on *)
(* every platform and for every task set and replay: EDF-VD's HI mode,     *)
(* Federated's dedicated devices, MATCH's mapping.                         *)
(***************************************************************************)
EXTENDS PoliciesInv, Engine_proofs, FiniteSetTheorems

-----------------------------------------------------------------------------
(* The shapes of the answers                                                *)

(* The action is one Engine allows in answer to the call.                   *)
Allowed(a, cb) ==
    /\ cb.on = "arrival" => a \in ArrivalActions(cb.job)
    /\ cb.on = "free" => a \in FreeActions(cb.dev)
    /\ cb.on = "point" => a \in PointActions(cb.dev, cb.job)
    /\ cb.on = "critical" => \E j \in VisibleLoJobs : a = Drop(j)
    /\ cb.on = "reevaluation" => a \in ReevaluationActions(cb.dev)

(* An arriving job placed on a device it has affinity for.                  *)
LEMMA PlacedOnCompatible ==
    ASSUME NEW j, NEW a, NEW D \in SUBSET Compatible(j),
           \/ \E d \in D : a \in {Dispatch(j, d, 0), Enqueue(j, d)}
           \/ \E d \in D : running[d] # NoJob /\ a \in {Preempt(running[d], j, d, FALSE),
                                                       DropThenDispatch(running[d], j, d)}
           \/ a \in {NoAction, Drop(j)}
    PROVE  a \in ArrivalActions(j)
  BY DEF ArrivalActions, CompatibleBusy

(* An arriving job that takes an idle device, preempts or waits.            *)
LEMMA IdleElsePreemptAllowed ==
    ASSUME NEW j, NEW idle \in SUBSET Compatible(j),
           NEW victims \in SUBSET BusyOf(Compatible(j)), NEW wait \in SUBSET Compatible(j),
           NEW a \in IdleElsePreempt(j, idle, victims, wait)
    PROVE  a \in ArrivalActions(j)
  BY PlacedOnCompatible DEF IdleElsePreempt, BusyOf, NoOpIf

(* A free device given a job of its queue, or left alone.                   *)
LEMMA DispatchNextAllowed ==
    ASSUME NEW d, NEW next \in SUBSET queue[d], NEW a \in DispatchNext(next, d)
    PROVE  a \in FreeActions(d)
  BY DEF DispatchNext, NoOpIf, FreeActions

(* At a preemption point, a job of the queue or nothing.                    *)
LEMMA ReplaceByAllowed ==
    ASSUME NEW j, NEW d, NEW stronger \in SUBSET queue[d], NEW a \in ReplaceBy(stronger, j, d)
    PROVE  a \in PointActions(d, j)
  BY DEF ReplaceBy, NoOpIf, PointActions

(* Doing nothing is allowed, except for a purge.                            *)
LEMMA NoActionAllowed ==
    ASSUME NEW cb, cb.on # "critical" PROVE Allowed(NoAction, cb)
  BY DEF Allowed, ArrivalActions, FreeActions, PointActions, ReevaluationActions

(* The LO jobs in the queues are visible.                                   *)
LEMMA DropQueuedLoAllowed ==
    ASSUME NEW a \in DropQueuedLo PROVE \E j \in VisibleLoJobs : a = Drop(j)
  BY DEF DropQueuedLo, QueuedLo, VisibleLoJobs

(* What a choice by rank chooses from.                                      *)
LEMMA DeviceChoices ==
    ASSUME NEW D
    PROVE  /\ LeastLoaded(D) \subseteq D
           /\ ShortestQueue(D) \subseteq D
           /\ IdleOf(D) \subseteq D
           /\ BusyOf(D) \subseteq D
           /\ LatestRunning(D) \subseteq BusyOf(D)
           /\ FullyPreemptiveOf(D) \subseteq D
           /\ \A j : TargetDevice(j) \subseteq Compatible(j)
  BY DEF LeastLoaded, ShortestQueue, IdleOf, BusyOf, LatestRunning, FullyPreemptiveOf,
         LeastBy, GreatestBy, TargetDevice

(* Whatever a scheduler chooses from a queue is in it.                      *)
LEMMA QueueChoices ==
    ASSUME NEW d, NEW m
    PROVE  /\ Foremost(d) \subseteq queue[d]
           /\ EarliestDeadline(d) \subseteq queue[d]
           /\ MostCritical(d) \subseteq queue[d]
           /\ MostUrgent(d) \subseteq queue[d]
           /\ EdfVdNext(d) \subseteq queue[d]
           /\ LeastLaxity(d, m) \subseteq queue[d]
           /\ LessLax(d, m) \subseteq queue[d]
           /\ CpEdfNext(d, m) \subseteq queue[d]
           /\ GangNext(d, m) \subseteq queue[d]
  BY DEF Foremost, EarliestDeadline, MostCritical, MostUrgent, EdfVdNext, LeastLaxity, LessLax,
         CpEdfNext, GangNext, InGang, LeastBy

-----------------------------------------------------------------------------
(* The schedulers, one by one                                               *)

(* Fixed priorities.                                                        *)
LEMMA FpAllowed ==
    ASSUME NEW cb, NEW a \in FpAnswers(cb)
    PROVE  Allowed(a, cb)
  <1>1. CASE cb.on = "arrival"
    <2>1. TargetDevice(cb.job) \subseteq Compatible(cb.job)
      BY DeviceChoices
    <2>2. a \in ArrivalActions(cb.job)
      BY <1>1, <2>1, PlacedOnCompatible DEF FpAnswers, PlaceOn, IdleOf, BusyOf, NoOpIf
    <2> QED BY <1>1, <2>2 DEF Allowed
  <1>2. CASE cb.on = "free"
    <2>1. a \in DispatchNext(Foremost(cb.dev), cb.dev)
      BY <1>2 DEF FpAnswers
    <2> QED BY <1>2, <2>1, QueueChoices, DispatchNextAllowed DEF Allowed
  <1>3. CASE cb.on = "point"
    <2>1. Foremost(cb.dev) \subseteq queue[cb.dev]
      BY QueueChoices
    <2>2. a \in PointActions(cb.dev, cb.job)
      BY <1>3, <2>1 DEF FpAnswers, ReplaceBy, NoOpIf, PointActions
    <2> QED BY <1>3, <2>2 DEF Allowed
  <1>4. CASE cb.on = "critical"
    BY <1>4, DropQueuedLoAllowed DEF FpAnswers, Allowed
  <1>5. CASE cb.on = "reevaluation"
    BY <1>5, NoActionAllowed DEF FpAnswers
  <1> QED BY <1>1, <1>2, <1>3, <1>4, <1>5 DEF Allowed

(* EDF.                                                                     *)
LEMMA EdfAllowed ==
    ASSUME NEW cb, NEW a \in EdfAnswers(cb)
    PROVE  Allowed(a, cb)
  <1>1. CASE cb.on = "arrival"
    <2>1. TargetDevice(cb.job) \subseteq Compatible(cb.job)
      BY DeviceChoices
    <2>2. a \in ArrivalActions(cb.job)
      BY <1>1, <2>1, PlacedOnCompatible DEF EdfAnswers, PlaceOn, IdleOf, BusyOf, NoOpIf
    <2> QED BY <1>1, <2>2 DEF Allowed
  <1>2. CASE cb.on = "free"
    <2>1. a \in DispatchNext(EarliestDeadline(cb.dev), cb.dev)
      BY <1>2 DEF EdfAnswers
    <2> QED BY <1>2, <2>1, QueueChoices, DispatchNextAllowed DEF Allowed
  <1>3. CASE cb.on = "point"
    <2>1. EarliestDeadline(cb.dev) \subseteq queue[cb.dev]
      BY QueueChoices
    <2>2. a \in PointActions(cb.dev, cb.job)
      BY <1>3, <2>1 DEF EdfAnswers, EdfPoint, ReplaceBy, NoOpIf, PointActions
    <2> QED BY <1>3, <2>2 DEF Allowed
  <1>4. CASE cb.on = "critical"
    BY <1>4, DropQueuedLoAllowed DEF EdfAnswers, Allowed
  <1>5. CASE cb.on = "reevaluation"
    BY <1>5, NoActionAllowed DEF EdfAnswers
  <1> QED BY <1>1, <1>2, <1>3, <1>4, <1>5 DEF Allowed

(* Global EDF's answers to an arrival.                                      *)
LEMMA GlobalEdfArrivalAllowed ==
    ASSUME NEW j, NEW a \in GlobalEdfArrival(j) PROVE a \in ArrivalActions(j)
  BY DeviceChoices, IdleElsePreemptAllowed DEF GlobalEdfArrival

(* Global EDF.                                                              *)
LEMMA GlobalEdfAllowed ==
    ASSUME NEW cb, NEW a \in GlobalEdfAnswers(cb)
    PROVE  Allowed(a, cb)
  <1>1. CASE cb.on = "arrival"
    <2>1. a \in GlobalEdfArrival(cb.job)
      BY <1>1 DEF GlobalEdfAnswers
    <2> QED BY <1>1, <2>1, GlobalEdfArrivalAllowed DEF Allowed
  <1>2. CASE cb.on = "free"
    <2>1. a \in DispatchNext(EarliestDeadline(cb.dev), cb.dev)
      BY <1>2 DEF GlobalEdfAnswers
    <2> QED BY <1>2, <2>1, QueueChoices, DispatchNextAllowed DEF Allowed
  <1>3. CASE cb.on = "point"
    <2>1. EarliestDeadline(cb.dev) \subseteq queue[cb.dev]
      BY QueueChoices
    <2>2. a \in PointActions(cb.dev, cb.job)
      BY <1>3, <2>1 DEF GlobalEdfAnswers, EdfPoint, ReplaceBy, NoOpIf, PointActions
    <2> QED BY <1>3, <2>2 DEF Allowed
  <1>4. CASE cb.on = "critical"
    BY <1>4, DropQueuedLoAllowed DEF GlobalEdfAnswers, Allowed
  <1>5. CASE cb.on = "reevaluation"
    BY <1>5, NoActionAllowed DEF GlobalEdfAnswers
  <1> QED BY <1>1, <1>2, <1>3, <1>4, <1>5 DEF Allowed

(* EDF-VD's answers to an arrival.                                          *)
LEMMA EdfVdArrivalAllowed ==
    ASSUME NEW j, NEW a \in EdfVdArrival(j) PROVE a \in ArrivalActions(j)
  <1>1. LeastLoaded(Compatible(j)) \subseteq Compatible(j)
    BY DeviceChoices
  <1> QED BY <1>1, PlacedOnCompatible DEF EdfVdArrival, PlaceOn, IdleOf, BusyOf, NoOpIf

(* EDF-VD, whose preemption points may also drop the running job.           *)
LEMMA EdfVdAllowed ==
    ASSUME NEW cb, NEW a \in EdfVdAnswers(cb)
    PROVE  Allowed(a, cb)
  <1>1. CASE cb.on = "arrival"
    <2>1. a \in EdfVdArrival(cb.job)
      BY <1>1 DEF EdfVdAnswers
    <2> QED BY <1>1, <2>1, EdfVdArrivalAllowed DEF Allowed
  <1>2. CASE cb.on = "free"
    <2>1. a \in DispatchNext(EdfVdNext(cb.dev), cb.dev)
      BY <1>2 DEF EdfVdAnswers
    <2> QED BY <1>2, <2>1, QueueChoices, DispatchNextAllowed DEF Allowed
  <1>3. CASE cb.on = "point"
    <2>1. EdfVdNext(cb.dev) \subseteq queue[cb.dev]
      BY QueueChoices
    <2>2. a \in PointActions(cb.dev, cb.job)
      BY <1>3, <2>1 DEF EdfVdAnswers, EdfVdPoint, ReplaceBy, NoOpIf, PointActions
    <2> QED BY <1>3, <2>2 DEF Allowed
  <1>4. CASE cb.on = "critical"
    BY <1>4 DEF EdfVdAnswers, FirstOf, Allowed
  <1>5. CASE cb.on = "reevaluation"
    BY <1>5, NoActionAllowed DEF EdfVdAnswers
  <1> QED BY <1>1, <1>2, <1>3, <1>4, <1>5 DEF Allowed

(* LLF, the only one that answers a reevaluation.                           *)
LEMMA LlfAllowed ==
    ASSUME NEW cb, NEW m, NEW a \in LlfAnswers(cb, m)
    PROVE  Allowed(a, cb)
  <1>1. CASE cb.on = "arrival"
    <2>1. LeastLoaded(Compatible(cb.job)) \subseteq Compatible(cb.job)
      BY DeviceChoices
    <2>2. a \in ArrivalActions(cb.job)
      BY <1>1, <2>1, PlacedOnCompatible DEF LlfAnswers, PlaceOn, IdleOf, BusyOf, NoOpIf
    <2> QED BY <1>1, <2>2 DEF Allowed
  <1>2. CASE cb.on = "free"
    <2>1. a \in DispatchNext(LeastLaxity(cb.dev, m), cb.dev)
      BY <1>2 DEF LlfAnswers
    <2> QED BY <1>2, <2>1, QueueChoices, DispatchNextAllowed DEF Allowed
  <1>3. CASE cb.on = "point"
    <2>1. LessLax(cb.dev, m) \subseteq queue[cb.dev]
      BY QueueChoices
    <2>2. a \in PointActions(cb.dev, cb.job)
      BY <1>3, <2>1 DEF LlfAnswers, ReplaceBy, NoOpIf, PointActions
    <2> QED BY <1>3, <2>2 DEF Allowed
  <1>4. CASE cb.on = "critical"
    BY <1>4, DropQueuedLoAllowed DEF LlfAnswers, Allowed
  <1>5. CASE cb.on = "reevaluation"
    <2>1. LessLax(cb.dev, m) \subseteq queue[cb.dev]
      BY QueueChoices
    <2>2. a \in ReevaluationActions(cb.dev)
      BY <1>5, <2>1 DEF LlfAnswers, LlfReevaluation, FullyPreemptive, NoOpIf, ReevaluationActions
    <2> QED BY <1>5, <2>2 DEF Allowed
  <1> QED BY <1>1, <1>2, <1>3, <1>4, <1>5 DEF Allowed

(* CP-EDF.                                                                  *)
LEMMA CpEdfAllowed ==
    ASSUME NEW cb, NEW m, NEW a \in CpEdfAnswers(cb, m)
    PROVE  Allowed(a, cb)
  <1>1. CASE cb.on = "arrival"
    <2>1. LeastLoaded(Compatible(cb.job)) \subseteq Compatible(cb.job)
      BY DeviceChoices
    <2>2. a \in ArrivalActions(cb.job)
      BY <1>1, <2>1, PlacedOnCompatible DEF CpEdfAnswers, PlaceOn, IdleOf, BusyOf, NoOpIf
    <2> QED BY <1>1, <2>2 DEF Allowed
  <1>2. CASE cb.on = "free"
    <2>1. a \in DispatchNext(CpEdfNext(cb.dev, m), cb.dev)
      BY <1>2 DEF CpEdfAnswers
    <2> QED BY <1>2, <2>1, QueueChoices, DispatchNextAllowed DEF Allowed
  <1>3. CASE cb.on = "point"
    <2>1. CpEdfNext(cb.dev, m) \subseteq queue[cb.dev]
      BY QueueChoices
    <2>2. a \in PointActions(cb.dev, cb.job)
      BY <1>3, <2>1 DEF CpEdfAnswers, ReplaceBy, NoOpIf, PointActions
    <2> QED BY <1>3, <2>2 DEF Allowed
  <1>4. CASE cb.on = "critical"
    BY <1>4, DropQueuedLoAllowed DEF CpEdfAnswers, Allowed
  <1>5. CASE cb.on = "reevaluation"
    BY <1>5, NoActionAllowed DEF CpEdfAnswers
  <1> QED BY <1>1, <1>2, <1>3, <1>4, <1>5 DEF Allowed

(* Federated.                                                               *)
LEMMA FederatedAllowed ==
    ASSUME NEW cb, NEW m, NEW a \in FederatedAnswers(cb, m)
    PROVE  Allowed(a, cb)
  <1>1. CASE cb.on = "arrival"
    <2>1. FederatedTarget(cb.job, m) \subseteq Compatible(cb.job)
      BY DeviceChoices DEF FederatedTarget
    <2>2. a \in ArrivalActions(cb.job)
      BY <1>1, <2>1, PlacedOnCompatible DEF FederatedAnswers, PlaceOn, IdleOf, BusyOf, NoOpIf
    <2> QED BY <1>1, <2>2 DEF Allowed
  <1>2. CASE cb.on = "free"
    <2>1. a \in DispatchNext(EarliestDeadline(cb.dev), cb.dev)
      BY <1>2 DEF FederatedAnswers
    <2> QED BY <1>2, <2>1, QueueChoices, DispatchNextAllowed DEF Allowed
  <1>3. CASE cb.on = "point"
    <2>1. EarliestDeadline(cb.dev) \subseteq queue[cb.dev]
      BY QueueChoices
    <2>2. a \in PointActions(cb.dev, cb.job)
      BY <1>3, <2>1 DEF FederatedAnswers, ReplaceBy, NoOpIf, PointActions
    <2> QED BY <1>3, <2>2 DEF Allowed
  <1>4. CASE cb.on = "critical"
    BY <1>4, DropQueuedLoAllowed DEF FederatedAnswers, Allowed
  <1>5. CASE cb.on = "reevaluation"
    BY <1>5, NoActionAllowed DEF FederatedAnswers
  <1> QED BY <1>1, <1>2, <1>3, <1>4, <1>5 DEF Allowed

(* Gang's answers to an arrival.                                            *)
LEMMA GangArrivalAllowed ==
    ASSUME NEW j, NEW m, NEW a \in GangArrival(j, m) PROVE a \in ArrivalActions(j)
  <1>1. CASE m.activeTask # jobs[j].task
    BY <1>1, DeviceChoices, PlacedOnCompatible DEF GangArrival, NoOpIf
  <1>2. CASE m.activeTask = jobs[j].task
    BY <1>2, DeviceChoices, IdleElsePreemptAllowed DEF GangArrival, GreatestBy
  <1> QED BY <1>1, <1>2

(* Gang.                                                                    *)
LEMMA GangAllowed ==
    ASSUME NEW cb, NEW m, NEW a \in GangAnswers(cb, m)
    PROVE  Allowed(a, cb)
  <1>1. CASE cb.on = "arrival"
    <2>1. a \in GangArrival(cb.job, m)
      BY <1>1 DEF GangAnswers
    <2> QED BY <1>1, <2>1, GangArrivalAllowed DEF Allowed
  <1>2. CASE cb.on = "free"
    <2>1. a \in DispatchNext(GangNext(cb.dev, m), cb.dev)
      BY <1>2 DEF GangAnswers
    <2> QED BY <1>2, <2>1, QueueChoices, DispatchNextAllowed DEF Allowed
  <1>3. CASE cb.on = "point"
    <2>1. GangNext(cb.dev, m) \subseteq queue[cb.dev]
      BY QueueChoices
    <2>2. a \in PointActions(cb.dev, cb.job)
      BY <1>3, <2>1 DEF GangAnswers, ReplaceBy, NoOpIf, PointActions
    <2> QED BY <1>3, <2>2 DEF Allowed
  <1>4. CASE cb.on = "critical"
    BY <1>4, DropQueuedLoAllowed DEF GangAnswers, Allowed
  <1>5. CASE cb.on = "reevaluation"
    BY <1>5, NoActionAllowed DEF GangAnswers
  <1> QED BY <1>1, <1>2, <1>3, <1>4, <1>5 DEF Allowed

(* A planned device is one the task has affinity for.                       *)
LEMMA HeftTargetIsCompatible ==
    ASSUME NEW j, jobs[j].task \in TaskIds PROVE HeftTarget(j) \subseteq Compatible(j)
  <1>1. CASE <<DagOf(j), NodeOf(j)>> \in DOMAIN Plan
    <2>1. Plan[<<DagOf(j), NodeOf(j)>>] \in Compatible(j)
      BY <1>1, CpuPoliciesAssumption DEF DagOf, NodeOf, Compatible, TaskOf
    <2> QED BY <1>1, <2>1 DEF HeftTarget
  <1>2. CASE <<DagOf(j), NodeOf(j)>> \notin DOMAIN Plan
    BY <1>2, DeviceChoices DEF HeftTarget
  <1> QED BY <1>1, <1>2

(* HEFT.                                                                    *)
LEMMA HeftAllowed ==
    ASSUME NEW cb, cb.on = "arrival" => jobs[cb.job].task \in TaskIds, NEW a \in HeftAnswers(cb)
    PROVE  Allowed(a, cb)
  <1>1. CASE cb.on = "arrival"
    <2>1. HeftTarget(cb.job) \subseteq Compatible(cb.job)
      BY <1>1, HeftTargetIsCompatible
    <2>2. a \in ArrivalActions(cb.job)
      BY <1>1, <2>1, PlacedOnCompatible DEF HeftAnswers, PlaceOn, IdleOf, BusyOf, NoOpIf
    <2> QED BY <1>1, <2>2 DEF Allowed
  <1>2. CASE cb.on = "free"
    <2>1. a \in DispatchNext(Foremost(cb.dev), cb.dev)
      BY <1>2 DEF HeftAnswers
    <2> QED BY <1>2, <2>1, QueueChoices, DispatchNextAllowed DEF Allowed
  <1>3. CASE cb.on = "point"
    BY <1>3, NoActionAllowed DEF HeftAnswers
  <1>4. CASE cb.on = "critical"
    BY <1>4, DropQueuedLoAllowed DEF HeftAnswers, Allowed
  <1>5. CASE cb.on = "reevaluation"
    BY <1>5, NoActionAllowed DEF HeftAnswers
  <1> QED BY <1>1, <1>2, <1>3, <1>4, <1>5 DEF Allowed

(* GCAPS, and with it XSched.                                               *)
LEMMA GcapsAllowed ==
    ASSUME NEW cb, NEW a \in GcapsAnswers(cb)
    PROVE  Allowed(a, cb)
  <1>1. CASE cb.on = "arrival"
    <2>1. LeastLoaded(Compatible(cb.job)) \subseteq Compatible(cb.job)
      BY DeviceChoices
    <2>2. a \in ArrivalActions(cb.job)
      BY <1>1, <2>1, PlacedOnCompatible DEF GcapsAnswers, PlaceOn, IdleOf, BusyOf, NoOpIf
    <2> QED BY <1>1, <2>2 DEF Allowed
  <1>2. CASE cb.on = "free"
    <2>1. a \in DispatchNext(MostCritical(cb.dev), cb.dev)
      BY <1>2 DEF GcapsAnswers
    <2> QED BY <1>2, <2>1, QueueChoices, DispatchNextAllowed DEF Allowed
  <1>3. CASE cb.on = "point"
    <2>1. MostCritical(cb.dev) \subseteq queue[cb.dev]
      BY QueueChoices
    <2>2. a \in PointActions(cb.dev, cb.job)
      BY <1>3, <2>1 DEF GcapsAnswers, CriticalPoint, ReplaceBy, NoOpIf, PointActions
    <2> QED BY <1>3, <2>2 DEF Allowed
  <1>4. CASE cb.on = "critical"
    BY <1>4, DropQueuedLoAllowed DEF GcapsAnswers, Allowed
  <1>5. CASE cb.on = "reevaluation"
    BY <1>5, NoActionAllowed DEF GcapsAnswers
  <1> QED BY <1>1, <1>2, <1>3, <1>4, <1>5 DEF Allowed

(* GPreempt's answers to an arrival.                                        *)
LEMMA GPreemptArrivalAllowed ==
    ASSUME NEW j, NEW a \in GPreemptArrival(j) PROVE a \in ArrivalActions(j)
  BY IdleElsePreemptAllowed, DeviceChoices
  DEF GPreemptArrival, GreatestBy, BusyOf, FullyPreemptiveOf

(* GPreempt.                                                                *)
LEMMA GPreemptAllowed ==
    ASSUME NEW cb, NEW a \in GPreemptAnswers(cb)
    PROVE  Allowed(a, cb)
  <1>1. CASE cb.on = "arrival"
    <2>1. a \in GPreemptArrival(cb.job)
      BY <1>1 DEF GPreemptAnswers
    <2> QED BY <1>1, <2>1, GPreemptArrivalAllowed DEF Allowed
  <1>2. CASE cb.on = "free"
    <2>1. a \in DispatchNext(MostCritical(cb.dev), cb.dev)
      BY <1>2 DEF GPreemptAnswers
    <2> QED BY <1>2, <2>1, QueueChoices, DispatchNextAllowed DEF Allowed
  <1>3. CASE cb.on = "point"
    <2>1. MostCritical(cb.dev) \subseteq queue[cb.dev]
      BY QueueChoices
    <2>2. a \in PointActions(cb.dev, cb.job)
      BY <1>3, <2>1 DEF GPreemptAnswers, CriticalPoint, ReplaceBy, NoOpIf, PointActions
    <2> QED BY <1>3, <2>2 DEF Allowed
  <1>4. CASE cb.on = "critical"
    BY <1>4, DropQueuedLoAllowed DEF GPreemptAnswers, Allowed
  <1>5. CASE cb.on = "reevaluation"
    BY <1>5, NoActionAllowed DEF GPreemptAnswers
  <1> QED BY <1>1, <1>2, <1>3, <1>4, <1>5 DEF Allowed

(* A victim runs on one of the devices looked at.                           *)
LEMMA GpuPpArrivalAllowed ==
    ASSUME NEW j, NEW a \in GpuPpArrival(j) PROVE a \in ArrivalActions(j)
  <1>1. GpusFirst(j) \subseteq Compatible(j)
    BY DEF GpusFirst
  <1>2. Victims(j, GpusFirst(j), PriorityRank) \subseteq BusyOf(Compatible(j))
    BY <1>1 DEF Victims, GreatestBy, BusyOf, FullyPreemptiveOf
  <1> QED BY <1>1, <1>2, DeviceChoices, IdleElsePreemptAllowed DEF GpuPpArrival

(* GPU preemptive priorities.                                               *)
LEMMA GpuPpAllowed ==
    ASSUME NEW cb, NEW a \in GpuPpAnswers(cb)
    PROVE  Allowed(a, cb)
  <1>1. CASE cb.on = "arrival"
    <2>1. a \in GpuPpArrival(cb.job)
      BY <1>1 DEF GpuPpAnswers
    <2> QED BY <1>1, <2>1, GpuPpArrivalAllowed DEF Allowed
  <1>2. CASE cb.on = "free"
    <2>1. a \in DispatchNext(MostUrgent(cb.dev), cb.dev)
      BY <1>2 DEF GpuPpAnswers
    <2> QED BY <1>2, <2>1, QueueChoices, DispatchNextAllowed DEF Allowed
  <1>3. CASE cb.on = "point"
    <2>1. MostUrgent(cb.dev) \subseteq queue[cb.dev]
      BY QueueChoices
    <2>2. a \in PointActions(cb.dev, cb.job)
      BY <1>3, <2>1 DEF GpuPpAnswers, ReplaceBy, NoOpIf, PointActions
    <2> QED BY <1>3, <2>2 DEF Allowed
  <1>4. CASE cb.on = "critical"
    BY <1>4, DropQueuedLoAllowed DEF GpuPpAnswers, Allowed
  <1>5. CASE cb.on = "reevaluation"
    BY <1>5, NoActionAllowed DEF GpuPpAnswers
  <1> QED BY <1>1, <1>2, <1>3, <1>4, <1>5 DEF Allowed

(* RTGPU's answers to an arrival.                                           *)
LEMMA RtgpuArrivalAllowed ==
    ASSUME NEW j, NEW a \in RtgpuArrival(j) PROVE a \in ArrivalActions(j)
  <1>1. Victims(j, Compatible(j), CriticalRank) \subseteq BusyOf(Compatible(j))
    BY DEF Victims, GreatestBy, BusyOf, FullyPreemptiveOf
  <1> QED BY <1>1, DeviceChoices, IdleElsePreemptAllowed DEF RtgpuArrival, LeastBy

(* RTGPU.                                                                   *)
LEMMA RtgpuAllowed ==
    ASSUME NEW cb, NEW a \in RtgpuAnswers(cb)
    PROVE  Allowed(a, cb)
  <1>1. CASE cb.on = "arrival"
    <2>1. a \in RtgpuArrival(cb.job)
      BY <1>1 DEF RtgpuAnswers
    <2> QED BY <1>1, <2>1, RtgpuArrivalAllowed DEF Allowed
  <1>2. CASE cb.on = "free"
    <2>1. a \in DispatchNext(MostCritical(cb.dev), cb.dev)
      BY <1>2 DEF RtgpuAnswers
    <2> QED BY <1>2, <2>1, QueueChoices, DispatchNextAllowed DEF Allowed
  <1>3. CASE cb.on = "point"
    <2>1. MostCritical(cb.dev) \subseteq queue[cb.dev]
      BY QueueChoices
    <2>2. a \in PointActions(cb.dev, cb.job)
      BY <1>3, <2>1 DEF RtgpuAnswers, CriticalPoint, ReplaceBy, NoOpIf, PointActions
    <2> QED BY <1>3, <2>2 DEF Allowed
  <1>4. CASE cb.on = "critical"
    BY <1>4, DropQueuedLoAllowed DEF RtgpuAnswers, Allowed
  <1>5. CASE cb.on = "reevaluation"
    BY <1>5, NoActionAllowed DEF RtgpuAnswers
  <1> QED BY <1>1, <1>2, <1>3, <1>4, <1>5 DEF Allowed

(* MATCH.                                                                   *)
LEMMA MatchAllowed ==
    ASSUME NEW cb, NEW m, NEW a \in MatchAnswers(cb, m)
    PROVE  Allowed(a, cb)
  <1>1. CASE cb.on = "arrival"
    <2>1. MatchChoice(cb.job, m) \subseteq Compatible(cb.job)
      BY DEF MatchChoice, LeastBy
    <2>2. a \in ArrivalActions(cb.job)
      BY <1>1, <2>1, PlacedOnCompatible DEF MatchAnswers, PlaceOn, IdleOf, BusyOf, NoOpIf
    <2> QED BY <1>1, <2>2 DEF Allowed
  <1>2. CASE cb.on = "free"
    <2>1. a \in DispatchNext(MostCritical(cb.dev), cb.dev)
      BY <1>2 DEF MatchAnswers
    <2> QED BY <1>2, <2>1, QueueChoices, DispatchNextAllowed DEF Allowed
  <1>3. CASE cb.on = "point"
    <2>1. MostCritical(cb.dev) \subseteq queue[cb.dev]
      BY QueueChoices
    <2>2. a \in PointActions(cb.dev, cb.job)
      BY <1>3, <2>1 DEF MatchAnswers, CriticalPoint, ReplaceBy, NoOpIf, PointActions
    <2> QED BY <1>3, <2>2 DEF Allowed
  <1>4. CASE cb.on = "critical"
    BY <1>4, DropQueuedLoAllowed DEF MatchAnswers, Allowed
  <1>5. CASE cb.on = "reevaluation"
    BY <1>5, NoActionAllowed DEF MatchAnswers
  <1> QED BY <1>1, <1>2, <1>3, <1>4, <1>5 DEF Allowed

-----------------------------------------------------------------------------
(* The engine under a scheduler                                             *)

(* Whichever scheduler is in use, its answer is allowed.                    *)
LEMMA AnswersAllowed ==
    ASSUME policy \in Schedulers, NEW cb, NEW m,
           cb.on = "arrival" => jobs[cb.job].task \in TaskIds,
           NEW a \in Answers(cb, m)
    PROVE  Allowed(a, cb)
  BY FpAllowed, EdfAllowed, GlobalEdfAllowed, EdfVdAllowed, LlfAllowed, CpEdfAllowed,
     FederatedAllowed, GangAllowed, HeftAllowed, GcapsAllowed, GPreemptAllowed, GpuPpAllowed,
     RtgpuAllowed, MatchAllowed
  DEF Schedulers, Answers, XSchedAnswers

(* A job whose event is pending has been created.                           *)
LEMMA ArrivingJobIsKnown ==
    ASSUME IInv, NEW e \in events, e.kind \in {"TaskArrival", "TransferComplete"}
    PROVE  jobs[e.job].task \in TaskIds
  <1>1. e.job \in JobIds
    BY DEF IInv, EventsAreSound, EventsAreWellFormed, VersionedKinds
  <1> QED BY <1>1 DEF IInv, TypeOK, JobRecord

(* Every step under a scheduler is a step of Engine.                        *)
LEMMA PolicyStepIsEngineStep ==
    ASSUME IInv, policy \in Schedulers, PolicyStep
    PROVE  SchedulerStep
  <1>1. ASSUME NEW e \in EventsOf("TaskArrival"), NEW a \in Answers(Arriving(e), mem'),
               TaskArrival(e, a)
        PROVE  SchedulerStep
    <2>1. jobs[e.job].task \in TaskIds
      BY ArrivingJobIsKnown DEF EventsOf
    <2>2. Allowed(a, Arriving(e))
      BY <2>1, AnswersAllowed DEF Arriving, Call
    <2>3. a \in ArrivalActions(e.job)
      BY <2>2 DEF Allowed, Arriving, Call
    <2> QED BY <1>1, <2>3 DEF SchedulerStep
  <1>2. ASSUME NEW e \in EventsOf("JobComplete"), NEW a \in Answers(Completed(e), mem'),
               JobComplete(e, a)
        PROVE  SchedulerStep
    <2>1. Allowed(a, Completed(e))
      BY AnswersAllowed DEF Completed, Call
    <2>2. a \in FreeActions(e.dev)
      BY <2>1 DEF Allowed, Completed, Call
    <2> QED BY <1>2, <2>2 DEF SchedulerStep
  <1>3. ASSUME NEW e \in EventsOf("PreemptionPoint"), NEW a \in Answers(AtPoint(e), mem'),
               PreemptionPoint(e, a)
        PROVE  SchedulerStep
    <2>1. Allowed(a, AtPoint(e))
      BY AnswersAllowed DEF AtPoint, Call
    <2>2. a \in PointActions(e.dev, e.job)
      BY <2>1 DEF Allowed, AtPoint, Call
    <2> QED BY <1>3, <2>2 DEF SchedulerStep
  <1>4. ASSUME NEW e \in EventsOf("TransferComplete"), NEW a \in Answers(Arriving(e), mem'),
               TransferComplete(e, a)
        PROVE  SchedulerStep
    <2>1. jobs[e.job].task \in TaskIds
      BY ArrivingJobIsKnown DEF EventsOf
    <2>2. Allowed(a, Arriving(e))
      BY <2>1, AnswersAllowed DEF Arriving, Call
    <2>3. a \in ArrivalActions(e.job)
      BY <2>2 DEF Allowed, Arriving, Call
    <2> QED BY <1>4, <2>3 DEF SchedulerStep
  <1>5. ASSUME NEW a \in Answers(Switched(now), mem), SchedulerDropsLo(a.job)
        PROVE  SchedulerStep
    <2>1. a.job \in VisibleLoJobs
      BY <1>5 DEF SchedulerDropsLo
    <2> QED BY <1>5, <2>1 DEF SchedulerStep, VisibleLoJobs
  <1>6. ASSUME AtDevice("idle"), running[phase.k] = NoJob, queue[phase.k] # {},
               NEW a \in Answers(Idle(phase.k), mem'), DispatchIdle(a)
        PROVE  SchedulerStep
    <2>1. Allowed(a, Idle(phase.k))
      BY AnswersAllowed DEF Idle, Call
    <2>2. a \in IdleActions(phase.k)
      BY <1>6, <2>1 DEF Allowed, Idle, Call, IdleActions
    <2> QED BY <1>6, <2>2 DEF SchedulerStep
  <1>7. ASSUME AtDevice("idle"), ~(running[phase.k] = NoJob /\ queue[phase.k] # {}),
               DispatchIdle(NoAction)
        PROVE  SchedulerStep
    BY <1>7 DEF SchedulerStep, IdleActions
  <1>8. ASSUME AtDevice("reevaluate") \/ AtDevice("reevaluateTick"),
               NEW a \in Answers(Reevaluated(phase.k, now), mem), Reevaluate(a)
        PROVE  SchedulerStep
    <2>1. Allowed(a, Reevaluated(phase.k, now))
      BY AnswersAllowed DEF Reevaluated, Call
    <2>2. a \in ReevaluationActions(phase.k)
      BY <2>1 DEF Allowed, Reevaluated, Call
    <2> QED BY <1>8, <2>2 DEF SchedulerStep
  <1>9. SchedulerDropsNoMore => SchedulerStep
    BY DEF SchedulerStep
  <1> QED BY <1>1, <1>2, <1>3, <1>4, <1>5, <1>6, <1>7, <1>8, <1>9 DEF PolicyStep

(* So is every step of the specification, or it is a stutter.               *)
LEMMA PolicyNextIsNext ==
    ASSUME IInv, policy \in Schedulers, [PolicyNext]_policyVars
    PROVE  [Next]_vars
  <1>1. CASE EngineStep
    BY <1>1 DEF Next
  <1>2. CASE PolicyStep
    BY <1>2, PolicyStepIsEngineStep DEF Next
  <1>3. CASE UNCHANGED policyVars
    BY <1>3 DEF policyVars
  <1> QED BY <1>1, <1>2, <1>3 DEF PolicyNext

(* The inductive invariant of Engine holds under every scheduler.           *)
THEOREM PolicyInvariance == PolicySpec => []IInv
  <1> DEFINE PInv == IInv /\ policy \in Schedulers
  <1>1. PolicyInit => PInv
    BY InitInv, PoliciesAssumption DEF PolicyInit
  <1>2. PInv /\ [PolicyNext]_policyVars => PInv'
    <2> SUFFICES ASSUME PInv, [PolicyNext]_policyVars PROVE PInv'
      OBVIOUS
    <2>1. IInv'
      BY PolicyNextIsNext, NextInv
    <2>2. policy' = policy
      BY DEF PolicyNext, policyVars
    <2> QED BY <2>1, <2>2
  <1>3. PInv => IInv
    OBVIOUS
  <1> QED BY <1>1, <1>2, <1>3, PTL DEF PolicySpec

(* Under every scheduler of the repository, for every platform, task set    *)
(* and replay, the engine is an engine of Engine: what is proved of Engine  *)
(* holds of it.                                                             *)
THEOREM PoliciesImplementEngine == PolicySpec => ImplementsEngine
  <1> DEFINE PInv == IInv /\ policy \in Schedulers
  <1>1. PolicyInit => PInv /\ Init
    BY InitInv, PoliciesAssumption DEF PolicyInit
  <1>2. PInv /\ [PolicyNext]_policyVars => PInv' /\ [Next]_vars
    <2> SUFFICES ASSUME PInv, [PolicyNext]_policyVars PROVE PInv' /\ [Next]_vars
      OBVIOUS
    <2>1. [Next]_vars /\ IInv'
      BY PolicyNextIsNext, NextInv
    <2>2. policy' = policy
      BY DEF PolicyNext, policyVars
    <2> QED BY <2>1, <2>2
  <1> QED BY <1>1, <1>2, PTL DEF PolicySpec, ImplementsEngine, Spec

-----------------------------------------------------------------------------
(* What the steps of Engine do to jobs, slots and queues                    *)

(* What a job is created with, which nothing changes.                       *)
SameJob(r, s) == r.task = s.task /\ r.deadline = s.deadline /\ r.release = s.release

(* Job j gets a new state and device, and no other job is touched.          *)
Becomes(j, state, d) ==
    /\ nextJob' = nextJob
    /\ \A k \in JobIds : k # j => jobs'[k] = jobs[k]
    /\ jobs'[j].state = state /\ jobs'[j].dev = d
    /\ SameJob(jobs'[j], jobs[j])

JobsStay == nextJob' = nextJob /\ jobs' = jobs
LeavesQueues(j) == \A c \in DeviceIds : queue'[c] = queue[c] \ {j}
Joins(j, d) == queue' = [queue EXCEPT ![d] = @ \cup {j}]

(* No update of a job record changes what the job was created with.         *)
LEMMA UpdatesKeepJob ==
    ASSUME NEW r \in JobRecord
    PROVE  /\ \A s \in JobStates : SameJob(Transition(r, s), r) /\ SameJob(Settle(r, s), r)
           /\ \A d, t : SameJob(Assigned(r, d, t), r) /\ SameJob(Progressed(r, d, t), r)
           /\ \A x : SameJob(Resolved(r, x), r)
           /\ SameJob([r EXCEPT !.start = Unset], r)
           /\ \A x : SameJob([r EXCEPT !.exec = x, !.start = Unset], r)
  BY DEF Transition, Settle, Assigned, Progressed, Resolved, SameJob, JobRecord

(* The steps that create jobs or only touch events, clock and phase.        *)
QuietEffect ==
    /\ nextJob' >= nextJob
    /\ \A k \in JobIds : jobs'[k] = jobs[k]
    /\ \A k \in JobIds' : k \notin JobIds => jobs'[k].state = "Released" /\ jobs'[k].dev = NoDevice
    /\ UNCHANGED <<running, queue, act>>

(* One new job.                                                             *)
LEMMA AddJobEffect ==
    ASSUME IInv, NEW r, NEW t, AddJob(r, t), r.state = "Released", r.dev = NoDevice,
           UNCHANGED <<running, queue, act>>
    PROVE  QuietEffect
  <1>1. nextJob \in Nat /\ JobIds = 0 .. nextJob - 1
    BY DEF IInv, TypeOK, JobIds
  <1>2. /\ nextJob' = nextJob + 1
        /\ jobs' = [j \in 0 .. nextJob |-> IF j = nextJob THEN r ELSE jobs[j]]
    BY DEF AddJob, AppendJob
  <1>3. /\ \A k \in JobIds : jobs'[k] = jobs[k]
        /\ \A k \in JobIds' : k \notin JobIds => jobs'[k] = r
    BY <1>1, <1>2 DEF JobIds
  <1> QED BY <1>1, <1>2, <1>3 DEF QuietEffect

(* No new job.                                                              *)
LEMMA NoJobEffect ==
    ASSUME IInv, UNCHANGED <<nextJob, jobs, running, queue, act>>
    PROVE  QuietEffect
  BY DEF QuietEffect, IInv, TypeOK, JobIds

(* The release of a job, if it is within the duration.                      *)
LEMMA ReleaseEffect ==
    ASSUME IInv, NEW t, NEW release, ScheduleJobRelease(t, release),
           UNCHANGED <<running, queue, act>>
    PROVE  QuietEffect
  <1>1. CASE release > Duration
    BY <1>1, NoJobEffect DEF ScheduleJobRelease, jobVars
  <1>2. CASE ~(release > Duration)
    <2> PICK r : r = NewJob(t, release, release + Task[t].deadline, Unset)
      OBVIOUS
    <2>1. r.state = "Released" /\ r.dev = NoDevice
      BY DEF NewJob
    <2>2. AddJob(r, release + Task[t].deadline)
      BY <1>2 DEF ScheduleJobRelease
    <2> QED BY <2>1, <2>2, AddJobEffect
  <1> QED BY <1>1, <1>2

(* The steps that touch no job, slot or queue.                              *)
Quiet ==
    \/ ScheduleInitialArrival \/ ScheduleReplayJob \/ StartRun
    \/ DiscardStale \/ SimulationEnd
    \/ \E e \in events : BudgetOverrun(e) \/ TriggeredReevaluation(e) \/ PeriodicReevaluation(e)
    \/ ReleaseNextJob \/ ReschedulePoint \/ SchedulerDropsNoMore \/ DispatchIdleDone
    \/ ReevaluateDone \/ ScheduleTriggeredReevaluation \/ Ended

(* None of them does.                                                       *)
LEMMA QuietSteps == IInv /\ Quiet => QuietEffect
  <1> SUFFICES ASSUME IInv, Quiet PROVE QuietEffect
    OBVIOUS
  <1>1. CASE ScheduleInitialArrival
    <2>1. UNCHANGED <<running, queue, act>>
      BY <1>1 DEF ScheduleInitialArrival, deviceVars
    <2> QED BY <1>1, <2>1, ReleaseEffect, NoJobEffect DEF ScheduleInitialArrival, jobVars
  <1>2. CASE ScheduleReplayJob
    <2>1. UNCHANGED <<running, queue, act>>
      BY <1>2 DEF ScheduleReplayJob, deviceVars
    <2>2. CASE phase.k \in DOMAIN ReplayJobs
      <3>1. PICK r, t : AddJob(r, t) /\ r.state = "Released" /\ r.dev = NoDevice
        BY <1>2, <2>2 DEF ScheduleReplayJob, NewJob
      <3> QED BY <2>1, <3>1, AddJobEffect
    <2> QED BY <1>2, <2>1, <2>2, NoJobEffect DEF ScheduleReplayJob, jobVars
  <1>3. CASE ReleaseNextJob
    <2>1. UNCHANGED <<running, queue, act>>
      BY <1>3 DEF ReleaseNextJob, deviceVars
    <2> QED BY <1>3, <2>1, ReleaseEffect, NoJobEffect DEF ReleaseNextJob, jobVars
  <1>4. CASE ~(ScheduleInitialArrival \/ ScheduleReplayJob \/ ReleaseNextJob)
    <2>1. UNCHANGED <<nextJob, jobs, running, queue, act>>
      BY <1>4 DEF Quiet, StartRun, DiscardStale, SimulationEnd, BudgetOverrun,
                  TriggeredReevaluation, PeriodicReevaluation, ReschedulePoint,
                  SchedulerDropsNoMore, DispatchIdleDone, ReevaluateDone,
                  ScheduleTriggeredReevaluation, Ended, vars, jobVars, deviceVars
    <2> QED BY <2>1, NoJobEffect
  <1> QED BY <1>1, <1>2, <1>3, <1>4

(* The five outcomes of a dispatch.                                         *)
LEMMA DispatchTerminalEffect ==
    IInv /\ DispatchTerminal =>
        JobsStay /\ UNCHANGED <<running, queue, level, phase, metrics>> /\ act' = NoAction
  BY DEF DispatchTerminal, JobsStay, jobVars, deviceVars

(* The device is taken: unless by the job itself, the job will wait.        *)
LEMMA DispatchBusyEffect ==
    IInv /\ DispatchBusy =>
        /\ JobsStay /\ UNCHANGED <<running, queue, level, phase, metrics>>
        /\ act.op = "dispatch" /\ ~IsTerminal(act.job) /\ running[act.dev] # NoJob
        /\ act' \in {NoAction, Enqueue(act.job, act.dev)}
        /\ act.job \in Nat /\ act.dev \in DeviceIds
  <1> SUFFICES ASSUME IInv, DispatchBusy
               PROVE  act.job \in JobIds /\ act.dev \in DeviceIds
    BY JobIdsAreNat DEF DispatchBusy, Executing, JobsStay, jobVars, deviceVars, IInv
  <1> QED BY DEF DispatchBusy, Executing, IInv, ActionIsSound, SoundAction, Placeable

(* The device is free: the job leaves its queue.                            *)
LEMMA MayDispatchEffect ==
    ASSUME IInv, MayDispatch
    PROVE  /\ act.op = "dispatch" /\ act' = NoAction /\ ~IsTerminal(act.job)
           /\ act.job \in JobIds /\ act.job \in Nat /\ act.dev \in DeviceIds
           /\ running[act.dev] = NoJob
           /\ \A c \in DeviceIds : running[c] # act.job
           /\ jobs[act.job] \in JobRecord /\ jobs[act.job].task \in TaskIds
           /\ LeavesQueues(act.job)
  <1>1. queue' = [queue EXCEPT ![act.dev] = @ \ {act.job}]
    BY DEF MayDispatch
  <1>2. \A c \in DeviceIds : act.job \in queue[c] => c = act.dev
    BY DispatchBasics, WaitingJob DEF MayDispatch, Executing, IInv, ActionIsSound, SoundAction
  <1>3. queue \in [DeviceIds -> SUBSET JobIds]
    BY DEF IInv, TypeOK
  <1>4. LeavesQueues(act.job)
    BY <1>1, <1>2, <1>3, DispatchBasics DEF LeavesQueues
  <1> QED BY <1>4, DispatchBasics, JobIdsAreNat DEF MayDispatch, IInv

(* Without a model that is all that happens.                                *)
LEMMA DispatchWithoutModelEffect ==
    IInv /\ DispatchWithoutModel =>
        /\ MayDispatch /\ JobsStay /\ UNCHANGED <<running, level, phase, metrics>>
        /\ ExecTimes = {}
  BY DEF DispatchWithoutModel, JobsStay, jobVars

(* A value drawn for a job is a duration.                                   *)
LEMMA DrawnTime ==
    ASSUME IInv, MayDispatch, NEW x \in ExecTimes
    PROVE  x \in Nat
  BY MayDispatchEffect, SampleExecTimeNat DEF ExecTimes, IInv, TypeOK

(* Job j gets the record r.                                                 *)
LEMMA RecordBecomes ==
    ASSUME IInv, NEW j \in JobIds, NEW r, jobs' = [jobs EXCEPT ![j] = r], nextJob' = nextJob,
           SameJob(r, jobs[j])
    PROVE  Becomes(j, r.state, r.dev)
  BY DEF Becomes, IInv, TypeOK, SameJob

(* The data of the job is transferred first.                                *)
LEMMA DispatchTransferEffect ==
    IInv /\ DispatchTransfer =>
        /\ MayDispatch /\ Becomes(act.job, "Transferring", act.dev)
        /\ NeedsTransfer(act.job, act.dev)
        /\ UNCHANGED <<running, level, phase, metrics>>
  <1> SUFFICES ASSUME IInv, DispatchTransfer
               PROVE  Becomes(act.job, "Transferring", act.dev)
    BY DEF DispatchTransfer
  <1>1. PICK x \in ExecTimes :
           jobs' = [jobs EXCEPT ![act.job] =
                      Settle(Assigned(Resolved(jobs[act.job], x), act.dev, Unset), "Transferring")]
    BY DEF DispatchTransfer
  <1>2. MayDispatch /\ nextJob' = nextJob
    BY DEF DispatchTransfer
  <1>3. x \in Nat /\ jobs \in [JobIds -> JobRecord]
    BY <1>2, DrawnTime DEF IInv, TypeOK
  <1> PICK r1 : r1 = Resolved(jobs[act.job], x)
    OBVIOUS
  <1> PICK r2 : r2 = Assigned(r1, act.dev, Unset)
    OBVIOUS
  <1> PICK r3 : r3 = Settle(r2, "Transferring")
    OBVIOUS
  <1>4. r1 \in JobRecord /\ SameJob(r1, jobs[act.job])
    BY <1>2, <1>3, MayDispatchEffect, ResolvedLemma, UpdatesKeepJob
  <1>5. r2 \in JobRecord /\ r2.dev = act.dev /\ SameJob(r2, r1)
    <2>1. Unset \in Nat \cup {Unset} /\ act.dev \in DeviceIds
      BY <1>2, MayDispatchEffect
    <2>2. SameJob(r2, r1)
      BY <1>4, UpdatesKeepJob
    <2> QED BY <1>4, <2>1, <2>2, AssignedLemma
  <1>6. "Transferring" \in JobStates
    BY DEF JobStates
  <1>7. r3.state = "Transferring" /\ r3.dev = act.dev /\ SameJob(r3, r2)
    BY <1>5, <1>6, SettleLemma, UpdatesKeepJob
  <1>8. SameJob(r3, jobs[act.job])
    BY <1>4, <1>5, <1>7 DEF SameJob
  <1> QED BY <1>1, <1>2, <1>7, <1>8, MayDispatchEffect, RecordBecomes

(* The job starts.                                                          *)
LEMMA DispatchRunEffect ==
    IInv /\ DispatchRun =>
        /\ MayDispatch /\ Becomes(act.job, "Running", act.dev)
        /\ ~NeedsTransfer(act.job, act.dev)
        /\ running' = [running EXCEPT ![act.dev] = act.job]
        /\ UNCHANGED <<level, phase, metrics>>
  <1> SUFFICES ASSUME IInv, DispatchRun
               PROVE  Becomes(act.job, "Running", act.dev)
    BY DEF DispatchRun
  <1>1. PICK x \in ExecTimes :
           jobs' = [jobs EXCEPT ![act.job] =
                      Transition(Assigned(Resolved(jobs[act.job], x), act.dev, now), "Running")]
    BY DEF DispatchRun
  <1>2. MayDispatch /\ nextJob' = nextJob
    BY DEF DispatchRun
  <1>3. x \in Nat /\ jobs \in [JobIds -> JobRecord] /\ now \in Nat
    BY <1>2, DrawnTime DEF IInv, TypeOK
  <1> PICK r1 : r1 = Resolved(jobs[act.job], x)
    OBVIOUS
  <1> PICK r2 : r2 = Assigned(r1, act.dev, now)
    OBVIOUS
  <1> PICK r3 : r3 = Transition(r2, "Running")
    OBVIOUS
  <1>4. r1 \in JobRecord /\ SameJob(r1, jobs[act.job])
    BY <1>2, <1>3, MayDispatchEffect, ResolvedLemma, UpdatesKeepJob
  <1>5. r2 \in JobRecord /\ r2.dev = act.dev /\ SameJob(r2, r1)
    <2>1. now \in Nat \cup {Unset} /\ act.dev \in DeviceIds
      BY <1>2, <1>3, MayDispatchEffect
    <2>2. SameJob(r2, r1)
      BY <1>4, UpdatesKeepJob
    <2> QED BY <1>4, <2>1, <2>2, AssignedLemma
  <1>6. "Running" \in JobStates
    BY DEF JobStates
  <1>7. r3.state = "Running" /\ r3.dev = act.dev /\ SameJob(r3, r2)
    BY <1>5, <1>6, TransitionLemma, UpdatesKeepJob
  <1>8. SameJob(r3, jobs[act.job])
    BY <1>4, <1>5, <1>7 DEF SameJob
  <1> QED BY <1>1, <1>2, <1>7, <1>8, MayDispatchEffect, RecordBecomes

(* The victim goes back to the queue of its device, which is free for the   *)
(* job that replaces it.                                                    *)
LEMMA PreemptNowEffect ==
    IInv /\ PreemptNow =>
        /\ act.op = "preempt" /\ AllowsPreemption(act.dev, act.atPoint)
        /\ act.dev \in DeviceIds /\ act.job \in JobIds /\ running[act.dev] = act.job
        /\ act.job # NoJob /\ act.by \in JobIds /\ act.by # act.job
        /\ Becomes(act.job, "Suspended", act.dev) /\ Joins(act.job, act.dev)
        /\ running' = [running EXCEPT ![act.dev] = NoJob]
        /\ act'.op = "dispatch" /\ act'.job = act.by /\ act'.dev = act.dev
        /\ UNCHANGED <<level, phase>> /\ metrics'.missed = metrics.missed
  <1> SUFFICES ASSUME IInv, PreemptNow
               PROVE  /\ act.dev \in DeviceIds /\ act.job \in JobIds /\ act.job # NoJob
                      /\ act.by \in JobIds /\ act.by # act.job
                      /\ Becomes(act.job, "Suspended", act.dev)
                      /\ act'.op = "dispatch" /\ act'.job = act.by /\ act'.dev = act.dev
                      /\ metrics'.missed = metrics.missed
    BY DEF PreemptNow, Executing, Joins
  <1>1. /\ act.op = "preempt" /\ running[act.dev] = act.job /\ nextJob' = nextJob
        /\ jobs' = [jobs EXCEPT ![act.job] =
                      Transition(Progressed(jobs[act.job], act.dev, now), "Suspended")]
        /\ act' = Dispatch(act.by, act.dev, PreemptionPenalty(act.dev))
        /\ metrics' = [metrics EXCEPT !.preemptions = @ + 1]
    BY DEF PreemptNow, Executing
  <1>2. act.job \in JobIds /\ Placeable(act.by, act.dev)
    BY <1>1 DEF IInv, ActionIsSound, SoundAction
  <1>3. act.dev \in DeviceIds /\ act.by \in JobIds /\ act.job # NoJob /\ now \in Nat
    BY <1>2, JobIdsAreNat DEF Placeable, IInv, TypeOK, NoJob
  <1>4. /\ jobs[act.job] \in JobRecord /\ jobs[act.job].dev = act.dev
        /\ jobs[act.job].state = "Running" /\ jobs[act.job].start \in 0 .. now
    BY <1>1, <1>3, RunningJob
  <1>5. act.by # act.job
    BY <1>2, <1>4 DEF Placeable, IsTerminal, TerminalStates
  <1>6. act'.op = "dispatch" /\ act'.job = act.by /\ act'.dev = act.dev
    BY <1>1 DEF Dispatch, NoAction
  <1>7. metrics'.missed = metrics.missed
    BY <1>1 DEF IInv, TypeOK
  <1> PICK r1 : r1 = Progressed(jobs[act.job], act.dev, now)
    OBVIOUS
  <1> PICK r2 : r2 = Transition(r1, "Suspended")
    OBVIOUS
  <1>8. r1 \in JobRecord /\ r1.dev = act.dev
    BY <1>3, <1>4, ProgressedLemma
  <1>9. SameJob(r1, jobs[act.job])
    BY <1>4, UpdatesKeepJob
  <1>10. "Suspended" \in JobStates
    BY DEF JobStates
  <1>11. r2.state = "Suspended" /\ r2.dev = act.dev /\ SameJob(r2, r1)
    BY <1>8, <1>10, TransitionLemma, UpdatesKeepJob
  <1>12. SameJob(r2, jobs[act.job])
    BY <1>9, <1>11 DEF SameJob
  <1> QED BY <1>1, <1>2, <1>3, <1>5, <1>6, <1>7, <1>11, <1>12, RecordBecomes

(* The job waits instead.                                                   *)
LEMMA PreemptDeferredEffect ==
    IInv /\ PreemptDeferred =>
        /\ JobsStay /\ UNCHANGED <<running, queue, level, phase, metrics>>
        /\ act.op = "preempt" /\ act.dev \in DeviceIds /\ act.by \in JobIds
        /\ ~(AllowsPreemption(act.dev, act.atPoint) /\ running[act.dev] = act.job)
        /\ act'.op = "enqueue" /\ act'.job = act.by /\ act'.dev = act.dev
  <1> SUFFICES ASSUME IInv, PreemptDeferred
               PROVE  act.dev \in DeviceIds /\ act.by \in JobIds
    BY DEF PreemptDeferred, Executing, Enqueue, NoAction, JobsStay, jobVars, deviceVars
  <1> QED BY DEF PreemptDeferred, Executing, IInv, ActionIsSound, SoundAction, Placeable

(* A job joins a queue unless it has ended.                                 *)
LEMMA EnqueueJobEffect ==
    IInv /\ EnqueueJob =>
        /\ act.op = "enqueue" /\ act' = NoAction
        /\ act.job \in JobIds /\ act.dev \in DeviceIds
        /\ UNCHANGED <<running, level, phase, metrics>>
        /\ IF IsTerminal(act.job) THEN JobsStay /\ queue' = queue
           ELSE Becomes(act.job, "Ready", act.dev) /\ Joins(act.job, act.dev)
  <1> SUFFICES ASSUME IInv, EnqueueJob
               PROVE  /\ act.job \in JobIds /\ act.dev \in DeviceIds
                      /\ ~IsTerminal(act.job) => Becomes(act.job, "Ready", act.dev)
    BY DEF EnqueueJob, Executing, Joins, JobsStay
  <1>1. act.job \in JobIds /\ act.dev \in DeviceIds
    BY DEF EnqueueJob, Executing, IInv, ActionIsSound, SoundAction, Placeable
  <1>2. ASSUME ~IsTerminal(act.job) PROVE Becomes(act.job, "Ready", act.dev)
    <2> PICK r1 : r1 = Assigned(jobs[act.job], act.dev, Unset)
      OBVIOUS
    <2> PICK r2 : r2 = Settle(r1, "Ready")
      OBVIOUS
    <2>1. jobs' = [jobs EXCEPT ![act.job] = r2] /\ nextJob' = nextJob
      BY <1>2 DEF EnqueueJob
    <2>2. jobs[act.job] \in JobRecord /\ Unset \in Nat \cup {Unset}
      BY <1>1 DEF IInv, TypeOK
    <2>3. r1 \in JobRecord /\ r1.dev = act.dev
      BY <1>1, <2>2, AssignedLemma
    <2>4. SameJob(r1, jobs[act.job])
      BY <2>2, UpdatesKeepJob
    <2>5. "Ready" \in JobStates
      BY DEF JobStates
    <2>6. r2.state = "Ready" /\ r2.dev = act.dev /\ SameJob(r2, r1)
      BY <2>3, <2>5, SettleLemma, UpdatesKeepJob
    <2>7. SameJob(r2, jobs[act.job])
      BY <2>4, <2>6 DEF SameJob
    <2> QED BY <1>1, <2>1, <2>6, <2>7, RecordBecomes
  <1> QED BY <1>1, <1>2

(* A job ends, unless it has ended, and leaves slots and queues.            *)
LEMMA RetireEffect ==
    ASSUME IInv, NEW j \in JobIds, NEW state \in {"Dropped", "DeadlineMissed"}, NEW t \in Nat,
           t >= now, Retire(j, state, t), nextJob' = nextJob
    PROVE  /\ IF IsTerminal(j) THEN JobsStay ELSE Becomes(j, state, jobs[j].dev)
           /\ LeavesQueues(j)
           /\ running' = [d \in DeviceIds |-> IF running[d] = j THEN NoJob ELSE running[d]]
  <1> PICK stopped : stopped = IF \E d \in DeviceIds : running[d] = j
                               THEN Progressed(jobs[j], jobs[j].dev, t)
                               ELSE [jobs[j] EXCEPT !.start = Unset]
    OBVIOUS
  <1> PICK r : r = Transition(stopped, state)
    OBVIOUS
  <1>1. jobs' = [jobs EXCEPT ![j] = IF IsTerminal(j) THEN jobs[j] ELSE r]
    BY DEF Retire
  <1>2. jobs[j] \in JobRecord /\ now \in Nat /\ j # NoJob /\ jobs \in [JobIds -> JobRecord]
    BY DEF IInv, TypeOK, JobIds, NoJob
  <1>3. stopped \in JobRecord /\ stopped.dev = jobs[j].dev
    <2>1. CASE \E d \in DeviceIds : running[d] = j
      <3>1. jobs[j].start \in 0 .. t /\ jobs[j].dev \in DeviceIds
        BY <1>2, <2>1, RunningJob
      <3> QED BY <1>2, <2>1, <3>1, ProgressedLemma
    <2>2. CASE ~\E d \in DeviceIds : running[d] = j
      BY <1>2, <2>2 DEF JobRecord
    <2> QED BY <2>1, <2>2
  <1>4. SameJob(stopped, jobs[j])
    BY <1>2, UpdatesKeepJob
  <1>5. state \in JobStates
    BY DEF JobStates, TerminalStates
  <1>6. r.state = state /\ r.dev = jobs[j].dev /\ SameJob(r, stopped)
    BY <1>3, <1>5, TransitionLemma, UpdatesKeepJob
  <1>7. SameJob(r, jobs[j])
    BY <1>4, <1>6 DEF SameJob
  <1>8. IF IsTerminal(j) THEN JobsStay ELSE Becomes(j, state, jobs[j].dev)
    BY <1>1, <1>2, <1>6, <1>7, RecordBecomes DEF JobsStay
  <1>9. /\ LeavesQueues(j)
        /\ running' = [d \in DeviceIds |-> IF running[d] = j THEN NoJob ELSE running[d]]
    BY DEF Retire, LeavesQueues
  <1> QED BY <1>8, <1>9

(* A drop, which another job may follow.                                    *)
LEMMA DropJobEffect ==
    IInv /\ DropJob =>
        /\ act.op = "drop" /\ act.job \in JobIds
        /\ IF IsTerminal(act.job) THEN JobsStay
           ELSE Becomes(act.job, "Dropped", jobs[act.job].dev)
        /\ LeavesQueues(act.job)
        /\ running' = [d \in DeviceIds |-> IF running[d] = act.job THEN NoJob ELSE running[d]]
        /\ UNCHANGED <<level, phase, metrics>>
        /\ act' = IF act.by = NoJob THEN NoAction ELSE Dispatch(act.by, act.dev, 0)
  <1> SUFFICES ASSUME IInv, DropJob
               PROVE  /\ act.job \in JobIds
                      /\ IF IsTerminal(act.job) THEN JobsStay
                         ELSE Becomes(act.job, "Dropped", jobs[act.job].dev)
                      /\ LeavesQueues(act.job)
                      /\ running' = [d \in DeviceIds |-> IF running[d] = act.job THEN NoJob
                                                                               ELSE running[d]]
    BY DEF DropJob, Executing
  <1>1. act.job \in JobIds /\ Retire(act.job, "Dropped", now)
    BY DEF DropJob, Executing, IInv, ActionIsSound, SoundAction
  <1>2. now \in Nat /\ now >= now /\ nextJob' = nextJob
    BY DEF IInv, TypeOK, DropJob
  <1> QED BY <1>1, <1>2, RetireEffect

(* A deadline check, which misses or not.                                   *)
LEMMA DeadlineCheckEffect ==
    ASSUME IInv, NEW e \in events, DeadlineCheck(e)
    PROVE  /\ act.op = "none" /\ phase.op = "poll" /\ UNCHANGED <<level, phase, act>>
           /\ \/ /\ metrics'.missed > 0
                 /\ e.job \in JobIds /\ Becomes(e.job, "DeadlineMissed", jobs[e.job].dev)
                 /\ LeavesQueues(e.job)
              \/ JobsStay /\ UNCHANGED <<running, queue, metrics>>
  <1>1. Pops(e) /\ e.kind = "DeadlineCheck" /\ nextJob' = nextJob
    BY DEF DeadlineCheck, Handles
  <1>2. e.job \in JobIds /\ e.time \in Nat /\ e.time >= now
    BY <1>1, PopBasics DEF IInv, EventsAreSound, EventsAreWellFormed
  <1>3. act.op = "none" /\ phase.op = "poll" /\ UNCHANGED <<level, phase, act>>
    BY <1>1, PopBasics DEF DeadlineCheck
  <1>4. CASE HasMissedDeadline(e.job, e.time)
    <2>1. Retire(e.job, "DeadlineMissed", e.time) /\ ~IsTerminal(e.job)
      BY <1>4 DEF DeadlineCheck, HasMissedDeadline
    <2>2. metrics' = [metrics EXCEPT !.missed = @ + 1]
      BY <1>4 DEF DeadlineCheck
    <2>3. metrics'.missed > 0
      BY <2>2 DEF IInv, TypeOK
    <2> QED BY <1>1, <1>2, <1>3, <2>1, <2>3, RetireEffect
  <1>5. CASE ~HasMissedDeadline(e.job, e.time)
    BY <1>1, <1>3, <1>5 DEF DeadlineCheck, JobsStay, deviceVars
  <1> QED BY <1>4, <1>5

-----------------------------------------------------------------------------
(* What the handlers do before the scheduler's answer is executed           *)

(* The job that completes frees the device it ran on.                       *)
LEMMA JobCompleteEffect ==
    ASSUME IInv, NEW e \in EventsOf("JobComplete"), NEW a, JobComplete(e, a)
    PROVE  /\ Polling /\ phase' = Trigger /\ act' = a
           /\ e.job \in JobIds /\ e.dev \in DeviceIds /\ running[e.dev] = e.job
           /\ jobs[e.job].state = "Running" /\ jobs[e.job].dev = e.dev
           /\ Becomes(e.job, "Completed", e.dev)
           /\ running' = [running EXCEPT ![e.dev] = NoJob]
           /\ UNCHANGED <<queue, level>> /\ metrics'.missed = metrics.missed
  <1>1. e \in events /\ e.kind = "JobComplete" /\ Pops(e) /\ ~IsStale(e)
    BY DEF JobComplete, Handles, EventsOf
  <1>2. /\ e.job \in JobIds /\ e.dev \in DeviceIds /\ running[e.dev] = e.job
        /\ jobs[e.job].state = "Running" /\ jobs[e.job].dev = e.dev
    BY <1>1, LiveRunningEvent
  <1>3. jobs[e.job] \in JobRecord
    BY <1>2 DEF IInv, TypeOK
  <1>4. PICK done : jobs' = [jobs EXCEPT ![e.job] =
                       Transition([jobs[e.job] EXCEPT !.exec = done, !.start = Unset], "Completed")]
    BY <1>2 DEF JobComplete
  <1> PICK p : p = [jobs[e.job] EXCEPT !.exec = done, !.start = Unset]
    OBVIOUS
  <1> PICK r : r = Transition(p, "Completed")
    OBVIOUS
  <1>5. p.dev = e.dev /\ p.state = "Running" /\ SameJob(p, jobs[e.job])
    BY <1>2, <1>3 DEF JobRecord, SameJob
  <1>6. r.state = "Completed" /\ r.dev = e.dev /\ SameJob(r, jobs[e.job])
    BY <1>2, <1>3 DEF JobRecord, SameJob, Transition
  <1>7. nextJob' = nextJob /\ Becomes(e.job, "Completed", e.dev)
    <2>1. nextJob' = nextJob
      BY DEF JobComplete
    <2> QED BY <1>2, <1>4, <1>6, <2>1, RecordBecomes
  <1>8. /\ running' = [running EXCEPT ![e.dev] = NoJob] /\ UNCHANGED <<queue, level>>
        /\ act' = a /\ phase' = Trigger
        /\ metrics' = [metrics EXCEPT !.completed = @ + 1]
    BY <1>2 DEF JobComplete
  <1>9. metrics'.missed = metrics.missed
    BY <1>8 DEF IInv, TypeOK
  <1> QED BY <1>1, <1>2, <1>7, <1>8, <1>9 DEF Pops

(* The job whose data has arrived is offered to the scheduler once more.    *)
LEMMA TransferCompleteEffect ==
    ASSUME IInv, NEW e \in EventsOf("TransferComplete"), NEW a, TransferComplete(e, a)
    PROVE  /\ Polling /\ phase' = Trigger /\ act' = a
           /\ e.job \in JobIds /\ e.dev \in DeviceIds /\ ~IsTerminal(e.job)
           /\ jobs[e.job].state = "Transferring" /\ jobs[e.job].dev = e.dev
           /\ Becomes(e.job, "Ready", e.dev)
           /\ UNCHANGED <<running, queue, level, metrics>>
  <1>1. e \in events /\ e.kind = "TransferComplete" /\ Pops(e) /\ ~IsStale(e)
    BY DEF TransferComplete, Handles, EventsOf
  <1>2. /\ e.job \in JobIds /\ e.dev \in DeviceIds
        /\ jobs[e.job].state = "Transferring" /\ jobs[e.job].dev = e.dev
    BY <1>1 DEF IsStale, IInv, EventsAreSound, LiveEventsAreMeant, EventsAreWellFormed,
                VersionedKinds
  <1>3. ~IsTerminal(e.job)
    BY <1>2 DEF IsTerminal, TerminalStates
  <1> PICK p : p = Assigned(jobs[e.job], e.dev, Unset)
    OBVIOUS
  <1> PICK r : r = Settle(p, "Ready")
    OBVIOUS
  <1>4. /\ jobs' = [jobs EXCEPT ![e.job] = r] /\ nextJob' = nextJob
        /\ act' = a /\ phase' = Trigger /\ UNCHANGED <<running, queue, level, metrics>>
    BY <1>3 DEF TransferComplete, deviceVars
  <1>5. jobs[e.job] \in JobRecord /\ Unset \in Nat \cup {Unset}
    BY <1>2 DEF IInv, TypeOK
  <1>6. p \in JobRecord /\ p.dev = e.dev
    BY <1>2, <1>5, AssignedLemma
  <1>7. SameJob(p, jobs[e.job])
    BY <1>5, UpdatesKeepJob
  <1>8. "Ready" \in JobStates
    BY DEF JobStates
  <1>9. r.state = "Ready" /\ r.dev = e.dev /\ SameJob(r, p)
    BY <1>6, <1>8, SettleLemma, UpdatesKeepJob
  <1>10. SameJob(r, jobs[e.job])
    BY <1>7, <1>9 DEF SameJob
  <1>11. Becomes(e.job, "Ready", e.dev)
    BY <1>2, <1>4, <1>9, <1>10, RecordBecomes
  <1> QED BY <1>1, <1>2, <1>3, <1>4, <1>11 DEF Pops

(* An arrival and a preemption point touch nothing themselves.              *)
LEMMA TaskArrivalEffect ==
    ASSUME IInv, NEW e \in EventsOf("TaskArrival"), NEW a, TaskArrival(e, a)
    PROVE  /\ Polling /\ phase'.op = "release" /\ act' = a
           /\ e.job \in JobIds /\ jobs[e.job].state \in {"Released"} \cup TerminalStates
           /\ JobsStay /\ UNCHANGED <<running, queue, level>>
           /\ metrics'.missed = metrics.missed
  <1>1. e \in events /\ e.kind = "TaskArrival" /\ Pops(e)
    BY DEF TaskArrival, Handles, EventsOf
  <1>2. e.job \in JobIds /\ jobs[e.job].state \in {"Released"} \cup TerminalStates
    BY <1>1 DEF IInv, EventsAreSound, EventsAreWellFormed, ArrivalsAreFresh
  <1>3. metrics'.missed = metrics.missed
    BY DEF TaskArrival, IInv, TypeOK
  <1>4. phase'.op = "release"
    BY DEF TaskArrival, Phase
  <1> QED BY <1>1, <1>2, <1>3, <1>4 DEF TaskArrival, Pops, JobsStay, jobVars, deviceVars

(* A preemption point changes nothing before the scheduler is asked.        *)
LEMMA PreemptionPointEffect ==
    ASSUME IInv, NEW e \in EventsOf("PreemptionPoint"), NEW a, PreemptionPoint(e, a)
    PROVE  /\ Polling /\ phase'.op = "point" /\ act' = a
           /\ e.job \in JobIds /\ e.dev \in DeviceIds /\ running[e.dev] = e.job
           /\ HasPreemptionPoints(e.dev)
           /\ JobsStay /\ UNCHANGED <<running, queue, level, metrics>>
  <1>1. e \in events /\ e.kind = "PreemptionPoint" /\ Pops(e) /\ ~IsStale(e)
    BY DEF PreemptionPoint, Handles, EventsOf
  <1>2. e.job \in JobIds /\ e.dev \in DeviceIds /\ running[e.dev] = e.job
    BY <1>1, LiveRunningEvent
  <1>3. HasPreemptionPoints(e.dev)
    BY <1>1 DEF IInv, EventsAreSound, EventsAreWellFormed
  <1>4. phase'.op = "point" /\ act' = a
    BY <1>2 DEF PreemptionPoint, PointPhase
  <1> QED BY <1>1, <1>2, <1>3, <1>4
          DEF PreemptionPoint, Pops, JobsStay, jobVars, deviceVars

(* Neither do the steps of the three loops that execute actions.            *)
LEMMA LoopStepsEffect ==
    ASSUME IInv,
           \/ \E j : SchedulerDropsLo(j)
           \/ DropLoJobs
           \/ \E a : DispatchIdle(a) \/ Reevaluate(a)
    PROVE  JobsStay /\ act.op = "none" /\ UNCHANGED <<running, queue, level, metrics>>
  BY DEF SchedulerDropsLo, DropLoJobs, DispatchIdle, Reevaluate, Continues, Reevaluating,
         JobsStay, jobVars, deviceVars

-----------------------------------------------------------------------------
(* What becomes of jobs and of the job about to be placed                   *)

(* The job an action places, and where.                                     *)
LEMMA PlacedByAction ==
    /\ PlacedBy(NoAction) = NoJob
    /\ \A j, d, p : PlacedBy(Dispatch(j, d, p)) = j /\ Dispatch(j, d, p).dev = d
    /\ \A j, d : PlacedBy(Enqueue(j, d)) = j /\ Enqueue(j, d).dev = d
    /\ \A v : PlacedBy(Drop(v)) = NoJob
  BY DEF PlacedBy, NoAction, Dispatch, Enqueue, Drop

(* A LO job dropped makes room for the job dispatched after it.             *)
LEMMA PlacedByDrop ==
    \A v, j, d : PlacedBy(DropThenDispatch(v, j, d)) = j /\ DropThenDispatch(v, j, d).dev = d
  BY DEF PlacedBy, NoAction, DropThenDispatch

(* A preemption places the job that takes over.                             *)
LEMMA PlacedByPreemption ==
    \A v, j, d :
        PlacedBy(Preempt(v, j, d, FALSE)) = j /\ Preempt(v, j, d, FALSE).dev = d
  BY DEF PlacedBy, NoAction, Preempt

(* The same of a preemption at a point.                                     *)
LEMMA PlacedAtPoint ==
    \A v, j, d :
        PlacedBy(Preempt(v, j, d, TRUE)) = j /\ Preempt(v, j, d, TRUE).dev = d
  BY DEF PlacedBy, NoAction, Preempt

(* A step changes a job in one of these ways: the device of a job changes   *)
(* only when it is placed.                                                  *)
Fate(k) ==
    /\ SameJob(jobs'[k], jobs[k])
    /\ \/ /\ jobs'[k].dev = jobs[k].dev
          /\ \/ jobs'[k].state \in TerminalStates \cup {jobs[k].state}
             \/ jobs[k].state = "Running" /\ jobs'[k].state = "Suspended"
             \/ jobs[k].state = "Transferring" /\ jobs'[k].state = "Ready" /\ Polling
       \/ /\ act.op \in {"dispatch", "enqueue"} /\ k = act.job
          /\ jobs'[k].dev = act.dev /\ act.dev \in DeviceIds
          /\ jobs'[k].state \in {"Ready", "Running", "Transferring"}
JobsFate ==
    /\ JobIds \subseteq JobIds'
    /\ \A k \in JobIds : Fate(k)
    /\ \A k \in JobIds' : k \notin JobIds => jobs'[k].state = "Released" /\ jobs'[k].dev = NoDevice

(* The steps that execute an action.                                        *)
Acting ==
    \/ DispatchTerminal \/ DispatchBusy \/ DispatchWithoutModel \/ DispatchTransfer \/ DispatchRun
    \/ PreemptNow \/ PreemptDeferred \/ EnqueueJob \/ DropJob

(* The steps of the engine alone.                                           *)
LEMMA EngineSteps ==
    EngineStep => Quiet \/ Acting \/ (\E e \in events : DeadlineCheck(e)) \/ DropLoJobs
  BY DEF EngineStep, Quiet, Acting

(* Executing an action changes nothing a handler goes by, and the job to be *)
(* placed stays the same until it is.                                       *)
LEMMA ActingKeepsPlaced ==
    ASSUME IInv, Acting
    PROVE  /\ act.op # "none" /\ UNCHANGED <<level, phase>> /\ metrics'.missed = metrics.missed
           /\ \/ PlacedJob' = NoJob
              \/ PlacedJob' = PlacedJob /\ act'.dev = act.dev
  <1>1. CASE act' = NoAction
    <2>1. PlacedJob' = NoJob
      BY <1>1, PlacedByAction DEF PlacedJob
    <2>2. /\ act.op # "none" /\ UNCHANGED <<level, phase>> /\ metrics'.missed = metrics.missed
      BY <1>1, DispatchTerminalEffect, DispatchBusyEffect, MayDispatchEffect,
         DispatchWithoutModelEffect, DispatchTransferEffect, DispatchRunEffect,
         PreemptNowEffect, PreemptDeferredEffect, EnqueueJobEffect, DropJobEffect
      DEF Acting, DispatchTerminal, Executing
    <2> QED BY <2>1, <2>2
  <1>2. CASE DispatchBusy /\ act' # NoAction
    <2>1. act.op = "dispatch" /\ act' = Enqueue(act.job, act.dev)
          /\ UNCHANGED <<level, phase, metrics>>
      BY <1>2, DispatchBusyEffect
    <2>2. PlacedJob' = act.job /\ act'.dev = act.dev
      BY <2>1, PlacedByAction DEF PlacedJob
    <2> QED BY <2>1, <2>2 DEF PlacedJob, PlacedBy
  <1>3. CASE PreemptNow
    BY <1>3, PreemptNowEffect DEF PlacedJob, PlacedBy
  <1>4. CASE PreemptDeferred
    BY <1>4, PreemptDeferredEffect DEF PlacedJob, PlacedBy
  <1>5. CASE DropJob /\ act' # NoAction
    <2>1. act.op = "drop" /\ act' = Dispatch(act.by, act.dev, 0)
          /\ UNCHANGED <<level, phase, metrics>>
      BY <1>5, DropJobEffect
    <2>2. PlacedJob' = act.by /\ act'.dev = act.dev
      BY <2>1, PlacedByAction DEF PlacedJob
    <2> QED BY <2>1, <2>2 DEF PlacedJob, PlacedBy
  <1> QED BY <1>1, <1>2, <1>3, <1>4, <1>5, DispatchTerminalEffect, MayDispatchEffect,
             DispatchWithoutModelEffect, DispatchTransferEffect, DispatchRunEffect, EnqueueJobEffect
          DEF Acting

(* One job changes.                                                         *)
LEMMA BecomesFate ==
    ASSUME NEW j \in JobIds, NEW state, NEW d, Becomes(j, state, d), Fate(j)
    PROVE  JobsFate
  BY DEF Becomes, JobsFate, Fate, SameJob, JobIds

(* None does.                                                               *)
LEMMA StayFate == JobsStay => JobsFate
  BY DEF JobsStay, JobsFate, Fate, SameJob, JobIds

(* What executing an action does to the jobs.                               *)
LEMMA ActingFate ==
    ASSUME IInv, Acting
    PROVE  JobsFate
  <1>1. CASE DispatchTerminal \/ DispatchBusy \/ DispatchWithoutModel \/ PreemptDeferred
    BY <1>1, DispatchTerminalEffect, DispatchBusyEffect, DispatchWithoutModelEffect,
       PreemptDeferredEffect, StayFate
  <1>2. CASE DispatchTransfer \/ DispatchRun
    <2>1. MayDispatch /\ \E s \in {"Transferring", "Running"} : Becomes(act.job, s, act.dev)
      BY <1>2, DispatchTransferEffect, DispatchRunEffect
    <2>2. act.job \in JobIds /\ act.op = "dispatch" /\ act.dev \in DeviceIds
      BY <2>1, MayDispatchEffect
    <2>3. Fate(act.job)
      BY <2>1, <2>2 DEF Becomes, Fate
    <2> QED BY <2>1, <2>2, <2>3, BecomesFate
  <1>3. CASE PreemptNow
    <2>1. /\ act.job \in JobIds /\ Becomes(act.job, "Suspended", act.dev)
          /\ running[act.dev] = act.job /\ act.dev \in DeviceIds /\ act.job # NoJob
      BY <1>3, PreemptNowEffect
    <2>2. jobs[act.job].state = "Running" /\ jobs[act.job].dev = act.dev
      BY <2>1, RunningJob
    <2>3. Fate(act.job)
      BY <2>1, <2>2 DEF Becomes, Fate
    <2> QED BY <2>1, <2>3, BecomesFate
  <1>4. CASE EnqueueJob
    <2>1. act.job \in JobIds /\ act.op = "enqueue" /\ act.dev \in DeviceIds
          /\ IF IsTerminal(act.job) THEN JobsStay ELSE Becomes(act.job, "Ready", act.dev)
      BY <1>4, EnqueueJobEffect
    <2>2. CASE IsTerminal(act.job)
      BY <2>1, <2>2, StayFate
    <2>3. CASE ~IsTerminal(act.job)
      <3>1. Fate(act.job)
        BY <2>1, <2>3 DEF Becomes, Fate
      <3> QED BY <2>1, <2>3, <3>1, BecomesFate
    <2> QED BY <2>2, <2>3
  <1>5. CASE DropJob
    <2>1. act.job \in JobIds
          /\ IF IsTerminal(act.job) THEN JobsStay
             ELSE Becomes(act.job, "Dropped", jobs[act.job].dev)
      BY <1>5, DropJobEffect
    <2>2. CASE IsTerminal(act.job)
      BY <2>1, <2>2, StayFate
    <2>3. CASE ~IsTerminal(act.job)
      <3>1. Fate(act.job)
        BY <2>1, <2>3 DEF Becomes, Fate, TerminalStates
      <3> QED BY <2>1, <2>3, <3>1, BecomesFate
    <2> QED BY <2>2, <2>3
  <1> QED BY <1>1, <1>2, <1>3, <1>4, <1>5 DEF Acting

(* A deadline check ends a job or does nothing.                             *)
LEMMA DeadlineCheckFate ==
    ASSUME IInv, NEW e \in events, DeadlineCheck(e)
    PROVE  JobsFate
  <1>1. CASE JobsStay
    BY <1>1, StayFate
  <1>2. CASE ~JobsStay
    <2>1. e.job \in JobIds /\ Becomes(e.job, "DeadlineMissed", jobs[e.job].dev)
      BY <1>2, DeadlineCheckEffect
    <2>2. Fate(e.job)
      BY <2>1 DEF Becomes, Fate, TerminalStates
    <2> QED BY <2>1, <2>2, BecomesFate
  <1> QED BY <1>1, <1>2

(* What the steps do that consult the scheduler.                            *)
LEMMA PolicyStepFate ==
    ASSUME IInv, PolicyStep
    PROVE  JobsFate
  <1>1. ASSUME NEW e \in EventsOf("JobComplete"), NEW a, JobComplete(e, a)
        PROVE  JobsFate
    <2>1. /\ e.job \in JobIds /\ jobs[e.job].dev = e.dev
          /\ Becomes(e.job, "Completed", e.dev)
      BY <1>1, JobCompleteEffect
    <2>2. Fate(e.job)
      BY <2>1 DEF Becomes, Fate, TerminalStates
    <2> QED BY <2>1, <2>2, BecomesFate
  <1>2. ASSUME NEW e \in EventsOf("TransferComplete"), NEW a, TransferComplete(e, a)
        PROVE  JobsFate
    <2>1. /\ e.job \in JobIds /\ jobs[e.job].dev = e.dev /\ Polling
          /\ jobs[e.job].state = "Transferring" /\ Becomes(e.job, "Ready", e.dev)
      BY <1>2, TransferCompleteEffect
    <2>2. Fate(e.job)
      BY <2>1 DEF Becomes, Fate
    <2> QED BY <2>1, <2>2, BecomesFate
  <1>3. ASSUME NEW e \in EventsOf("TaskArrival"), NEW a, TaskArrival(e, a)
        PROVE  JobsFate
    BY <1>3, TaskArrivalEffect, StayFate
  <1>4. ASSUME NEW e \in EventsOf("PreemptionPoint"), NEW a, PreemptionPoint(e, a)
        PROVE  JobsFate
    BY <1>4, PreemptionPointEffect, StayFate
  <1>5. CASE \/ \E j : SchedulerDropsLo(j)
             \/ SchedulerDropsNoMore
             \/ \E a : DispatchIdle(a) \/ Reevaluate(a)
    BY <1>5, LoopStepsEffect, StayFate DEF SchedulerDropsNoMore, JobsStay, jobVars
  <1> QED BY <1>1, <1>2, <1>3, <1>4, <1>5 DEF PolicyStep

(* The inductive invariant of the engine holds after the step, too.         *)
LEMMA PolicyNextInv ==
    ASSUME IInv, policy \in Schedulers, [PolicyNext]_policyVars
    PROVE  IInv'
  BY PolicyNextIsNext, NextInv

(* A longer job table holds the ids of a shorter one.                       *)
LEMMA Intervals ==
    ASSUME NEW m \in Nat, NEW n \in Nat, n >= m
    PROVE  0 .. m - 1 \subseteq 0 .. n - 1
  OBVIOUS

(* Every step treats every job like this.                                   *)
LEMMA FateOfJobs ==
    ASSUME IInv, policy \in Schedulers, [PolicyNext]_policyVars
    PROVE  JobsFate
  <1>1. CASE UNCHANGED policyVars
    BY <1>1, StayFate DEF policyVars, vars, jobVars, JobsStay
  <1>2. CASE PolicyStep
    BY <1>2, PolicyStepFate
  <1>3. CASE Quiet
    <2>1. QuietEffect
      BY <1>3, QuietSteps
    <2>2. JobIds \subseteq JobIds'
      <3>1. nextJob \in Nat /\ nextJob' \in Nat /\ nextJob' >= nextJob
        BY <2>1, PolicyNextInv DEF QuietEffect, IInv, TypeOK
      <3> QED BY <3>1, Intervals DEF JobIds
    <2>3. \A k \in JobIds : Fate(k)
      BY <2>1 DEF QuietEffect, Fate, SameJob
    <2> QED BY <2>1, <2>2, <2>3 DEF QuietEffect, JobsFate
  <1>4. CASE DropLoJobs
    BY <1>4, LoopStepsEffect, StayFate
  <1> QED BY <1>1, <1>2, <1>3, <1>4, ActingFate, DeadlineCheckFate, EngineSteps DEF PolicyNext

-----------------------------------------------------------------------------
(* EDF-VD                                                                   *)

(* The job about to be placed exists, and so does the device.               *)
LEMMA PlacedIsJob ==
    ASSUME IInv, PlacedJob # NoJob
    PROVE  PlacedJob \in JobIds /\ act.dev \in DeviceIds /\ Placeable(PlacedJob, act.dev)
  BY DEF PlacedJob, PlacedBy, IInv, ActionIsSound, SoundAction, Placeable

(* The job an allowed answer places, and where.                             *)
LEMMA PlacedByArrival ==
    ASSUME NEW j, NEW a \in ArrivalActions(j)
    PROVE  PlacedBy(a) = NoJob \/ (PlacedBy(a) = j /\ a.dev \in Compatible(j))
  <1>1. \/ a = NoAction \/ a = Drop(j)
        \/ \E d \in Compatible(j) : a = Dispatch(j, d, 0) \/ a = Enqueue(j, d)
        \/ \E d \in Compatible(j) : a = Preempt(running[d], j, d, FALSE)
        \/ \E d \in Compatible(j) : a = DropThenDispatch(running[d], j, d)
    BY DEF ArrivalActions, CompatibleBusy
  <1>2. ASSUME NEW d \in Compatible(j), a = Preempt(running[d], j, d, FALSE)
        PROVE  PlacedBy(a) = j /\ a.dev = d
    BY <1>2, PlacedByPreemption
  <1>3. ASSUME NEW d \in Compatible(j), a = DropThenDispatch(running[d], j, d)
        PROVE  PlacedBy(a) = j /\ a.dev = d
    BY <1>3, PlacedByDrop
  <1>4. a = NoAction \/ a = Drop(j) => PlacedBy(a) = NoJob
    BY PlacedByAction
  <1>5. \A d : a = Dispatch(j, d, 0) \/ a = Enqueue(j, d) => PlacedBy(a) = j /\ a.dev = d
    BY PlacedByAction
  <1> QED BY <1>1, <1>2, <1>3, <1>4, <1>5

(* A freed device is only ever given a job of its own queue.                *)
LEMMA PlacedByFree ==
    ASSUME NEW d, NEW a \in FreeActions(d)
    PROVE  a = NoAction \/ (PlacedBy(a) \in queue[d] /\ a = Dispatch(PlacedBy(a), d, 0))
  BY PlacedByAction DEF FreeActions

(* At a preemption point only a queued job of that device takes over.       *)
LEMMA PlacedByPoint ==
    ASSUME NEW d, NEW j, NEW a \in PointActions(d, j)
    PROVE  \/ a = NoAction
           \/ /\ PlacedBy(a) \in queue[d] /\ a.dev = d
              /\ a = Preempt(j, PlacedBy(a), d, TRUE) \/ a = DropThenDispatch(j, PlacedBy(a), d)
  <1>1. \/ a = NoAction
        \/ \E q \in queue[d] : a = Preempt(j, q, d, TRUE) \/ a = DropThenDispatch(j, q, d)
    BY DEF PointActions
  <1>2. ASSUME NEW q \in queue[d], a = Preempt(j, q, d, TRUE)
        PROVE  PlacedBy(a) = q /\ a.dev = d
    BY <1>2, PlacedAtPoint
  <1>3. ASSUME NEW q \in queue[d], a = DropThenDispatch(j, q, d)
        PROVE  PlacedBy(a) = q /\ a.dev = d
    BY <1>3, PlacedByDrop
  <1> QED BY <1>1, <1>2, <1>3

(* A reevaluation lets only queued jobs of the device take over.            *)
LEMMA PlacedByReevaluation ==
    ASSUME NEW d, NEW a \in ReevaluationActions(d)
    PROVE  \/ a = NoAction
           \/ /\ PlacedBy(a) \in queue[d] /\ FullyPreemptive(d) /\ running[d] # NoJob /\ a.dev = d
              /\ a = Preempt(running[d], PlacedBy(a), d, FALSE)
  <1>1. ASSUME NEW q \in queue[d], a = Preempt(running[d], q, d, FALSE)
        PROVE  PlacedBy(a) = q /\ a.dev = d
    BY <1>1, PlacedByPreemption
  <1> QED BY <1>1 DEF ReevaluationActions, FullyPreemptive

(* In HI mode EDF-VD places no LO job.                                      *)
LEMMA EdfVdPlacesNoLo ==
    ASSUME level = "Hi", NEW cb, cb.on \in Callbacks, NEW a \in EdfVdAnswers(cb)
    PROVE  PlacedBy(a) = NoJob \/ ~IsLo(PlacedBy(a))
  <1>1. CASE cb.on = "arrival"
    <2>1. a \in EdfVdArrival(cb.job)
      BY <1>1 DEF EdfVdAnswers
    <2>2. CASE IsLo(cb.job)
      BY <2>1, <2>2, PlacedByAction DEF EdfVdArrival, Unschedulable
    <2>3. CASE ~IsLo(cb.job)
      BY <2>1, <2>3, EdfVdArrivalAllowed, PlacedByArrival
    <2> QED BY <2>2, <2>3
  <1>2. \A d : \A q \in EdfVdNext(d) : ~IsLo(q)
    BY DEF EdfVdNext, LeastBy, Unschedulable
  <1>3. CASE cb.on = "free"
    <2>1. a \in DispatchNext(EdfVdNext(cb.dev), cb.dev)
      BY <1>3 DEF EdfVdAnswers
    <2> QED BY <1>2, <2>1, PlacedByAction DEF DispatchNext, NoOpIf
  <1>4. CASE cb.on = "point"
    <2>1. a \in EdfVdPoint(cb.job, cb.dev)
      BY <1>4 DEF EdfVdAnswers
    <2>2. \/ a = NoAction
          \/ \E q \in EdfVdNext(cb.dev) : a = Preempt(cb.job, q, cb.dev, TRUE)
                                          \/ a = DropThenDispatch(cb.job, q, cb.dev)
      BY <2>1 DEF EdfVdPoint, ReplaceBy, NoOpIf
    <2>3. ASSUME NEW q \in EdfVdNext(cb.dev), a = Preempt(cb.job, q, cb.dev, TRUE)
          PROVE  PlacedBy(a) = q
      BY <2>3, PlacedAtPoint
    <2>4. ASSUME NEW q \in EdfVdNext(cb.dev), a = DropThenDispatch(cb.job, q, cb.dev)
          PROVE  PlacedBy(a) = q
      BY <2>4, PlacedByDrop
    <2> QED BY <1>2, <2>2, <2>3, <2>4, PlacedByAction
  <1>5. CASE cb.on = "critical"
    BY <1>5, PlacedByAction DEF EdfVdAnswers
  <1>6. CASE cb.on = "reevaluation"
    BY <1>6, PlacedByAction DEF EdfVdAnswers
  <1> QED BY <1>1, <1>3, <1>4, <1>5, <1>6 DEF Callbacks

(* The phases of a purge follow each other, and nothing else leads into or  *)
(* out of it.                                                               *)
LEMMA QuietPhases ==
    ASSUME IInv, Quiet
    PROVE  \/ PurgeGoesOn /\ PurgeGoesOn' /\ level' = level /\ act.op = "none"
           \/ ~PurgeGoesOn /\ ~PurgeGoesOn' /\ level' = level
           \/ act.op = "none" /\ PurgeGoesOn'
  <1>1. CASE ScheduleInitialArrival \/ ScheduleReplayJob \/ StartRun
    BY <1>1 DEF ScheduleInitialArrival, ScheduleReplayJob, StartRun, PurgeGoesOn, Phase, Poll
  <1>2. CASE DiscardStale \/ SimulationEnd
    BY <1>2 DEF DiscardStale, SimulationEnd, Handles, Pops, Polling, PurgeGoesOn, Phase
  <1>3. CASE \E e \in events : BudgetOverrun(e)
    BY <1>3 DEF BudgetOverrun, Handles, Pops, Polling, PurgeGoesOn, Phase, Trigger
  <1>4. CASE \E e \in events : TriggeredReevaluation(e) \/ PeriodicReevaluation(e)
    BY <1>4 DEF TriggeredReevaluation, PeriodicReevaluation, Handles, Pops, Polling, PurgeGoesOn,
                Phase
  <1>5. CASE ReleaseNextJob \/ ReschedulePoint \/ SchedulerDropsNoMore \/ DispatchIdleDone
             \/ ReevaluateDone \/ ScheduleTriggeredReevaluation \/ Ended
    BY <1>5 DEF ReleaseNextJob, ReschedulePoint, SchedulerDropsNoMore, DispatchIdleDone,
                ReevaluateDone, ScheduleTriggeredReevaluation, Ended, Continues, Reevaluating,
                PurgeGoesOn, Phase, Trigger, Poll, vars
  <1> QED BY <1>1, <1>2, <1>3, <1>4, <1>5 DEF Quiet

(* No LO job comes back.                                                    *)
LEMMA LoStaysOut ==
    ASSUME IInv, JobsFate, LoIsOut, PlacedJob # NoJob => ~IsLo(PlacedJob)
    PROVE  LoIsOut'
  <1> SUFFICES ASSUME NEW k \in JobIds', IsLo(k)'
               PROVE  jobs'[k].state \in {"Released"} \cup TerminalStates
    BY DEF LoIsOut
  <1>1. CASE k \in JobIds
    <2>1. Fate(k)
      BY <1>1 DEF JobsFate
    <2>2. IsLo(k)
      BY <2>1 DEF Fate, SameJob, IsLo, TaskOf
    <2>3. jobs[k].state \in {"Released"} \cup TerminalStates
      BY <1>1, <2>2 DEF LoIsOut
    <2>4. ~(act.op \in {"dispatch", "enqueue"} /\ k = act.job)
      BY <1>1, <2>2, JobIdsAreNat DEF PlacedJob, PlacedBy, IInv, NoJob
    <2> QED BY <2>1, <2>3, <2>4 DEF Fate, TerminalStates
  <1>2. CASE k \notin JobIds
    BY <1>2 DEF JobsFate
  <1> QED BY <1>1, <1>2

(* The same after a step, and of a job that was there before it.            *)
LEMMA PlacedIsJobNext ==
    ASSUME IInv', PlacedJob' # NoJob
    PROVE  PlacedJob' \in JobIds' /\ act'.dev \in DeviceIds
  BY DEF PlacedJob, PlacedBy, IInv, ActionIsSound, SoundAction, Placeable

(* Whatever is about to be placed after a step is a job.                    *)
LEMMA PlacedStaysJob ==
    ASSUME IInv, PlacedJob' \in {PlacedJob, NoJob}, PlacedJob' # NoJob
    PROVE  PlacedJob' \in JobIds /\ PlacedJob' = PlacedJob
  BY PlacedIsJob

(* In HI mode, after the purge, an answer of EDF-VD keeps LO jobs out.      *)
LEMMA EdfVdAnswerKeepsLoOut ==
    ASSUME IInv, policy = "EdfVd", level = "Hi", LoIsOut, JobsFate, nextJob' = nextJob,
           IInv', act.op = "none",
           NEW cb, cb.on \in Callbacks, NEW m, NEW a \in Answers(cb, m), act' = a
    PROVE  LoIsOut' /\ (PlacedJob' # NoJob => ~IsLo(PlacedJob)')
  <1>1. PlacedJob = NoJob
    BY DEF PlacedJob, PlacedBy
  <1>2. LoIsOut'
    BY <1>1, LoStaysOut
  <1>3. a \in EdfVdAnswers(cb)
    BY DEF Answers
  <1>4. PlacedJob' = PlacedBy(a)
    BY DEF PlacedJob
  <1>5. ASSUME PlacedJob' # NoJob PROVE ~IsLo(PlacedJob)'
    <2>1. ~IsLo(PlacedBy(a))
      BY <1>3, <1>4, <1>5, EdfVdPlacesNoLo
    <2>2. PlacedJob' \in JobIds
      <3>1. (PlacedJob \in JobIds)'
        BY <1>5, PlacedIsJobNext
      <3> QED BY <3>1 DEF JobIds
    <2>3. jobs'[PlacedJob'].task = jobs[PlacedJob'].task
      BY <2>2 DEF JobsFate, Fate, SameJob
    <2> QED BY <1>4, <2>1, <2>3 DEF IsLo, TaskOf
  <1> QED BY <1>2, <1>5

(* HiModeIInv is inductive.                                                 *)
LEMMA HiModeNext ==
    ASSUME IInv, policy \in Schedulers, HiModeIInv, [PolicyNext]_policyVars
    PROVE  HiModeIInv'
  <1> SUFFICES ASSUME policy = "EdfVd", level' = "Hi"
               PROVE  IF PurgeGoesOn' THEN PlacedJob' = NoJob
                      ELSE LoIsOut' /\ (PlacedJob' # NoJob => ~IsLo(PlacedJob)')
    BY DEF HiModeIInv, PolicyNext, policyVars
  <1>1. IInv' /\ JobsFate
    BY PolicyNextInv, FateOfJobs
  <1>2. ASSUME UNCHANGED <<level, phase>>, PlacedJob' \in {PlacedJob, NoJob}
        PROVE  IF PurgeGoesOn' THEN PlacedJob' = NoJob
               ELSE LoIsOut' /\ (PlacedJob' # NoJob => ~IsLo(PlacedJob)')
    <2>1. PurgeGoesOn' = PurgeGoesOn
      BY <1>2 DEF PurgeGoesOn
    <2>2. CASE PurgeGoesOn
      BY <1>2, <2>1, <2>2 DEF HiModeIInv
    <2>3. CASE ~PurgeGoesOn
      <3>1. LoIsOut /\ (PlacedJob # NoJob => ~IsLo(PlacedJob))
        BY <1>2, <2>3 DEF HiModeIInv
      <3>2. LoIsOut'
        BY <1>1, <3>1, LoStaysOut
      <3>3. PlacedJob' # NoJob => ~IsLo(PlacedJob)'
        BY <1>1, <1>2, <3>1, PlacedStaysJob DEF IsLo, TaskOf, JobsFate, Fate, SameJob
      <3> QED BY <2>1, <2>3, <3>2, <3>3
    <2> QED BY <2>2, <2>3
  <1>3. CASE UNCHANGED policyVars
    BY <1>2, <1>3 DEF policyVars, vars, PlacedJob
  <1>4. CASE Acting
    BY <1>2, <1>4, ActingKeepsPlaced
  <1>5. CASE Quiet
    <2>1. PlacedJob' = PlacedJob /\ (act.op = "none" => PlacedJob = NoJob)
      BY <1>5, QuietSteps DEF QuietEffect, PlacedJob, PlacedBy
    <2>2. CASE act.op = "none" /\ PurgeGoesOn'
      BY <2>1, <2>2
    <2>3. CASE ~PurgeGoesOn /\ ~PurgeGoesOn' /\ level' = level
      <3>1. LoIsOut /\ (PlacedJob # NoJob => ~IsLo(PlacedJob))
        BY <2>3 DEF HiModeIInv
      <3>2. LoIsOut'
        BY <1>1, <3>1, LoStaysOut
      <3>3. PlacedJob' # NoJob => ~IsLo(PlacedJob)'
        BY <1>1, <2>1, <3>1, PlacedStaysJob DEF IsLo, TaskOf, JobsFate, Fate, SameJob
      <3> QED BY <2>3, <3>2, <3>3
    <2> QED BY <1>5, <2>2, <2>3, QuietPhases
  <1>6. CASE \E e \in events : DeadlineCheck(e)
    <2>1. UNCHANGED <<level, phase, act>>
      BY <1>6, DeadlineCheckEffect
    <2> QED BY <1>2, <2>1 DEF PlacedJob
  <1>7. CASE DropLoJobs
    <2>1. phase.op = "dropLo" /\ act.op = "none" /\ JobsStay /\ UNCHANGED <<running, queue, level>>
      BY <1>7, LoopStepsEffect DEF DropLoJobs, Continues
    <2>2. CASE UnfinishedLoJobs = {}
      <3>1. act' = act /\ phase' = Phase("idle", 0)
        BY <1>7, <2>2 DEF DropLoJobs
      <3>2. PlacedJob' = NoJob
        BY <2>1, <3>1 DEF PlacedJob, PlacedBy
      <3>3. LoIsOut'
        BY <2>1, <2>2 DEF UnfinishedLoJobs, LoIsOut, JobsStay, JobIds, IsLo, TaskOf, IsTerminal
      <3> QED BY <3>1, <3>2, <3>3 DEF PurgeGoesOn, Phase
    <2>3. CASE UnfinishedLoJobs # {}
      <3>1. phase' = phase /\ \E j : act' = Drop(j)
        BY <1>7, <2>3 DEF DropLoJobs
      <3>2. PlacedJob' = NoJob
        BY <3>1, PlacedByAction DEF PlacedJob
      <3> QED BY <1>2, <2>1, <3>1, <3>2
    <2> QED BY <2>2, <2>3
  <1>8. CASE PolicyStep
    <2>1. ASSUME ~PurgeGoesOn, ~PurgeGoesOn', level' = level, nextJob' = nextJob, act.op = "none",
                 NEW cb, cb.on \in Callbacks, NEW m, \E a \in Answers(cb, m) : act' = a
          PROVE  LoIsOut' /\ (PlacedJob' # NoJob => ~IsLo(PlacedJob)')
      BY <1>1, <2>1, EdfVdAnswerKeepsLoOut DEF HiModeIInv
    <2>2. ASSUME NEW e \in EventsOf("TaskArrival"), NEW a \in Answers(Arriving(e), mem'),
                 TaskArrival(e, a)
          PROVE  ~PurgeGoesOn' /\ LoIsOut' /\ (PlacedJob' # NoJob => ~IsLo(PlacedJob)')
      <3>1. Polling /\ phase'.op = "release" /\ act' = a /\ JobsStay /\ level' = level
        BY <2>2, TaskArrivalEffect
      <3>2. Arriving(e).on \in Callbacks
        BY DEF Arriving, Call, Callbacks
      <3> QED BY <2>1, <3>1, <3>2 DEF Polling, PurgeGoesOn, JobsStay
    <2>3. ASSUME NEW e \in EventsOf("JobComplete"), NEW a \in Answers(Completed(e), mem'),
                 JobComplete(e, a)
          PROVE  ~PurgeGoesOn' /\ LoIsOut' /\ (PlacedJob' # NoJob => ~IsLo(PlacedJob)')
      <3>1. Polling /\ phase' = Trigger /\ act' = a /\ nextJob' = nextJob /\ level' = level
        BY <2>3, JobCompleteEffect DEF Becomes
      <3>2. Completed(e).on \in Callbacks
        BY DEF Completed, Call, Callbacks
      <3> QED BY <2>1, <3>1, <3>2 DEF Polling, PurgeGoesOn, Trigger, Phase
    <2>4. ASSUME NEW e \in EventsOf("PreemptionPoint"), NEW a \in Answers(AtPoint(e), mem'),
                 PreemptionPoint(e, a)
          PROVE  ~PurgeGoesOn' /\ LoIsOut' /\ (PlacedJob' # NoJob => ~IsLo(PlacedJob)')
      <3>1. Polling /\ phase'.op = "point" /\ act' = a /\ JobsStay /\ level' = level
        BY <2>4, PreemptionPointEffect
      <3>2. AtPoint(e).on \in Callbacks
        BY DEF AtPoint, Call, Callbacks
      <3> QED BY <2>1, <3>1, <3>2 DEF Polling, PurgeGoesOn, JobsStay
    <2>5. ASSUME NEW e \in EventsOf("TransferComplete"), NEW a \in Answers(Arriving(e), mem'),
                 TransferComplete(e, a)
          PROVE  ~PurgeGoesOn' /\ LoIsOut' /\ (PlacedJob' # NoJob => ~IsLo(PlacedJob)')
      <3>1. Polling /\ phase' = Trigger /\ act' = a /\ nextJob' = nextJob /\ level' = level
        BY <2>5, TransferCompleteEffect DEF Becomes
      <3>2. Arriving(e).on \in Callbacks
        BY DEF Arriving, Call, Callbacks
      <3> QED BY <2>1, <3>1, <3>2 DEF Polling, PurgeGoesOn, Trigger, Phase
    <2>6. ASSUME NEW j, SchedulerDropsLo(j)
          PROVE  PurgeGoesOn' /\ PlacedJob' = NoJob
      BY <2>6, PlacedByAction DEF SchedulerDropsLo, Continues, PurgeGoesOn, PlacedJob
    <2>7. ASSUME SchedulerDropsNoMore
          PROVE  PurgeGoesOn' /\ PlacedJob' = NoJob
      BY <2>7 DEF SchedulerDropsNoMore, Continues, PurgeGoesOn, PlacedJob, PlacedBy, Phase
    <2>8. ASSUME NEW a, DispatchIdle(a), a = NoAction \/ \E cb, m : cb.on \in Callbacks /\ a \in Answers(cb, m)
          PROVE  ~PurgeGoesOn' /\ LoIsOut' /\ (PlacedJob' # NoJob => ~IsLo(PlacedJob)')
      <3>1. /\ phase.op = "idle" /\ phase'.op = "idle" /\ act.op = "none" /\ act' = a
            /\ JobsStay /\ level' = level
        BY <2>8, LoopStepsEffect DEF DispatchIdle, Continues, Phase
      <3>2. ~PurgeGoesOn /\ ~PurgeGoesOn' /\ nextJob' = nextJob
        BY <3>1 DEF PurgeGoesOn, JobsStay
      <3>3. CASE a = NoAction
        <4>1. PlacedJob = NoJob /\ PlacedJob' = NoJob
          BY <3>1, <3>3, PlacedByAction DEF PlacedJob, PlacedBy
        <4> QED BY <1>1, <3>1, <3>2, <4>1, LoStaysOut DEF HiModeIInv
      <3>4. CASE a # NoAction
        BY <2>1, <2>8, <3>1, <3>2, <3>4
      <3> QED BY <3>3, <3>4
    <2>9. ASSUME NEW cb, cb.on \in Callbacks, NEW a \in Answers(cb, mem), Reevaluate(a)
          PROVE  ~PurgeGoesOn' /\ LoIsOut' /\ (PlacedJob' # NoJob => ~IsLo(PlacedJob)')
      <3>1. /\ phase.op \in {"reevaluate", "reevaluateTick"} /\ phase' = [phase EXCEPT !.k = @ + 1]
            /\ act.op = "none" /\ act' = a /\ JobsStay /\ level' = level
        BY <2>9, LoopStepsEffect DEF Reevaluate, Reevaluating
      <3>2. phase'.op = phase.op
        BY <3>1 DEF IInv, TypeOK, PhaseRecord
      <3>3. ~PurgeGoesOn /\ ~PurgeGoesOn' /\ nextJob' = nextJob
        BY <3>1, <3>2 DEF PurgeGoesOn, JobsStay
      <3> QED BY <2>1, <2>9, <3>1, <3>3
    <2>10. \A d : Idle(d).on \in Callbacks /\ Reevaluated(d, now).on \in Callbacks
      BY DEF Idle, Reevaluated, Call, Callbacks
    <2> QED BY <1>8, <2>2, <2>3, <2>4, <2>5, <2>6, <2>7, <2>8, <2>9, <2>10 DEF PolicyStep
  <1> QED BY <1>3, <1>4, <1>5, <1>6, <1>7, <1>8, EngineSteps DEF PolicyNext

(* What every invariant below is relative to.                               *)
BaseInv == IInv /\ policy \in Policies

(* What every proof below starts from.                                      *)
LEMMA BaseInit == PolicyInit => BaseInv
  BY InitInv DEF PolicyInit, BaseInv

(* ... and that every step keeps it.                                        *)
LEMMA BaseNext ==
    BaseInv /\ [PolicyNext]_policyVars => BaseInv' /\ policy \in Schedulers
  BY PolicyNextInv, PoliciesAssumption DEF BaseInv, PolicyNext, policyVars

(* Under EDF-VD no LO job runs, waits or is in transfer between two events  *)
(* of HI mode: the purge ends all there are, and every way back in - an     *)
(* arrival, a transfer that completes, a freed device, a preemption point - *)
(* is barred.                                                               *)
THEOREM HiModeHolds == PolicySpec => []HiModeIsHi
  <1>1. PolicyInit => BaseInv /\ HiModeIInv
    BY BaseInit DEF PolicyInit, Init, HiModeIInv
  <1>2. BaseInv /\ HiModeIInv /\ [PolicyNext]_policyVars => (BaseInv /\ HiModeIInv)'
    BY BaseNext, HiModeNext DEF BaseInv
  <1>3. HiModeIInv => HiModeIsHi
    BY DEF HiModeIInv, HiModeIsHi, Polling, PurgeGoesOn, LoIsOut
  <1> QED BY <1>1, <1>2, <1>3, PTL DEF PolicySpec

-----------------------------------------------------------------------------
(* Choices by least and greatest keys                                       *)

(* A finite set that is not empty has an element that is minimal in a       *)
(* strict order.                                                            *)
LEMMA FiniteMinimum ==
    ASSUME NEW S, IsFiniteSet(S), S # {}, NEW R,
           \A x \in S : <<x, x>> \notin R,
           \A x, y, z \in S : <<x, y>> \in R /\ <<y, z>> \in R => <<x, z>> \in R
    PROVE  \E x \in S : \A y \in S : <<y, x>> \notin R
  <1> DEFINE Below(x) == {y \in S : <<y, x>> \in R}
             D == {Below(x) : x \in S}
  <1>1. IsWellFoundedOn(StrictSubsetOrdering(S), FiniteSubsetsOf(S))
    BY FS_StrictSubsetOrderingWellFounded
  <1>2. D \subseteq FiniteSubsetsOf(S)
    BY FS_Subset DEF FiniteSubsetsOf
  <1>3. D # {}
    <2> PICK x \in S : TRUE
      OBVIOUS
    <2>1. Below(x) \in D
      OBVIOUS
    <2> HIDE DEF D, Below
    <2> QED BY <2>1
  <1>4. PICK m \in D : \A b \in D : <<b, m>> \notin StrictSubsetOrdering(S)
    <2> HIDE DEF D
    <2> QED BY <1>1, <1>2, <1>3, WFMin
  <1>5. PICK x \in S : m = Below(x)
    OBVIOUS
  <1>6. ASSUME NEW y \in S, <<y, x>> \in R PROVE FALSE
    <2>1. Below(y) \subseteq Below(x)
      BY <1>6
    <2>2. y \in Below(x) /\ y \notin Below(y)
      BY <1>6
    <2>3. <<Below(y), m>> \in StrictSubsetOrdering(S)
      <3>1. Below(y) # Below(x) /\ Below(y) \in SUBSET S /\ Below(x) \in SUBSET S
        BY <2>2
      <3> HIDE DEF Below
      <3> QED BY <1>5, <2>1, <3>1 DEF StrictSubsetOrdering
    <2> QED BY <1>4, <2>3
  <1> QED BY <1>6

(* The lexicographic order of tuples of one length is strict.               *)
LEMMA PrecedesIsStrict ==
    ASSUME NEW n \in Nat, NEW a \in [1 .. n -> Int], NEW b \in [1 .. n -> Int],
           NEW c \in [1 .. n -> Int]
    PROVE  /\ ~Precedes(a, a)
           /\ Precedes(a, b) /\ Precedes(b, c) => Precedes(a, c)
  <1>1. ~Precedes(a, a)
    BY DEF Precedes
  <1>2. ASSUME Precedes(a, b), Precedes(b, c) PROVE Precedes(a, c)
    <2>1. PICK i \in 1 .. n : a[i] < b[i] /\ \A k \in 1 .. i - 1 : a[k] = b[k]
      BY <1>2 DEF Precedes
    <2>2. PICK j \in 1 .. n : b[j] < c[j] /\ \A k \in 1 .. j - 1 : b[k] = c[k]
      BY <1>2 DEF Precedes
    <2> PICK h : h = IF i <= j THEN i ELSE j
      OBVIOUS
    <2>3. h \in 1 .. n /\ a[h] < c[h] /\ \A k \in 1 .. h - 1 : a[k] = c[k]
      BY <2>1, <2>2
    <2> QED BY <2>3 DEF Precedes
  <1> QED BY <1>1, <1>2

(* min_by_key and max_by_key find something in a set that is not empty.     *)
LEMMA LeastExists ==
    ASSUME NEW S, IsFiniteSet(S), S # {}, NEW n \in Nat, NEW K,
           \A x \in S : K[x] \in [1 .. n -> Int]
    PROVE  /\ \E x \in S : \A y \in S : ~Precedes(K[y], K[x])
           /\ \E x \in S : \A y \in S : ~Precedes(K[x], K[y])
  <1>1. \A x \in S : ~Precedes(K[x], K[x])
    BY PrecedesIsStrict
  <1>2. \A x, y, z \in S : Precedes(K[x], K[y]) /\ Precedes(K[y], K[z]) => Precedes(K[x], K[z])
    BY PrecedesIsStrict
  <1> DEFINE Up == {p \in S \X S : Precedes(K[p[1]], K[p[2]])}
             Down == {p \in S \X S : Precedes(K[p[2]], K[p[1]])}
  <1>3. \A x, y \in S : /\ <<x, y>> \in Up <=> Precedes(K[x], K[y])
                        /\ <<x, y>> \in Down <=> Precedes(K[y], K[x])
    OBVIOUS
  <1> HIDE DEF Up, Down
  <1>4. \E x \in S : \A y \in S : <<y, x>> \notin Up
    <2>1. \A x \in S : <<x, x>> \notin Up
      BY <1>1, <1>3
    <2>2. \A x, y, z \in S : <<x, y>> \in Up /\ <<y, z>> \in Up => <<x, z>> \in Up
      BY <1>2, <1>3
    <2> QED BY <2>1, <2>2, FiniteMinimum
  <1>5. \E x \in S : \A y \in S : <<y, x>> \notin Down
    <2>1. \A x \in S : <<x, x>> \notin Down
      BY <1>1, <1>3
    <2>2. \A x, y, z \in S : <<x, y>> \in Down /\ <<y, z>> \in Down => <<x, z>> \in Down
      BY <1>2, <1>3
    <2> QED BY <2>1, <2>2, FiniteMinimum
  <1> QED BY <1>3, <1>4, <1>5

-----------------------------------------------------------------------------
(* The calls of the scheduler                                               *)

(* A handler asks the scheduler about a job or a device: it has not touched *)
(* the queues, what the scheduler is shown of the slots is what they are    *)
(* now, and its answer will be executed.                                    *)
Consults(cb) ==
    /\ act.op = "none" /\ cb.on \in {"arrival", "free", "point"}
    /\ phase.op \in {"poll", "idle"} /\ phase'.op \in {"release", "trigger", "point", phase.op}
    /\ nextJob' = nextJob /\ queue' = queue /\ level' = level
    /\ cb.slots = running' /\ cb.time = now'
    /\ metrics'.missed = metrics.missed
    /\ mem' = Remember(cb) /\ act' \in Answers(cb, mem')
    /\ cb.on = "arrival" =>
          /\ cb.job \in JobIds /\ running' = running /\ Polling
          /\ \/ JobsStay /\ jobs[cb.job].state \in {"Released"} \cup TerminalStates
                /\ phase'.op = "release"
                /\ \E e \in EventsOf("TaskArrival") : e.job = cb.job
             \/ /\ jobs[cb.job].state = "Transferring" /\ jobs[cb.job].dev \in DeviceIds
                /\ Becomes(cb.job, "Ready", jobs[cb.job].dev) /\ phase'.op = "trigger"
    /\ cb.on = "free" =>
          /\ cb.dev \in DeviceIds /\ running'[cb.dev] = NoJob
          /\ \/ JobsStay /\ running' = running /\ phase.op = "idle"
             \/ /\ cb.job \in JobIds /\ running[cb.dev] = cb.job /\ jobs[cb.job].state = "Running"
                /\ Becomes(cb.job, "Completed", cb.dev)
                /\ running' = [running EXCEPT ![cb.dev] = NoJob] /\ phase.op = "poll"
    /\ cb.on = "point" =>
          /\ JobsStay /\ running' = running /\ cb.dev \in DeviceIds /\ cb.job \in JobIds
          /\ running[cb.dev] = cb.job /\ HasPreemptionPoints(cb.dev)
          /\ phase'.op = "point"

(* A handler shows the scheduler the slots before it goes through a list.   *)
Observes(cb) ==
    /\ act.op = "none" /\ cb.on \in {"critical", "reevaluation"} /\ cb.slots = running
    /\ phase.op = "poll" /\ phase'.op \in {"critical", "reevaluate", "reevaluateTick"}
    /\ phase'.k = 0 /\ cb.time = now'
    /\ level' = IF phase'.op = "critical" THEN "Hi" ELSE level
    /\ mem' = Remember(cb) /\ JobsStay /\ UNCHANGED <<running, queue, act, metrics>>

(* A list goes on with the answer for one device.                           *)
Reevaluates(a) ==
    /\ Reevaluating /\ phase.k \in DeviceIds /\ Reevaluate(a)
    /\ a \in Answers(Reevaluated(phase.k, now), mem)
    /\ JobsStay /\ UNCHANGED <<running, queue, level, metrics, mem>>

(* Nobody is asked.                                                         *)
Purging ==
    /\ phase.op \in {"critical", "dropLo", "idle"} /\ phase'.op \in {"critical", "dropLo", "idle"}
    /\ act.op = "none" /\ PlacedJob' = NoJob
    /\ JobsStay /\ UNCHANGED <<running, queue, level, metrics>>
(* All the steps that do not consult the scheduler.                         *)
Unasked ==
    /\ mem' = mem
    /\ phase.op = "poll" => phase'.op \notin {"reevaluate", "reevaluateTick"}
    /\ Quiet \/ Acting \/ (\E e \in events : DeadlineCheck(e)) \/ Purging \/ UNCHANGED policyVars

(* An arriving job, for the first time or after its transfer.               *)
LEMMA ArrivalConsults ==
    ASSUME IInv, NEW e, Consult(Arriving(e)), NEW a \in Answers(Arriving(e), mem'),
           \/ e \in EventsOf("TaskArrival") /\ TaskArrival(e, a)
           \/ e \in EventsOf("TransferComplete") /\ TransferComplete(e, a)
    PROVE  Consults(Arriving(e))
  <1> PICK cb : cb = Arriving(e)
    OBVIOUS
  <1>1. cb.on = "arrival" /\ cb.slots = running /\ cb.job = e.job /\ cb.time = now'
    BY DEF Arriving, Call, TaskArrival, TransferComplete, Handles, Pops
  <1>2. CASE e \in EventsOf("TaskArrival") /\ TaskArrival(e, a)
    <2>1. /\ Polling /\ phase'.op = "release" /\ act' = a /\ e.job \in JobIds
          /\ jobs[e.job].state \in {"Released"} \cup TerminalStates
          /\ JobsStay /\ UNCHANGED <<running, queue, level>> /\ metrics'.missed = metrics.missed
      BY <1>2, TaskArrivalEffect
    <2> QED BY <1>1, <1>2, <2>1 DEF Consults, Consult, JobsStay, Polling
  <1>3. CASE e \in EventsOf("TransferComplete") /\ TransferComplete(e, a)
    <2>1. /\ Polling /\ phase' = Trigger /\ act' = a /\ e.job \in JobIds /\ e.dev \in DeviceIds
          /\ jobs[e.job].state = "Transferring" /\ jobs[e.job].dev = e.dev
          /\ Becomes(e.job, "Ready", e.dev) /\ UNCHANGED <<running, queue, level, metrics>>
      BY <1>3, TransferCompleteEffect
    <2> QED BY <1>1, <2>1 DEF Consults, Consult, Becomes, Polling, Trigger, Phase
  <1> QED BY <1>2, <1>3

(* A device that becomes free because its job completes.                    *)
LEMMA CompletionConsults ==
    ASSUME IInv, NEW e \in EventsOf("JobComplete"), NEW a \in Answers(Completed(e), mem'),
           JobComplete(e, a), running[e.dev] = e.job => Consult(Completed(e))
    PROVE  Consults(Completed(e))
  <1> PICK cb : cb = Completed(e)
    OBVIOUS
  <1>1. /\ cb.on = "free" /\ cb.slots = [running EXCEPT ![e.dev] = NoJob]
        /\ cb.job = e.job /\ cb.dev = e.dev /\ cb.time = now'
    BY DEF Completed, Call, JobComplete, Handles, Pops
  <1>2. /\ Polling /\ phase' = Trigger /\ act' = a
        /\ e.job \in JobIds /\ e.dev \in DeviceIds /\ running[e.dev] = e.job
        /\ jobs[e.job].state = "Running" /\ Becomes(e.job, "Completed", e.dev)
        /\ running' = [running EXCEPT ![e.dev] = NoJob]
        /\ UNCHANGED <<queue, level>> /\ metrics'.missed = metrics.missed
    BY JobCompleteEffect
  <1>3. running'[e.dev] = NoJob
    BY <1>2 DEF IInv, TypeOK
  <1> QED BY <1>1, <1>2, <1>3 DEF Consults, Consult, Becomes, Polling, Trigger, Phase

(* A device at a preemption point.                                          *)
LEMMA PointConsults ==
    ASSUME IInv, NEW e \in EventsOf("PreemptionPoint"), NEW a \in Answers(AtPoint(e), mem'),
           PreemptionPoint(e, a), running[e.dev] = e.job => Consult(AtPoint(e))
    PROVE  Consults(AtPoint(e))
  <1> PICK cb : cb = AtPoint(e)
    OBVIOUS
  <1>1. /\ cb.on = "point" /\ cb.slots = running /\ cb.job = e.job /\ cb.dev = e.dev
        /\ cb.time = now'
    BY DEF AtPoint, Call, PreemptionPoint, Handles, Pops
  <1>2. /\ Polling /\ phase'.op = "point" /\ act' = a
        /\ e.job \in JobIds /\ e.dev \in DeviceIds /\ running[e.dev] = e.job
        /\ HasPreemptionPoints(e.dev)
        /\ JobsStay /\ UNCHANGED <<running, queue, level, metrics>>
    BY PreemptionPointEffect
  <1> QED BY <1>1, <1>2 DEF Consults, Consult, JobsStay, Polling

(* A device that is idle after a criticality switch.                        *)
LEMMA IdleConsults ==
    ASSUME IInv, AtDevice("idle"), act.op = "none", running[phase.k] = NoJob,
           Consult(Idle(phase.k)), NEW a \in Answers(Idle(phase.k), mem'), DispatchIdle(a)
    PROVE  Consults(Idle(phase.k))
  <1> PICK cb : cb = Idle(phase.k)
    OBVIOUS
  <1>1. /\ cb.on = "free" /\ cb.slots = running /\ cb.job = NoJob /\ cb.dev = phase.k
        /\ cb.time = now'
    BY DEF Idle, Call, DispatchIdle
  <1>2. JobsStay /\ UNCHANGED <<running, queue, level, metrics>>
    BY LoopStepsEffect
  <1>3. phase'.op = "idle" /\ act' = a
    BY DEF DispatchIdle, Phase
  <1> QED BY <1>1, <1>2, <1>3 DEF Consults, Consult, JobsStay, AtDevice

(* The handlers that go through a list start like this.                     *)
LEMMA ListCalls ==
    ASSUME IInv, EngineStep, phase.op = "poll",
           phase'.op \in {"critical", "reevaluate", "reevaluateTick"}
    PROVE  /\ act.op = "none" /\ phase'.k = 0 /\ JobsStay
           /\ UNCHANGED <<running, queue, act, metrics>>
           /\ level' = IF phase'.op = "critical" THEN "Hi" ELSE level
  <1>1. ~(ScheduleInitialArrival \/ ScheduleReplayJob \/ StartRun)
    BY DEF ScheduleInitialArrival, ScheduleReplayJob, StartRun
  <1>2. ~(ReleaseNextJob \/ ReschedulePoint \/ SchedulerDropsNoMore \/ DispatchIdleDone
          \/ ReevaluateDone \/ ScheduleTriggeredReevaluation \/ Ended \/ DropLoJobs)
    BY DEF ReleaseNextJob, ReschedulePoint, SchedulerDropsNoMore, DispatchIdleDone, ReevaluateDone,
           ScheduleTriggeredReevaluation, Ended, DropLoJobs, Continues, Reevaluating
  <1>3. ~(DiscardStale \/ SimulationEnd \/ Acting \/ \E e \in events : DeadlineCheck(e))
    BY ActingKeepsPlaced, DeadlineCheckEffect DEF DiscardStale, SimulationEnd, Phase
  <1>4. PICK e \in events : BudgetOverrun(e) \/ TriggeredReevaluation(e) \/ PeriodicReevaluation(e)
    BY <1>1, <1>2, <1>3, EngineSteps DEF Quiet
  <1>5. act.op = "none" /\ JobsStay /\ UNCHANGED <<running, queue, act, metrics>>
    BY <1>4 DEF BudgetOverrun, TriggeredReevaluation, PeriodicReevaluation, Handles, Pops, Polling,
                JobsStay, jobVars, deviceVars
  <1>6. phase'.k = 0
    BY <1>4 DEF BudgetOverrun, TriggeredReevaluation, PeriodicReevaluation, Phase, Trigger
  <1>7. level' = IF phase'.op = "critical" THEN "Hi" ELSE level
    BY <1>4 DEF BudgetOverrun, TriggeredReevaluation, PeriodicReevaluation, Phase, Trigger
  <1> QED BY <1>5, <1>6, <1>7

(* Every step of the engine under a scheduler is one of these.              *)
LEMMA StepsOfAPolicy ==
    ASSUME IInv, [PolicyNext]_policyVars
    PROVE  \/ \E cb : Consults(cb)
           \/ \E cb : Observes(cb)
           \/ \E a : Reevaluates(a)
           \/ Unasked
  <1>1. CASE UNCHANGED policyVars
    BY <1>1 DEF Unasked, policyVars, vars
  <1>2. CASE EngineStep /\ CallsForList
    <2>1. CASE phase.op = "poll" /\ phase'.op = "critical"
      <3>1. mem' = Remember(Switched(now'))
        BY <1>2, <2>1 DEF CallsForList
      <3> QED BY <1>2, <2>1, <3>1, ListCalls DEF Observes, Switched, Call
    <2>2. CASE phase.op = "poll" /\ phase'.op \in {"reevaluate", "reevaluateTick"}
      <3>1. mem' = Remember(Reevaluated(NoDevice, now'))
        BY <1>2, <2>2 DEF CallsForList
      <3> QED BY <1>2, <2>2, <3>1, ListCalls DEF Observes, Reevaluated, Call
    <2>3. CASE ~(phase.op = "poll" /\ phase'.op \in {"critical", "reevaluate", "reevaluateTick"})
      <3>1. mem' = mem
        BY <1>2, <2>3 DEF CallsForList
      <3>2. CASE DropLoJobs
        <4>1. JobsStay /\ UNCHANGED <<running, queue, level, metrics>> /\ act.op = "none"
          BY <3>2, LoopStepsEffect
        <4>2. /\ phase.op = "dropLo" /\ phase'.op \in {"dropLo", "idle"}
              /\ act' = act \/ \E j : act' = Drop(j)
          BY <3>2 DEF DropLoJobs, Continues, Phase
        <4>3. PlacedJob' = NoJob
          BY <4>1, <4>2, PlacedByAction DEF PlacedJob, PlacedBy
        <4> QED BY <3>1, <4>1, <4>2, <4>3 DEF Unasked, Purging
      <3> QED BY <1>2, <2>3, <3>1, <3>2, EngineSteps DEF Unasked
    <2> QED BY <2>1, <2>2, <2>3
  <1>3. CASE PolicyStep
    <2>1. ASSUME NEW e \in EventsOf("TaskArrival"), Consult(Arriving(e)),
                 NEW a \in Answers(Arriving(e), mem'), TaskArrival(e, a)
          PROVE  \E cb : Consults(cb)
      BY <2>1, ArrivalConsults
    <2>2. ASSUME NEW e \in EventsOf("JobComplete"),
                 running[e.dev] = e.job => Consult(Completed(e)),
                 NEW a \in Answers(Completed(e), mem'), JobComplete(e, a)
          PROVE  \E cb : Consults(cb)
      BY <2>2, CompletionConsults
    <2>3. ASSUME NEW e \in EventsOf("PreemptionPoint"),
                 running[e.dev] = e.job => Consult(AtPoint(e)),
                 NEW a \in Answers(AtPoint(e), mem'), PreemptionPoint(e, a)
          PROVE  \E cb : Consults(cb)
      BY <2>3, PointConsults
    <2>4. ASSUME NEW e \in EventsOf("TransferComplete"),
                 IF IsTerminal(e.job) THEN mem' = mem ELSE Consult(Arriving(e)),
                 NEW a \in Answers(Arriving(e), mem'), TransferComplete(e, a)
          PROVE  \E cb : Consults(cb)
      <3>1. ~IsTerminal(e.job)
        BY <2>4, TransferCompleteEffect
      <3> QED BY <2>4, <3>1, ArrivalConsults
    <2>5. CASE AtDevice("idle") /\ act.op = "none" /\ running[phase.k] = NoJob
               /\ Consult(Idle(phase.k)) /\ \E a \in Answers(Idle(phase.k), mem') : DispatchIdle(a)
      BY <2>5, IdleConsults
    <2>6. ASSUME mem' = mem,
                 (\E j : SchedulerDropsLo(j)) \/ SchedulerDropsNoMore \/ DispatchIdle(NoAction)
          PROVE  Unasked
      <3>1. JobsStay /\ UNCHANGED <<running, queue, level, metrics>> /\ act.op = "none"
        BY <2>6, LoopStepsEffect
        DEF SchedulerDropsNoMore, JobsStay, jobVars, deviceVars, Continues
      <3>2. PlacedJob' = NoJob
        BY <2>6, <3>1, PlacedByAction
        DEF PlacedJob, PlacedBy, SchedulerDropsLo, SchedulerDropsNoMore, DispatchIdle
      <3>3. /\ phase.op \in {"critical", "dropLo", "idle"}
            /\ phase'.op \in {"critical", "dropLo", "idle"}
        BY <2>6 DEF SchedulerDropsLo, SchedulerDropsNoMore, DispatchIdle, Continues, Phase
      <3> QED BY <2>6, <3>1, <3>2, <3>3 DEF Unasked, Purging
    <2>7. ASSUME phase.k \in DeviceIds, mem' = mem,
                 NEW a \in Answers(Reevaluated(phase.k, now), mem), Reevaluate(a)
          PROVE  Reevaluates(a)
      BY <2>7, LoopStepsEffect DEF Reevaluates, Reevaluate
    <2> QED BY <1>3, <2>1, <2>2, <2>3, <2>4, <2>5, <2>6, <2>7 DEF PolicyStep, AtDevice
  <1> QED BY <1>1, <1>2, <1>3 DEF PolicyNext

-----------------------------------------------------------------------------
(* Where jobs are placed                                                    *)

(* The answer to a call is one the engine allows.                           *)
LEMMA ConsultedAnswer ==
    ASSUME IInv, policy \in Schedulers, NEW cb, Consults(cb)
    PROVE  /\ cb.on = "arrival" => act' \in ArrivalActions(cb.job)
           /\ cb.on = "free" => act' \in FreeActions(cb.dev)
           /\ cb.on = "point" => act' \in PointActions(cb.dev, cb.job)
  <1>1. cb.on = "arrival" => jobs[cb.job].task \in TaskIds
    BY DEF Consults, IInv, TypeOK, JobRecord
  <1>2. act' \in Answers(cb, mem')
    BY DEF Consults
  <1>3. Allowed(act', cb)
    BY <1>1, <1>2, AnswersAllowed
  <1> QED BY <1>3 DEF Allowed

(* The job about to be placed is the one it was, or the arriving one, sent  *)
(* where it has affinity for, or one of the queue of the device.            *)
LEMMA PlacedFrom ==
    ASSUME IInv, policy \in Schedulers, [PolicyNext]_policyVars
    PROVE  \/ PlacedJob' = NoJob
           \/ PlacedJob' = PlacedJob /\ act'.dev = act.dev
           \/ /\ act.op = "none" /\ PlacedJob' \in JobIds /\ act'.dev \in DeviceIds
              /\ \/ act'.dev \in Compatible(PlacedJob')
                 \/ PlacedJob' \in queue[act'.dev]
  <1>1. PlacedJob' = PlacedBy(act')
    BY DEF PlacedJob
  <1>2. \A d \in DeviceIds : queue[d] \subseteq JobIds
    BY DEF IInv, TypeOK
  <1>3. ASSUME NEW cb, Consults(cb), PlacedJob' # NoJob
        PROVE  /\ act.op = "none" /\ PlacedJob' \in JobIds /\ act'.dev \in DeviceIds
               /\ \/ act'.dev \in Compatible(PlacedJob')
                  \/ PlacedJob' \in queue[act'.dev]
    <2>1. act.op = "none" /\ PlacedBy(act') # NoJob
      BY <1>1, <1>3 DEF Consults
    <2>2. CASE cb.on = "arrival"
      <3>1. act' \in ArrivalActions(cb.job)
        BY <1>3, <2>2, ConsultedAnswer
      <3>2. PlacedBy(act') = cb.job /\ act'.dev \in Compatible(cb.job)
        BY <2>1, <3>1, PlacedByArrival
      <3>3. cb.job \in JobIds
        BY <1>3, <2>2 DEF Consults
      <3> QED BY <1>1, <2>1, <3>2, <3>3 DEF Compatible
    <2>3. CASE cb.on = "free"
      <3>1. act' \in FreeActions(cb.dev)
        BY <1>3, <2>3, ConsultedAnswer
      <3>2. PlacedBy(act') \in queue[cb.dev] /\ act' = Dispatch(PlacedBy(act'), cb.dev, 0)
        BY <2>1, <3>1, PlacedByFree, PlacedByAction
      <3>3. cb.dev \in DeviceIds /\ act'.dev = cb.dev
        BY <1>3, <2>3, <3>2, PlacedByAction DEF Consults
      <3> QED BY <1>1, <1>2, <2>1, <3>2, <3>3
    <2>4. CASE cb.on = "point"
      <3>1. act' \in PointActions(cb.dev, cb.job)
        BY <1>3, <2>4, ConsultedAnswer
      <3>2. PlacedBy(act') \in queue[cb.dev] /\ act'.dev = cb.dev
        BY <2>1, <3>1, PlacedByPoint, PlacedByAction
      <3>3. cb.dev \in DeviceIds
        BY <1>3, <2>4 DEF Consults
      <3> QED BY <1>1, <1>2, <2>1, <3>2, <3>3
    <2> QED BY <1>3, <2>2, <2>3, <2>4 DEF Consults
  <1>4. ASSUME NEW a, Reevaluates(a), PlacedJob' # NoJob
        PROVE  /\ act.op = "none" /\ PlacedJob' \in JobIds /\ act'.dev \in DeviceIds
               /\ PlacedJob' \in queue[act'.dev]
    <2>1. /\ act.op = "none" /\ phase.k \in DeviceIds /\ act' = a
          /\ a \in Answers(Reevaluated(phase.k, now), mem)
      BY <1>4 DEF Reevaluates, Reevaluate, Reevaluating
    <2>2. a \in ReevaluationActions(phase.k)
      BY <2>1, AnswersAllowed DEF Allowed, Reevaluated, Call
    <2>3. PlacedBy(a) \in queue[phase.k] /\ a.dev = phase.k
      BY <1>1, <1>4, <2>1, <2>2, PlacedByReevaluation, PlacedByAction
    <2> QED BY <1>1, <1>2, <2>1, <2>3
  <1>5. (\E cb : Observes(cb)) => PlacedJob' = PlacedJob /\ act'.dev = act.dev
    BY DEF Observes, PlacedJob
  <1>6. CASE Unasked
    <2>1. Quiet \/ (\E e \in events : DeadlineCheck(e)) \/ UNCHANGED policyVars => act' = act
      BY QuietSteps, DeadlineCheckEffect DEF QuietEffect, policyVars, vars
    <2>2. act' = act => PlacedJob' = PlacedJob /\ act'.dev = act.dev
      BY DEF PlacedJob
    <2> QED BY <1>6, <2>1, <2>2, ActingKeepsPlaced DEF Unasked, Purging
  <1> QED BY <1>3, <1>4, <1>5, <1>6, StepsOfAPolicy

(* Jobs go only where their task has affinity for.                          *)
LEMMA PlacesNext ==
    ASSUME IInv, policy \in Schedulers, PlacesAreCompatible, [PolicyNext]_policyVars
    PROVE  PlacesAreCompatible'
  <1>1. JobsFate
    BY FateOfJobs
  <1>2. \A k \in JobIds : Compatible(k)' = Compatible(k)
    BY <1>1 DEF JobsFate, Fate, SameJob, Compatible, TaskOf
  <1>3. ASSUME NEW k \in JobIds', jobs'[k].dev # NoDevice
        PROVE  jobs'[k].dev \in Compatible(k)'
    <2>1. k \in JobIds /\ Fate(k)
      BY <1>1, <1>3 DEF JobsFate
    <2>2. CASE jobs'[k].dev = jobs[k].dev
      BY <1>2, <1>3, <2>1, <2>2 DEF PlacesAreCompatible
    <2>3. CASE act.op \in {"dispatch", "enqueue"} /\ k = act.job /\ jobs'[k].dev = act.dev
      <3>1. PlacedJob = k /\ k # NoJob
        BY <2>1, <2>3, JobIdsAreNat DEF PlacedJob, PlacedBy, IInv, NoJob
      <3> QED BY <1>2, <2>1, <2>3, <3>1 DEF PlacesAreCompatible
    <2> QED BY <2>1, <2>2, <2>3 DEF Fate
  <1>4. ASSUME PlacedJob' # NoJob
        PROVE  act'.dev \in Compatible(PlacedJob)'
    <2>1. PlacedJob' \in JobIds => Compatible(PlacedJob)' = Compatible(PlacedJob')
      BY <1>1 DEF JobsFate, Fate, SameJob, Compatible, TaskOf
    <2>2. CASE PlacedJob' = PlacedJob /\ act'.dev = act.dev
      <3>1. PlacedJob \in JobIds /\ act.dev \in Compatible(PlacedJob)
        BY <1>4, <2>2, PlacedIsJob DEF PlacesAreCompatible
      <3> QED BY <2>1, <2>2, <3>1
    <2>3. CASE PlacedJob' \in JobIds /\ act'.dev \in Compatible(PlacedJob')
      BY <2>1, <2>3
    <2>4. CASE PlacedJob' \in JobIds /\ PlacedJob' \in queue[act'.dev] /\ act'.dev \in DeviceIds
      <3>1. jobs[PlacedJob'].dev = act'.dev /\ act'.dev # NoDevice
        BY <2>4 DEF IInv, Placement, QueuesHoldWaitingJobs, DeviceIds, NoDevice
      <3> QED BY <2>1, <2>4, <3>1 DEF PlacesAreCompatible
    <2> QED BY <1>4, <2>2, <2>3, <2>4, PlacedFrom
  <1> QED BY <1>3, <1>4 DEF PlacesAreCompatible

-----------------------------------------------------------------------------
(* Federated's memory                                                       *)

(* A queue is finite, and so is every set of devices.                       *)
LEMMA QueuesAreFinite ==
    ASSUME IInv
    PROVE  /\ \A d \in DeviceIds : IsFiniteSet(queue[d]) /\ QueueLength(d) \in Nat
           /\ \A D \in SUBSET DeviceIds : IsFiniteSet(D)
  <1>1. \A d \in DeviceIds : queue[d] \subseteq 0 .. nextJob - 1
    BY DEF IInv, TypeOK, JobIds
  <1>2. nextJob - 1 \in Int /\ NumDevices - 1 \in Int
    BY PlatformAssumption DEF IInv, TypeOK
  <1>3. IsFiniteSet(0 .. nextJob - 1) /\ IsFiniteSet(DeviceIds)
    BY <1>2, FS_Interval DEF DeviceIds
  <1>4. \A d \in DeviceIds : IsFiniteSet(queue[d])
    BY <1>1, <1>3, FS_Subset
  <1>5. \A d \in DeviceIds : QueueLength(d) \in Nat
    BY <1>4, FS_CardinalityType DEF QueueLength
  <1>6. \A D \in SUBSET DeviceIds : IsFiniteSet(D)
    BY <1>3, FS_Subset
  <1> QED BY <1>4, <1>5, <1>6

(* Of some devices, one is least loaded.                                    *)
LEMMA LeastLoadedExists ==
    ASSUME IInv, NEW D \in SUBSET DeviceIds, D # {}
    PROVE  LeastLoaded(D) # {}
  <1> DEFINE K == [d \in D |-> <<BusyRank(d), QueueLength(d), d>>]
  <1>1. \A d \in D : BusyRank(d) \in Int /\ QueueLength(d) \in Int /\ d \in Int
    BY QueuesAreFinite DEF BusyRank, DeviceIds
  <1>2. \A d \in D : K[d] = <<BusyRank(d), QueueLength(d), d>>
    OBVIOUS
  <1>3. IsFiniteSet(D)
    BY QueuesAreFinite
  <1>4. \E x \in D : \A y \in D : ~Precedes(K[y], K[x])
    <2>1. \A d \in D : K[d] \in [1 .. 3 -> Int]
      BY <1>1, <1>2
    <2> HIDE DEF K
    <2> QED BY <1>3, <2>1, LeastExists
  <1> QED BY <1>2, <1>4 DEF LeastLoaded, LeastBy

(* What is left of the pins after stale ones are reclaimed.                 *)
LEMMA ReclaimedKeeps ==
    ASSUME NEW m, IsMemory(m), DevicesAreDedicated(m), NEW cb, NEW r, r = Reclaimed(m, cb)
    PROVE  /\ IsMemory(r) /\ DevicesAreDedicated(r)
           /\ \A j \in VisibleIn(cb) : \A d : PinnedTo(m, j, d) => PinnedTo(r, j, d)
  <1> PICK kept : kept = Retain(m.pins, VisibleIn(cb))
    OBVIOUS
  <1> PICK ded : ded = Retain(m.dedicated, {kept[j] : j \in DOMAIN kept})
    OBVIOUS
  <1>1. IsMemory(r) /\ r.pins = kept /\ r.dedicated = ded
    BY DEF Reclaimed, IsMemory, MemoryFields
  <1>2. DevicesAreDedicated(r)
    <2>1. \A k \in DOMAIN ded : k \in DOMAIN m.dedicated /\ ded[k] = m.dedicated[k]
      BY DEF Retain
    <2> QED BY <1>1, <2>1 DEF DevicesAreDedicated
  <1>3. ASSUME NEW j \in VisibleIn(cb), NEW d, PinnedTo(m, j, d)
        PROVE  PinnedTo(r, j, d)
    <2>1. j \in DOMAIN kept /\ kept[j] = m.pins[j]
      BY <1>3 DEF PinnedTo, Retain
    <2>2. m.pins[j] \in DOMAIN ded /\ ded[m.pins[j]] = m.dedicated[m.pins[j]]
      BY <1>3, <2>1 DEF PinnedTo, Retain
    <2> QED BY <1>1, <1>3, <2>1, <2>2 DEF PinnedTo
  <1> QED BY <1>1, <1>2, <1>3

(* The device for a job of a DAG: the dedicated one, which stays so.        *)
LEMMA DedicatedDevice ==
    ASSUME NEW j, NEW r, DevicesAreDedicated(r), NEW t \in DedicatedTo(j, r)
    PROVE  /\ t \in Compatible(j)
           /\ <<DagOf(j), Device[t].type>> \in DOMAIN r.dedicated
           /\ r.dedicated[<<DagOf(j), Device[t].type>>] = t
  <1>1. PICK i \in DOMAIN TaskOf(j).affinity :
           /\ <<DagOf(j), TaskOf(j).affinity[i]>> \in DOMAIN r.dedicated
           /\ t = r.dedicated[<<DagOf(j), TaskOf(j).affinity[i]>>]
    BY DEF DedicatedTo, FirstOf
  <1>2. t \in DeviceIds /\ Device[t].type = TaskOf(j).affinity[i]
    BY <1>1 DEF DevicesAreDedicated
  <1> QED BY <1>1, <1>2 DEF Compatible

(* If there is none, none is dedicated on any type the job can use.         *)
LEMMA NoDedicatedDevice ==
    ASSUME IInv, NEW j \in JobIds, NEW r, DedicatedTo(j, r) = {}, NEW t \in Compatible(j)
    PROVE  <<DagOf(j), Device[t].type>> \notin DOMAIN r.dedicated
  <1> PICK taken : taken = {i \in DOMAIN TaskOf(j).affinity :
                               <<DagOf(j), TaskOf(j).affinity[i]>> \in DOMAIN r.dedicated}
    OBVIOUS
  <1>1. DedicatedTo(j, r) = {r.dedicated[<<DagOf(j), TaskOf(j).affinity[i]>>] : i \in FirstOf(taken)}
    BY DEF DedicatedTo
  <1>2. FirstOf(taken) = {}
    BY <1>1
  <1>3. TaskOf(j).affinity \in Seq(DeviceTypes)
    BY PlatformAssumption DEF TaskOf, IInv, TypeOK, JobRecord, TaskRecord
  <1>4. taken \in SUBSET Nat
    BY <1>3
  <1>5. taken = {}
    BY <1>2, <1>4, FirstOfNat
  <1> QED BY <1>5 DEF Compatible

(* What Federated remembers of a call: the visible jobs keep their pins, a  *)
(* dedicated device is not dedicated anew, and an arriving job of a DAG is  *)
(* pinned to the device it will be sent to.                                 *)
LEMMA FederatedRemembers ==
    ASSUME IInv, NEW m, IsMemory(m), DevicesAreDedicated(m), NEW cb,
           cb.on = "arrival" => cb.job \in JobIds,
           NEW s, s = FederatedMemory(m, cb)
    PROVE  /\ IsMemory(s) /\ DevicesAreDedicated(s)
           /\ \A j \in VisibleIn(cb) : \A d :
                 PinnedTo(m, j, d) /\ (cb.on = "arrival" => j # cb.job) => PinnedTo(s, j, d)
           /\ cb.on = "arrival" /\ Compatible(cb.job) # {} => FederatedTarget(cb.job, s) # {}
           /\ cb.on = "arrival" /\ DagOf(cb.job) # NoDag =>
                 \A d \in FederatedTarget(cb.job, s) : PinnedTo(s, cb.job, d)
  <1> PICK r : r = Reclaimed(m, cb)
    OBVIOUS
  <1> PICK target : target = IF DedicatedTo(cb.job, r) # {} THEN DedicatedTo(cb.job, r)
                                                            ELSE LeastLoaded(Compatible(cb.job))
    OBVIOUS
  <1>1. /\ IsMemory(r) /\ DevicesAreDedicated(r)
        /\ \A j \in VisibleIn(cb) : \A d : PinnedTo(m, j, d) => PinnedTo(r, j, d)
    BY ReclaimedKeeps
  <1>2. Compatible(cb.job) \in SUBSET DeviceIds
    BY DEF Compatible
  <1>3. CASE cb.on # "arrival"
    BY <1>1, <1>3 DEF FederatedMemory
  <1>4. CASE cb.on = "arrival" /\ DagOf(cb.job) = NoDag
    <2>1. s = r
      BY <1>4 DEF FederatedMemory
    <2>2. Compatible(cb.job) # {} => FederatedTarget(cb.job, s) # {}
      BY <1>2, <1>4, LeastLoadedExists DEF FederatedTarget
    <2> QED BY <1>1, <1>4, <2>1, <2>2
  <1>5. CASE cb.on = "arrival" /\ DagOf(cb.job) # NoDag /\ target = {}
    <2>1. s = r
      BY <1>5 DEF FederatedMemory
    <2>2. Compatible(cb.job) = {}
      BY <1>2, <1>5, LeastLoadedExists
    <2>3. FederatedTarget(cb.job, s) = {}
      BY <1>5, <2>2 DEF FederatedTarget
    <2> QED BY <1>1, <1>5, <2>1, <2>2, <2>3
  <1>6. CASE cb.on = "arrival" /\ DagOf(cb.job) # NoDag /\ target # {}
    <2> PICK t : t = The(target)
      OBVIOUS
    <2> PICK key : key = <<DagOf(cb.job), Device[t].type>>
      OBVIOUS
    <2>1. t \in target
      BY <1>6 DEF The
    <2>2. t \in Compatible(cb.job) /\ (key \in DOMAIN r.dedicated => r.dedicated[key] = t)
      <3>1. CASE DedicatedTo(cb.job, r) # {}
        BY <1>1, <2>1, <3>1, DedicatedDevice
      <3>2. CASE DedicatedTo(cb.job, r) = {}
        <4>1. t \in Compatible(cb.job)
          BY <2>1, <3>2, DeviceChoices
        <4> QED BY <1>6, <3>2, <4>1, NoDedicatedDevice
      <3> QED BY <3>1, <3>2
    <2> PICK pins, ded : pins = Insert(r.pins, cb.job, key) /\ ded = Insert(r.dedicated, key, t)
      OBVIOUS
    <2>3. s = [r EXCEPT !.pins = pins, !.dedicated = ded]
      BY <1>6 DEF FederatedMemory
    <2>4. IsMemory(s) /\ s.pins = pins /\ s.dedicated = ded
      BY <1>1, <2>3 DEF IsMemory, MemoryFields
    <2>5. /\ DOMAIN pins = DOMAIN r.pins \cup {cb.job} /\ pins[cb.job] = key
          /\ \A j \in DOMAIN r.pins : j # cb.job => pins[j] = r.pins[j]
      BY DEF Insert
    <2>6. /\ DOMAIN ded = DOMAIN r.dedicated \cup {key} /\ ded[key] = t
          /\ \A k \in DOMAIN r.dedicated : ded[k] = r.dedicated[k]
      BY <2>2 DEF Insert
    <2>7. DevicesAreDedicated(s)
      <3>1. ded[key] \in DeviceIds /\ Device[ded[key]].type = key[2]
        BY <2>2, <2>6 DEF Compatible
      <3>2. ASSUME NEW k \in DOMAIN r.dedicated
            PROVE  ded[k] \in DeviceIds /\ Device[ded[k]].type = k[2]
        <4>1. r.dedicated[k] \in DeviceIds /\ Device[r.dedicated[k]].type = k[2]
          BY <1>1 DEF DevicesAreDedicated
        <4> QED BY <2>6, <4>1
      <3>3. \A k \in DOMAIN ded : ded[k] \in DeviceIds /\ Device[ded[k]].type = k[2]
        BY <2>6, <3>1, <3>2
      <3> QED BY <2>4, <3>3 DEF DevicesAreDedicated
    <2>8. \A j, d : PinnedTo(r, j, d) /\ j # cb.job => PinnedTo(s, j, d)
      BY <2>4, <2>5, <2>6 DEF PinnedTo
    <2>9. PinnedTo(s, cb.job, t)
      BY <2>4, <2>5, <2>6 DEF PinnedTo
    <2>10. FederatedTarget(cb.job, s) # {}
      BY <1>6, <2>2, <2>9 DEF FederatedTarget, PinnedTo
    <2>11. \A d \in FederatedTarget(cb.job, s) : PinnedTo(s, cb.job, d)
      BY <1>6, <2>9 DEF FederatedTarget, PinnedTo
    <2> QED BY <1>1, <1>6, <2>4, <2>7, <2>8, <2>10, <2>11
  <1> QED BY <1>3, <1>4, <1>5, <1>6

(* An arriving job with a device to go to is sent there.                    *)
LEMMA FederatedPlaces ==
    ASSUME NEW cb, cb.on = "arrival", NEW m, FederatedTarget(cb.job, m) # {},
           NEW a \in FederatedAnswers(cb, m)
    PROVE  PlacedBy(a) = cb.job /\ a.dev \in FederatedTarget(cb.job, m)
  <1> PICK D : D = FederatedTarget(cb.job, m)
    OBVIOUS
  <1>1. \/ \E d \in D : a = Dispatch(cb.job, d, 0) \/ a = Enqueue(cb.job, d)
        \/ \E d \in D : a = Preempt(running[d], cb.job, d, FALSE)
    BY DEF FederatedAnswers, PlaceOn, IdleOf, BusyOf, NoOpIf
  <1>2. ASSUME NEW d \in D, a = Preempt(running[d], cb.job, d, FALSE)
        PROVE  PlacedBy(a) = cb.job /\ a.dev = d
    <2> PICK i, j : i = running[d] /\ j = cb.job
      OBVIOUS
    <2>1. a = Preempt(i, j, d, FALSE)
      BY <1>2
    <2> QED BY <2>1, PlacedByPreemption
  <1>3. \A d : a = Dispatch(cb.job, d, 0) \/ a = Enqueue(cb.job, d) =>
            PlacedBy(a) = cb.job /\ a.dev = d
    BY PlacedByAction
  <1> QED BY <1>1, <1>2, <1>3


-----------------------------------------------------------------------------
(* Ready jobs wait in a queue                                               *)

(* Where every task has models, one is found for each type of device.       *)
LEMMA ModelsExist ==
    ASSUME TasksHaveModels, NEW t \in TaskIds, NEW type
    PROVE  ModelFor(t, type) # {}
  <1> PICK models : models = Task[t].execTimes
    OBVIOUS
  <1> PICK matching : matching = {i \in DOMAIN models : models[i].type = type}
    OBVIOUS
  <1>1. DOMAIN models \in SUBSET Nat /\ DOMAIN models # {}
    <2>1. models # <<>> /\ models \in Seq([type: DeviceTypes, model: ExecModel])
      BY PlatformAssumption DEF TasksHaveModels, TaskRecord
    <2> QED BY <2>1
  <1>2. FirstOf(DOMAIN models) # {} /\ (matching # {} => FirstOf(matching) # {})
    BY <1>1, FirstOfNat
  <1> QED BY <1>2 DEF ModelFor

(* So no dispatch comes to nothing.                                         *)
LEMMA DispatchHasModel == IInv /\ TasksHaveModels => ~DispatchWithoutModel
  <1> SUFFICES ASSUME IInv, TasksHaveModels, DispatchWithoutModel PROVE FALSE
    OBVIOUS
  <1>1. MayDispatch /\ ExecTimes = {}
    BY DispatchWithoutModelEffect
  <1>2. jobs[act.job].task \in TaskIds /\ act.dev \in DeviceIds /\ level \in Levels
    BY <1>1, MayDispatchEffect DEF IInv, TypeOK
  <1> QED BY <1>1, <1>2, SampleExecTimeExists, ModelsExist DEF ExecTimes

(* An action takes a job out of its queue only to give it another state.    *)
LEMMA ActingKeepsWaiting ==
    ASSUME IInv, TasksHaveModels, Acting, NEW j \in JobIds,
           jobs'[j].state = "Ready", j # PlacedJob',
           jobs[j].state = "Ready" /\ j # PlacedJob => Queued(j)
    PROVE  Queued(j)'
  <1>1. ~DispatchWithoutModel /\ queue \in [DeviceIds -> SUBSET JobIds] /\ j # NoJob
    BY DispatchHasModel, JobIdsAreNat DEF IInv, TypeOK, NoJob
  <1>2. CASE DispatchTerminal
    BY <1>2, DispatchTerminalEffect DEF DispatchTerminal, Executing, IsTerminal, TerminalStates, JobsStay, PlacedJob, PlacedBy, Queued
  <1>3. CASE DispatchBusy
    <2>1. /\ JobsStay /\ queue' = queue /\ act.op = "dispatch" /\ act.dev \in DeviceIds
          /\ act' = IF running[act.dev] = act.job THEN NoAction ELSE Enqueue(act.job, act.dev)
      BY <1>3, DispatchBusyEffect DEF DispatchBusy
    <2>2. j # act.job
      <3>1. CASE running[act.dev] = act.job
        BY <1>1, <2>1, <3>1, RunningJob DEF JobsStay
      <3>2. CASE running[act.dev] # act.job
        BY <2>1, <3>2, PlacedByAction DEF PlacedJob
      <3> QED BY <3>1, <3>2
    <2> QED BY <2>1, <2>2 DEF JobsStay, PlacedJob, PlacedBy, Queued
  <1>4. CASE DispatchTransfer \/ DispatchRun
    <2>1. MayDispatch /\ \E s \in {"Transferring", "Running"} : Becomes(act.job, s, act.dev)
      BY <1>4, DispatchTransferEffect, DispatchRunEffect
    <2>2. act.op = "dispatch" /\ LeavesQueues(act.job)
      BY <2>1, MayDispatchEffect
    <2>3. j # act.job /\ jobs'[j] = jobs[j]
      BY <2>1 DEF Becomes
    <2>4. Queued(j)
      BY <2>2, <2>3 DEF PlacedJob, PlacedBy
    <2> QED BY <2>2, <2>3, <2>4 DEF LeavesQueues, Queued
  <1>5. CASE PreemptNow
    <2>1. /\ Becomes(act.job, "Suspended", act.dev) /\ Joins(act.job, act.dev)
      BY <1>5, PreemptNowEffect
    <2>2. PlacedJob' = PlacedJob
      BY <1>5, PreemptNowEffect DEF PlacedJob, PlacedBy
    <2>3. jobs'[j] = jobs[j]
      BY <2>1 DEF Becomes
    <2>4. Queued(j)
      BY <2>2, <2>3
    <2> QED BY <1>1, <2>1, <2>4 DEF Joins, Queued
  <1>6. CASE PreemptDeferred
    <2>1. JobsStay /\ queue' = queue
      BY <1>6, PreemptDeferredEffect
    <2>2. PlacedJob' = PlacedJob
      BY <1>6, PreemptDeferredEffect DEF PlacedJob, PlacedBy
    <2> QED BY <2>1, <2>2 DEF JobsStay, Queued
  <1>7. CASE EnqueueJob
    <2>1. /\ act.op = "enqueue" /\ act.dev \in DeviceIds
          /\ IF IsTerminal(act.job) THEN JobsStay /\ queue' = queue
             ELSE Becomes(act.job, "Ready", act.dev) /\ Joins(act.job, act.dev)
      BY <1>7, EnqueueJobEffect
    <2>2. PlacedJob = act.job
      BY <2>1 DEF PlacedJob, PlacedBy
    <2>3. CASE IsTerminal(act.job)
      BY <2>1, <2>2, <2>3 DEF IsTerminal, TerminalStates, JobsStay, Queued
    <2>4. CASE ~IsTerminal(act.job)
      <3>1. j # act.job => Queued(j)
        BY <2>1, <2>2, <2>4 DEF Becomes
      <3> QED BY <1>1, <2>1, <2>4, <3>1 DEF Joins, Queued
    <2> QED BY <2>3, <2>4
  <1>8. CASE DropJob
    <2>1. /\ act.op = "drop" /\ LeavesQueues(act.job)
          /\ IF IsTerminal(act.job) THEN JobsStay
             ELSE Becomes(act.job, "Dropped", jobs[act.job].dev)
      BY <1>8, DropJobEffect
    <2>2. j # act.job /\ jobs'[j] = jobs[j]
      BY <2>1 DEF IsTerminal, TerminalStates, JobsStay, Becomes
    <2>3. j # PlacedJob
      <3>1. act.by = NoJob => PlacedJob = NoJob
        BY <2>1 DEF PlacedJob, PlacedBy
      <3>2. act.by # NoJob => PlacedJob = PlacedJob'
        <4>1. act.by # NoJob => act' = Dispatch(act.by, act.dev, 0)
          BY <1>8, DropJobEffect
        <4> QED BY <2>1, <4>1, PlacedByAction DEF PlacedJob, PlacedBy
      <3> QED BY <1>1, <3>1, <3>2
    <2>4. Queued(j)
      BY <2>2, <2>3
    <2> QED BY <2>1, <2>2, <2>4 DEF LeavesQueues, Queued
  <1> QED BY <1>1, <1>2, <1>3, <1>4, <1>5, <1>6, <1>7, <1>8 DEF Acting


-----------------------------------------------------------------------------
(* MATCH's memory                                                           *)

(* The elements of a sequence.                                              *)
LEMMA ElementOf ==
    ASSUME NEW S, NEW s \in Seq(S), NEW i \in DOMAIN s
    PROVE  s[i] \in S
  OBVIOUS

(* The time some work takes on a device, as the GPU schedulers count it.    *)
LEMMA ScaledInt ==
    ASSUME NEW d \in DeviceIds, NEW wcet \in Nat
    PROVE  (IF Device[d].num * 1000 < Device[d].den THEN wcet * 1000
            ELSE CeilDiv(wcet * Device[d].den, Device[d].num)) \in Int
  <1>1. Device[d].num \in Nat /\ Device[d].den \in Nat \ {0}
    BY PlatformAssumption DEF DeviceRecord
  <1>2. wcet * 1000 \in Int /\ wcet * Device[d].den \in Nat
    BY <1>1
  <1>3. ~(Device[d].num * 1000 < Device[d].den) => Device[d].num # 0
    BY <1>1
  <1>4. \A x \in Nat, n \in Nat : n # 0 => CeilDiv(x, n) \in Int
    <2> SUFFICES ASSUME NEW x \in Nat, NEW n \in Nat, n # 0 PROVE CeilDiv(x, n) \in Int
      OBVIOUS
    <2>1. CeilDiv(x, n) \in Nat
      BY CeilDivNat
    <2> QED BY <2>1
  <1> QED BY <1>1, <1>2, <1>3, <1>4

(* The service time of a job on a device is a number.                       *)
LEMMA ServiceTimeInt ==
    ASSUME IInv, NEW j \in JobIds, NEW d \in DeviceIds
    PROVE  ServiceTime(j, d) \in Int
  <1> DEFINE Entry == [type: DeviceTypes, model: ExecModel]
             models == TaskOf(j).execTimes
             matching == FirstOf({i \in DOMAIN models : models[i].type = Device[d].type})
             wcet == IF matching = {} THEN MissingCost ELSE models[The(matching)].model.hi
  <1>1. models \in Seq(Entry)
    BY PlatformAssumption DEF TaskOf, IInv, TypeOK, JobRecord, TaskRecord
  <1>2. ASSUME matching # {} PROVE models[The(matching)].model.hi \in Nat
    <2>1. The(matching) \in matching
      BY <1>2 DEF The
    <2>2. The(matching) \in DOMAIN models
      BY <2>1 DEF FirstOf
    <2>3. models[The(matching)] \in Entry
      <3> HIDE DEF Entry, models, matching
      <3> QED BY <1>1, <2>2, ElementOf
    <2> QED BY <2>3 DEF ExecModel
  <1>3. wcet \in Nat
    BY <1>2, GpuPoliciesAssumption
  <1>4. ServiceTime(j, d) = IF Device[d].num * 1000 < Device[d].den THEN wcet * 1000
                            ELSE CeilDiv(wcet * Device[d].den, Device[d].num)
    BY DEF ServiceTime
  <1> HIDE DEF wcet
  <1> QED BY <1>3, <1>4, ScaledInt

(* A job with a device to go to is given one.                               *)
LEMMA MatchChoiceExists ==
    ASSUME IInv, NEW j \in JobIds, Compatible(j) # {}, NEW m
    PROVE  MatchChoice(j, m) # {}
  <1> PICK D : D = Compatible(j)
    OBVIOUS
  <1> DEFINE K == [d \in D |-> <<(QueueLength(d) + BusyRank(d)) * ServiceTime(j, d),
                                 ServiceTime(j, d), BusyRank(d), QueueLength(d), d>>]
  <1>1. D \in SUBSET DeviceIds
    BY DEF Compatible
  <1>2. \A d \in D : K[d] \in [1 .. 5 -> Int]
    <2> SUFFICES ASSUME NEW d \in D PROVE K[d] \in [1 .. 5 -> Int]
      OBVIOUS
    <2>1. BusyRank(d) \in Int /\ QueueLength(d) \in Int /\ d \in Int
      BY <1>1, QueuesAreFinite DEF BusyRank, DeviceIds
    <2>2. ServiceTime(j, d) \in Int
      BY <1>1, ServiceTimeInt
    <2> QED BY <2>1, <2>2
  <1>3. \E x \in D : \A y \in D : ~Precedes(K[y], K[x])
    <2>1. IsFiniteSet(D) /\ D # {}
      BY <1>1, QueuesAreFinite
    <2> HIDE DEF K
    <2> PICK n \in Nat : n = 5
      OBVIOUS
    <2>2. \A d \in D : K[d] \in [1 .. n -> Int]
      BY <1>2
    <2> QED BY <2>1, <2>2, LeastExists
  <1> QED BY <1>3 DEF MatchChoice, LeastBy

(* What MATCH remembers of a call: the visible jobs keep their device, and  *)
(* an arriving job is mapped to the one it will be sent to.                 *)
LEMMA MatchRemembers ==
    ASSUME IInv, NEW m, IsMemory(m), NEW cb,
           cb.on = "arrival" => cb.job \in JobIds,
           NEW s, s = MatchMemory(m, cb)
    PROVE  /\ IsMemory(s)
           /\ \A j \in VisibleIn(cb), d \in DeviceIds :
                 MappedTo(m, j, d) /\ d \in Compatible(j) /\ (cb.on = "arrival" => j # cb.job) =>
                     MappedTo(s, j, d)
           /\ cb.on = "arrival" /\ Compatible(cb.job) # {} => MatchChoice(cb.job, s) # {}
           /\ cb.on = "arrival" =>
                 \A d \in MatchChoice(cb.job, s) : MappedTo(s, cb.job, d)
  <1> PICK o : o = MatchObserved(m, cb)
    OBVIOUS
  <1> PICK choice : choice = MatchChoice(cb.job, o)
    OBVIOUS
  <1> PICK alloc, mapping :
        /\ alloc = Retain(m.alloc, VisibleIn(cb))
        /\ mapping = Retain(m.mapping, {jobs[j].task : j \in VisibleIn(cb)})
    OBVIOUS
  <1>1. IsMemory(o) /\ o.alloc = alloc /\ o.mapping = mapping
    BY DEF MatchObserved, IsMemory, MemoryFields
  <1>2. ASSUME NEW j \in VisibleIn(cb), NEW d \in DeviceIds, MappedTo(m, j, d)
        PROVE  MappedTo(o, j, d)
    <2>1. jobs[j].task \in DOMAIN mapping /\ mapping[jobs[j].task] = d
      BY <1>2 DEF MappedTo, Retain
    <2>2. j \in DOMAIN alloc => alloc[j] = d
      BY <1>2 DEF MappedTo, Retain
    <2> QED BY <1>1, <2>1, <2>2 DEF MappedTo
  <1>3. CASE cb.on # "arrival"
    BY <1>1, <1>2, <1>3 DEF MatchMemory
  <1>4. CASE cb.on = "arrival" /\ choice = {}
    <2>1. s = o
      BY <1>4 DEF MatchMemory
    <2> QED BY <1>1, <1>2, <1>4, <2>1, MatchChoiceExists
  <1>5. CASE cb.on = "arrival" /\ choice # {}
    <2> PICK t, c : t = jobs[cb.job].task /\ c = The(choice)
      OBVIOUS
    <2> PICK mp, al : mp = Insert(mapping, t, c) /\ al = Insert(alloc, cb.job, c)
      OBVIOUS
    <2>1. s = [o EXCEPT !.mapping = mp, !.alloc = al]
      BY <1>1, <1>5 DEF MatchMemory
    <2>2. IsMemory(s) /\ s.mapping = mp /\ s.alloc = al
      BY <1>1, <2>1 DEF IsMemory, MemoryFields
    <2>3. c \in choice
      BY <1>5 DEF The
    <2>4. c \in Compatible(cb.job)
      BY <2>3 DEF MatchChoice, LeastBy
    <2>5. t \in DOMAIN mp /\ mp[t] = c /\ al[cb.job] = c
      BY DEF Insert
    <2>6. MatchChoice(cb.job, s) = {c}
      BY <2>2, <2>4, <2>5 DEF MatchChoice
    <2>7. MappedTo(s, cb.job, c)
      BY <2>2, <2>5 DEF MappedTo
    <2>8. ASSUME NEW j \in VisibleIn(cb), NEW d \in DeviceIds, MappedTo(m, j, d),
                 d \in Compatible(j), j # cb.job
          PROVE  MappedTo(s, j, d)
      <3>1. jobs[j].task \in DOMAIN mapping /\ mapping[jobs[j].task] = d
            /\ (j \in DOMAIN alloc => alloc[j] = d)
        BY <1>1, <1>2, <2>8 DEF MappedTo
      <3>2. j \in DOMAIN al => al[j] = d
        BY <2>8, <3>1 DEF Insert
      <3>3. jobs[j].task = t => c = d
        <4>1. ASSUME jobs[j].task = t PROVE choice = {d}
          <5>1. d \in Compatible(cb.job)
            BY <2>8, <4>1 DEF Compatible, TaskOf
          <5> QED BY <1>1, <3>1, <4>1, <5>1 DEF MatchChoice
        <4> QED BY <2>3, <4>1
      <3>4. jobs[j].task \in DOMAIN mp /\ mp[jobs[j].task] = d
        BY <3>1, <3>3 DEF Insert
      <3> QED BY <2>2, <3>2, <3>4 DEF MappedTo
    <2> QED BY <1>5, <2>2, <2>6, <2>7, <2>8
  <1> QED BY <1>3, <1>4, <1>5

(* An arriving job with a device to go to is sent there.                    *)
LEMMA MatchPlaces ==
    ASSUME NEW cb, cb.on = "arrival", NEW m, MatchChoice(cb.job, m) # {},
           NEW a \in MatchAnswers(cb, m)
    PROVE  PlacedBy(a) = cb.job /\ a.dev \in MatchChoice(cb.job, m)
  <1> PICK D : D = MatchChoice(cb.job, m)
    OBVIOUS
  <1>1. \/ \E d \in D : a = Dispatch(cb.job, d, 0) \/ a = Enqueue(cb.job, d)
        \/ \E d \in D : a = Preempt(running[d], cb.job, d, FALSE)
    BY DEF MatchAnswers, PlaceOn, IdleOf, BusyOf, NoOpIf
  <1>2. ASSUME NEW d \in D, a = Preempt(running[d], cb.job, d, FALSE)
        PROVE  PlacedBy(a) = cb.job /\ a.dev = d
    <2> PICK i, j : i = running[d] /\ j = cb.job
      OBVIOUS
    <2>1. a = Preempt(i, j, d, FALSE)
      BY <1>2
    <2> QED BY <2>1, PlacedByPreemption
  <1>3. \A d : a = Dispatch(cb.job, d, 0) \/ a = Enqueue(cb.job, d) =>
            PlacedBy(a) = cb.job /\ a.dev = d
    BY PlacedByAction
  <1> QED BY <1>1, <1>2, <1>3


-----------------------------------------------------------------------------
(* Federated's pins and MATCH's mapping                                     *)

(* A job whose data has arrived is placed anew at once.                     *)
LEMMA ArrivalIsPlaced ==
    ASSUME IInv, policy \in {"Federated", "Match"}, PlacesAreCompatible, PinsIInv, MappingIInv,
           NEW cb, Consults(cb), cb.on = "arrival", jobs[cb.job].state = "Transferring"
    PROVE  PlacedJob' = cb.job
  <1>1. /\ cb.job \in JobIds /\ mem' = Remember(cb) /\ act' \in Answers(cb, mem')
        /\ jobs[cb.job].dev \in DeviceIds
    BY DEF Consults, TerminalStates
  <1>2. Compatible(cb.job) # {}
    BY <1>1 DEF PlacesAreCompatible, DeviceIds, NoDevice
  <1> PICK s : s = mem'
    OBVIOUS
  <1>3. CASE policy = "Federated"
    <2>1. s = FederatedMemory(mem, cb) /\ act' \in FederatedAnswers(cb, s)
      BY <1>1, <1>3 DEF Remember, Answers
    <2>2. FederatedTarget(cb.job, s) # {}
      BY <1>1, <1>2, <1>3, <2>1, FederatedRemembers DEF PinsIInv
    <2> QED BY <2>1, <2>2, FederatedPlaces DEF PlacedJob
  <1>4. CASE policy = "Match"
    <2>1. s = MatchMemory(mem, cb) /\ act' \in MatchAnswers(cb, s)
      BY <1>1, <1>4 DEF Remember, Answers
    <2>2. MatchChoice(cb.job, s) # {}
      BY <1>1, <1>2, <1>4, <2>1, MatchRemembers DEF MappingIInv
    <2> QED BY <2>1, <2>2, MatchPlaces DEF PlacedJob
  <1> QED BY <1>3, <1>4

(* The jobs of the steps that ask for an answer.                            *)
LEMMA AskedFate ==
    ASSUME IInv, policy \in {"Federated", "Match"}, PlacesAreCompatible, PinsIInv, MappingIInv,
           [PolicyNext]_policyVars, policy \in Schedulers,
           \/ \E cb : Consults(cb) \/ Observes(cb)
           \/ \E a : Reevaluates(a)
    PROVE  /\ PlacedJob = NoJob
           /\ \A k \in JobIds' : \A q :
                 q = jobs'[k].state /\ q \in {"Ready", "Running", "Suspended"} /\ k # PlacedJob' =>
                     /\ k \in JobIds /\ SameJob(jobs'[k], jobs[k])
                     /\ jobs'[k].dev = jobs[k].dev /\ q = jobs[k].state
  <1>1. act.op = "none" /\ PlacedJob = NoJob
    BY DEF Consults, Observes, Reevaluates, Reevaluating, PlacedJob, PlacedBy
  <1>2. JobsFate
    BY FateOfJobs
  <1>3. SUFFICES ASSUME NEW k \in JobIds', jobs'[k].state \in {"Ready", "Running", "Suspended"},
                        k # PlacedJob'
                 PROVE  /\ k \in JobIds /\ SameJob(jobs'[k], jobs[k])
                        /\ jobs'[k].dev = jobs[k].dev /\ jobs'[k].state = jobs[k].state
    BY <1>1
  <1>4. k \in JobIds /\ Fate(k)
    BY <1>2, <1>3 DEF JobsFate
  <1>5. SameJob(jobs'[k], jobs[k]) /\ jobs'[k].dev = jobs[k].dev
    BY <1>1, <1>4 DEF Fate
  <1>6. jobs'[k].state = jobs[k].state
    <2>1. CASE JobsStay
      BY <2>1 DEF JobsStay
    <2>2. ASSUME NEW cb, Consults(cb), ~JobsStay
          PROVE  jobs'[k].state = jobs[k].state
      <3>1. CASE cb.on = "arrival"
        <4>1. jobs[cb.job].state = "Transferring" /\ Becomes(cb.job, "Ready", jobs[cb.job].dev)
          BY <2>2, <3>1 DEF Consults
        <4>2. k # cb.job
          BY <1>3, <2>2, <3>1, <4>1, ArrivalIsPlaced
        <4> QED BY <1>4, <4>1, <4>2 DEF Becomes
      <3>2. CASE cb.on = "free"
        <4>1. Becomes(cb.job, "Completed", cb.dev)
          BY <2>2, <3>2 DEF Consults
        <4>2. k # cb.job
          BY <1>3, <4>1 DEF Becomes
        <4> QED BY <1>4, <4>1, <4>2 DEF Becomes
      <3> QED BY <2>2, <3>1, <3>2 DEF Consults
    <2> QED BY <2>1, <2>2 DEF Observes, Reevaluates
  <1> QED BY <1>4, <1>5, <1>6

(* ReadyJobsWait is inductive.                                              *)
LEMMA ReadyWaitNext ==
    ASSUME IInv, policy \in Schedulers, TasksHaveModels, PlacesAreCompatible, PinsIInv,
           MappingIInv, ReadyJobsWait, [PolicyNext]_policyVars
    PROVE  ReadyJobsWait'
  <1> SUFFICES ASSUME policy \in {"Federated", "Match"}, NEW k \in JobIds',
                      jobs'[k].state = "Ready", k # PlacedJob'
               PROVE  Queued(k)'
    BY DEF ReadyJobsWait, PolicyNext, policyVars
  <1>1. JobsFate
    BY FateOfJobs
  <1>2. k \in JobIds /\ Fate(k)
    BY <1>1 DEF JobsFate
  <1>3. jobs[k].state = "Ready" /\ k # PlacedJob => Queued(k)
    BY <1>2 DEF ReadyJobsWait
  <1>4. CASE (\E cb : Consults(cb) \/ Observes(cb)) \/ \E a : Reevaluates(a)
    <2>1. jobs[k].state = "Ready" /\ k # PlacedJob
      BY <1>2, <1>4, AskedFate, JobIdsAreNat DEF IInv, NoJob
    <2>2. queue' = queue
      BY <1>4 DEF Consults, Observes, Reevaluates
    <2> QED BY <1>3, <2>1, <2>2 DEF Queued
  <1>5. CASE Acting
    BY <1>2, <1>3, <1>5, ActingKeepsWaiting
  <1>6. CASE Quiet \/ Purging \/ UNCHANGED policyVars
    <2>1. jobs'[k] = jobs[k] /\ queue' = queue
      BY <1>2, <1>6, QuietSteps DEF QuietEffect, Purging, JobsStay, policyVars, vars, jobVars, deviceVars
    <2>2. k # PlacedJob
      BY <1>2, <1>6, QuietSteps, JobIdsAreNat
      DEF QuietEffect, Purging, policyVars, vars, PlacedJob, PlacedBy, IInv, NoJob
    <2> QED BY <1>3, <2>1, <2>2 DEF Queued
  <1>7. ASSUME NEW e \in events, DeadlineCheck(e) PROVE Queued(k)'
    <2>1. act.op = "none" /\ k # PlacedJob
      BY <1>2, <1>7, DeadlineCheckEffect, JobIdsAreNat DEF PlacedJob, PlacedBy, IInv, NoJob
    <2>2. CASE JobsStay /\ queue' = queue
      BY <1>3, <2>1, <2>2 DEF JobsStay, Queued
    <2>3. CASE Becomes(e.job, "DeadlineMissed", jobs[e.job].dev) /\ LeavesQueues(e.job)
      <3>1. k # e.job /\ jobs'[k] = jobs[k]
        BY <1>2, <2>3 DEF Becomes
      <3> QED BY <1>3, <2>1, <2>3, <3>1 DEF LeavesQueues, Queued
    <2> QED BY <1>7, <2>2, <2>3, DeadlineCheckEffect
  <1> QED BY <1>4, <1>5, <1>6, <1>7, StepsOfAPolicy DEF Unasked

(* What a settled job was before the scheduler was asked: it was settled    *)
(* where it is, and the scheduler sees it.                                  *)
LEMMA SettledIsVisible ==
    ASSUME IInv, IInv', policy \in {"Federated", "Match"}, policy \in Schedulers,
           PlacesAreCompatible, PinsIInv, MappingIInv, ReadyJobsWait, [PolicyNext]_policyVars,
           NEW cb, Consults(cb) \/ Observes(cb), NEW k \in JobIds', Settled(k)'
    PROVE  /\ k \in JobIds /\ Settled(k) /\ k \in VisibleIn(cb)
           /\ SameJob(jobs'[k], jobs[k]) /\ jobs'[k].dev = jobs[k].dev
           /\ cb.on = "arrival" => k # cb.job
  <1>1. /\ k \in JobIds /\ PlacedJob = NoJob /\ SameJob(jobs'[k], jobs[k])
        /\ jobs'[k].dev = jobs[k].dev /\ jobs'[k].state = jobs[k].state
        /\ jobs[k].state \in {"Ready", "Running", "Suspended"}
    BY AskedFate DEF Settled
  <1>2. k # NoJob /\ Settled(k)
    BY <1>1, JobIdsAreNat DEF Settled, IInv, NoJob
  <1>3. cb.slots = running' /\ \A d \in DeviceIds : queue[d] \subseteq VisibleIn(cb)
    BY DEF Consults, Observes, VisibleIn
  <1>4. k \in VisibleIn(cb)
    <2>1. CASE jobs[k].state = "Running"
      <3>1. jobs'[k].dev \in DeviceIds /\ running'[jobs'[k].dev] = k
        BY <1>1, <2>1 DEF IInv, Placement, RunningJobsHaveSlots
      <3> QED BY <1>2, <1>3, <3>1 DEF VisibleIn, RunningIn
    <2>2. CASE jobs[k].state = "Suspended"
      <3>1. jobs[k].dev \in DeviceIds /\ k \in queue[jobs[k].dev]
        BY <1>1, <2>2 DEF IInv, Placement, SuspendedJobsWait
      <3> QED BY <1>3, <3>1
    <2>3. CASE jobs[k].state = "Ready"
      <3>1. Queued(k)
        BY <1>1, <1>2, <2>3 DEF ReadyJobsWait
      <3> QED BY <1>3, <3>1 DEF Queued
    <2> QED BY <1>1, <2>1, <2>2, <2>3
  <1>5. cb.on = "arrival" => k # cb.job
    <2>1. cb.on = "arrival" => jobs[cb.job].state \in {"Released", "Transferring"} \cup TerminalStates
      BY DEF Consults, Observes
    <2> QED BY <1>1, <2>1 DEF TerminalStates
  <1> QED BY <1>1, <1>2, <1>4, <1>5

(* The job an answer places is the arriving one or one that was settled on  *)
(* the device it is placed on.                                              *)
LEMMA PlacedWasThere ==
    ASSUME IInv, policy \in Schedulers, NEW cb, Consults(cb), PlacedJob' # NoJob
    PROVE  \/ cb.on = "arrival" /\ PlacedJob' = cb.job /\ cb.job \in JobIds
           \/ /\ cb.on # "arrival" /\ PlacedJob' \in JobIds /\ PlacedJob' \in VisibleIn(cb)
              /\ Settled(PlacedJob') /\ jobs[PlacedJob'].dev = act'.dev
  <1> PICK q : q = PlacedJob'
    OBVIOUS
  <1>1. q = PlacedBy(act') /\ q # NoJob
    BY DEF PlacedJob
  <1>2. ASSUME NEW d \in DeviceIds, q \in queue[d]
        PROVE  q \in JobIds /\ q \in VisibleIn(cb) /\ Settled(q) /\ jobs[q].dev = d
    <2>1. q \in JobIds /\ jobs[q].state \in {"Ready", "Suspended"} /\ jobs[q].dev = d
      BY <1>2 DEF IInv, Placement, QueuesHoldWaitingJobs
    <2>2. PlacedJob = NoJob
      BY DEF Consults, PlacedJob, PlacedBy
    <2> QED BY <1>1, <1>2, <2>1, <2>2 DEF VisibleIn, Settled
  <1>3. CASE cb.on = "arrival"
    <2>1. act' \in ArrivalActions(cb.job) /\ cb.job \in JobIds
      BY <1>3, ConsultedAnswer DEF Consults
    <2> QED BY <1>1, <1>3, <2>1, PlacedByArrival
  <1>4. CASE cb.on = "free"
    <2>1. act' \in FreeActions(cb.dev) /\ cb.dev \in DeviceIds
      BY <1>4, ConsultedAnswer DEF Consults
    <2>2. q \in queue[cb.dev] /\ act' = Dispatch(q, cb.dev, 0)
      BY <1>1, <2>1, PlacedByFree, PlacedByAction
    <2>3. act'.dev = cb.dev
      BY <2>2, PlacedByAction
    <2> QED BY <1>2, <1>4, <2>1, <2>2, <2>3
  <1>5. CASE cb.on = "point"
    <2>1. act' \in PointActions(cb.dev, cb.job) /\ cb.dev \in DeviceIds
      BY <1>5, ConsultedAnswer DEF Consults
    <2>2. q \in queue[cb.dev] /\ act'.dev = cb.dev
      BY <1>1, <2>1, PlacedByPoint, PlacedByAction
    <2> QED BY <1>2, <1>5, <2>1, <2>2
  <1> QED BY <1>3, <1>4, <1>5 DEF Consults

(* What a settled job was before a step that asks nobody: settled where it  *)
(* is, or about to be placed there.                                         *)
LEMMA UnaskedSettled ==
    ASSUME IInv, TasksHaveModels, Unasked, JobsFate, NEW k \in JobIds', Settled(k)'
    PROVE  /\ k \in JobIds /\ SameJob(jobs'[k], jobs[k])
           /\ \/ Settled(k) /\ jobs'[k].dev = jobs[k].dev
              \/ k = PlacedJob /\ jobs'[k].dev = act.dev
  <1>1. k \in JobIds /\ Fate(k) /\ SameJob(jobs'[k], jobs[k])
    BY DEF JobsFate, Fate, Settled
  <1>2. jobs'[k].state \in {"Ready", "Running", "Suspended"} /\ k # PlacedJob' /\ k # NoJob
    BY <1>1, JobIdsAreNat DEF Settled, IInv, NoJob
  <1>3. CASE Acting /\ k # PlacedJob
    <2>1. ~Polling /\ ~(act.op \in {"dispatch", "enqueue"} /\ k = act.job)
      BY <1>3, ActingKeepsPlaced DEF Polling, PlacedJob, PlacedBy
    <2> QED BY <1>1, <1>2, <1>3, <2>1 DEF Fate, Settled, TerminalStates
  <1>4. CASE Acting /\ k = PlacedJob
    <2>1. PlacedJob' = NoJob
      BY <1>2, <1>4, ActingKeepsPlaced
    <2>2. ~DispatchWithoutModel
      BY DispatchHasModel
    <2>3. ~DispatchTerminal
      BY <1>2, <1>4, DispatchTerminalEffect
      DEF DispatchTerminal, Executing, PlacedJob, PlacedBy, IsTerminal, TerminalStates, JobsStay
    <2>4. ASSUME DispatchBusy PROVE jobs'[k].dev = act.dev
      <3>1. /\ JobsStay /\ act.op = "dispatch" /\ act.dev \in DeviceIds
            /\ act' = IF running[act.dev] = act.job THEN NoAction ELSE Enqueue(act.job, act.dev)
        BY <2>4, DispatchBusyEffect DEF DispatchBusy
      <3>2. k = act.job
        BY <1>4, <3>1 DEF PlacedJob, PlacedBy
      <3>3. running[act.dev] = k
        BY <1>2, <2>1, <3>1, <3>2, PlacedByAction DEF PlacedJob
      <3> QED BY <1>2, <3>1, <3>3, RunningJob DEF JobsStay
    <2>5. ASSUME DispatchTransfer \/ DispatchRun PROVE jobs'[k].dev = act.dev
      <3>1. MayDispatch /\ \E s \in {"Transferring", "Running"} : Becomes(act.job, s, act.dev)
        BY <2>5, DispatchTransferEffect, DispatchRunEffect
      <3>2. k = act.job
        BY <1>4, <3>1, MayDispatchEffect DEF PlacedJob, PlacedBy
      <3> QED BY <3>1, <3>2 DEF Becomes
    <2>6. ~PreemptNow /\ ~PreemptDeferred
      <3>1. PreemptNow => PlacedJob' = PlacedJob
        BY PreemptNowEffect DEF PlacedJob, PlacedBy
      <3>2. PreemptDeferred => PlacedJob' = PlacedJob
        BY PreemptDeferredEffect DEF PlacedJob, PlacedBy
      <3> QED BY <1>2, <1>4, <2>1, <3>1, <3>2
    <2>7. ASSUME EnqueueJob PROVE jobs'[k].dev = act.dev
      <3>1. /\ act.op = "enqueue"
            /\ IF IsTerminal(act.job) THEN JobsStay ELSE Becomes(act.job, "Ready", act.dev)
        BY <2>7, EnqueueJobEffect
      <3>2. k = act.job
        BY <1>4, <3>1 DEF PlacedJob, PlacedBy
      <3> QED BY <1>2, <3>1, <3>2 DEF IsTerminal, TerminalStates, JobsStay, Becomes
    <2>8. ~DropJob
      <3>1. ASSUME DropJob PROVE FALSE
        <4>1. act.op = "drop" /\ (act.by # NoJob => act' = Dispatch(act.by, act.dev, 0))
          BY <3>1, DropJobEffect
        <4>2. act.by = k
          BY <1>4, <4>1 DEF PlacedJob, PlacedBy
        <4>3. PlacedJob' = k
          BY <1>2, <4>1, <4>2, PlacedByAction DEF PlacedJob
        <4> QED BY <1>2, <4>3
      <3> QED BY <3>1
    <2> QED BY <1>1, <1>4, <2>2, <2>3, <2>4, <2>5, <2>6, <2>7, <2>8 DEF Acting
  <1>5. CASE ~Acting
    <2>1. k # PlacedJob
      BY <1>2, <1>5, QuietSteps, DeadlineCheckEffect
      DEF Unasked, QuietEffect, Purging, policyVars, vars, PlacedJob, PlacedBy
    <2>2. jobs'[k] = jobs[k]
      <3>1. ASSUME NEW e \in events, DeadlineCheck(e) PROVE jobs'[k] = jobs[k]
        BY <1>1, <1>2, <3>1, DeadlineCheckEffect DEF JobsStay, Becomes
      <3> QED BY <1>1, <1>5, <3>1, QuietSteps
          DEF Unasked, QuietEffect, Purging, JobsStay, policyVars, vars, jobVars
    <2> QED BY <1>1, <1>2, <2>1, <2>2 DEF Settled
  <1> QED BY <1>3, <1>4, <1>5

(* And such a step leaves the job to be placed what it was.                 *)
LEMMA UnaskedPlaced ==
    ASSUME IInv, Unasked, PlacedJob' # NoJob
    PROVE  PlacedJob' = PlacedJob /\ act'.dev = act.dev
  BY QuietSteps, DeadlineCheckEffect, ActingKeepsPlaced
  DEF Unasked, QuietEffect, Purging, policyVars, vars, PlacedJob

(* Where no device is right for an arriving job of a DAG it is not placed.  *)
LEMMA FederatedPlacesNowhere ==
    ASSUME NEW cb, cb.on = "arrival", NEW m, FederatedTarget(cb.job, m) = {},
           NEW a \in FederatedAnswers(cb, m)
    PROVE  PlacedBy(a) = NoJob
  <1>1. a = NoAction
    BY DEF FederatedAnswers, PlaceOn, IdleOf, BusyOf, NoOpIf
  <1> QED BY <1>1, PlacedByAction

(* MATCH does nothing with a job it finds no device for.                    *)
LEMMA MatchPlacesNowhere ==
    ASSUME NEW cb, cb.on = "arrival", NEW m, MatchChoice(cb.job, m) = {},
           NEW a \in MatchAnswers(cb, m)
    PROVE  PlacedBy(a) = NoJob
  <1>1. a = NoAction
    BY DEF MatchAnswers, PlaceOn, IdleOf, BusyOf, NoOpIf
  <1> QED BY <1>1, PlacedByAction

(* PinsIInv is inductive.                                                   *)
LEMMA PinsNext ==
    ASSUME IInv, IInv', policy \in Schedulers, TasksHaveModels, PlacesAreCompatible, PinsIInv,
           MappingIInv, ReadyJobsWait, [PolicyNext]_policyVars
    PROVE  PinsIInv'
  <1> SUFFICES ASSUME policy = "Federated"
               PROVE  /\ IsMemory(mem') /\ DevicesAreDedicated(mem')
                      /\ \A k \in JobIds' : Settled(k)' /\ DagOf(k)' # NoDag =>
                            PinnedTo(mem', k, jobs'[k].dev)
                      /\ PlacedJob' # NoJob /\ DagOf(PlacedJob)' # NoDag =>
                            PinnedTo(mem', PlacedJob', act'.dev)
    BY DEF PinsIInv, PolicyNext, policyVars, PinnedTo, DevicesAreDedicated, IsMemory
  <1>1. JobsFate /\ IsMemory(mem) /\ DevicesAreDedicated(mem)
    BY FateOfJobs DEF PinsIInv
  <1>2. \A k \in JobIds : DagOf(k)' = DagOf(k)
    BY <1>1 DEF JobsFate, Fate, SameJob, DagOf
  <1>3. \A k \in JobIds : Settled(k) /\ DagOf(k) # NoDag => PinnedTo(mem, k, jobs[k].dev)
    BY DEF PinsIInv
  <1> PICK s : s = mem'
    OBVIOUS
  <1>4. ASSUME NEW cb, Consults(cb) \/ Observes(cb)
        PROVE  /\ IsMemory(s) /\ DevicesAreDedicated(s)
               /\ \A k \in JobIds' : Settled(k)' /\ DagOf(k)' # NoDag =>
                     PinnedTo(s, k, jobs'[k].dev)
               /\ PlacedJob' # NoJob /\ DagOf(PlacedJob)' # NoDag =>
                     PinnedTo(s, PlacedJob', act'.dev)
    <2>1. s = FederatedMemory(mem, cb) /\ (cb.on = "arrival" => cb.job \in JobIds)
      BY <1>4 DEF Consults, Observes, Remember
    <2>2. /\ IsMemory(s) /\ DevicesAreDedicated(s)
          /\ \A j \in VisibleIn(cb) : \A d :
                PinnedTo(mem, j, d) /\ (cb.on = "arrival" => j # cb.job) => PinnedTo(s, j, d)
          /\ cb.on = "arrival" /\ DagOf(cb.job) # NoDag =>
                \A d \in FederatedTarget(cb.job, s) : PinnedTo(s, cb.job, d)
      BY <1>1, <2>1, FederatedRemembers
    <2>3. ASSUME NEW k \in JobIds', Settled(k)', DagOf(k)' # NoDag
          PROVE  PinnedTo(s, k, jobs'[k].dev)
      <3>1. /\ k \in JobIds /\ Settled(k) /\ k \in VisibleIn(cb) /\ jobs'[k].dev = jobs[k].dev
            /\ cb.on = "arrival" => k # cb.job
        BY <1>4, <2>3, SettledIsVisible
      <3> QED BY <1>2, <1>3, <2>2, <2>3, <3>1
    <2>4. ASSUME PlacedJob' # NoJob, DagOf(PlacedJob)' # NoDag
          PROVE  PinnedTo(s, PlacedJob', act'.dev)
      <3> PICK q, d : q = PlacedJob' /\ d = act'.dev
        OBVIOUS
      <3>1. CASE Observes(cb)
        BY <2>4, <3>1 DEF Observes, PlacedJob, PlacedBy
      <3>2. CASE Consults(cb) /\ cb.on = "arrival"
        <4>1. q = cb.job /\ cb.job \in JobIds
          BY <2>4, <3>2, PlacedWasThere
        <4>2. DagOf(cb.job) # NoDag
          BY <1>2, <2>4, <4>1 DEF DagOf
        <4>3. act' \in FederatedAnswers(cb, s)
          BY <3>2 DEF Consults, Answers
        <4>4. d \in FederatedTarget(cb.job, s)
          BY <2>4, <3>2, <4>3, FederatedPlaces, FederatedPlacesNowhere DEF PlacedJob
        <4> QED BY <2>2, <3>2, <4>1, <4>2, <4>4
      <3>3. CASE Consults(cb) /\ cb.on # "arrival"
        <4>1. q \in JobIds /\ q \in VisibleIn(cb) /\ Settled(q) /\ jobs[q].dev = d
          BY <2>4, <3>3, PlacedWasThere
        <4>2. DagOf(q) # NoDag
          BY <1>2, <2>4, <4>1 DEF DagOf
        <4> QED BY <1>3, <2>2, <3>3, <4>1, <4>2
      <3> QED BY <1>4, <3>1, <3>2, <3>3
    <2> QED BY <2>2, <2>3, <2>4
  <1>5. ASSUME NEW a, Reevaluates(a)
        PROVE  /\ s = mem /\ PlacedJob' = NoJob
               /\ \A k \in JobIds' : Settled(k)' => k \in JobIds /\ Settled(k) /\ jobs'[k].dev = jobs[k].dev
    <2>1. a = NoAction
      BY <1>5 DEF Reevaluates, Answers, FederatedAnswers, Reevaluated, Call
    <2>2. PlacedJob' = NoJob /\ PlacedJob = NoJob
      BY <1>5, <2>1, PlacedByAction
      DEF Reevaluates, Reevaluate, Reevaluating, PlacedJob, PlacedBy
    <2> QED BY <1>5, <2>2 DEF Reevaluates, JobsStay, JobIds, Settled
  <1>6. ASSUME Unasked
        PROVE  /\ s = mem
               /\ \A k \in JobIds' : Settled(k)' /\ DagOf(k)' # NoDag =>
                     PinnedTo(mem, k, jobs'[k].dev)
               /\ PlacedJob' # NoJob /\ DagOf(PlacedJob)' # NoDag =>
                     PinnedTo(mem, PlacedJob', act'.dev)
    <2>1. PlacedJob # NoJob /\ DagOf(PlacedJob) # NoDag => PinnedTo(mem, PlacedJob, act.dev)
      BY DEF PinsIInv
    <2>2. ASSUME NEW k \in JobIds', Settled(k)', DagOf(k)' # NoDag
          PROVE  PinnedTo(mem, k, jobs'[k].dev)
      <3>1. /\ k \in JobIds
            /\ \/ Settled(k) /\ jobs'[k].dev = jobs[k].dev
               \/ k = PlacedJob /\ jobs'[k].dev = act.dev
        BY <1>1, <1>6, <2>2, UnaskedSettled
      <3>2. k # NoJob /\ DagOf(k) # NoDag
        BY <1>2, <2>2, <3>1, JobIdsAreNat DEF IInv, NoJob
      <3> QED BY <1>3, <2>1, <3>1, <3>2
    <2>3. ASSUME PlacedJob' # NoJob, DagOf(PlacedJob)' # NoDag
          PROVE  PinnedTo(mem, PlacedJob', act'.dev)
      <3>1. PlacedJob' = PlacedJob /\ act'.dev = act.dev
        BY <1>6, <2>3, UnaskedPlaced
      <3>2. PlacedJob \in JobIds
        BY <2>3, <3>1, PlacedIsJob
      <3>3. DagOf(PlacedJob) # NoDag
        BY <1>1, <2>3, <3>1, <3>2 DEF JobsFate, Fate, SameJob, DagOf
      <3> QED BY <2>1, <2>3, <3>1, <3>3
    <2> QED BY <1>6, <2>2, <2>3 DEF Unasked
  <1>7. CASE \E a : Reevaluates(a)
    BY <1>1, <1>2, <1>3, <1>5, <1>7
  <1>8. CASE Unasked
    BY <1>1, <1>6, <1>8
  <1> QED BY <1>4, <1>7, <1>8, StepsOfAPolicy

(* MappingIInv is inductive.                                                *)
LEMMA MappingNext ==
    ASSUME IInv, IInv', policy \in Schedulers, TasksHaveModels, PlacesAreCompatible, PinsIInv,
           MappingIInv, ReadyJobsWait, [PolicyNext]_policyVars
    PROVE  MappingIInv'
  <1> SUFFICES ASSUME policy = "Match"
               PROVE  /\ IsMemory(mem')
                      /\ \A k \in JobIds' : Settled(k)' => MappedTo(mem, k, jobs[k].dev)'
                      /\ PlacedJob' # NoJob => MappedTo(mem, PlacedJob, act.dev)'
    BY DEF MappingIInv, PolicyNext, policyVars, IsMemory
  <1>1. JobsFate /\ IsMemory(mem)
    BY FateOfJobs DEF MappingIInv
  <1>2. \A k \in JobIds : jobs'[k].task = jobs[k].task
    BY <1>1 DEF JobsFate, Fate, SameJob
  <1>3. /\ \A k \in JobIds : Settled(k) => MappedTo(mem, k, jobs[k].dev)
        /\ PlacedJob # NoJob => MappedTo(mem, PlacedJob, act.dev)
    BY DEF MappingIInv
  <1> PICK s : s = mem'
    OBVIOUS
  <1>4. ASSUME NEW cb, Consults(cb) \/ Observes(cb)
        PROVE  /\ IsMemory(s)
               /\ \A k \in JobIds' : Settled(k)' => MappedTo(s, k, jobs'[k].dev) /\ k \in JobIds
               /\ PlacedJob' # NoJob => MappedTo(s, PlacedJob', act'.dev) /\ PlacedJob' \in JobIds
    <2>1. s = MatchMemory(mem, cb) /\ (cb.on = "arrival" => cb.job \in JobIds)
      BY <1>4 DEF Consults, Observes, Remember
    <2>2. /\ IsMemory(s)
          /\ \A j \in VisibleIn(cb), d \in DeviceIds :
                MappedTo(mem, j, d) /\ d \in Compatible(j) /\ (cb.on = "arrival" => j # cb.job) =>
                    MappedTo(s, j, d)
          /\ cb.on = "arrival" => \A d \in MatchChoice(cb.job, s) : MappedTo(s, cb.job, d)
      BY <1>1, <2>1, MatchRemembers
    <2>3. \A k \in JobIds : Settled(k) => jobs[k].dev \in DeviceIds /\ jobs[k].dev \in Compatible(k)
      <3> SUFFICES ASSUME NEW k \in JobIds, Settled(k)
                   PROVE  jobs[k].dev \in DeviceIds /\ jobs[k].dev \in Compatible(k)
        OBVIOUS
      <3>1. jobs[k].dev \in DeviceIds
        <4>1. PlacedJob = NoJob /\ k # NoJob
          BY <1>4, JobIdsAreNat DEF Consults, Observes, PlacedJob, PlacedBy, IInv, NoJob
        <4>2. jobs[k].state = "Ready" => Queued(k)
          BY <4>1 DEF ReadyJobsWait
        <4> QED BY <4>2 DEF Settled, Queued, IInv, Placement, QueuesHoldWaitingJobs,
                            RunningJobsHaveSlots, SuspendedJobsWait
      <3> QED BY <3>1 DEF PlacesAreCompatible, DeviceIds, NoDevice
    <2>4. ASSUME NEW k \in JobIds', Settled(k)'
          PROVE  MappedTo(s, k, jobs'[k].dev) /\ k \in JobIds
      <3>1. /\ k \in JobIds /\ Settled(k) /\ k \in VisibleIn(cb) /\ jobs'[k].dev = jobs[k].dev
            /\ cb.on = "arrival" => k # cb.job
        BY <1>4, <2>4, SettledIsVisible
      <3> QED BY <1>3, <2>2, <2>3, <3>1
    <2>5. ASSUME PlacedJob' # NoJob
          PROVE  MappedTo(s, PlacedJob', act'.dev) /\ PlacedJob' \in JobIds
      <3> PICK q, d : q = PlacedJob' /\ d = act'.dev
        OBVIOUS
      <3>1. CASE Observes(cb)
        BY <2>5, <3>1 DEF Observes, PlacedJob, PlacedBy
      <3>2. CASE Consults(cb) /\ cb.on = "arrival"
        <4>1. q = cb.job /\ cb.job \in JobIds
          BY <2>5, <3>2, PlacedWasThere
        <4>2. act' \in MatchAnswers(cb, s)
          BY <3>2 DEF Consults, Answers
        <4>3. d \in MatchChoice(cb.job, s)
          BY <2>5, <3>2, <4>2, MatchPlaces, MatchPlacesNowhere DEF PlacedJob
        <4> QED BY <2>2, <3>2, <4>1, <4>3
      <3>3. CASE Consults(cb) /\ cb.on # "arrival"
        <4>1. q \in JobIds /\ q \in VisibleIn(cb) /\ Settled(q) /\ jobs[q].dev = d
          BY <2>5, <3>3, PlacedWasThere
        <4> QED BY <1>3, <2>2, <2>3, <3>3, <4>1
      <3> QED BY <1>4, <3>1, <3>2, <3>3
    <2> QED BY <2>2, <2>4, <2>5
  <1>5. \A k, d : k \in JobIds /\ MappedTo(s, k, d) =>
            /\ jobs'[k].task \in DOMAIN s.mapping /\ s.mapping[jobs'[k].task] = d
            /\ k \in DOMAIN s.alloc => s.alloc[k] = d
    BY <1>2 DEF MappedTo
  <1>6. CASE \E cb : Consults(cb) \/ Observes(cb)
    <2>1. /\ IsMemory(s)
          /\ \A k \in JobIds' : Settled(k)' => MappedTo(s, k, jobs'[k].dev) /\ k \in JobIds
          /\ PlacedJob' # NoJob => MappedTo(s, PlacedJob', act'.dev) /\ PlacedJob' \in JobIds
      BY <1>4, <1>6
    <2> QED BY <1>5, <2>1 DEF MappedTo
  <1>7. CASE \E a : Reevaluates(a)
    <2> PICK a : Reevaluates(a)
      BY <1>7
    <2>1. a = NoAction
      BY DEF Reevaluates, Answers, MatchAnswers, Reevaluated, Call
    <2>2. PlacedJob' = NoJob /\ PlacedJob = NoJob
      BY <2>1, PlacedByAction DEF Reevaluates, Reevaluate, Reevaluating, PlacedJob, PlacedBy
    <2>3. \A k \in JobIds' : Settled(k)' => MappedTo(mem, k, jobs[k].dev)'
      BY <1>3, <2>2 DEF Reevaluates, JobsStay, JobIds, Settled, MappedTo
    <2> QED BY <1>1, <2>2, <2>3 DEF Reevaluates
  <1>8. CASE Unasked
    <2>1. s = mem
      BY <1>8 DEF Unasked
    <2>2. ASSUME NEW k \in JobIds', Settled(k)'
          PROVE  MappedTo(mem, k, jobs[k].dev)'
      <3>1. /\ k \in JobIds
            /\ \/ Settled(k) /\ jobs'[k].dev = jobs[k].dev
               \/ k = PlacedJob /\ jobs'[k].dev = act.dev
        BY <1>1, <1>8, <2>2, UnaskedSettled
      <3>2. k # NoJob
        BY <3>1, JobIdsAreNat DEF IInv, NoJob
      <3>3. MappedTo(s, k, jobs'[k].dev)
        BY <1>3, <2>1, <3>1, <3>2
      <3> QED BY <1>5, <3>1, <3>3 DEF MappedTo
    <2>3. ASSUME PlacedJob' # NoJob
          PROVE  MappedTo(mem, PlacedJob, act.dev)'
      <3>1. PlacedJob' = PlacedJob /\ act'.dev = act.dev
        BY <1>8, <2>3, UnaskedPlaced
      <3>2. PlacedJob \in JobIds
        BY <2>3, <3>1, PlacedIsJob
      <3>3. MappedTo(s, PlacedJob, act.dev)
        BY <1>3, <2>1, <2>3, <3>1
      <3> QED BY <1>5, <3>1, <3>2, <3>3 DEF MappedTo
    <2> QED BY <1>1, <2>1, <2>2, <2>3
  <1> QED BY <1>6, <1>7, <1>8, StepsOfAPolicy

(* The invariants of the devices that Federated and MATCH keep to.          *)
KeepInv == BaseInv /\ PlacesAreCompatible /\ PinsIInv /\ MappingIInv /\ ReadyJobsWait

(* They hold before the first step ...                                      *)
LEMMA KeepInit == PolicyInit => KeepInv
  <1> SUFFICES ASSUME PolicyInit PROVE KeepInv
    OBVIOUS
  <1>1. JobIds = {} /\ act = NoAction /\ mem = NoMemory
    BY DEF PolicyInit, Init, JobIds
  <1>2. PlacedJob = NoJob
    BY <1>1, PlacedByAction DEF PlacedJob
  <1>3. IsMemory(mem) /\ DevicesAreDedicated(mem)
    BY <1>1 DEF NoMemory, Nothing, IsMemory, MemoryFields, DevicesAreDedicated
  <1> QED BY <1>1, <1>2, <1>3, BaseInit
          DEF KeepInv, PlacesAreCompatible, PinsIInv, MappingIInv, ReadyJobsWait

(* ... and after every other.                                               *)
LEMMA KeepNext == TasksHaveModels /\ KeepInv /\ [PolicyNext]_policyVars => KeepInv'
  <1> SUFFICES ASSUME TasksHaveModels, KeepInv, [PolicyNext]_policyVars PROVE KeepInv'
    OBVIOUS
  <1>1. BaseInv' /\ policy \in Schedulers /\ IInv /\ IInv'
    BY BaseNext DEF KeepInv, BaseInv
  <1> QED BY <1>1, PlacesNext, PinsNext, MappingNext, ReadyWaitNext DEF KeepInv

(* Under Federated, when every task has models, every visible job of a DAG  *)
(* is pinned, and is where its pin says.  A job in transfer is not visible, *)
(* so its pin is dropped and its device may be dedicated anew meanwhile:    *)
(* it is pinned again before it can be seen, and never moves another.       *)
THEOREM DagsKeepTheirDeviceHolds ==
    ASSUME TasksHaveModels
    PROVE  PolicySpec => []DagsKeepTheirDevice
  <1>1. PolicyInit => KeepInv
    BY KeepInit
  <1>2. KeepInv /\ [PolicyNext]_policyVars => KeepInv'
    BY KeepNext
  <1>3. KeepInv => DagsKeepTheirDevice
    <2> SUFFICES ASSUME KeepInv, policy = "Federated", Polling, NEW j \in JobIds, Visible(j),
                        DagOf(j) # NoDag
                 PROVE  PinnedTo(mem, j, jobs[j].dev)
      BY DEF DagsKeepTheirDevice, PinnedTo
    <2>1. PlacedJob = NoJob /\ j # NoJob
      BY JobIdsAreNat DEF Polling, PlacedJob, PlacedBy, KeepInv, BaseInv, IInv, NoJob
    <2> QED BY <2>1 DEF Visible, Settled, KeepInv, PinsIInv
  <1> QED BY <1>1, <1>2, <1>3, PTL DEF PolicySpec

(* Under MATCH, when every task has models, the visible jobs of a task stay *)
(* together on the device the task is mapped to, by the same argument.      *)
THEOREM TasksKeepTheirDeviceHolds ==
    ASSUME TasksHaveModels
    PROVE  PolicySpec => []TasksKeepTheirDevice
  <1>1. PolicyInit => KeepInv
    BY KeepInit
  <1>2. KeepInv /\ [PolicyNext]_policyVars => KeepInv'
    BY KeepNext
  <1>3. KeepInv => TasksKeepTheirDevice
    <2> SUFFICES ASSUME KeepInv, policy = "Match", Polling, NEW j \in JobIds, Visible(j)
                 PROVE  MappedTo(mem, j, jobs[j].dev)
      BY DEF TasksKeepTheirDevice, MappedTo
    <2>1. PlacedJob = NoJob /\ j # NoJob
      BY JobIdsAreNat DEF Polling, PlacedJob, PlacedBy, KeepInv, BaseInv, IInv, NoJob
    <2> QED BY <2>1 DEF Visible, Settled, KeepInv, MappingIInv
  <1> QED BY <1>1, <1>2, <1>3, PTL DEF PolicySpec
============================================================================
