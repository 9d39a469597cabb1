---------------------------- MODULE GpuPolicies ----------------------------
(***************************************************************************)
(* The GPU-oriented schedulers of hprss-scheduler: criticality first, then *)
(* deadline or priority; they differ in how they choose a device and in    *)
(* where they let an arriving job preempt.                                 *)
(***************************************************************************)
EXTENDS CpuPolicies

CONSTANTS
    MissingCost,    \* u64::MAX / 4 or / 8, the cost where a task has no model
    BlockingCap     \* 1_000_000_000, the most a blocking time counts

ASSUME GpuPoliciesAssumption == MissingCost \in Nat /\ BlockingCap \in Nat

-----------------------------------------------------------------------------
(* GcapsScheduler and XSchedScheduler: the same code under two names.       *)
CriticalPoint(j, d) ==
    ReplaceBy({q \in MostCritical(d) : Precedes(CriticalRank(q), CriticalRank(j))}, j, d)

GcapsAnswers(cb) ==
    CASE cb.on = "arrival" ->
            PlaceOn(cb.job, LeastLoaded(Compatible(cb.job)),
                    LAMBDA d, r : Precedes(CriticalRank(cb.job), CriticalRank(r)))
      [] cb.on = "free" -> DispatchNext(MostCritical(cb.dev), cb.dev)
      [] cb.on = "point" -> CriticalPoint(cb.job, cb.dev)
      [] cb.on = "critical" -> DropQueuedLo
      [] cb.on = "reevaluation" -> {NoAction}

XSchedAnswers(cb) == GcapsAnswers(cb)

-----------------------------------------------------------------------------
(* GPreemptScheduler: only on fully preemptive devices does an arriving job *)
(* preempt, and only the least critical of all the running candidates.      *)
FullyPreemptiveOf(D) == {d \in D : FullyPreemptive(d)}

GPreemptArrival(j) ==
    LET devices == Compatible(j)
        victims == {d \in GreatestBy(BusyOf(FullyPreemptiveOf(devices)),
                                     LAMBDA d : CriticalRank(running[d])) :
                       Precedes(CriticalRank(j), CriticalRank(running[d]))}
    IN IdleElsePreempt(j, ShortestQueue(IdleOf(devices)), victims, LeastLoaded(devices))

GPreemptAnswers(cb) ==
    CASE cb.on = "arrival" -> GPreemptArrival(cb.job)
      [] cb.on = "free" -> DispatchNext(MostCritical(cb.dev), cb.dev)
      [] cb.on = "point" ->
            IF Preemptible(cb.dev) THEN CriticalPoint(cb.job, cb.dev) ELSE {NoAction}
      [] cb.on = "critical" -> DropQueuedLo
      [] cb.on = "reevaluation" -> {NoAction}

-----------------------------------------------------------------------------
(* GpuPreemptivePriorityScheduler: the GPUs alone if there are any.         *)
GpusFirst(j) ==
    LET gpus == {d \in Compatible(j) : Device[d].type = "Gpu"}
    IN IF gpus # {} THEN gpus ELSE Compatible(j)

PriorityRank(j) == <<CriticalityRank(j), Priority(j), ReleaseTime(j), j>>
MostUrgent(d) == LeastBy(queue[d], PriorityRank)

(* The weakest of the running jobs that j beats, on a fully preemptive      *)
(* device.                                                                  *)
Victims(j, D, Rank(_)) ==
    GreatestBy({d \in BusyOf(FullyPreemptiveOf(D)) : Precedes(Rank(j), Rank(running[d]))},
               LAMBDA d : Rank(running[d]))

GpuPpArrival(j) ==
    LET devices == GpusFirst(j)
    IN IdleElsePreempt(j, ShortestQueue(IdleOf(devices)),
                       Victims(j, devices, PriorityRank), LeastLoaded(devices))

GpuPpAnswers(cb) ==
    CASE cb.on = "arrival" -> GpuPpArrival(cb.job)
      [] cb.on = "free" -> DispatchNext(MostUrgent(cb.dev), cb.dev)
      [] cb.on = "point" ->
            ReplaceBy({q \in MostUrgent(cb.dev) : /\ Preemptible(cb.dev)
                                                  /\ Precedes(PriorityRank(q), PriorityRank(cb.job))},
                      cb.job, cb.dev)
      [] cb.on = "critical" -> DropQueuedLo
      [] cb.on = "reevaluation" -> {NoAction}

-----------------------------------------------------------------------------
(* RtgpuScheduler: the device with the least queue pressure.                *)

(* The worst case of the task on the device, at a speed of at least 0.001.  *)
(* The code adds and multiplies in u64; MissingCost is far from overflowing *)
(* here, and is not there.                                                  *)
ServiceTime(j, d) ==
    LET models == TaskOf(j).execTimes
        matching == FirstOf({i \in DOMAIN models : models[i].type = Device[d].type})
        wcet == IF matching = {} THEN MissingCost ELSE models[The(matching)].model.hi
    IN IF Device[d].num * 1000 < Device[d].den
       THEN wcet * 1000
       ELSE CeilDiv(wcet * Device[d].den, Device[d].num)

(* PreemptionModel::max_blocking, capped.                                   *)
Blocking(d) ==
    CASE Device[d].preemption = "Fully" -> 0
      [] Device[d].preemption = "Non" -> BlockingCap
      [] OTHER -> MinOf(Device[d].interval, BlockingCap)

Pressure(j, d) ==
    (QueueLength(d) + BusyRank(d)) * ServiceTime(j, d) + BusyRank(d) * Blocking(d)

KindRank(d) == IF Device[d].type = "Gpu" THEN 0 ELSE 1

RtgpuArrival(j) ==
    LET devices == Compatible(j)
    IN IdleElsePreempt(j,
          LeastBy(IdleOf(devices), LAMBDA d : <<Pressure(j, d), KindRank(d), d>>),
          Victims(j, devices, CriticalRank),
          LeastBy(devices, LAMBDA d : <<Pressure(j, d), BusyRank(d), KindRank(d), d>>))

RtgpuAnswers(cb) ==
    CASE cb.on = "arrival" -> RtgpuArrival(cb.job)
      [] cb.on = "free" -> DispatchNext(MostCritical(cb.dev), cb.dev)
      [] cb.on = "point" ->
            IF Preemptible(cb.dev) THEN CriticalPoint(cb.job, cb.dev) ELSE {NoAction}
      [] cb.on = "critical" -> DropQueuedLo
      [] cb.on = "reevaluation" -> {NoAction}

-----------------------------------------------------------------------------
(* MatchScheduler: a task keeps the device its first visible job was given. *)
(* mapping is task_mapping, alloc is job_allocations.                       *)

(* Faulty variant: the mapping is forgotten at every call.                  *)
MatchForgetsTasks(m, cb) == [m EXCEPT !.alloc = Retain(@, VisibleIn(cb)), !.mapping = Nothing]
(* observe_view                                                             *)
MatchObserved(m, cb) ==
    [m EXCEPT !.alloc = Retain(@, VisibleIn(cb)),
              !.mapping = Retain(@, {jobs[j].task : j \in VisibleIn(cb)})]

(* choose_target_device                                                     *)
MatchChoice(j, m) ==
    LET t == jobs[j].task
        mapped == {d \in Compatible(j) : t \in DOMAIN m.mapping /\ m.mapping[t] = d}
        load(d) == (QueueLength(d) + BusyRank(d)) * ServiceTime(j, d)
    IN IF mapped # {} THEN mapped
       ELSE LeastBy(Compatible(j),
                    LAMBDA d : <<load(d), ServiceTime(j, d), BusyRank(d), QueueLength(d), d>>)

MatchMemory(m, cb) ==
    LET o == MatchObserved(m, cb)
        choice == MatchChoice(cb.job, o)
    IN IF cb.on # "arrival" \/ choice = {} THEN o
       ELSE [o EXCEPT !.mapping = Insert(@, jobs[cb.job].task, The(choice)),
                      !.alloc = Insert(@, cb.job, The(choice))]

MatchAnswers(cb, m) ==
    CASE cb.on = "arrival" ->
            PlaceOn(cb.job, MatchChoice(cb.job, m),
                    LAMBDA d, r : /\ Precedes(CriticalRank(cb.job), CriticalRank(r))
                                  /\ FullyPreemptive(d))
      [] cb.on = "free" -> DispatchNext(MostCritical(cb.dev), cb.dev)
      [] cb.on = "point" ->
            IF Preemptible(cb.dev) THEN CriticalPoint(cb.job, cb.dev) ELSE {NoAction}
      [] cb.on = "critical" -> DropQueuedLo
      [] cb.on = "reevaluation" -> {NoAction}
=============================================================================
