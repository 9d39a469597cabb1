---------------------------- MODULE CpuPolicies ----------------------------
(***************************************************************************)
(* The schedulers of hprss-scheduler that decide by priority, deadline or  *)
(* laxity: for each, its answer to a call and, where it has state of its   *)
(* own, what it remembers of the call.  A stateful scheduler observes the  *)
(* view first and then decides, so an answer is computed from the memory m *)
(* after the call.                                                         *)
(***************************************************************************)
EXTENDS SchedulerView

CONSTANTS
    Provenance,     \* TaskId -> [dag, node] of the DAG node its jobs are
    Plan,           \* HEFT: <<dag, node>> -> device, for the DAGs with a plan
    VirtualNum,     \* EDF-VD: the virtual-deadline factor is
    VirtualDen      \* VirtualNum / VirtualDen

NoDag == -1

(* A planned device is one the node has affinity for, as HeftPlanner picks  *)
(* it whenever there is one; EdfVdScheduler::new asserts the rest.          *)
ASSUME CpuPoliciesAssumption ==
    /\ Provenance \in [TaskIds -> [dag: Nat \cup {NoDag}, node: Nat]]
    /\ \A t \in TaskIds :
          <<Provenance[t].dag, Provenance[t].node>> \in DOMAIN Plan =>
              LET d == Plan[<<Provenance[t].dag, Provenance[t].node>>]
              IN d \in DeviceIds /\ \E i \in DOMAIN Task[t].affinity :
                                        Task[t].affinity[i] = Device[d].type
    /\ VirtualDen \in Nat \ {0}
    /\ VirtualNum \in 0 .. VirtualDen

DagOf(j) == Provenance[jobs[j].task].dag
NodeOf(j) == Provenance[jobs[j].task].node

The(S) == CHOOSE x \in S : TRUE

(* HashMap::insert and HashMap::retain.                                     *)
Insert(f, x, v) == [y \in DOMAIN f \cup {x} |-> IF y = x THEN v ELSE f[y]]
Retain(f, S) == [x \in DOMAIN f \cap S |-> f[x]]

(* A scheduler that remembers nothing.  Each field belongs to the schedulers *)
(* named in the comments below.                                             *)
Nothing == [x \in {} |-> 0]
NoMemory == [left |-> Nothing, seen |-> Nothing, stage |-> Nothing,
             dedicated |-> Nothing, pins |-> Nothing, activeTask |-> -1,
             mapping |-> Nothing, alloc |-> Nothing]

-----------------------------------------------------------------------------
(* FixedPriorityScheduler                                                   *)
FpAnswers(cb) ==
    CASE cb.on = "arrival" ->
            PlaceOn(cb.job, TargetDevice(cb.job),
                    LAMBDA d, r : Priority(cb.job) < Priority(r))
      [] cb.on = "free" -> DispatchNext(Foremost(cb.dev), cb.dev)
      [] cb.on = "point" ->
            ReplaceBy({q \in Foremost(cb.dev) : Priority(q) < Priority(cb.job)},
                      cb.job, cb.dev)
      [] cb.on = "critical" -> DropQueuedLo
      [] cb.on = "reevaluation" -> {NoAction}

-----------------------------------------------------------------------------
(* EdfScheduler                                                             *)
EdfPoint(j, d) ==
    ReplaceBy({q \in EarliestDeadline(d) : Deadline(q) < Deadline(j)}, j, d)

EdfAnswers(cb) ==
    CASE cb.on = "arrival" ->
            PlaceOn(cb.job, TargetDevice(cb.job),
                    LAMBDA d, r : Deadline(cb.job) < Deadline(r))
      [] cb.on = "free" -> DispatchNext(EarliestDeadline(cb.dev), cb.dev)
      [] cb.on = "point" -> EdfPoint(cb.job, cb.dev)
      [] cb.on = "critical" -> DropQueuedLo
      [] cb.on = "reevaluation" -> {NoAction}

-----------------------------------------------------------------------------
(* GlobalEdfScheduler: an idle device, else the latest running job of all   *)
(* candidates is the victim, if it is later.                                *)
LatestRunning(D) == GreatestBy(BusyOf(D), LAMBDA d : EdfRank(running[d]))

GlobalEdfArrival(j) ==
    LET victims == {d \in LatestRunning(Compatible(j)) : Deadline(j) < Deadline(running[d])}
    IN IdleElsePreempt(j, ShortestQueue(IdleOf(Compatible(j))), victims,
                       ShortestQueue(Compatible(j)))

GlobalEdfAnswers(cb) ==
    CASE cb.on = "arrival" -> GlobalEdfArrival(cb.job)
      [] cb.on = "free" -> DispatchNext(EarliestDeadline(cb.dev), cb.dev)
      [] cb.on = "point" -> EdfPoint(cb.job, cb.dev)
      [] cb.on = "critical" -> DropQueuedLo
      [] cb.on = "reevaluation" -> {NoAction}

-----------------------------------------------------------------------------
(* EdfVdScheduler: in LO mode a HI job is ordered by a virtual deadline; in *)
(* HI mode no LO job is schedulable.                                        *)
Unschedulable(j) == level = "Hi" /\ IsLo(j)

EffectiveDeadline(j) ==
    IF level = "Lo" /\ ~IsLo(j)
    THEN ReleaseTime(j) +
            (MaxOf(Deadline(j) - ReleaseTime(j), 0) * VirtualNum) \div VirtualDen
    ELSE Deadline(j)

EdfVdRank(j) == <<EffectiveDeadline(j), Deadline(j), ReleaseTime(j), j>>
EdfVdNext(d) == LeastBy({q \in queue[d] : ~Unschedulable(q)}, EdfVdRank)

EdfVdArrival(j) ==
    LET target == LeastLoaded(Compatible(j))
        evicting == {d \in BusyOf(target) : Unschedulable(running[d])}
    IN IF Unschedulable(j) THEN {Drop(j)}
       ELSE {DropThenDispatch(running[d], j, d) : d \in evicting}
            \cup {a \in PlaceOn(j, target,
                                LAMBDA d, r : Precedes(EdfVdRank(j), EdfVdRank(r))) :
                    evicting = {}}

EdfVdPoint(j, d) ==
    LET stronger == {q \in EdfVdNext(d) : EffectiveDeadline(q) < EffectiveDeadline(j)}
    IN IF Unschedulable(j)
       THEN {DropThenDispatch(j, q, d) : q \in EdfVdNext(d)} \cup NoOpIf(EdfVdNext(d) = {})
       ELSE ReplaceBy(stronger, j, d)

(* Faulty variant: LO jobs that arrive in HI mode are taken.                *)
EdfVdAdmitsAll(cb) ==
    CASE cb.on = "arrival" ->
            PlaceOn(cb.job, LeastLoaded(Compatible(cb.job)),
                    LAMBDA d, r : Precedes(EdfVdRank(cb.job), EdfVdRank(r)))
      [] cb.on = "free" -> DispatchNext(EdfVdNext(cb.dev), cb.dev)
      [] cb.on = "point" -> EdfVdPoint(cb.job, cb.dev)
      [] cb.on = "critical" -> {Drop(j) : j \in FirstOf(VisibleLoJobs)}
      [] cb.on = "reevaluation" -> {NoAction}
(* The drops of a mode switch come from a BTreeSet, the least id first.     *)
EdfVdAnswers(cb) ==
    CASE cb.on = "arrival" -> EdfVdArrival(cb.job)
      [] cb.on = "free" -> DispatchNext(EdfVdNext(cb.dev), cb.dev)
      [] cb.on = "point" -> EdfVdPoint(cb.job, cb.dev)
      [] cb.on = "critical" -> {Drop(j) : j \in FirstOf(VisibleLoJobs)}
      [] cb.on = "reevaluation" -> {NoAction}

-----------------------------------------------------------------------------
(* LlfScheduler.  left is remaining_work_ns, seen is running_elapsed_ns.    *)

(* estimate_remaining_work_ns: the actual demand if the job carries it,     *)
(* else the worst case on the target's type, else the greatest of all.      *)
Estimate(r, d) ==
    LET models == Task[r.task].execTimes
        matching == {i \in DOMAIN models : models[i].type = Device[d].type}
        wcets == {models[i].model.hi : i \in DOMAIN models}
    IN IF r.actual # Unset THEN r.actual
       ELSE IF matching # {} THEN models[The(FirstOf(matching))].model.hi
       ELSE IF wcets = {} THEN 0
       ELSE The({w \in wcets : \A x \in wcets : x <= w})

(* observe_view: the time a running job has run since it was last seen is   *)
(* taken off its estimate; a lesser elapsed time means a new stretch.  What *)
(* is known of a job that is neither running nor queued is forgotten.       *)
(* Faulty variant: the elapsed time is charged anew at every observation.   *)
ObservedTwice(m, cb) ==
    LET elapsed(j) == cb.time - jobs[j].start
    IN [m EXCEPT
          !.left = [j \in DOMAIN @ \cap VisibleIn(cb) |->
                      IF j \in RunningIn(cb) THEN MaxOf(@[j] - elapsed(j), 0) ELSE @[j]],
          !.seen = [j \in RunningIn(cb) |-> elapsed(j)]]
Observed(m, cb) ==
    LET elapsed(j) == cb.time - jobs[j].start
        since(j) == IF j \in DOMAIN m.seen /\ m.seen[j] <= elapsed(j)
                    THEN elapsed(j) - m.seen[j]
                    ELSE elapsed(j)
    IN [m EXCEPT
          !.left = [j \in DOMAIN @ \cap VisibleIn(cb) |->
                      IF j \in RunningIn(cb) THEN MaxOf(@[j] - since(j), 0) ELSE @[j]],
          !.seen = [j \in RunningIn(cb) |-> elapsed(j)]]

(* An arriving job is given its estimate for the device chosen for it.      *)
LlfMemory(m, cb) ==
    LET o == Observed(m, cb)
        target == IF cb.on = "arrival" THEN LeastLoaded(Compatible(cb.job)) ELSE {}
    IN IF target = {} THEN o
       ELSE [o EXCEPT !.left = Insert(@, cb.job, Estimate(jobs[cb.job], The(target)))]

LeftOf(j, m) == IF j \in DOMAIN m.left THEN m.left[j] ELSE 0

(* `now`, the same in every laxity that is compared, is left out.           *)
Laxity(j, m) == Deadline(j) - LeftOf(j, m)
LaxityRank(j, m) == <<Laxity(j, m), Deadline(j), ReleaseTime(j), j>>
LeastLaxity(d, m) == LeastBy(queue[d], LAMBDA j : LaxityRank(j, m))

(* Faulty variant: the running job is compared by its deadline.             *)
LaxerThanDeadline(d, m) == {q \in LeastLaxity(d, m) : Deadline(q) < Laxity(running[d], m)}
LessLax(d, m) == {q \in LeastLaxity(d, m) : Laxity(q, m) < Laxity(running[d], m)}

(* on_reevaluation, of one of the devices it goes through.                  *)
LlfReevaluation(d, m) ==
    LET better == IF running[d] # NoJob /\ FullyPreemptive(d) THEN LessLax(d, m) ELSE {}
    IN {Preempt(running[d], q, d, FALSE) : q \in better} \cup NoOpIf(better = {})

LlfAnswers(cb, m) ==
    CASE cb.on = "arrival" ->
            PlaceOn(cb.job, LeastLoaded(Compatible(cb.job)),
                    LAMBDA d, r : Laxity(cb.job, m) < Laxity(r, m) /\ FullyPreemptive(d))
      [] cb.on = "free" -> DispatchNext(LeastLaxity(cb.dev, m), cb.dev)
      [] cb.on = "point" ->
            ReplaceBy({q \in LessLax(cb.dev, m) : Preemptible(cb.dev)}, cb.job, cb.dev)
      [] cb.on = "critical" -> DropQueuedLo
      [] cb.on = "reevaluation" -> LlfReevaluation(cb.dev, m)

-----------------------------------------------------------------------------
(* CpEdfScheduler: deadlines first, then the later DAG stage, then slack.   *)
(* stage is dag_stage.                                                      *)
CpEdfMemory(m, cb) ==
    LET o == [LlfMemory(m, cb) EXCEPT !.stage = Retain(@, VisibleIn(cb))]
    IN IF cb.on = "arrival" /\ Compatible(cb.job) # {} /\ DagOf(cb.job) # NoDag
       THEN [o EXCEPT !.stage = Insert(@, cb.job, NodeOf(cb.job))]
       ELSE o

StageKey(j, m) == IF j \in DOMAIN m.stage THEN -m.stage[j] ELSE 0
CpEdfRank(j, m) ==
    <<Deadline(j), StageKey(j, m), Laxity(j, m), ReleaseTime(j), j>>
CpEdfNext(d, m) == LeastBy(queue[d], LAMBDA j : CpEdfRank(j, m))

CpEdfAnswers(cb, m) ==
    LET beats(j, r) == Precedes(CpEdfRank(j, m), CpEdfRank(r, m))
    IN CASE cb.on = "arrival" ->
               PlaceOn(cb.job, LeastLoaded(Compatible(cb.job)),
                       LAMBDA d, r : beats(cb.job, r) /\ FullyPreemptive(d))
         [] cb.on = "free" -> DispatchNext(CpEdfNext(cb.dev, m), cb.dev)
         [] cb.on = "point" ->
               ReplaceBy({q \in CpEdfNext(cb.dev, m) :
                             beats(q, cb.job) /\ Preemptible(cb.dev)}, cb.job, cb.dev)
         [] cb.on = "critical" -> DropQueuedLo
         [] cb.on = "reevaluation" -> {NoAction}

-----------------------------------------------------------------------------
(* FederatedScheduler: one device for the jobs of a DAG on a device type.   *)
(* dedicated is dedicated_devices, pins is active_job_pins.                 *)

(* Faulty variant: the pins of waiting jobs are taken for stale.            *)
ReclaimedWaiting(m, cb) ==
    LET kept == Retain(m.pins, RunningIn(cb))
    IN [m EXCEPT !.pins = kept,
                 !.dedicated = Retain(@, {kept[j] : j \in DOMAIN kept})]

(* reclaim_stale_pins                                                       *)
Reclaimed(m, cb) ==
    LET kept == Retain(m.pins, VisibleIn(cb))
    IN [m EXCEPT !.pins = kept,
                 !.dedicated = Retain(@, {kept[j] : j \in DOMAIN kept})]

(* The device already dedicated to the job's DAG on the first type of its   *)
(* affinity that has one.                                                   *)
DedicatedTo(j, m) ==
    LET types == TaskOf(j).affinity
        taken == {i \in DOMAIN types : <<DagOf(j), types[i]>> \in DOMAIN m.dedicated}
    IN {m.dedicated[<<DagOf(j), types[i]>>] : i \in FirstOf(taken)}

FederatedMemory(m, cb) ==
    LET r == Reclaimed(m, cb)
        target == IF DedicatedTo(cb.job, r) # {} THEN DedicatedTo(cb.job, r)
                                                 ELSE LeastLoaded(Compatible(cb.job))
        key == <<DagOf(cb.job), Device[The(target)].type>>
    IN IF cb.on # "arrival" \/ DagOf(cb.job) = NoDag \/ target = {} THEN r
       ELSE [r EXCEPT !.pins = Insert(@, cb.job, key),
                      !.dedicated = Insert(@, key, The(target))]

(* After the call the job of a DAG is pinned to its device.                 *)
FederatedTarget(j, m) ==
    IF DagOf(j) # NoDag
    THEN {d \in Compatible(j) : j \in DOMAIN m.pins /\ m.dedicated[m.pins[j]] = d}
    ELSE LeastLoaded(Compatible(j))

FederatedAnswers(cb, m) ==
    CASE cb.on = "arrival" ->
            PlaceOn(cb.job, FederatedTarget(cb.job, m),
                    LAMBDA d, r : Deadline(cb.job) < Deadline(r) /\ FullyPreemptive(d))
      [] cb.on = "free" -> DispatchNext(EarliestDeadline(cb.dev), cb.dev)
      [] cb.on = "point" ->
            ReplaceBy({q \in EarliestDeadline(cb.dev) :
                          Deadline(q) < Deadline(cb.job) /\ Preemptible(cb.dev)},
                      cb.job, cb.dev)
      [] cb.on = "critical" -> DropQueuedLo
      [] cb.on = "reevaluation" -> {NoAction}

-----------------------------------------------------------------------------
(* GangScheduler: one task at a time.  activeTask is active_task.           *)
NoTask == -1
GangKey(j) == <<Priority(j), Deadline(j)>>
InGang(S, t) == {j \in S : jobs[j].task = t}

(* refresh_active_task: kept while a job of it runs or waits, else the task *)
(* of the best running job, else of the best waiting one.                   *)
RefreshedTask(current, cb) ==
    LET best(S) == LeastBy(S, LAMBDA j : <<Priority(j), Deadline(j), jobs[j].task, j>>)
    IN IF InGang(VisibleIn(cb), current) # {} THEN current
       ELSE IF VisibleIn(cb) = {} THEN NoTask
       ELSE jobs[The(best(IF RunningIn(cb) # {} THEN RunningIn(cb) ELSE VisibleIn(cb)))].task

(* An arriving job makes its task the active one unless jobs of the active  *)
(* task run and the best of them is not weaker.                             *)
GangMemory(m, cb) ==
    LET task == jobs[cb.job].task
        kept == RefreshedTask(m.activeTask, cb)
        best == LeastBy(InGang(RunningIn(cb), kept),
                        LAMBDA j : <<Priority(j), Deadline(j), j>>)
        stays == kept # task /\ \E b \in best : ~Precedes(GangKey(cb.job), GangKey(b))
    IN [m EXCEPT !.activeTask =
          IF cb.on = "arrival" /\ Compatible(cb.job) # {} /\ ~stays THEN task ELSE kept]

GangArrival(j, m) ==
    LET devices == Compatible(j)
        strangers == {d \in BusyOf(devices) : jobs[running[d]].task # jobs[j].task}
        victims == {d \in GreatestBy(strangers, LAMBDA d : Append(GangKey(running[d]), running[d])) :
                       Precedes(GangKey(j), GangKey(running[d]))}
    IN IF m.activeTask # jobs[j].task
       THEN {Enqueue(j, d) : d \in ShortestQueue(devices)} \cup NoOpIf(devices = {})
       ELSE IdleElsePreempt(j, ShortestQueue(IdleOf(devices)), victims, ShortestQueue(devices))

GangNext(d, m) ==
    LeastBy(InGang(queue[d], m.activeTask),
            LAMBDA j : <<Priority(j), Deadline(j), ReleaseTime(j), j>>)

GangAnswers(cb, m) ==
    CASE cb.on = "arrival" -> GangArrival(cb.job, m)
      [] cb.on = "free" -> DispatchNext(GangNext(cb.dev, m), cb.dev)
      [] cb.on = "point" ->
            IF jobs[cb.job].task = m.activeTask THEN {NoAction}
            ELSE ReplaceBy(GangNext(cb.dev, m), cb.job, cb.dev)
      [] cb.on = "critical" -> DropQueuedLo
      [] cb.on = "reevaluation" -> {NoAction}

-----------------------------------------------------------------------------
(* HeftScheduler: the planned device, or the fallback; it never preempts.   *)
HeftTarget(j) ==
    LET planned == {Plan[k] : k \in {<<DagOf(j), NodeOf(j)>>} \cap DOMAIN Plan}
    IN IF planned # {} THEN planned ELSE TargetDevice(j)

HeftAnswers(cb) ==
    CASE cb.on = "arrival" ->
            PlaceOn(cb.job, HeftTarget(cb.job), LAMBDA d, r : FALSE)
      [] cb.on = "free" -> DispatchNext(Foremost(cb.dev), cb.dev)
      [] cb.on = "point" -> {NoAction}
      [] cb.on = "critical" -> DropQueuedLo
      [] cb.on = "reevaluation" -> {NoAction}
=============================================================================
