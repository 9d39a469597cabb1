------------------------------- MODULE Engine -------------------------------
(***************************************************************************)
(* The discrete-event engine: SimEngine together with the job state        *)
(* machine, the device manager's running slots and ready queues, and the   *)
(* transfer manager, driven by ANY scheduler of the class the repository's *)
(* schedulers belong to.                                                   *)
(*                                                                         *)
(* The program is one thread that pops an event, runs its handler to the   *)
(* end and pops the next.  A handler that loops (over scheduler actions,   *)
(* jobs or devices) is not one closed formula, so it is run here as a      *)
(* forced sequence of steps: `act` is the scheduler action being executed  *)
(* and `phase` is what the handler does once it is done.  No event can be  *)
(* popped before the handler is through, so no step of it is optional and  *)
(* nothing interleaves with it.                                            *)
(*                                                                         *)
(* Not modelled here: DAG provenance and edge transfers (see Dag), the     *)
(* action Migrate (no scheduler of the repository emits it), the event     *)
(* BusArbitration (nothing schedules it), statistics, traces and energy.   *)
(***************************************************************************)
EXTENDS Platform

CONSTANTS
    Duration,           \* SimConfig.duration_ns
    PeriodicInterval,   \* reevaluation_policy().periodic_interval(), 0 if None
    TriggeredInterval,  \* ... .triggered_min_interval(), 0 if None
    ReplayJobs          \* jobs of a replay trace, in file order

ReplayRecord == [task: TaskIds, release: Nat, deadline: Nat,
                 actual: Nat \cup {Unset}]

ASSUME EngineAssumption ==
    /\ Duration \in Nat
    /\ PeriodicInterval \in Nat
    /\ TriggeredInterval \in Nat
    /\ ReplayJobs \in Seq(ReplayRecord)

VARIABLES
    now,        \* simulation clock
    level,      \* mixed-criticality level
    nextJob,    \* next job id to allocate
    jobs,       \* 0..nextJob-1 -> JobRecord
    running,    \* device -> running job or NoJob
    queue,      \* device -> set of ready jobs
    busy,       \* device -> accumulated running wall time
    events,     \* pending events
    seq,        \* tie-breaking sequence counter
    active,     \* transfers in progress
    pending,    \* transfers waiting for their bus
    trig,       \* pending triggered reevaluation and its generation
    tick,       \* pending periodic reevaluation, generation, next tick
    metrics,    \* counters of the metrics collector and of the engine
    act,        \* scheduler action being executed
    phase       \* what the current handler does next

jobVars == <<nextJob, jobs>>
deviceVars == <<running, queue, busy>>
eventVars == <<events, seq>>
transferVars == <<active, pending>>
reevalVars == <<trig, tick>>
vars == <<now, level, jobVars, deviceVars, eventVars, transferVars,
          reevalVars, metrics, act, phase>>

-----------------------------------------------------------------------------
(* Jobs                                                                     *)

JobIds == 0 .. nextJob - 1

TerminalStates == {"Completed", "Dropped", "DeadlineMissed"}
JobStates == {"Released", "Ready", "Transferring", "Running", "Suspended"}
                \cup TerminalStates

(* exec is executed_ns, dev assigned_device, start exec_start_time.         *)
JobRecord == [task: TaskIds, state: JobStates, ver: Nat, release: Nat,
              deadline: Nat, actual: Nat \cup {Unset}, exec: Nat,
              dev: DeviceIds \cup {NoDevice}, start: Nat \cup {Unset}]

NewJob(t, release, deadline, actual) ==
    [task |-> t, state |-> "Released", ver |-> 0, release |-> release,
     deadline |-> deadline, actual |-> actual, exec |-> 0,
     dev |-> NoDevice, start |-> Unset]

(* Faulty variants: the version is kept; a preempted job is put back as a   *)
(* ready one.                                                               *)
TransitionUnversioned(r, state) == [r EXCEPT !.state = state]
TransitionToReady(r, state) ==
    [r EXCEPT !.state = IF state = "Suspended" THEN "Ready" ELSE state, !.ver = @ + 1]
Transition(r, state) == [r EXCEPT !.state = state, !.ver = @ + 1]

(* Faulty variant: the device is not recorded.                              *)
AssignedNowhere(r, d, start) == [r EXCEPT !.start = start]
(* The job is on device d, running since `start` or not running.            *)
Assigned(r, d, start) == [r EXCEPT !.dev = d, !.start = start]

(* `if job.state != s { job.transition(s) }`                                *)
Settle(r, state) == IF r.state = state THEN r ELSE Transition(r, state)

Remaining(r) == IF r.actual # Unset /\ r.actual > r.exec
                THEN r.actual - r.exec ELSE 0

IsTerminal(j) == jobs[j].state \in TerminalStates

TaskOf(j) == Task[jobs[j].task]

IsLo(j) == TaskOf(j).criticality = "Lo"

MinOf(a, b) == IF a <= b THEN a ELSE b
MaxOf(a, b) == IF a <= b THEN b ELSE a

(* Faulty variants: progress counted from the release; not cut off.         *)
ProgressedFromRelease(r, d, t) ==
    [r EXCEPT !.exec = @ + MinOf(WallToWork(t - r.release, d), Remaining(r)), !.start = Unset]
ProgressedUncapped(r, d, t) ==
    [r EXCEPT !.exec = @ + WallToWork(t - r.start, d), !.start = Unset]
(* A running job leaves its device at time t: its progress is the wall time *)
(* since its dispatch, converted to work and cut off at what remains.       *)
Progressed(r, d, t) ==
    [r EXCEPT !.exec = @ + MinOf(WallToWork(t - r.start, d), Remaining(r)),
              !.start = Unset]

-----------------------------------------------------------------------------
(* Events                                                                   *)

VersionedKinds == {"JobComplete", "PreemptionPoint", "TransferComplete", "BudgetOverrun"}
EventKinds == VersionedKinds \cup
    {"TaskArrival", "DeadlineCheck", "Triggered", "Periodic", "SimulationEnd"}

(* ver is expected_version, or the generation of a reevaluation.            *)
EventRecord == [time: Nat, seq: Nat, kind: EventKinds, job: Nat \cup {NoJob},
                ver: Nat, dev: DeviceIds \cup {NoDevice}]

Event(time, s, kind, job, ver, dev) ==
    [time |-> time, seq |-> s, kind |-> kind, job |-> job, ver |-> ver, dev |-> dev]

(* Faulty variant: an event of the current version counts as stale.         *)
IsStaleOrCurrent(e) == e.kind \in VersionedKinds /\ e.ver <= jobs[e.job].ver
IsStale(e) == e.kind \in VersionedKinds /\ e.ver # jobs[e.job].ver

(* Heap order: earliest time first, then the order of scheduling.           *)
IsFirst(e) == \A f \in events :
                 e.time < f.time \/ (e.time = f.time /\ e.seq <= f.seq)

-----------------------------------------------------------------------------
(* Scheduler actions and the rest of a handler                              *)

ActRecord == [op: {"none", "dispatch", "enqueue", "preempt", "drop"},
              job: Nat \cup {NoJob}, dev: DeviceIds \cup {NoDevice},
              by: Nat \cup {NoJob}, penalty: Nat, atPoint: BOOLEAN]

NoAction == [op |-> "none", job |-> NoJob, dev |-> NoDevice, by |-> NoJob,
             penalty |-> 0, atPoint |-> FALSE]
Dispatch(j, d, penalty) ==
    [NoAction EXCEPT !.op = "dispatch", !.job = j, !.dev = d, !.penalty = penalty]
Enqueue(j, d) == [NoAction EXCEPT !.op = "enqueue", !.job = j, !.dev = d]
Preempt(victim, by, d, atPoint) ==
    [NoAction EXCEPT !.op = "preempt", !.job = victim, !.by = by, !.dev = d,
                     !.atPoint = atPoint]
Drop(j) == [NoAction EXCEPT !.op = "drop", !.job = j]
(* The action list [DropJob(j), Dispatch(by, d)] of EDF-VD.                 *)
DropThenDispatch(j, by, d) ==
    [NoAction EXCEPT !.op = "drop", !.job = j, !.by = by, !.dev = d]

PhaseOps == {"setup", "replay", "start", "poll", "release", "point", "critical",
             "dropLo", "idle", "reevaluate", "reevaluateTick", "trigger", "ended"}
PhaseRecord == [op: PhaseOps, k: Nat, job: Nat \cup {NoJob}]

(* k is the task, device or replay index the phase is about.                *)
Phase(op, k) == [op |-> op, k |-> k, job |-> NoJob]
PointPhase(d, j) == [op |-> "point", k |-> d, job |-> j]
Poll == Phase("poll", 0)
Trigger == Phase("trigger", 0)

(* What the schedulers of the repository may answer to each callback.  An   *)
(* arriving job goes to a device its task has affinity for.                 *)
Compatible(j) ==
    {d \in DeviceIds : \E i \in DOMAIN TaskOf(j).affinity :
                          TaskOf(j).affinity[i] = Device[d].type}
CompatibleBusy(j) == {d \in Compatible(j) : running[d] # NoJob}

ArrivalActions(j) ==
    {NoAction, Drop(j)}
    \cup {Dispatch(j, d, 0) : d \in Compatible(j)}
    \cup {Enqueue(j, d) : d \in Compatible(j)}
    \cup {Preempt(running[d], j, d, FALSE) : d \in CompatibleBusy(j)}
    \cup {DropThenDispatch(running[d], j, d) : d \in CompatibleBusy(j)}

(* on_job_complete and on_device_idle: the device has just become free.     *)
FreeActions(d) == {NoAction} \cup {Dispatch(q, d, 0) : q \in queue[d]}

PointActions(d, j) ==
    {NoAction} \cup {Preempt(j, q, d, TRUE) : q \in queue[d]}
               \cup {DropThenDispatch(j, q, d) : q \in queue[d]}

(* on_reevaluation: a better queued job replaces the running one, only on   *)
(* fully preemptive devices.                                                *)
ReevaluationActions(d) ==
    IF Device[d].preemption = "Fully" /\ running[d] # NoJob
    THEN {NoAction} \cup {Preempt(running[d], q, d, FALSE) : q \in queue[d]}
    ELSE {NoAction}

-----------------------------------------------------------------------------
(* Initial state: SimEngine::new                                            *)

Init ==
    /\ now = 0
    /\ level = "Lo"
    /\ nextJob = 0
    /\ jobs = [j \in {} |-> NewJob(j, 0, 0, Unset)]
    /\ running = [d \in DeviceIds |-> NoJob]
    /\ queue = [d \in DeviceIds |-> {}]
    /\ busy = [d \in DeviceIds |-> 0]
    /\ events = {}
    /\ seq = 0
    /\ active = {}
    /\ pending = {}
    /\ trig = [gen |-> 0, at |-> Unset]
    /\ tick = [gen |-> 0, at |-> Unset, next |-> Unset]
    /\ metrics = [total |-> 0, completed |-> 0, missed |-> 0, preemptions |-> 0]
    /\ act = NoAction
    /\ phase = Phase("setup", 0)

-----------------------------------------------------------------------------
(* Creating jobs                                                            *)

AppendJob(r) ==
    /\ nextJob' = nextJob + 1
    /\ jobs' = [j \in 0 .. nextJob |-> IF j = nextJob THEN r ELSE jobs[j]]

(* A job, its arrival and its deadline check.                               *)
AddJob(r, checkTime) ==
    /\ AppendJob(r)
    /\ events' = events \cup
         {Event(r.release, seq, "TaskArrival", nextJob, 0, NoDevice),
          Event(checkTime, seq + 1, "DeadlineCheck", nextJob, 0, NoDevice)}
    /\ seq' = seq + 2

ScheduleJobRelease(t, release) ==
    IF release > Duration
    THEN UNCHANGED <<jobVars, eventVars>>
    ELSE LET deadline == release + Task[t].deadline
         IN AddJob(NewJob(t, release, deadline, Unset), deadline)

(* schedule_initial_arrivals: one task of the loop per step.                *)
ScheduleInitialArrival ==
    /\ phase.op = "setup"
    /\ IF phase.k \in TaskIds
       THEN /\ IF Task[phase.k].period > 0
               THEN ScheduleJobRelease(phase.k, 0)
               ELSE UNCHANGED <<jobVars, eventVars>>
            /\ phase' = Phase("setup", phase.k + 1)
       ELSE /\ phase' = Phase("replay", 1)
            /\ UNCHANGED <<jobVars, eventVars>>
    /\ UNCHANGED <<now, level, deviceVars, transferVars, reevalVars, metrics, act>>

(* The replay loop of run_single: one job of the trace per step, its        *)
(* deadline checked one nanosecond after the deadline.                      *)
ScheduleReplayJob ==
    /\ phase.op = "replay"
    /\ IF phase.k \in DOMAIN ReplayJobs
       THEN /\ LET r == ReplayJobs[phase.k]
               IN AddJob(NewJob(r.task, r.release, r.deadline, r.actual), r.deadline + 1)
            /\ phase' = Phase("replay", phase.k + 1)
       ELSE /\ phase' = Phase("start", 0)
            /\ UNCHANGED <<jobVars, eventVars>>
    /\ UNCHANGED <<now, level, deviceVars, transferVars, reevalVars, metrics, act>>

(* The head of run(): the end event and the first periodic tick.            *)
SchedulePeriodicReevaluation(time, end) ==
    IF time > Duration
    THEN /\ tick' = [tick EXCEPT !.next = time]
         /\ events' = events \cup end
         /\ seq' = seq + 1
    ELSE /\ tick' = [gen |-> tick.gen + 1, at |-> time, next |-> time]
         /\ events' = events \cup end \cup
              {Event(time, seq + 1, "Periodic", NoJob, tick.gen + 1, NoDevice)}
         /\ seq' = seq + 2

StartRun ==
    /\ phase.op = "start"
    /\ LET end == {Event(Duration, seq, "SimulationEnd", NoJob, 0, NoDevice)}
       IN IF PeriodicInterval = 0
          THEN /\ events' = events \cup end
               /\ seq' = seq + 1
               /\ tick' = tick
          ELSE SchedulePeriodicReevaluation(PeriodicInterval, end)
    /\ phase' = Poll
    /\ UNCHANGED <<now, level, jobVars, deviceVars, transferVars, trig, metrics, act>>

-----------------------------------------------------------------------------
(* Transfers                                                                *)

(* Faulty variant: the waiting transfers are looked at instead.             *)
BusAwaited(bus) == \E p \in pending : p.bus = bus
BusBusy(bus) == \E a \in active : a.bus = bus

(* A transfer of job j to device `to`, of version ver, starts or queues.    *)
InitiateTransfer(j, from, to, ver) ==
    LET done(t) == Event(t, seq, "TransferComplete", j, ver, to)
        start(link) ==
            /\ active' = active \cup {[job |-> j, bus |-> link.bus]}
            /\ events' = events \cup {done(now + TransferTime(link, TaskOf(j).dataSize))}
            /\ UNCHANGED pending
    IN /\ \/ /\ FindInterconnect(from, to) = {}
             /\ events' = events \cup {done(now)}
             /\ UNCHANGED transferVars
          \/ \E link \in FindInterconnect(from, to) :
                IF link.bus # NoBus /\ BusBusy(link.bus)
                THEN /\ pending' = pending \cup {[job |-> j, dev |-> to, ver |-> ver,
                                                  bus |-> link.bus, stamp |-> seq]}
                     /\ UNCHANGED <<active, events>>
                ELSE start(link)
       /\ seq' = seq + 1

(* Faulty variant: the bus is freed and the next transfer does not start.   *)
ReleaseBusOnly(gone, waiting, rest, t) ==
    /\ pending' = waiting
    /\ active' = active \ gone
    /\ events' = rest
    /\ seq' = seq + 1

(* Once the transfers `gone` (at most one) have left the bus at time t, the *)
(* next one waiting in `waiting` starts; `rest` are the events left.        *)
ReleaseBus(gone, waiting, rest, t) ==
    LET candidates == {p \in waiting : \E a \in gone : a.bus = p.bus}
        precedes(p, q) ==
            IF p.bus \in PriorityBuses /\ TaskOf(p.job).priority # TaskOf(q.job).priority
            THEN TaskOf(p.job).priority < TaskOf(q.job).priority
            ELSE p.stamp <= q.stamp
        next == {p \in candidates : \A q \in candidates : precedes(p, q)}
        started == {p \in next : LinkOnBus(p.bus, p.dev) # {}}
        completion(p) ==
            {Event(t + TransferTime(link, TaskOf(p.job).dataSize), seq,
                   "TransferComplete", p.job, p.ver, p.dev) :
                link \in LinkOnBus(p.bus, p.dev)}
    IN /\ pending' = waiting \ next
       /\ active' = (active \ gone) \cup {[job |-> p.job, bus |-> p.bus] : p \in started}
       /\ events' = rest \cup UNION {completion(p) : p \in next}
       /\ seq' = seq + 1

-----------------------------------------------------------------------------
(* Executing one scheduler action: execute_actions and what it calls        *)

Executing(op) == act.op = op

(* dispatch_job_with_delay, its five outcomes.                              *)

DispatchTerminal ==
    /\ Executing("dispatch")
    /\ IsTerminal(act.job)
    /\ act' = NoAction
    /\ UNCHANGED <<now, level, jobVars, deviceVars, eventVars, transferVars,
                   reevalVars, metrics, phase>>

DispatchBusy ==
    /\ Executing("dispatch")
    /\ ~IsTerminal(act.job)
    /\ running[act.dev] # NoJob
    /\ act' = IF running[act.dev] = act.job THEN NoAction ELSE Enqueue(act.job, act.dev)
    /\ UNCHANGED <<now, level, jobVars, deviceVars, eventVars, transferVars,
                   reevalVars, metrics, phase>>

(* Faulty variant: the job stays in the ready queue.                        *)
MayDispatchQueued ==
    /\ Executing("dispatch")
    /\ ~IsTerminal(act.job)
    /\ running[act.dev] = NoJob
    /\ queue' = queue
    /\ act' = NoAction

MayDispatch ==
    /\ Executing("dispatch")
    /\ ~IsTerminal(act.job)
    /\ running[act.dev] = NoJob
    /\ queue' = [queue EXCEPT ![act.dev] = @ \ {act.job}]
    /\ act' = NoAction

ExecTimes == SampleExecTime(jobs[act.job].task, act.dev, level)

(* Without an execution-time model the job has left the queue and that is   *)
(* all that happens to it.                                                  *)
DispatchWithoutModel ==
    /\ MayDispatch
    /\ ExecTimes = {}
    /\ UNCHANGED <<now, level, jobVars, running, busy, eventVars, transferVars,
                   reevalVars, metrics, phase>>

NeedsTransfer(j, d) ==
    /\ TaskOf(j).dataSize > 0
    /\ Device[d].type # "Cpu"
    /\ jobs[j].dev # d

(* The data comes from the device the job was on, else from the first CPU,  *)
(* else from the target itself.                                             *)
TransferSources(j, d) ==
    IF jobs[j].dev # NoDevice THEN {jobs[j].dev}
    ELSE IF DeviceForType("Cpu") # {} THEN DeviceForType("Cpu") ELSE {d}

Resolved(r, x) == [r EXCEPT !.actual = IF @ = Unset THEN x ELSE @]

DispatchTransfer ==
    /\ MayDispatch
    /\ NeedsTransfer(act.job, act.dev)
    /\ \E x \in ExecTimes, source \in TransferSources(act.job, act.dev) :
          LET j == act.job
              r == Settle(Assigned(Resolved(jobs[j], x), act.dev, Unset), "Transferring")
          IN /\ jobs' = [jobs EXCEPT ![j] = r]
             /\ InitiateTransfer(j, source, act.dev, r.ver)
    /\ UNCHANGED <<now, level, nextJob, running, busy, reevalVars, metrics, phase>>

(* A started job schedules its completion, the policing of its LO budget    *)
(* and its first preemption point, in this order.                           *)
StartEvents(j, r, d, penalty) ==
    LET start == ExecutionStart(now, d, penalty)
        budgets == IF level = "Lo" THEN LoWcet(r.task) ELSE {}
        left(b) == IF b > r.exec THEN b - r.exec ELSE 0
    IN {Event(start + WorkToWall(Remaining(r), d), seq, "JobComplete", j, r.ver, d)}
       \cup {Event(now + WorkToWall(left(b), d), seq + 1, "BudgetOverrun", j, r.ver, NoDevice) :
                b \in budgets}
       \cup (IF HasPreemptionPoints(d)
             THEN {Event(start + Device[d].interval, seq + 2, "PreemptionPoint", j, r.ver, d)}
             ELSE {})

DispatchRun ==
    /\ MayDispatch
    /\ ~NeedsTransfer(act.job, act.dev)
    /\ \E x \in ExecTimes :
          LET j == act.job
              d == act.dev
              r == Transition(Assigned(Resolved(jobs[j], x), d, now), "Running")
          IN /\ jobs' = [jobs EXCEPT ![j] = r]
             /\ running' = [running EXCEPT ![d] = j]
             /\ events' = events \cup StartEvents(j, r, d, act.penalty)
             /\ seq' = seq + 3
    /\ UNCHANGED <<now, level, nextJob, busy, transferVars, reevalVars, metrics, phase>>

(* preempt_job: the victim stops and waits on its device, then the other    *)
(* job is dispatched with the penalty of the device model.                  *)
PreemptNow ==
    /\ Executing("preempt")
    /\ AllowsPreemption(act.dev, act.atPoint)
    /\ running[act.dev] = act.job
    /\ LET v == act.job
           d == act.dev
       IN /\ jobs' = [jobs EXCEPT ![v] = Transition(Progressed(@, d, now), "Suspended")]
          /\ busy' = [busy EXCEPT ![d] = @ + (now - jobs[v].start)]
          /\ running' = [running EXCEPT ![d] = NoJob]
          /\ queue' = [queue EXCEPT ![d] = @ \cup {v}]
          /\ act' = Dispatch(act.by, d, PreemptionPenalty(d))
    /\ metrics' = [metrics EXCEPT !.preemptions = @ + 1]
    /\ UNCHANGED <<now, level, nextJob, eventVars, transferVars, reevalVars, phase>>

(* The device model does not let the preemption happen at this instant (or  *)
(* the victim is not what runs there): the other job waits.                 *)
PreemptDeferred ==
    /\ Executing("preempt")
    /\ ~(AllowsPreemption(act.dev, act.atPoint) /\ running[act.dev] = act.job)
    /\ act' = Enqueue(act.by, act.dev)
    /\ UNCHANGED <<now, level, jobVars, deviceVars, eventVars, transferVars,
                   reevalVars, metrics, phase>>

(* Faulty variant: a finished job is enqueued like any other.               *)
EnqueueAnyJob ==
    /\ Executing("enqueue")
    /\ jobs' = [jobs EXCEPT ![act.job] = Settle(Assigned(@, act.dev, Unset), "Ready")]
    /\ queue' = [queue EXCEPT ![act.dev] = @ \cup {act.job}]
    /\ act' = NoAction
    /\ UNCHANGED <<now, level, nextJob, running, busy, eventVars, transferVars,
                   reevalVars, metrics, phase>>

EnqueueJob ==
    /\ Executing("enqueue")
    /\ IF IsTerminal(act.job)
       THEN UNCHANGED <<jobs, queue>>
       ELSE /\ jobs' = [jobs EXCEPT ![act.job] =
                          Settle(Assigned(@, act.dev, Unset), "Ready")]
            /\ queue' = [queue EXCEPT ![act.dev] = @ \cup {act.job}]
    /\ act' = NoAction
    /\ UNCHANGED <<now, level, nextJob, running, busy, eventVars, transferVars,
                   reevalVars, metrics, phase>>

(* Faulty variant: the job keeps its device's slot.                         *)
RetireInPlace(j, state, t) ==
    /\ jobs' = [jobs EXCEPT ![j] =
                  IF IsTerminal(j) THEN @ ELSE Transition([@ EXCEPT !.start = Unset], state)]
    /\ busy' = [d \in DeviceIds |-> IF running[d] = j THEN busy[d] + (t - jobs[j].start)
                                                      ELSE busy[d]]
    /\ queue' = [d \in DeviceIds |-> queue[d] \ {j}]
    /\ UNCHANGED running

(* What drop_job and handle_deadline_check have in common: the job leaves   *)
(* every queue and the device it runs on, if any, and ends in `state`.      *)
Retire(j, state, t) ==
    /\ jobs' = [jobs EXCEPT ![j] =
         LET stopped == IF \E d \in DeviceIds : running[d] = j
                        THEN Progressed(@, jobs[j].dev, t)
                        ELSE [@ EXCEPT !.start = Unset]
         IN IF IsTerminal(j) THEN @ ELSE Transition(stopped, state)]
    /\ busy' = [d \in DeviceIds |-> IF running[d] = j THEN busy[d] + (t - jobs[j].start)
                                                      ELSE busy[d]]
    /\ running' = [d \in DeviceIds |-> IF running[d] = j THEN NoJob ELSE running[d]]
    /\ queue' = [d \in DeviceIds |-> queue[d] \ {j}]

(* drop_job with TransferManager::cancel_job; the second action of a list   *)
(* [DropJob, Dispatch] follows.                                             *)
DropJob ==
    /\ Executing("drop")
    /\ Retire(act.job, "Dropped", now)
    /\ ReleaseBus({a \in active : a.job = act.job}, {p \in pending : p.job # act.job},
                  events, now)
    /\ act' = IF act.by = NoJob THEN NoAction ELSE Dispatch(act.by, act.dev, 0)
    /\ UNCHANGED <<now, level, nextJob, reevalVars, metrics, phase>>

-----------------------------------------------------------------------------
(* Handlers: the head of each, up to and including the scheduler callback,  *)
(* whose answer is the parameter a.                                         *)

Polling == phase.op = "poll" /\ act.op = "none"

(* The heap's minimum is popped and the clock moves to it.                  *)
Pops(e) ==
    /\ Polling
    /\ e \in events
    /\ IsFirst(e)
    /\ now' = e.time

Handles(e, kind) ==
    /\ Pops(e)
    /\ e.kind = kind
    /\ ~IsStale(e)

DiscardStale ==
    /\ \E e \in events : /\ Pops(e)
                         /\ IsStale(e)
                         /\ events' = events \ {e}
    /\ UNCHANGED <<level, jobVars, deviceVars, seq, transferVars, reevalVars,
                   metrics, act, phase>>

SimulationEnd ==
    /\ \E e \in events : /\ Handles(e, "SimulationEnd")
                         /\ events' = events \ {e}
    /\ phase' = Phase("ended", 0)
    /\ UNCHANGED <<level, jobVars, deviceVars, seq, transferVars, reevalVars,
                   metrics, act>>

TaskArrival(e, a) ==
    /\ Handles(e, "TaskArrival")
    /\ events' = events \ {e}
    /\ metrics' = [metrics EXCEPT !.total = @ + 1]
    /\ act' = a
    /\ phase' = Phase("release", jobs[e.job].task)
    /\ UNCHANGED <<level, jobVars, deviceVars, seq, transferVars, reevalVars>>

JobComplete(e, a) ==
    /\ Handles(e, "JobComplete")
    /\ events' = events \ {e}
    /\ IF running[e.dev] # e.job
       THEN UNCHANGED <<jobs, running, busy, metrics, act>>
       ELSE /\ LET r == jobs[e.job]
                   done == IF r.actual # Unset THEN r.actual
                                               ELSE Progressed(r, e.dev, e.time).exec
               IN jobs' = [jobs EXCEPT ![e.job] =
                             Transition([@ EXCEPT !.exec = done, !.start = Unset],
                                        "Completed")]
            /\ running' = [running EXCEPT ![e.dev] = NoJob]
            /\ busy' = [busy EXCEPT ![e.dev] = @ + (e.time - jobs[e.job].start)]
            /\ metrics' = [metrics EXCEPT !.completed = @ + 1]
            /\ act' = a
    /\ phase' = Trigger
    /\ UNCHANGED <<level, nextJob, queue, seq, transferVars, reevalVars>>

PreemptionPoint(e, a) ==
    /\ Handles(e, "PreemptionPoint")
    /\ events' = events \ {e}
    /\ IF running[e.dev] # e.job
       THEN act' = act /\ phase' = Trigger
       ELSE act' = a /\ phase' = PointPhase(e.dev, e.job)
    /\ UNCHANGED <<level, jobVars, deviceVars, seq, transferVars, reevalVars, metrics>>

TransferComplete(e, a) ==
    /\ Handles(e, "TransferComplete")
    /\ ReleaseBus({x \in active : x.job = e.job}, pending, events \ {e}, e.time)
    /\ IF IsTerminal(e.job)
       THEN UNCHANGED <<jobs, act>>
       ELSE /\ jobs' = [jobs EXCEPT ![e.job] =
                          Settle(Assigned(@, e.dev, Unset), "Ready")]
            /\ act' = a
    /\ phase' = Trigger
    /\ UNCHANGED <<level, nextJob, deviceVars, reevalVars, metrics>>

HasMissedDeadline(j, t) == t > jobs[j].deadline /\ ~IsTerminal(j)

(* The job leaves its device and its queue; no scheduler callback follows   *)
(* and the transfer manager is not told.                                    *)
DeadlineCheck(e) ==
    /\ Handles(e, "DeadlineCheck")
    /\ events' = events \ {e}
    /\ IF HasMissedDeadline(e.job, e.time)
       THEN /\ Retire(e.job, "DeadlineMissed", e.time)
            /\ metrics' = [metrics EXCEPT !.missed = @ + 1]
       ELSE UNCHANGED <<jobs, deviceVars, metrics>>
    /\ UNCHANGED <<level, nextJob, seq, transferVars, reevalVars, act, phase>>

BudgetOverrun(e) ==
    /\ Handles(e, "BudgetOverrun")
    /\ events' = events \ {e}
    /\ level' = "Hi"
    /\ phase' = IF level = "Hi" THEN Trigger ELSE Phase("critical", 0)
    /\ UNCHANGED <<jobVars, deviceVars, seq, transferVars, reevalVars, metrics, act>>

TriggeredReevaluation(e) ==
    /\ Handles(e, "Triggered")
    /\ events' = events \ {e}
    /\ IF trig = [gen |-> e.ver, at |-> e.time]
       THEN /\ trig' = [trig EXCEPT !.at = Unset]
            /\ phase' = Phase("reevaluate", 0)
       ELSE UNCHANGED <<trig, phase>>
    /\ UNCHANGED <<level, jobVars, deviceVars, seq, transferVars, tick, metrics, act>>

PeriodicReevaluation(e) ==
    /\ Handles(e, "Periodic")
    /\ events' = events \ {e}
    /\ IF tick.gen = e.ver /\ tick.at = e.time
       THEN /\ tick' = [tick EXCEPT !.at = Unset]
            /\ phase' = Phase("reevaluateTick", 0)
       ELSE UNCHANGED <<tick, phase>>
    /\ UNCHANGED <<level, jobVars, deviceVars, seq, transferVars, trig, metrics, act>>

-----------------------------------------------------------------------------
(* The rest of each handler, once its actions are executed                  *)

Continues(op) == phase.op = op /\ act.op = "none"

(* handle_task_arrival: the next job of a recurring task.                   *)
ReleaseNextJob ==
    /\ Continues("release")
    /\ IF Task[phase.k].period > 0
       THEN ScheduleJobRelease(phase.k, now + Task[phase.k].period)
       ELSE UNCHANGED <<jobVars, eventVars>>
    /\ phase' = Trigger
    /\ UNCHANGED <<now, level, deviceVars, transferVars, reevalVars, metrics, act>>

(* Faulty variant: the points end with the first.                           *)
ForgetPoints ==
    /\ Continues("point")
    /\ phase' = Trigger
    /\ UNCHANGED <<now, level, jobVars, deviceVars, eventVars, transferVars, reevalVars,
                   metrics, act>>

(* handle_preemption_point: the next point, when the job still runs.        *)
ReschedulePoint ==
    /\ Continues("point")
    /\ IF running[phase.k] = phase.job
       THEN /\ events' = events \cup
                 {Event(now + Device[phase.k].interval, seq, "PreemptionPoint",
                        phase.job, jobs[phase.job].ver, phase.k)}
            /\ seq' = seq + 1
       ELSE UNCHANGED eventVars
    /\ phase' = Trigger
    /\ UNCHANGED <<now, level, jobVars, deviceVars, transferVars, reevalVars, metrics, act>>

(* handle_budget_overrun: the scheduler's own drops of LO jobs it sees ...  *)
VisibleLoJobs ==
    {j \in JobIds : IsLo(j) /\ \E d \in DeviceIds : j \in queue[d] \/ running[d] = j}

SchedulerDropsLo(j) ==
    /\ Continues("critical")
    /\ j \in VisibleLoJobs
    /\ act' = Drop(j)
    /\ UNCHANGED <<now, level, jobVars, deviceVars, eventVars, transferVars,
                   reevalVars, metrics, phase>>

SchedulerDropsNoMore ==
    /\ Continues("critical")
    /\ phase' = Phase("dropLo", 0)
    /\ UNCHANGED <<now, level, jobVars, deviceVars, eventVars, transferVars,
                   reevalVars, metrics, act>>

(* ... then drop_lo_critical_jobs, in the order of the job table ...        *)
(* Faulty variant: only the LO jobs the scheduler can see.                  *)
UnfinishedVisibleLoJobs == {j \in VisibleLoJobs : ~IsTerminal(j)}
UnfinishedLoJobs == {j \in JobIds : IsLo(j) /\ ~IsTerminal(j)}

DropLoJobs ==
    /\ Continues("dropLo")
    /\ IF UnfinishedLoJobs = {}
       THEN act' = act /\ phase' = Phase("idle", 0)
       ELSE \E j \in FirstOf(UnfinishedLoJobs) : act' = Drop(j) /\ phase' = phase
    /\ UNCHANGED <<now, level, jobVars, deviceVars, eventVars, transferVars,
                   reevalVars, metrics>>

(* ... then dispatch_after_criticality_switch, one device per step.         *)
IdleActions(d) ==
    IF running[d] = NoJob /\ queue[d] # {} THEN FreeActions(d) ELSE {NoAction}

DispatchIdle(a) ==
    /\ Continues("idle")
    /\ phase.k \in DeviceIds
    /\ act' = a
    /\ phase' = Phase("idle", phase.k + 1)
    /\ UNCHANGED <<now, level, jobVars, deviceVars, eventVars, transferVars,
                   reevalVars, metrics>>

DispatchIdleDone ==
    /\ Continues("idle")
    /\ phase.k \notin DeviceIds
    /\ phase' = Trigger
    /\ UNCHANGED <<now, level, jobVars, deviceVars, eventVars, transferVars,
                   reevalVars, metrics, act>>

(* handle_reevaluation: the scheduler's preemptions, one device per step.   *)
Reevaluating == phase.op \in {"reevaluate", "reevaluateTick"} /\ act.op = "none"

(* Faulty variant: the loop does not advance.                               *)
ReevaluateSame(a) ==
    /\ Reevaluating
    /\ phase.k \in DeviceIds
    /\ act' = a
    /\ UNCHANGED <<now, level, jobVars, deviceVars, eventVars, transferVars,
                   reevalVars, metrics, phase>>

Reevaluate(a) ==
    /\ Reevaluating
    /\ phase.k \in DeviceIds
    /\ act' = a
    /\ phase' = [phase EXCEPT !.k = @ + 1]
    /\ UNCHANGED <<now, level, jobVars, deviceVars, eventVars, transferVars,
                   reevalVars, metrics>>

(* A periodic reevaluation schedules the next tick.                         *)
ReevaluateDone ==
    /\ Reevaluating
    /\ phase.k \notin DeviceIds
    /\ IF phase.op = "reevaluateTick"
       THEN SchedulePeriodicReevaluation(tick.next + PeriodicInterval, {})
       ELSE UNCHANGED <<eventVars, tick>>
    /\ phase' = Poll
    /\ UNCHANGED <<now, level, jobVars, deviceVars, transferVars, trig, metrics, act>>

(* Faulty variant: no debounce.                                             *)
ScheduleAnotherReevaluation ==
    /\ Continues("trigger")
    /\ trig' = [gen |-> trig.gen + 1, at |-> now + TriggeredInterval]
    /\ events' = events \cup
         {Event(now + TriggeredInterval, seq, "Triggered", NoJob, trig.gen + 1, NoDevice)}
    /\ seq' = seq + 1
    /\ phase' = Poll
    /\ UNCHANGED <<now, level, jobVars, deviceVars, transferVars, tick, metrics, act>>

(* schedule_triggered_reevaluation, the last step of a handler: at most one *)
(* reevaluation is outstanding, and an earlier one is kept.                 *)
ScheduleTriggeredReevaluation ==
    /\ Continues("trigger")
    /\ LET time == now + TriggeredInterval
       IN IF \/ TriggeredInterval = 0
             \/ time > Duration
             \/ trig.at # Unset /\ trig.at <= time
          THEN UNCHANGED <<trig, eventVars>>
          ELSE /\ trig' = [gen |-> trig.gen + 1, at |-> time]
               /\ events' = events \cup
                    {Event(time, seq, "Triggered", NoJob, trig.gen + 1, NoDevice)}
               /\ seq' = seq + 1
    /\ phase' = Poll
    /\ UNCHANGED <<now, level, jobVars, deviceVars, transferVars, tick, metrics, act>>

(* The loop has ended: nothing more happens.                                *)
Ended == phase.op = "ended" /\ UNCHANGED vars

-----------------------------------------------------------------------------
(* The steps that involve no scheduler decision                             *)
EngineStep ==
    \/ ScheduleInitialArrival
    \/ ScheduleReplayJob
    \/ StartRun
    \/ DispatchTerminal
    \/ DispatchBusy
    \/ DispatchWithoutModel
    \/ DispatchTransfer
    \/ DispatchRun
    \/ PreemptNow
    \/ PreemptDeferred
    \/ EnqueueJob
    \/ DropJob
    \/ DiscardStale
    \/ SimulationEnd
    \/ \E e \in events : DeadlineCheck(e)
    \/ \E e \in events : BudgetOverrun(e)
    \/ \E e \in events : TriggeredReevaluation(e)
    \/ \E e \in events : PeriodicReevaluation(e)
    \/ ReleaseNextJob
    \/ ReschedulePoint
    \/ DropLoJobs
    \/ DispatchIdleDone
    \/ ReevaluateDone
    \/ ScheduleTriggeredReevaluation
    \/ Ended

(* The steps whose action list is the scheduler's choice.                   *)
EventsOf(kind) == {e \in events : e.kind = kind}
AtDevice(op) == phase.op = op /\ phase.k \in DeviceIds

SchedulerStep ==
    \/ \E e \in EventsOf("TaskArrival") : \E a \in ArrivalActions(e.job) : TaskArrival(e, a)
    \/ \E e \in EventsOf("JobComplete") : \E a \in FreeActions(e.dev) : JobComplete(e, a)
    \/ \E e \in EventsOf("PreemptionPoint") :
          \E a \in PointActions(e.dev, e.job) : PreemptionPoint(e, a)
    \/ \E e \in EventsOf("TransferComplete") :
          \E a \in ArrivalActions(e.job) : TransferComplete(e, a)
    \/ \E j \in JobIds : SchedulerDropsLo(j)
    \/ SchedulerDropsNoMore
    \/ AtDevice("idle") /\ \E a \in IdleActions(phase.k) : DispatchIdle(a)
    \/ AtDevice("reevaluate") /\ \E a \in ReevaluationActions(phase.k) : Reevaluate(a)
    \/ AtDevice("reevaluateTick") /\ \E a \in ReevaluationActions(phase.k) : Reevaluate(a)

Next == EngineStep \/ SchedulerStep

Spec == Init /\ [][Next]_vars

(* run() is a plain loop: it keeps taking steps until it breaks.            *)
FairSpec == Spec /\ WF_vars(Next)

-----------------------------------------------------------------------------
(* Invariants                                                               *)

(* The shape of the state: every id in it names an existing device or job,  *)
(* every clock value and counter is a natural.                              *)
TypeOK ==
    /\ now \in Nat
    /\ level \in Levels
    /\ nextJob \in Nat
    /\ jobs \in [JobIds -> JobRecord]
    /\ running \in [DeviceIds -> JobIds \cup {NoJob}]
    /\ queue \in [DeviceIds -> SUBSET JobIds]
    /\ busy \in [DeviceIds -> Nat]
    /\ events \subseteq EventRecord
    /\ seq \in Nat
    /\ active \subseteq [job: JobIds, bus: BusIds \cup {NoBus}]
    /\ pending \subseteq [job: JobIds, dev: DeviceIds, ver: Nat, bus: BusIds, stamp: Nat]
    /\ trig \in [gen: Nat, at: Nat \cup {Unset}]
    /\ tick \in [gen: Nat, at: Nat \cup {Unset}, next: Nat \cup {Unset}]
    /\ metrics \in [total: Nat, completed: Nat, missed: Nat, preemptions: Nat]
    /\ act \in ActRecord
    /\ phase \in PhaseRecord

(* The job table and the device manager agree, whatever the scheduler does: *)
(* a device's slot holds exactly the running job assigned to it, a queue    *)
(* holds only jobs that wait for that device, and a preempted job is never  *)
(* lost.  In the code the two sides are written by different calls          *)
(* (transition, set_running/clear_running, enqueue/remove_from_queue).      *)
SlotsHoldRunningJobs ==
    \A d \in DeviceIds : running[d] # NoJob =>
        /\ running[d] \in JobIds
        /\ jobs[running[d]].state = "Running"
        /\ jobs[running[d]].dev = d
RunningJobsHaveSlots ==
    \A j \in JobIds : jobs[j].state = "Running" =>
        /\ jobs[j].dev \in DeviceIds
        /\ running[jobs[j].dev] = j
        /\ jobs[j].start \in 0 .. now
QueuesHoldWaitingJobs ==
    \A d \in DeviceIds : \A j \in queue[d] :
        /\ j \in JobIds
        /\ jobs[j].state \in {"Ready", "Suspended"}
        /\ jobs[j].dev = d
SuspendedJobsWait ==
    \A j \in JobIds : jobs[j].state = "Suspended" =>
        jobs[j].dev \in DeviceIds /\ j \in queue[jobs[j].dev]

Placement ==
    /\ SlotsHoldRunningJobs
    /\ RunningJobsHaveSlots
    /\ QueuesHoldWaitingJobs
    /\ SuspendedJobsWait

(* Version invalidation works: an event that passes the staleness check     *)
(* finds its job in the state it was scheduled for, on its device.  This is *)
(* what lets handle_job_complete and handle_preemption_point trust an event *)
(* that outlived preemptions, drops and deadline misses.                    *)
LiveEventsAreMeant ==
    \A e \in events : e.kind \in VersionedKinds =>
        /\ e.job \in JobIds
        /\ e.ver <= jobs[e.job].ver
        /\ e.ver = jobs[e.job].ver =>
              /\ jobs[e.job].state =
                    IF e.kind = "TransferComplete" THEN "Transferring" ELSE "Running"
              /\ e.kind # "BudgetOverrun" => jobs[e.job].dev = e.dev

(* On a device with preemption points a running job always has exactly one *)
(* live point ahead, no further than one interval after it starts to make  *)
(* progress or after the last point: a waiting job is blocked that long at  *)
(* most.                                                                    *)
LivePoints(j) ==
    {e \in events : e.kind = "PreemptionPoint" /\ e.job = j /\ e.ver = jobs[j].ver}
PointAhead(d) ==
    \E e \in LivePoints(running[d]) :
        /\ LivePoints(running[d]) = {e}
        /\ e.time <= Device[d].interval +
              MaxOf(now, ExecutionStart(jobs[running[d]].start, d, PreemptionPenalty(d)))
PointsRecur ==
    \A d \in DeviceIds :
        HasPreemptionPoints(d) /\ running[d] # NoJob /\ phase.op # "point" => PointAhead(d)

(* A running job has exactly one completion event that will be believed: it *)
(* can neither run for ever nor complete twice.                             *)
LiveCompletions(j) ==
    {e \in events : e.kind = "JobComplete" /\ e.job = j /\ e.ver = jobs[j].ver}
CompletionScheduled ==
    \A j \in JobIds : jobs[j].state = "Running" =>
        \E e \in LiveCompletions(j) : LiveCompletions(j) = {e} /\ e.time >= now

(* No event lies in the past: the debug_assert of run().                    *)
NothingInThePast == \A e \in events : e.time >= now

(* A job whose data is on its way has exactly one thing that will end the   *)
(* wait: a completion event that will be believed, or a place in the queue  *)
(* of a bus.                                                                *)
LiveTransfers(j) ==
    {e \in events : e.kind = "TransferComplete" /\ e.job = j /\ e.ver = jobs[j].ver}
WaitingTransfers(j) == {p \in pending : p.job = j}
TransfersAccounted ==
    \A j \in JobIds : jobs[j].state = "Transferring" =>
        \/ /\ WaitingTransfers(j) = {}
           /\ \E e \in LiveTransfers(j) : LiveTransfers(j) = {e}
        \/ /\ LiveTransfers(j) = {}
           /\ \E p \in WaitingTransfers(j) : /\ WaitingTransfers(j) = {p}
                                             /\ p.ver = jobs[j].ver
                                             /\ p.dev = jobs[j].dev

(* A shared bus carries one transfer at a time, across completions,         *)
(* cancellations and mode switches.                                         *)
BusExclusive ==
    \A a, b \in active : a.bus = b.bus /\ a.bus # NoBus => a = b

(* "Starts the next pending transfer on the bus if one exists               *)
(* (work-conserving)": while a transfer waits, its bus is carrying one that *)
(* will complete, or one of a job that has missed its deadline meanwhile,   *)
(* of which the transfer manager is not told (see EngineClaims).            *)
BusWorkConserving ==
    \A p \in pending : \E a \in active :
        /\ a.bus = p.bus
        /\ LiveTransfers(a.job) # {} \/ jobs[a.job].state = "DeadlineMissed"

(* Work is neither lost nor invented over any number of preemptions: a job  *)
(* never executes more than its actual demand, and completes with exactly   *)
(* it.                                                                      *)
WorkConserved ==
    \A j \in JobIds :
        /\ jobs[j].actual # Unset => jobs[j].exec <= jobs[j].actual
        /\ jobs[j].state = "Completed" => jobs[j].exec = jobs[j].actual

(* The busy time of a device (the numerator of its reported utilization)    *)
(* never exceeds the time that has passed, the running stretch included:    *)
(* no stretch is counted twice by completion, preemption, drop and miss.    *)
BusyWithinElapsed ==
    \A d \in DeviceIds :
        busy[d] + (IF running[d] = NoJob THEN 0 ELSE now - jobs[running[d]].start) <= now

(* No LO job survives the criticality switch anywhere: when the devices are *)
(* redispatched, every one of them has ended, runs and waits nowhere, and   *)
(* holds or awaits a bus only if it missed its deadline meanwhile.          *)
SwitchPurgesLo ==
    phase.op = "idle" =>
        \A j \in JobIds : IsLo(j) =>
            /\ IsTerminal(j)
            /\ \A d \in DeviceIds : running[d] # j /\ j \notin queue[d]
            /\ \A x \in active \cup pending : x.job = j => jobs[j].state = "DeadlineMissed"

(* drop_job takes the transfers a job owns off the buses without looking    *)
(* whether the job has finished, and the job of a completed DAG node owns   *)
(* the transfers of its edges (see Dag).  So nobody may ever drop a job     *)
(* that has completed: no answer to an arrival, a transfer or a preemption  *)
(* point, and neither of the two purges of the criticality switch.          *)
DropsSpareCompletedJobs ==
    act.op = "drop" => jobs[act.job].state # "Completed"

(* A job is enqueued only when it is in no queue and on no device, so a     *)
(* ready queue never holds it twice.                                        *)
EnqueuedOnce ==
    act.op = "enqueue" /\ ~IsTerminal(act.job) =>
        \A d \in DeviceIds : act.job \notin queue[d] /\ running[d] # act.job

(* At most one triggered reevaluation is outstanding, and the engine's      *)
(* record of it is an event that will be honoured; the periodic tick keeps  *)
(* its cadence from time 0, whatever the triggered ones do.                 *)
TriggeredEvents == {e \in events : e.kind = "Triggered"}
PeriodicEvents == {e \in events : e.kind = "Periodic"}
ReevaluationOutstanding ==
    /\ IF trig.at = Unset
       THEN TriggeredEvents = {}
       ELSE \E e \in TriggeredEvents :
               TriggeredEvents = {e} /\ e.ver = trig.gen /\ e.time = trig.at
    /\ tick.at # Unset =>
          \E e \in PeriodicEvents :
              /\ PeriodicEvents = {e}
              /\ e.ver = tick.gen /\ e.time = tick.at
              /\ tick.at = tick.gen * PeriodicInterval

-----------------------------------------------------------------------------
(* What a step may never do                                                 *)

(* A finished job is never touched again, although stale events, pending    *)
(* arrivals, action lists and transfers still name it; and a job that       *)
(* changes state changes its version, so that its old events die.           *)
FinishedIsFinal ==
    \A j \in JobIds :
        /\ IsTerminal(j) => jobs'[j] = jobs[j]
        /\ jobs'[j].state # jobs[j].state => jobs'[j].ver > jobs[j].ver
FinishedStaysFinished == [][FinishedIsFinal]_vars

(* The state machine drawn in job.rs.                                       *)
LegalSuccessors(s) ==
    CASE s = "Released"     -> {"Ready", "Transferring", "Running"}
      [] s = "Ready"        -> {"Transferring", "Running"}
      [] s = "Transferring" -> {"Ready"}
      [] s = "Running"      -> {"Suspended", "Completed"}
      [] s = "Suspended"    -> {"Running"}
      [] OTHER              -> {}
LegalTransition ==
    \A j \in JobIds : jobs'[j].state # jobs[j].state =>
        \/ jobs'[j].state \in LegalSuccessors(jobs[j].state)
        \/ ~IsTerminal(j) /\ jobs'[j].state \in {"Dropped", "DeadlineMissed"}
LegalTransitions == [][LegalTransition]_vars

(* A job is suspended only where its device can be preempted: anywhere on a *)
(* fully preemptive device, at a whole number of intervals after its start  *)
(* on one with preemption points, never on a non-preemptive one.            *)
AtPreemptionPoint(j, d) ==
    \E penalty \in {0, PreemptionPenalty(d)} :
        LET since == now - ExecutionStart(jobs[j].start, d, penalty)
        IN \E n \in 1 .. since : since = n * Device[d].interval
SuspensionAllowed ==
    \A j \in JobIds : jobs[j].state = "Running" /\ jobs'[j].state = "Suspended" =>
        LET d == jobs[j].dev
        IN \/ Device[d].preemption = "Fully"
           \/ HasPreemptionPoints(d) /\ AtPreemptionPoint(j, d)
SuspendsOnlyAtPoints == [][SuspensionAllowed]_vars

-----------------------------------------------------------------------------
(* What must eventually happen                                              *)

(* The simulation reaches its end: no handler and no chain of events at one *)
(* instant goes on for ever.                                                *)
SimulationTerminates == <>(phase.op = "ended")
=============================================================================
