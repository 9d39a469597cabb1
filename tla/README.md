# Formal model of hprss-sim

`hprss-sim` is a discrete-event simulator of real-time scheduling on heterogeneous
platforms (CPU, GPU, DSP, FPGA). This directory holds TLA+ modules that model its engine,
its fifteen schedulers, its DAG tracker, its device manager and its offline analyses; TLC
configurations that check them on small instances; and TLAPS proofs of what matters most
for every platform, task set and schedule.

Run everything inside this directory: `tlc -workers 2 -config mixed.cfg MCEngine`,
`tlapm Engine_proofs.tla`. Source paths below are relative to `src/hprss-sim/crates/`.

## 1. The system

The program is single-threaded. `SimEngine::run` pops the earliest event of a heap,
moves the clock to it, discards it if its job has changed version since, and otherwise
runs one handler to its end. Its concurrency is *simulated*: jobs, devices and
transfers proceed in simulated time, their completions are events that outlive the
circumstances they were scheduled in, and a scheduler decides, at callbacks, what
happens next. The hard behaviours are those of any event-driven scheduler: stale
events, operations half done when a handler returns early, preemption in the middle of
something that counts time, an actor finished by one handler and named by another, a
scheduler whose memory of the jobs is of an earlier callback.

| component | source | state | operations | hard behaviour | what makes it correct |
|---|---|---|---|---|---|
| event queue, loop | `hprss-engine/src/engine.rs`, `hprss-types/src/event.rs` | heap, clock, sequence counter | schedule, pop, discard stale, end | stale events, ties at one instant, events in the past, endless chains | a live event is meant (`LiveEventsAreMeant`), the clock is monotone, the run ends |
| jobs | `hprss-types/src/job.rs` | state, version, progress, device | create, transition, record progress | any transition is accepted; finished jobs still named | the drawn state machine; finished jobs untouched; work conserved |
| handlers, actions | `engine.rs` | job table, busy time, counters, criticality level | arrival, completion, preemption point, transfer done, deadline, budget overrun, dispatch, preempt, enqueue, drop | partial updates, deferred preemption, early returns | slots, queues and job table agree (`Placement`); time counted once |
| device manager | `hprss-engine/src/device_manager.rs` | running slot, priority buckets and dirty flag per device, cached view | set/clear running, enqueue, dequeue, remove, rebuild | a flag not set on one path, empty buckets, order among equals | the view is current (`ViewIsCurrent`); plain ordered queues (`ImplementsReadyQueues`) |
| transfer manager | `hprss-engine/src/transfer_manager.rs` | active transfers, pending transfers per bus | initiate, complete, cancel, start next | a bus shared by transfers of jobs that are dropped or late | exclusive, work-conserving, no transfer lost |
| device models | `hprss-devices/src` | none | preemption decision, penalty, timing | four models behind one preempt path | suspension only where allowed |
| reevaluation | `engine.rs`, `hprss-types/src/policy.rs` | pending reevaluations, generations, next tick | debounce, tick | triggers during a pending reevaluation | one outstanding, steady cadence |
| mixed criticality | `engine.rs`, `hprss-types/src/task.rs` | level | overrun, purge, redispatch | LO jobs hidden from the scheduler (transferring, not arrived) | none survives the switch |
| schedulers | `hprss-scheduler/src` | LLF, CP-EDF: remaining work; Federated: dedicated devices, pins; Gang: active task; MATCH: allocations; the others none | callbacks returning action lists | answers computed from a snapshot and executed later; jobs in transfer are invisible | answers within the engine's class, no idle device with work, the scheduler's own order, a memory that is true |
| HEFT planner | `hprss-scheduler/src/heft.rs` | plans per DAG | rank, map | order of ranks, gaps, data between devices | plans are feasible |
| DAG tracker | `hprss-engine/src/dag_tracker.rs` | tokens per edge, node/task maps | register, mark edge, release | duplicated tokens, partial release | a node is released once, when all its inputs arrived |
| analyses | `hprss-validate/src/analytic` | none | response-time tests, bounds, priority assignment, conditional DAGs, reference simulators | fixpoints, boundaries, ties, removal while iterating | an accepted set meets its deadlines in the schedule simulated |
| platform, workload, metrics, CLI, differential | `hprss-platform`, `hprss-workload`, `hprss-metrics`, `hprss-sim`, `hprss-validate/src/differential` | files, generators, counters | parse, generate, replay, report, compare | file formats | not modelled (section 5) |

Interaction: a handler of the engine calls the scheduler with a snapshot
(`SchedulerView`, which the device manager's cached view is part of) and executes the
actions returned; an action calls the job table, the device manager and the transfer
manager; these return events the engine puts on the heap. A completed DAG node starts edge
transfers, whose arrival calls the tracker, which releases jobs. The analyses run offline on
the same task sets.

## 2. The modules

```
Platform <- Engine <- EngineAccounting <- EngineInv <- MCEngine      ReadyQueues <= DeviceManager <- MCDeviceManager
              ^                              ^--- Engine_proofs                        ^--- DeviceManager_proofs
              |
   SchedulerView <- CpuPolicies <- GpuPolicies <- EnginePolicies <- EngineClaims <- MCPolicies
                                                    ^--- PoliciesInv <- EnginePolicies_proofs
                                    Engine_proofs <- EnginePolicies_proofs <- Schedules_proofs
Platform <- Dag <- DagInv <- MCDag, Dag_proofs    (DagInv => Precedence; EnginePolicies => Engine)
SchedulabilityTests <- ReferenceSchedules <- AnalysisProperties \
                              ConditionalDag, ListSchedules     -- Analyses <- MCAnalysis
                                                              ^--- Analyses_proofs <- ReferenceSchedules_proofs
```

* `Platform`: everything constant during a run. Tasks, devices and links are records;
  the pure functions on them (`work_to_wall`, `sample_exec_time_for_device`,
  `evaluate_dispatch_timing`, `find_interconnect`, ...) are operators. A search for the
  first match is the set of results, with zero or one element. The floating-point speed
  factor and bandwidth are fractions, so the roundings are exact; a random draw is a free
  choice within the range the code clamps it to.
* `Engine`: the engine, the job table, the device manager's slots and queues and the
  transfer manager. A handler that loops over actions, jobs or devices cannot be one
  formula, so it is a *forced* sequence of steps: `act` is the action being executed and
  `phase` what the handler does after it. The next event is popped only when both are
  done (`Polling`), so no part of a handler is optional and nothing interleaves with it.
  The scheduler is a parameter: `ArrivalActions`, `FreeActions`, `PointActions` and
  `ReevaluationActions` are the answers the repository's schedulers may give, and every
  property is checked and proved for all of them at once.
* `EngineAccounting`: accounting properties, which need sums. `EngineInv`: the inductive
  invariants.
* `SchedulerView`: what all schedulers share, the view they read and the shapes of their
  answers (place an arriving job, dispatch the next, replace the running job, drop LO jobs).
  `CpuPolicies`: fixed priority, EDF, Global EDF, EDF-VD, LLF, CP-EDF, Federated, Gang, HEFT.
  `GpuPolicies`: GCAPS, XSched, GPreempt, GPU preemptive priority, RTGPU, MATCH. Each has an
  operator from a call (`Call`: the callback, its arguments, the slots and the time of the
  view) to the set of answers its code may return, which has one element unless the code's
  choice depends on insertion order, and, if it has fields, one from memory and call to the
  memory after it (`LlfMemory`, `FederatedMemory`, ...).
* `EnginePolicies`: the engine driven by one of them, `policy`, with its memory `mem`. Each
  step of `Engine` that calls the scheduler has the answer of `policy`; the other steps
  are `Engine`'s own. It implements `Engine` (`ImplementsEngine`, with the identity as
  mapping and `policy`, `mem` hidden). `PoliciesInv`: the inductive invariants behind its
  properties. `EngineClaims`: sentences of the repository's comments, as properties.
* `Dag`: the DAG tracker, the edge transfers of the engine and the transfer manager they
  share with other jobs. `remaining`, `satisfied` are `unsatisfied_incoming`,
  `edge_satisfied`; `sending` is the loop of `schedule_dag_outgoing_transfers` still to run
  (a forced sequence, as in `Engine`); `active`, `pending`, `events` hold job and edge
  transfers alike. It is a sibling of `Engine`, not a part of it: how a released job gets to
  run is left open (it completes at any later time on any device of its affinity, or is
  dropped), and `OtherJobs` only use the interconnect. It therefore allows every order
  `Engine`'s schedulers can produce. Only a released job is dropped: that nobody drops one
  that has completed is `DropsSpareCompletedJobs` of `Engine`, which is proved there. Other
  jobs miss no deadline during a transfer here; what happens then is `claim_bus`.
* `Precedence`: what the tracker promises, with no tokens, counters, buses or time: a node
  is released once, at the arrival of its last input. `DagInv`: properties of `Dag`, its
  inductive invariant and `ImplementsPrecedence` (`stage` maps to `stage`, `satisfied` to
  `arrived`; everything else is hidden).
* `DeviceManager`: `ready_queues` as maps from priority to bucket, `queue_dirty` and
  `view_queues`; one action per method, called in any order, a job possibly in several
  queues or twice in one. `ReadyQueues`: one sequence per device in order of priority and
  arrival, and a view that is a copy of it. `ImplementsReadyQueues` maps the concatenated
  buckets to the sequence; dirty flags have no counterpart, so the step that rebuilds only
  marked queues must look like one that copies them all. `Engine` abstracts further, to sets.
* `SchedulabilityTests`: response-time analysis (`rta.rs`, `uniform_rta.rs`,
  `openmp_wcrt.rs`), utilization bounds and Audsley's assignment (`level1.rs`) as operators;
  the iterations are one recursive function, `FixedPoint`. `ReferenceSchedules`: the two
  simulators, event by event (`RunJob`, `Idle`) and tick by tick (`Tick`).
  `ConditionalDag`: `analyze_conditional_dag`, from the topological sort to one longest path
  per scenario. `ListSchedules`: the HEFT planner, then the greedy reference scheduler on the
  plan. `AnalysisProperties` relates tests to schedules; `Analyses` puts the three machines
  side by side.
* `Instances`: platforms, task sets and traces; `MCEngine`, `MCPolicies`, `MCDag`,
  `MCDeviceManager`, `MCAnalysis` join them to the specifications for TLC.
* `Platform_proofs`, `Engine_proofs` (placement; the job state machine, the
  transfer manager and the purge; work, completions, busy time, reevaluations and preemption
  points), `EnginePolicies_proofs` (the refinement, HI mode and the schedulers' memory),
  `Schedules_proofs` (the schedules: kept busy, in order, least laxity restored, estimates
  safe), `Dag_proofs`, `DeviceManager_proofs`, `Analyses_proofs` (the list schedulers, the
  conditional DAG analysis, the schedulability tests), `ReferenceSchedules_proofs` (tests
  against the schedule of level 1, and that against level 2's): the proofs.

Correspondence of state: `jobs` is `jobs` with the fields of `Job` (`exec` is
`executed_ns`, `dev` `assigned_device`, `start` `exec_start_time`, `ver` `version`);
`running`/`queue` are `DeviceManager::running`/`ready_queues`; `busy` is
`device_busy_time_ns`; `active`/`pending` are the transfer manager's; `trig`/`tick` are
the pending reevaluations with their generations; `events`/`seq` are `event_queue`/
`next_seq`. `mem.left` and `mem.seen` are LLF's and CP-EDF's remaining-work tables,
`mem.dedicated` and `mem.pins` Federated's, `mem.mapping` and `mem.alloc` MATCH's. Each
handler is one action of its own name up to and including the scheduler callback, and the
rest of it is `ReleaseNextJob`, `ReschedulePoint`, `DropLoJobs`, and so on.
`dispatch_job_with_delay` has an action per outcome: `DispatchTerminal`, `DispatchBusy`,
`DispatchWithoutModel`, `DispatchTransfer`, `DispatchRun`.

The sequence number is advanced once per group of events scheduled together, not always
by as much as in the code; only the order of events matters to the heap, and that is the
same. `active` keeps the job and the bus of a transfer, since nothing else of it is read.

Definitions preceded by "Faulty variant" are not used by the specification: each is a
plausible mistake in the definition after it, and the property meant to exclude that
mistake fails when it is put in.

## 3. What TLC checks

All runs are exhaustive: no state constraint cuts a behaviour.

| run | instance | distinct states | properties |
|---|---|---|---|
| `mixed` | CPU + GPU + FPGA behind a priority bus; periodic LO task, HI job over its budget, LO accelerator jobs with data, one of which can overtake another and be late in transfer; any scheduler | 298,535 | `IInv`, `Placement`, `LiveEventsAreMeant`, `CompletionScheduled`, `SwitchPurgesLo`, `TransfersAccounted`, `BusExclusive`, `BusWorkConserving`, `FinishedStaysFinished`, `LegalTransitions` |
| `devices` | DSP (interrupt), FPGA (non-preemptive), GPU at double speed, both reevaluations, a job without a model; any scheduler; fairness | 45,176 | `WorkConserved`, `WorkWithinBusyTime`, `BusyWithinElapsed`, `EnqueuedOnce`, `PointsRecur`, `ReevaluationOutstanding`, `SuspendsOnlyAtPoints`, `SimulationTerminates` |
| `policies` | each of the fifteen schedulers on two CPUs, GPU, fully preemptive DSP and FPGA; a DAG's nodes, data, a late mode switch, LO jobs after it | 208,839 | `ImplementsEngine`, `DevicesKeptBusy`, `RunsTheMostUrgent`, `HiModeIsHi`, `EstimatesAreSafe`, `DagsKeepTheirDevice`, `TasksKeepTheirDevice` |
| `laxity` | the same platform under LLF with reevaluations every 3 and, triggered, after 2 | 23,345 | `LaxityRestored` |
| `dag` | diamond of four nodes, a data dependency that is no edge, CPU + GPU + FPGA on a priority bus and a dedicated link, two other jobs on the bus, drops | 49,109 | `DagIInv`, `EdgesAccounted`, `NobodyForgotten`, `ImplementsPrecedence` |
| `devmgr` | two devices, two jobs of one priority and one of another, up to three queued in all; every order of calls | 51,232 | `ViewIsCurrent`, `ImplementsReadyQueues` |
| `analysis` | sets of three tasks of seven shapes on one device or two, ties of priority included; conditional graphs of five nodes and up to six of fourteen edges, one with too many conditions, empty ones; task graphs of four nodes on three devices | 161,339 | `ResponseTimesAreExact`, `BoundsAreSufficient`, `SimulatorsAgree`, `OpaIsOptimal`, `AnalysesAgree`, `ScenariosAreLongestPaths`, `PlansAreFeasible`, `ReferenceIsEager` |

What some of them show, beyond their names:

* `ImplementsEngine` is what ties `policies` to the rest: whatever is checked or proved of
  `Engine` for any scheduler holds under each of the fifteen. `DevicesKeptBusy` and
  `RunsTheMostUrgent` are about two handlers and a scheduler together: a device is handed on
  by completion, transfer, preemption or mode switch, and each scheduler looks at one device
  of an arriving job. `DagsKeepTheirDevice` and `TasksKeepTheirDevice` compare memory and
  placement while jobs in transfer drop out of the view and come back. `EstimatesAreSafe` and
  `LaxityRestored` follow LLF's own estimates through preemptions and reevaluations.
* `DevicesKeptBusy` excepts fully preemptive accelerators (`YieldsBeforeData`), which the code
  can leave idle: an arriving job preempts the running one and then waits for its data, so
  the device is idle with the victim in its queue. It may stay so: with two such
  accelerators the newcomer, placed anew when its data is there, may go to the other one,
  and nothing then concerns the first until its next arrival. For the same reason
  `RunsTheMostUrgent` speaks of CPUs: the victim left behind may be more urgent than the next
  arrival, which finds the accelerator idle and is dispatched at once. Gang leaves devices
  idle by its rule. Both properties are stated for LO mode without misses (`Regular`): a miss
  calls no scheduler.
* `ResponseTimesAreExact` plays `analyze_uniprocessor_fp` against `simulate`: the fixed point
  *is* the largest response from a synchronous release, for constrained deadlines and distinct
  priorities, and a rejected task of a set that does not exceed utilization 1 does miss.
  With equal priorities it would not hold: the analysis breaks ties by index, the simulators
  (and the engine) by release. `OpaIsOptimal` compares Audsley's search with all assignments,
  `AnalysesAgree` the three tests with each other. `SimulatorsAgree` compares two simulators that advance
  differently, one of them removing jobs by index while it iterates.
* `ScenariosAreLongestPaths` compares the relaxation in topological order with all paths of
  the graph, enumerated, per assignment of the conditions. `PlansAreFeasible` holds although
  `map_nodes` never asks whether a predecessor is planned (it would count as finished at 0);
  it is stated, as the code deserves, for positive execution times.

Five runs named `claim_*` refute what a comment of the repository says of the code; each
has one property and a counterexample:

| run | the comment | what the code does |
|---|---|---|
| `claim_late` | job.rs:20, a deadline miss leads to `DeadlineMissed` | the only check of a released job is at the deadline, and only `now > deadline` is a miss |
| `claim_overrun` | event.rs:93, the job exceeded `wcet_lo` | the budget timer runs during the context switch, so a job of exactly its budget overruns |
| `claim_replace` | scheduler.rs:60, replacing it with the new job | a job dropped before its arrival is still offered; a running job is suspended for it and the device stays idle |
| `claim_bus` | transfer_manager.rs:244, work-conserving | a deadline miss during a transfer leaves the bus occupied for ever |
| `claim_uniform` | uniform_rta.rs:4, conservative | convergence is tested before the deadline: a task nobody interferes with is accepted with a bound beyond its deadline |

### Bounds

Time is bounded by `Duration` (8 to 16 units), which is the program's own bound: no job is
released and no reevaluation scheduled after it, and the end event stops the loop. Jobs are
bounded by the periods within it and by the replay trace. Four to sixteen jobs per instance
are enough for a victim, a preemptor and others that wait, which is what the hazards need;
execution times of 1 to 6 units straddle the preemption intervals (1 and 2), the deadlines
and the LO budget. In `mixed` a job with data can overtake a less urgent one that waits for the
bus and miss its deadline there, so that transfers wait both behind ones that will complete
and behind one that will not: the two cases of `BusWorkConserving`.
Device speeds are 1 and 2, so the roundings of work into wall time are exercised with an
odd demand; fractions that round in both directions are left to `Platform_proofs`.
`policies` has `VirtualNum / VirtualDen` = 1/2 for EDF-VD, and `MissingCost` and
`BlockingCap` (RTGPU's stand-ins `u64::MAX / 4` and one second) far above every time.
The diamond of `dag` has what the tracker can get wrong: a fan-out whose transfers compete
for one bus, a fan-in over a bus and a dedicated link, an edge without data, a dependency
without an edge; a third and more urgent job overtakes or is cancelled while edges wait.
`MaxQueued` = 3 lets a bucket of two be overtaken, emptied and refilled while the same job
waits elsewhere. The task sets of `analysis` have periods 3, 4, 6 (hyperperiod up to 12),
deadlines below, at and above the period, and total utilizations from 1/2 to above 1, so
that every verdict occurs; `MaxIterations` = 100 is above every fixed point of theirs.
`MaxConditions` = 2 (63 in the code) is what graphs of five nodes can use; one more graph has three.

### Fairness

Only `SimulationTerminates` needs it: `WF_vars(Next)`. `run` is a plain `while` loop that
waits for nothing, so it takes a step whenever it has one. TLC explores the complete
finite graph of the instance, so no chain of events at one instant goes on for ever there.
After the end event the specification stutters (`Ended`). `analysis` stops when its input
has been analysed, hence `CHECK_DEADLOCK FALSE` there and nowhere else that passes.

## 4. What is proved

Assumptions: `PlatformAssumption` and `EngineAssumption` (types of the constants, dense task
and device ids, positive denominators); `DagAssumption`; for the schedulers
`CpuPoliciesAssumption`, `GpuPoliciesAssumption` and `PoliciesAssumption` (a planned device
is one of the node's affinity; only LLF asks for reevaluations); `DeviceManagerAssumption`;
`ListAssumption` (task graphs have no cycle, and the common denominator of the ranks is one);
`CdagAssumption` (types only: conditional graphs may have cycles, dangling edges and
incomplete branches); `TaskSetsAssumption` (types, and periods and team sizes of at least one)
and `MaxIterationsAssumption` (at least one round).
The number of tasks, devices, jobs, links and buses, all times and the scheduler's choices
are arbitrary. Eight theorems assume more: one that the intervals between preemption points
are positive (`PositiveIntervals`), one that the execution times of list-scheduled nodes are
(`PositiveTimes`), one that those of the reference simulators' tasks are (`PositiveWcets`; no
code rejects 0, but what is exact then is another statement, section 6), four that every task has an execution-time model
(`TasksHaveModels`), as everything the generators and adapters produce has, and one that no
model's best case, or LO budget, is above its worst case (`WorstCasesAreWorst`): the names of
the fields say so (task.rs:25-39), nothing checks it, and a `wcet_lo` above `wcet_hi` would
make a job run longer than the worst case the schedulers estimate with.

| theorem | statement |
|---|---|
| `Engine_proofs!Invariance` | `Spec => []IInv` |
| `TypeCorrectness`, `PlacementHolds`, `LiveEventsAreAlwaysMeant`, `ClockIsMonotone` | the parts of `IInv` a reader cares for |
| `Engine_proofs!FinishedJobsStayFinished`, `JobsFollowTheStateMachine` | `Spec => FinishedStaysFinished`, `Spec => LegalTransitions` |
| `Engine_proofs!BusInvariance`; `BusesAreExclusive`, `TransfersAreAccounted` | `Spec => []BusIInv`, and its parts `BusExclusive`, `TransfersAccounted` |
| `Engine_proofs!BusesConserveWork` | `Spec => []BusWorkConserving` |
| `Engine_proofs!SwitchPurgesEveryLoJob` | `Spec => []SwitchPurgesLo` |
| `Engine_proofs!CompletedJobsAreNeverDropped` | `Spec => []DropsSpareCompletedJobs` |
| `Engine_proofs!WorkInvariance`; `WorkIsConserved`, `CompletionsAreScheduled`, `BusyTimeIsBounded` | `Spec => []WorkIInv`, hence `WorkConserved`, `CompletionScheduled`, `BusyWithinElapsed` |
| `Engine_proofs!WorkIsWithinBusyTime` | `Spec => []WorkWithinBusyTime`, a statement about sums over all jobs |
| `Engine_proofs!JobsAreEnqueuedOnce` | `Spec => []EnqueuedOnce` |
| `Engine_proofs!ReevaluationInvariance`; `ReevaluationsAreOutstandingOnce` | `Spec => []ReevaluationIInv`, hence `ReevaluationOutstanding` |
| `Engine_proofs!PointsInvariance`; `PointsNeverEnd` | `Spec => []PointsIInv`, hence `PointsRecur` |
| `Engine_proofs!SuspensionsAreAtPoints` | `PositiveIntervals => (Spec => SuspendsOnlyAtPoints)` |
| `EnginePolicies_proofs!PoliciesImplementEngine` | `PolicySpec => Spec`, for each of the fifteen schedulers |
| `EnginePolicies_proofs!PolicyInvariance` | `PolicySpec => []IInv` |
| `EnginePolicies_proofs!HiModeHolds` | `PolicySpec => []HiModeIsHi` |
| `EnginePolicies_proofs!DagsKeepTheirDeviceHolds`, `TasksKeepTheirDeviceHolds` | `TasksHaveModels => (PolicySpec => []DagsKeepTheirDevice)`, likewise `TasksKeepTheirDevice` |
| `Schedules_proofs!DevicesAreKeptBusy`, `TheMostUrgentRuns` | `TasksHaveModels => (PolicySpec => []DevicesKeptBusy)`, likewise `RunsTheMostUrgent` |
| `Schedules_proofs!ReevaluationsRestoreLaxity` | `PolicySpec => []LaxityRestored` |
| `Schedules_proofs!EstimatesAreAlwaysSafe` | `WorstCasesAreWorst => (PolicySpec => []EstimatesAreSafe)` |
| `Dag_proofs!DagInvariance` | `Spec => []DagIInv` |
| `Dag_proofs!DagImplementsPrecedence` | `Spec => ImplementsPrecedence`, for lists of distinct edges |
| `Dag_proofs!EdgesInvariance`; `EdgesAreAccounted`, `NobodyIsForgotten` | `Spec => []EdgesIInv`, hence `EdgesAccounted`, `NobodyForgotten` |
| `DeviceManager_proofs!DeviceManagerInvariance`, `ViewIsAlwaysCurrent` | `DmSpec => []DmIInv`, `DmSpec => []ViewIsCurrent` |
| `DeviceManager_proofs!QueuesAreImplemented` | `DmSpec => ImplementsReadyQueues` |
| `Analyses_proofs!PlansAreAlwaysFeasible` | `PositiveTimes => (ListSpec => []PlansAreFeasible)` |
| `Analyses_proofs!ReferenceIsAlwaysEager` | `ListSpec => []ReferenceIsEager` |
| `Analyses_proofs!CdagInvariance`; `ScenariosAreAlwaysLongestPaths` | `CdagSpec => []CdagIInv`, hence `ScenariosAreLongestPaths` |
| `Analyses_proofs!AnalysesAlwaysAgree` | `RefSpec => []AnalysesAgree` |
| `Analyses_proofs!OpaIsAlwaysOptimal` | `RefSpec => []OpaIsOptimal` |
| `Analyses_proofs!RoundsSufficeForDeadlines` | deadlines below `MaxIterations` imply `RoundsSuffice` |
| `ReferenceSchedules_proofs!ResponseTimesAreAlwaysExact` | `PositiveWcets => (RefSpec => []ResponseTimesAreExact)` |
| `ReferenceSchedules_proofs!EdfAlwaysMeetsDeadlines` | `RefSpec => []EdfMeetsDeadlines`, the first half of `BoundsAreSufficient` |
| `ReferenceSchedules_proofs!SimulatorsAlwaysAgree` | `PositiveWcets => (RefSpec => []SimulatorsAgree)` |

`Placement` is not inductive. Whether `DispatchRun` keeps it depends on what `act` may be:
a job to be dispatched must be in no slot, on no bus and in no queue other than its
target's, and its arrival must be behind it (`ActionIsSound`). That holds when a handler sets
`act` because the event it handles was live: `LiveEventsAreMeant` says that an event of the
current version finds its job in the state it was scheduled for, and `ArrivalsAreFresh` and
`WaitingTransfersAreMeant` say as much for arrivals, which have no version, and for
transfers that wait for a bus, which will become events. `LiveEventsAreMeant` in turn needs
`Placement` for the events a dispatch creates. `PhaseIsSound` and `ClockIsSound` carry what
the rest of a handler relies on across its steps. `Engine_proofs` shows each of the five
parts kept by each action, one lemma per action and part, from a few frame lemmas (events
only added, a job only advanced, a job retired); `Platform_proofs` supplies the arithmetic
(roundings stay natural, times are not before now).

The two action properties need no further invariant: `IInv` before the step says in which
state each handler finds its job. The step that could break the diagram is a transfer of a
suspended job; it cannot happen, because such a job is in the queue of the device that has
its data and can be dispatched nowhere else (`SuspendedNeedsNoTransfer`).

`BusIInv` and `WorkIInv` are inductive relative to `IInv` (`IInv /\ BusIInv /\ [Next]_vars
=> BusIInv'`). `BusExclusive` alone is not inductive: `ReleaseBus` starts the transfers
that precede all candidates, which is one only because waiting transfers have different
stamps; and `TransfersAccounted` needs that the transfer it takes out of the queue finds a
link, which the link it was requested on guarantees (`BusReachesTarget`; that a search for a
first match finds one rests on the library's `WFMin`). Most steps touch neither a bus nor a
job that waits for its data, and are disposed of by one frame lemma (`BusFrame`); the three
that do are `DispatchTransfer`, `TransferComplete` and `DropJob`. `WorkConserved` needs that
the demand is known before anything is executed (`WorkSound`), that progress is cut off at
what remains, and, for the busy time, that the stretch a device has under way is counted
with what it has accumulated. `CompletionScheduled` holds because every step that takes a
job off its device also changes its version, and the completion a dispatch adds has a version no
event has yet.

`WorkWithinBusyTime` compares the busy time of a device with the work of all jobs it has
executed, a sum. It is kept because each stretch that ends adds to one job no more work than
its wall time has room for (`WorkFits`, `StretchesAdd`: speed fractions round down). Two
strengthenings make it inductive: a job changes its device only while it has executed nothing
(`UnbegunStates`), else the sum of the device it comes to would jump; and a completion that
will be believed is not due before the work left can be done (`CompletionsAreDue`), since a
completing job is credited with all of it. The sum is a fold over a set of jobs that picks
them in some order. What it returns is shown without an induction rule: a function that gives
every subset its sum whatever job is taken out first exists for every finite set, as a smallest
set without one could be extended by one job (`SumExists`), and it is the only solution of
the fold's recursive equation, as a smallest subset with another value would have one without
the job picked first (`SumIsUnique`); from then on one job's work is taken out of the sum,
changed and put back (`ExecutedWithout`).

`BusWorkConserving` needs `ServedIInv`, inductive relative to `BusIInv`: a bus somebody
waits for carries a transfer, and a job has at most one transfer, under way or waiting.
Without the second part a job could hold one bus while it waits for another, and the end of
a job could free two buses of which only one is handed on. That the bus is handed on at all
is `SomebodyIsNext`: among the transfers that wait for one bus, one precedes the others
whatever the arbitration. The transfer a waiting one waits for completes, as its job is
transferring and waits nowhere (`TransfersAccounted`), unless that job has missed its
deadline meanwhile; in that case it never does, which is the finding of `claim_bus`.

`SwitchPurgesLo` follows from three facts: while the devices are redispatched every LO job
has ended (`PurgeIsComplete`, inductive because the loop of the purge leaves only when none
is left, a finished job stays finished, a job never changes its task, and no job is created
in between); slots and queues hold no finished jobs (`IInv`); and whatever is on a bus or
waits for one belongs to a job that is transferring or has missed its deadline meanwhile
(`TransfersAreWanted`, part of `BusIInv`). That exception is the finding of `claim_bus`
again.

`DropsSpareCompletedJobs` is what the drops of `Dag` rely on: `cancel_job` goes by owner, and
a completed node's job owns the transfers of its edges. A job is dropped because it runs,
waits, has just received its data or has just arrived, or because the purge found it
unfinished; only an arrival has no version to say that the job is still what it was, so the
invariant also needs that a job that has completed has no arrival ahead
(`CompletedJobsHaveArrived`; a job completes only from running, and `ArrivalsAreFresh`). It is
proved only: no run lists it.

`ReevaluationOutstanding` needs two facts it does not state: a pending trigger lies at
most one interval ahead, which is why the debounce never finds a later one that it would
have to replace; and between the handling of a tick and the scheduling of the next, the time
of the tick handled is still a multiple of the interval (`TickIsInStep`).

`PointsRecur` speaks of the states between events; `PointsIInv` also says what holds while a
point is being handled: the job that has reached it has no other point pending, so that the
one scheduled at the end is the only one again, and no action of the handler starts that job
anew. `SuspendsOnlyAtPoints` needs that an action marked "at a point" exists only then
(`AtPointOnly`), and that every pending point is a whole number of intervals after the start
of the job's progress (`PointsAreInStep`): the first is one interval after it, each next one
interval after the last. With an interval of zero points would repeat in place, hence the
assumption `PositiveIntervals`. Steps that start no job and reach no point are covered by
one frame lemma (`PointsFrame`).

`EnginePolicies_proofs` shows of each scheduler, callback by callback, that its answers
are among those `Engine` allows: a target is a compatible device, a job to dispatch is in
that device's queue, a victim is in a slot. Most schedulers choose with a few operators of
`SchedulerView`, so their facts (`LeastBy` returns members of its set, `PlaceOn` places on
one of the targets, ...) are proved once. Only what a scheduler *answers* enters, never what
it remembers, which is why memories need no invariant for the refinement. It uses `IInv`: an
answer about a running job is legal because slots hold running jobs.

The other properties relate three things no handler updates together: the slots and queues,
the answer being executed, and the scheduler's memory. `EnginePolicies_proofs` next states what each step of the engine does to a job (`Fate`) and which callback, if any, a step
makes (`StepsOfAPolicy`); the invariants of `PoliciesInv` then say what holds in the middle of
a handler. `HiModeIInv`: from the end of the purge on no LO job is placed nor about to be;
each of EDF-VD's four answers has to be looked at, since each could let one back in.

`DagsKeepTheirDevice` and `TasksKeepTheirDevice` rest on memory. Federated pins a job to the
DAG's dedicated device and reclaims the pins of jobs it does not see; MATCH likewise reclaims
the allocations of jobs it does not see, and chooses a device by load for a task that has none.
That neither loses a placed job needs that every job in a slot or queue, or about to be put
there, is pinned or mapped to where it is (`PinsIInv`, `MappingIInv`), which needs that it
*is* seen: a ready job waits in some queue (`ReadyJobsWait`). Here a dispatch without an
execution-time model matters. It loses the job, which stays ready in no queue; its pin is then
reclaimed, the device given to another DAG, and the property would be false. Hence
`TasksHaveModels`. The choices "the least loaded of ..." are least elements of finite sets
under a lexicographic order; that one exists is proved once (`FiniteMinimum`,
`LeastExists`), by the library's facts about finite sets and well-founded orders.

`DevicesKeptBusy` is about states between events, and every handler leaves it for a while: a
completion frees the device before the next job is dispatched. `BusyIInv` adds what makes up
for it: an idle device has an empty queue *or* the action being executed hands it over
(`HandedOver`, to a job that can start at once); a dispatch is for an idle device, an enqueue
or a preemption for a busy one, a preemption names the job in the slot (`PlacesAreSound`); and
nothing ends early (`NoneEndsEarly`), which is where LO mode and the absence of misses enter.
Of the schedulers it needs that a freed device is given some job of its queue if there is one
(`FreeAnswersAreFair`), so that their choices exist (`ForemostExists`, ...), and that an
arriving job is dispatched to idle devices only and enqueued at busy ones only
(`ArrivalAnswersAreFair`, one lemma per scheduler). LLF's and CP-EDF's choices are by
numbers they remember, hence `EstimatesAreNumbers`.

`UrgencyIInv`, relative to `BusyIInv`, adds the order: of the running job (`RunsAreOrdered`)
and of the job an action is about to place (`PlacesAreOrdered`). An arriving job is weighed
against the running one only; that suffices since the running job is not preceded by any
queued one, and `OrderIsWeak`: not to be preceded is transitive. A preempted job re-enters the
queue, so the job that replaces it must not be preceded by it either. The schedulers break ties
by further keys; `RankDecides` shows that their ranks refine the order the property names.

`LaxityIInv` says how far a reevaluation has come: the devices already gone through are
restored, except the one whose preemption is being executed, and that preemption, then the
dispatch that follows it, brings in the least lax job (`RestoringAct`). It is true because the
view is observed once, when the reevaluation starts, so no estimate changes until it ends
(`LaxityStays`). That only LLF is ever reevaluated takes an invariant of its own
(`ReevaluationsAreAsked`): none is due unless an interval is positive.

`EstimatesAreSafe` is about the states between events, and about jobs that an estimate was
made for once, possibly for another device. `EstimatesIInv` says at every step that a job in
a slot or queue is covered (`Covered`): what LLF or CP-EDF believes is left of it, plus the
work it is credited with, plus the work of the present stretch until it was last seen (for
which the estimate has been charged already), reaches its demand; while the demand is not drawn, the estimate reaches every value
that can be drawn on that device. It holds of the job about to be placed as well, on the device
it will be placed on, and there only if the device is fast enough, unless the job arrives and
its estimate is new. Three things can go wrong. A job is charged for wall time but credited
for work: on a fast device, work grows by no less (`WallToWorkGrows`, `ChargedCovered`). A job
is preempted: it is credited at least what it was charged, because it was last seen in this
stretch and not later than now (`SeenInThisStretch`, `TimeGoesOn`). It starts again: the time
it was seen running must not be taken for part of the new stretch, so no job about to be placed
may be among those last seen running. An answer to a callback places a waiting job, which that
very callback did not see running; a reevaluation, however, observes once and then preempts
device by device, so a job it has taken off one device could be placed again by it. It is
not: jobs re-enter only the queues of devices already gone through (`UnaskedQueues`, which rests on
`LaxityIInv`). `WorkFate` says what each step does to the work of a job, and `WorkIInv`
supplies that no job has executed more than its demand.

`DagIInv` says that a counter equals the number of unsatisfied edges of its node, plus the
repetitions in the edge list (`TokensMatch`); that a node is blocked exactly while its
counter is positive; and that data is anywhere on the interconnect only if its node has
completed. The first makes the release happen once: the token being taken is one of those
counted, so the node was still blocked, and when none is left every predecessor has
delivered. The third is what the first needs about transfers that wait, are restarted by
somebody else's completion, or are cancelled; lemmas `LeaveEffect`, `CancelEffect` and
`InitiateEffect` say that no operation on the interconnect invents a transfer. Counting
rests on the library's facts about finite sets (`TokensOfNode`, `NoSurplus`). With a
repeated edge the refinement does not hold (the successor is never released), hence its
assumption `DistinctEdges`, which the generators of `hprss-workload` satisfy.

`EdgesAccounted` needs of every edge that its data is in at most one place (`EdgesAreOnce`:
yet to be sent, waiting, moving with one arrival ahead, or delivered) and of every waiting
transfer that the bus it waits for has a link to its target (`WaitingCanStart`); otherwise
the completion that takes it from the queue would lose it.
`NobodyForgotten` follows: a counter above zero has an unsatisfied edge, whose source either
has not completed or has sent it.

`DmIInv` is `ViewIsCurrent` with the types of the variables: a call leaves a queue alone or
marks it, and leaves no empty bucket. Withdrawing a job that is not there is the one case
that changes a queue's map without marking it; `WithoutAbsentJob` shows that with no empty
bucket around it is no change at all, which is why the second part of `ViewIsCurrent` is
needed for the first.

`PlansAreFeasible` follows from the ranks: along an edge they fall (`RanksFall`), so when a node
is planned its predecessors are (`PredecessorsArePlanned`), which the planner does not check,
and what it reads of them is their real finish. A rank is recursive over the graph, the
average cost it contains is a fold over candidates, and these are concatenated sequences.
`RecursionHasASolution` serves all three: an equation over a finite set, along a relation
without cycles, has a solution, as a largest part on which it is solved could be extended.
That the solution consists of naturals, or of sequences, follows from a smallest
counterexample. `ReferenceIsEager` needs to know more of the nodes that can be placed next
(`NobodyIsLate`): none has been passed over, up to the end of the last node of its device, and
none can start before any that is placed. The second makes the first inductive: a node that has
just become placeable cannot have missed a gap, for its data comes after every start so far;
and the node placed opens a gap that an older one could use only if that one could start
earlier (`PlacingTheFirst`).

`ScenariosAreLongestPaths` is about a list of reports, one per assignment; `CdagIInv` says of
each stage of the analysis what the next needs. The sort leaves a topological order
(`Topological`): while it runs, an indegree counts the edges from nodes that are not in the
order yet, so a node is queued once, after all its predecessors (`SortSound`), and a graph that
is not sorted to the end is refused (`SortedIsTopological`). The relaxation keeps that no
active edge out of a relaxed node leads to a better finish than the one recorded (`Finishes`)
and that every finish is attained over an edge from a relaxed node, the recorded predecessor
(`Backtracks`); the node being relaxed is improved by nobody later, as edges go forward in the
order. Behind every node that is reached there is a sink that finishes no earlier
(`SinkBehind`, the last of the nodes that do): so there is always one to choose, the chosen one is the latest
of all nodes, and `NoReachableSink` is never returned. What a report keeps of all that is `Longest`: some function
has these two properties and the reported path and response. The property itself compares
the report with lengths and paths defined by recursion: a tight path is as long as its end
finishes late (`TightLength`), and every path of `AllPaths` ends no later than its last node
finishes (`PathsAreBounded`). Critical paths, lengths and sets of paths exist by
`RecursionHasASolution`, along the order. Branches need not be complete for any of it: the
check of the branches only refuses graphs.

`ImplementsReadyQueues` needs of the buckets, besides the flags, that each holds jobs of its
own priority only and that they are finitely many (`IsBuckets`); every call keeps that. The
listing of the buckets is a fold over their priorities, and again what is proved about it is
proved of a smallest set of priorities that would refute it: it has one value (`ListsExist`,
`ListsAgree`), goes on from any priority as if it started there (`ListsSplit`), and lists
nothing but what is in a bucket (`ListsBuckets`). Together they say that a change of one
bucket changes the listing in one place, behind all that is more urgent and before all that
is less (`ListingsAround`). Every call but the rebuild changes one bucket per device, so a
push is an insertion (`PushedIsInserted`), the first of the first bucket is the head
(`FirstIsTaken`), and the first place of a job in its first bucket is its first place in the
listing (`WithdrawnJobGoes`). That a rebuild, which copies marked queues only, shows all of
them is `ViewIsCurrent`.

`AnalysesAgree` and `OpaIsOptimal` rest on what the fixed point is. The demand of the tasks
above is a sum over a set, a fold that takes the elements in an order of its own; `SumWithout`
and `SumIsMonotone` say what is needed of it, again from smallest counterexamples. The
estimates stay below every time that covers the demand, so an iteration that converges has
found the least such time (`ConvergedIsLeast`), and one that has not run out of rounds
converges if a time within the deadline covers (`FeasibleIsAccepted`). From there on acceptance
can be compared without iterations: what covers the demand of more tasks, or of higher costs,
covers that of fewer and lower. On one processor the uniform test differs in its capacity
check, in millionths and rounded down; that it never rejects what the exact utilization bound
accepts needs that the hyperperiod, computed by a fold of `lcm`, is a multiple of every period
(`HyperperiodIsMultiple`, `UtilizationIsBounded`).

The search keeps at each level assignments whose tasks pass under those that come above them,
assigned or not (`Assigned`): a candidate is tried under all others without a level, in an order
the test does not depend on (`FittingIs`), so giving it the level leaves every verdict as it was.
What is left at the last level is an accepted order. If any order is accepted, the search gets
there: of the tasks without a level, the one that order puts lowest has passed under all the
others and more, so some task fits (`SomeTaskFits`), whichever choices were made below. For
deadline-monotonic priorities, consider a task and those of earlier deadlines: the one of them
an accepted order puts lowest (among those with any work) finishes within its own deadline, and
up to then each of them demands its work once, as no period has passed; so the sum covers the
demand of the task in question too (`EarlierIsFeasible`).

Both properties compare tests under `RoundsSuffice`: no iteration ends at the limit. Without it
they do not hold, as acceptance is not monotone at the limit (section 6), and the code's default
of 100 rounds does not guarantee it. It does hold when deadlines are below the limit
(`RoundsSufficeForDeadlines`: every round before the last adds a unit), as in the instance. That
what the search finds is accepted, and that the tests agree on one processor and one thread,
needs no such hypothesis.

`ResponseTimesAreExact` joins the least covering time to the schedule. The proof looks at the
schedule of one device as a record of the moment, the next releases, the open jobs and the
greatest responses (`Here`); `RunJob` is its releases followed by a run of the job that comes
first (`RunJobServes`), `Idle` its releases followed by a passage of time (`IdleIdles`),
whatever a job does with `ready` and `runningJob`. Three invariants of that record (`Sound`,
`ExactIInv`) carry the argument. First, every next release is at a multiple of the period and
at most one period ahead (`Regular`). Second, if a time `r` within the period covers the demand
of a task, no job of it takes longer (`Within`): since some moment less than `r` ago the tasks
above have been served without a break, and the work they and the job still have and what has
been done since are at most what was released since (`BusyAbove`, `InWindow`), which the
interference in `r` bounds (`ReleasedInterferes`); a window that reached `r` would have done
all of it. Third, if no time below `x` covers the demand, the first job of the task, released
at 0 with all others, is open until `x` (`FirstIsOpen`): nothing but the tasks above and that
job has run since 0, and less than all of their work fits. The fixed point is the least
covering time, so a job takes no more, by the second, and the first one no less, by the third.

It remains that the first job ends before the simulation does. For an accepted task it must, as
its bound is within its period. For a rejected one it could be open at the hyperperiod; but then
the device has been busy all that time, while all its releases until then fit if it is not
overloaded (`LoadInFits`, from the divisibility of the hyperperiod), and the releases yet to
come are none (`AllReleasesEnd`, `OpenAtTheEnd`). That is what the guard on the exact bound in
the property is for.

`EdfMeetsDeadlines` is about the same record under the other policy, with an invariant over all
times to come (`Timely`): for every `D` from now on, the work left to the jobs due by `D` and the
work still to be released and due by `D` fit between now and `D` (`Fits`), and no open job's
deadline is past. Releases only move work from the one sum to the other (`ReleasingMovesWork`).
A run of the job with the earliest deadline takes its length from both sides if that job is due
by `D`; if not, no job is, and what is still to be released fits in what is left of the time,
as the utilization is at most 1 (`ToComeFits`). Applied to the deadline of the job that runs,
the invariant says that the run ends before it (`ServingMeetsDeadline`). The full utilization
fits in any interval, not only in multiples of the periods (`LoadInFits`), so this holds up to
the exact boundary, and for jobs without work too.

`SimulatorsAgree` compares a simulator that goes by events with one that goes by ticks, and the
first has ended when the second starts. So what the invariant (`AgreeIInv`) keeps of level 1 is
that it can be reached unit by unit: `Moves` takes the record of one device and its count of
misses some units on, past no release, and `Reached` says that a sequence of moves of one unit
leads from the start to it. Moves of any length split into units (`MovesSplit`), so each
`RunJob` and each `Idle` leads from one schedule that is reached to another (`ReachedOn`,
`Along`); what level 1 leaves is reached at the hyperperiod, even when it stops before it as
nothing is released any more (`Left`, `WhatIsLeft`). Of level 2 the invariant says that the part
of its vector, releases and responses that belongs to the device is reached at `now` (`View`,
`InStep`). At any time one schedule can be reached (`ReachedIsUnique`), as a unit leads to one
(`MovesAreUnique`): of the jobs of a device one leads, by priority, release and task
(`OneLeads`), also when priorities tie. So at the end the two are the same.

That a tick is a unit for the device (`TickMoves`) is where the vector matters. Jobs are known
by task and release and have places of their own (`Apart`); releases append to it
(`ReadyLocal`). The selected positions are served from the last to the first, by an induction
over the set of those already served (`ServedFold`): a removal moves the last job of the vector
into the place of the removed one, but leaves the places before it alone (`ServeOne`), which are
the ones still to be served. Going forward, as the variant `ServedForward` does, breaks exactly
that step. Both properties of level 1 that mention responses assume that tasks have work to do
(`PositiveWcets`): a job without work takes no time in level 1, which lets it answer when it gets
the processor, and a whole unit in level 2, whose decrement saturates.

Only model-checked: the other half of `BoundsAreSufficient`. The bound of Liu and Layland is an
inequality about n-th powers for every number of tasks, and the provers know nothing of
exponentiation. Liveness (`SimulationTerminates`) is outside the prover's reach. Every other
property that a passing run checks is proved.

## 5. What is not modelled

* DAG nodes inside `Engine`: `Dag` models the tracker and all transfers with the running of
  jobs left open; the two are not composed. `EnginePolicies` gives tasks their DAG
  provenance, which Federated and HEFT read, but not the tracker's releases.
* `Action::Migrate` and `JobState::Migrating`: no scheduler of the repository emits it.
* `EventKind::BusArbitration`: nothing schedules it.
* Jobs of equal keys within a queue: `queue` is a set, and where a scheduler's choice depends
  on insertion order `EnginePolicies` leaves it open; `DeviceManager` has that order.
* `rebuild_view_data` looks tasks up by position for running jobs, the engine by binary
  search; `Platform` has dense ids, where the two agree.
* OpenMP shapes, utilization vectors and the level-4 comparisons (`shape.rs`,
  `util_vectors.rs`, `level4.rs`): curves and tolerances in `f64`.
* Workload generation, replay files, platform TOML, metrics, traces, energy, the differential
  tools and the command line: input and output of a run with no behaviour of their own.
  `Engine` takes their product (tasks, devices, links, replayed jobs) as constants.
* The 1e-12 by which the utilization bounds of `level1.rs` exceed the exact fractions, too
  little to matter for hyperperiods below 10^12, and which of its four errors a branch of a
  conditional graph is rejected with (`CompleteSplit` has one outcome for them).
* 64-bit saturation and overflow: configurations stay far below it.

## 6. Observations

Not disagreements with anything the repository says, but worth a reader's time:

* A scheduler may preempt a job for one that must first transfer its data; the
  accelerator idles meanwhile, and for longer if that job then goes elsewhere
  (`YieldsBeforeData`).
* A transferred job is offered to the scheduler again and may be sent to another device than
  the one its data went to; a queued job counts as having its data where it waits.
* Gang can leave a job in the queue of a device that stays idle while its gang is inactive.
* `LlfScheduler` and `CpEdfScheduler` start their estimates from `actual_exec_ns`, which
  scheduler.rs:13 says no scheduler sees; the estimates count context switches as work and
  ignore the device speed.
* RTGPU multiplies a queue length with `u64::MAX / 4` for a device type without an execution
  time, which overflows with four jobs.
* `HeftPlanner::build_plan` computes a new plan and keeps the stored one; it counts bytes as
  nanoseconds, and treats an unplanned predecessor (possible only with zero costs) as
  finished at 0.
* A task with `wcet` 0 is accepted with a bound of 0 by `rta.rs`, as nothing interferes in
  0 time units, while `level1.rs` lets its job wait behind those above it.
* A task with period 0 makes `rta.rs` add to `u128::MAX`, where `uniform_rta.rs` saturates.
* At the iteration limit, the tests are not monotone. With at most three rounds, a task of 2
  units below tasks of 3 every 9 and of 1 every 3 is given up on (6, 7, 8), but with a further
  task of 1 every 12 above it the iteration settles (7, 9, 9) and the task is accepted.
* `NoReachableSink` of `conditional_dag.rs` cannot be returned: in an acyclic graph every
  scenario reaches a node without active outgoing edges.

## 7. Plan

1. The composition of `Dag` with `Engine`: node jobs as jobs of the engine, so that
   `Precedence` is implemented by the whole and `Dag`'s free choices become the engine's.
2. Sparse task ids in `Platform` and `DeviceManager`; `Action::Migrate`, should a scheduler
   come to use it.
