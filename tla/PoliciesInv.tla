---------------------------- MODULE PoliciesInv ----------------------------
(***************************************************************************)
(* The inductive invariants behind the properties of EnginePolicies: what  *)
(* the answer being executed and the scheduler's memory must have in       *)
(* common with the slots, the queues and the job table in the middle of a  *)
(* handler, where the properties themselves do not hold.                   *)
(***************************************************************************)
EXTENDS EnginePolicies

(* Every task has an execution-time model, for whatever device: without one *)
(* a dispatched job is lost.                                                *)
TasksHaveModels == \A t \in TaskIds : Task[t].execTimes # <<>>

(* The job that an action will place on a device, and that the action being *)
(* executed will.                                                           *)
PlacedBy(a) ==
    CASE a.op \in {"dispatch", "enqueue"} -> a.job
      [] a.op \in {"preempt", "drop"}     -> a.by
      [] OTHER                            -> NoJob
PlacedJob == PlacedBy(act)

-----------------------------------------------------------------------------
(* What a scheduler remembers                                               *)

MemoryFields == {"left", "seen", "stage", "dedicated", "pins", "activeTask", "mapping", "alloc"}
IsMemory(m) == m = [f \in MemoryFields |-> m[f]]

(* LLF and CP-EDF remember of a job what is left of it, how long it had run *)
(* when it was last seen and its stage.                                     *)
NumbersIn(m) ==
    /\ IsMemory(m)
    /\ \A j \in DOMAIN m.left : m.left[j] \in Nat
    /\ \A j \in DOMAIN m.seen : m.seen[j] \in Int
    /\ \A j \in DOMAIN m.stage : m.stage[j] \in Nat
EstimatesAreNumbers == policy \in {"Llf", "CpEdf"} => NumbersIn(mem)

-----------------------------------------------------------------------------
(* HI mode of EDF-VD                                                        *)

(* From the end of the purge on, no LO job takes a step but its release and *)
(* its end, and none is about to be placed; until then nothing is placed.   *)
LoIsOut ==
    \A j \in JobIds : IsLo(j) => jobs[j].state \in {"Released"} \cup TerminalStates
PurgeGoesOn == phase.op \in {"critical", "dropLo"}
HiModeIInv ==
    policy = "EdfVd" /\ level = "Hi" =>
        IF PurgeGoesOn THEN PlacedJob = NoJob
        ELSE LoIsOut /\ (PlacedJob # NoJob => ~IsLo(PlacedJob))

-----------------------------------------------------------------------------
(* LLF's reevaluations                                                      *)

ReevaluationGoesOn == phase.op \in {"reevaluate", "reevaluateTick"}

(* A reevaluation is due, or going on, only where it was asked for.         *)
ReevaluationsAreAsked ==
    /\ trig.at # Unset \/ phase.op = "reevaluate" => TriggeredInterval > 0
    /\ tick.at # Unset \/ phase.op = "reevaluateTick" => PeriodicInterval > 0

NoneLaxer(j, d) == \A q \in queue[d] : Laxity(j, mem) <= Laxity(q, mem)
Restored(d) == FullyPreemptive(d) /\ running[d] # NoJob => NoneLaxer(running[d], d)

(* The preemption a reevaluation is in the middle of brings the job of the  *)
(* least laxity to its device.                                              *)
RestoringAct ==
    /\ act.op \in {"none", "preempt", "dispatch"}
    /\ act.op = "preempt" =>
          /\ act.job = running[act.dev]
          /\ FullyPreemptive(act.dev)
          /\ act.by \in queue[act.dev] /\ NoneLaxer(act.by, act.dev)
          /\ Laxity(act.by, mem) <= Laxity(act.job, mem)
    /\ act.op = "dispatch" =>
          /\ running[act.dev] = NoJob
          /\ act.job \in queue[act.dev] /\ NoneLaxer(act.job, act.dev)

LaxityIInv ==
    policy = "Llf" /\ ReevaluationGoesOn =>
        /\ RestoringAct
        /\ \A d \in DeviceIds : d < phase.k /\ (act.op # "none" => d # act.dev) => Restored(d)
        /\ act.op # "none" => act.dev < phase.k

-----------------------------------------------------------------------------
(* Federated's pins and MATCH's mapping                                     *)

(* Jobs are only ever sent where their task has affinity for.               *)
PlacesAreCompatible ==
    /\ \A j \in JobIds : jobs[j].dev # NoDevice => jobs[j].dev \in Compatible(j)
    /\ PlacedJob # NoJob => act.dev \in Compatible(PlacedJob)

(* A ready job is in a queue, or about to be placed.                        *)
ReadyJobsWait ==
    policy \in {"Federated", "Match"} =>
        \A j \in JobIds : jobs[j].state = "Ready" /\ j # PlacedJob => Queued(j)

(* A job in a slot or a queue that is not about to be placed elsewhere.     *)
Settled(j) == jobs[j].state \in {"Ready", "Running", "Suspended"} /\ j # PlacedJob

PinnedTo(m, j, d) ==
    /\ j \in DOMAIN m.pins
    /\ m.pins[j] \in DOMAIN m.dedicated
    /\ m.dedicated[m.pins[j]] = d
DevicesAreDedicated(m) ==
    \A k \in DOMAIN m.dedicated :
        m.dedicated[k] \in DeviceIds /\ Device[m.dedicated[k]].type = k[2]
PinsIInv ==
    policy = "Federated" =>
        /\ IsMemory(mem)
        /\ DevicesAreDedicated(mem)
        /\ \A j \in JobIds : Settled(j) /\ DagOf(j) # NoDag => PinnedTo(mem, j, jobs[j].dev)
        /\ PlacedJob # NoJob /\ DagOf(PlacedJob) # NoDag => PinnedTo(mem, PlacedJob, act.dev)

MappedTo(m, j, d) ==
    /\ jobs[j].task \in DOMAIN m.mapping
    /\ m.mapping[jobs[j].task] = d
    /\ j \in DOMAIN m.alloc => m.alloc[j] = d
MappingIInv ==
    policy = "Match" =>
        /\ IsMemory(mem)
        /\ \A j \in JobIds : Settled(j) => MappedTo(mem, j, jobs[j].dev)
        /\ PlacedJob # NoJob => MappedTo(mem, PlacedJob, act.dev)

-----------------------------------------------------------------------------
(* What LLF and CP-EDF believe is left of a job                             *)

(* The best case of a model, or its LO budget, is not above the worst case. *)
WorstCasesAreWorst ==
    \A t \in TaskIds : \A i \in DOMAIN Task[t].execTimes :
        LET m == Task[t].execTimes[i].model
        IN m.kind # "Deterministic" => m.lo <= m.hi

(* The estimate covers what is left of the job on device d, whatever demand *)
(* is drawn for it there.                                                   *)
Covered(j, d) ==
    IF jobs[j].actual # Unset
    THEN jobs[j].actual <= mem.left[j] + jobs[j].exec + SeenWork(j)
    ELSE \A l \in Levels : \A x \in SampleExecTime(jobs[j].task, d, l) : x <= mem.left[j]

(* A nanosecond of the device does the work of one at least.                *)
Fast(d) == Device[d].num >= Device[d].den

(* A job that starts anew has not been seen in this stretch, and one that   *)
(* runs has been seen within it: in a reevaluation no job queued on a       *)
(* device still to come has been seen running.                              *)
SeenInThisStretch ==
    /\ PlacedJob # NoJob => PlacedJob \notin DOMAIN mem.seen
    /\ \A j \in DOMAIN mem.seen :
          jobs[j].state = "Running" => mem.seen[j] \in 0 .. now - jobs[j].start
    /\ ReevaluationGoesOn =>
          \A d \in DeviceIds : d >= phase.k => queue[d] \cap DOMAIN mem.seen = {}

(* The job about to be placed is covered where it will be; an arriving one  *)
(* is in no queue and its estimate is whole.                                *)
EstimatesCover ==
    /\ DOMAIN mem.left \cup DOMAIN mem.seen \subseteq JobIds
    /\ \A j \in DOMAIN mem.left :
          Settled(j) /\ Fast(jobs[j].dev) => Covered(j, jobs[j].dev)
    /\ PlacedJob \in DOMAIN mem.left /\ (Queued(PlacedJob) => Fast(act.dev)) =>
          Covered(PlacedJob, act.dev)
    /\ SeenInThisStretch

(* The other schedulers estimate nothing.                                   *)
EstimatesIInv ==
    IF policy \in {"Llf", "CpEdf"} THEN EstimatesCover
    ELSE DOMAIN mem = MemoryFields /\ mem.left = Nothing

-----------------------------------------------------------------------------
(* The schedule of a regular run                                            *)

Undisturbed == level = "Lo" /\ metrics.missed = 0

(* Nothing is dropped or ends before it has run.                            *)
NoneEndsEarly ==
    /\ phase.op \notin {"critical", "dropLo", "idle"}
    /\ act.op # "drop"
    /\ \A j \in JobIds : jobs[j].state \notin {"Dropped", "DeadlineMissed"}
    /\ \A e \in EventsOf("TaskArrival") : jobs[e.job].state = "Released"
    /\ PlacedJob # NoJob => ~IsTerminal(PlacedJob)

(* A job waits only where another runs, or for a device that is being       *)
(* handed to a job that can start at once.                                  *)
HandedOver(d) ==
    act.op = "dispatch" /\ act.dev = d /\ ~NeedsTransfer(act.job, d)
PlacesAreSound ==
    /\ act.op = "dispatch" => running[act.dev] = NoJob
    /\ act.op \in {"enqueue", "preempt"} => running[act.dev] # NoJob
    /\ act.op = "preempt" =>
          /\ running[act.dev] = act.job
          /\ AllowsPreemption(act.dev, act.atPoint) =>
                YieldsBeforeData(act.dev) \/ ~NeedsTransfer(act.by, act.dev)
KeptBusy(d) ==
    running[d] = NoJob /\ ~YieldsBeforeData(d) => queue[d] = {} \/ HandedOver(d)
BusyIInv ==
    policy # "Gang" /\ Undisturbed =>
        NoneEndsEarly /\ PlacesAreSound /\ \A d \in DeviceIds : KeptBusy(d)

(* No job that waits precedes the one that runs, or will.                   *)
Ordered(j, d) == \A q \in queue[d] : ~Precedes(Order(q), Order(j))
PreemptiveCpu(d) == FullyPreemptive(d) /\ Device[d].type = "Cpu"
RunsAreOrdered ==
    \A d \in DeviceIds : PreemptiveCpu(d) /\ running[d] # NoJob => Ordered(running[d], d)
PlacesAreOrdered ==
    act.op # "none" /\ PreemptiveCpu(act.dev) =>
        /\ act.op = "dispatch" => Ordered(act.job, act.dev)
        /\ act.op = "enqueue" => ~Precedes(Order(act.job), Order(running[act.dev]))
        /\ act.op = "preempt" => ~Precedes(Order(act.job), Order(act.by))
UrgencyIInv ==
    policy \notin {"Gang", "Heft", "Llf"} /\ Undisturbed => RunsAreOrdered /\ PlacesAreOrdered
=============================================================================
