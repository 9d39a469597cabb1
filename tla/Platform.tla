------------------------------ MODULE Platform ------------------------------
(***************************************************************************)
(* The static side of the simulator: the task set, the devices, the        *)
(* interconnect, and the pure functions the engine evaluates on them       *)
(* (hprss-types, hprss-devices, and the free functions of engine.rs and    *)
(* transfer_manager.rs).  Nothing here changes during a run.               *)
(*                                                                         *)
(* Identifiers are naturals, as TaskId, DeviceId and BusId are.  Where the *)
(* code searches a Vec for the first match (`iter().find(..)`) the operator*)
(* below is the SET of results: it has one element when there is a match   *)
(* and none otherwise, as the Option it stands for.                        *)
(***************************************************************************)
EXTENDS Integers, Sequences

CONSTANTS
    NumTasks,       \* length of the task registry
    Task,           \* TaskId -> TaskRecord
    NumDevices,     \* number of configured devices
    Device,         \* DeviceId -> DeviceRecord
    BusIds,         \* ids of the configured shared buses
    PriorityBuses,  \* the buses whose arbitration is PriorityBased
    Links           \* Seq(LinkRecord), in configuration order

(* Dense ids: the device manager indexes its Vecs by them.                 *)
TaskIds == 0 .. NumTasks - 1
DeviceIds == 0 .. NumDevices - 1

NoJob == -1         \* None of Option<JobId>
NoDevice == -1      \* None of Option<DeviceId>
NoBus == -1         \* None of Option<BusId>
Unset == -1         \* None of Option<Nanos>

Levels == {"Lo", "Hi"}
DeviceTypes == {"Cpu", "Gpu", "Dsp", "Fpga"}

(* ExecutionTimeModel.  Deterministic has lo = hi = wcet, Stochastic has    *)
(* lo = bcet and hi = wcet, MixedCriticality has the two budgets.           *)
ExecModel == [kind: {"Deterministic", "Stochastic", "MixedCriticality"},
              lo: Nat, hi: Nat]

(* period is the period or the minimum inter-arrival time (the engine       *)
(* releases both alike) and 0 stands for ArrivalModel::Aperiodic.           *)
TaskRecord == [priority: Nat, period: Nat, deadline: Nat, criticality: Levels,
               execTimes: Seq([type: DeviceTypes, model: ExecModel]),
               affinity: Seq(DeviceTypes), dataSize: Nat]

(* preemption carries the one or two parameters of its variant: interval is *)
(* granularity_ns or dma_non_preemptive_ns, overhead is isr_overhead_ns or  *)
(* reconfig_time_ns.  The speed factor is the fraction num/den.             *)
DeviceRecord == [type: DeviceTypes,
                 preemption: {"Fully", "Limited", "Interrupt", "Non"},
                 interval: Nat, overhead: Nat, contextSwitch: Nat,
                 num: Nat, den: Nat \ {0}]

(* bandwidth is num/den bytes per ns.                                       *)
LinkRecord == [from: DeviceIds, to: DeviceIds, latency: Nat,
               num: Nat, den: Nat \ {0}, bus: BusIds \cup {NoBus}]

ASSUME PlatformAssumption ==
    /\ NumTasks \in Nat
    /\ NumDevices \in Nat
    /\ BusIds \subseteq Nat
    /\ PriorityBuses \subseteq BusIds
    /\ Task \in [TaskIds -> TaskRecord]
    /\ Device \in [DeviceIds -> DeviceRecord]
    /\ Links \in Seq(LinkRecord)

-----------------------------------------------------------------------------
(* Searching                                                                *)

FirstOf(S) == {i \in S : \A k \in S : i <= k}

(* device_for_type: the first device of a type.                             *)
DeviceForType(type) == FirstOf({d \in DeviceIds : Device[d].type = type})

-----------------------------------------------------------------------------
(* Execution times                                                          *)

CeilDiv(a, b) == (a + b - 1) \div b

(* A zero speed factor means "no scaling", the code's guard against         *)
(* dividing by it.                                                          *)
WorkToWall(work, d) ==
    IF Device[d].num = 0 THEN work
                         ELSE CeilDiv(work * Device[d].den, Device[d].num)

WallToWork(wall, d) ==
    IF Device[d].num = 0 THEN wall
                         ELSE (wall * Device[d].num) \div Device[d].den

(* The model used on a device type: the entry for that type, else the first *)
(* entry whatever its type, else none.                                      *)
ModelFor(t, type) ==
    LET entries == DOMAIN Task[t].execTimes
        matching == {i \in entries : Task[t].execTimes[i].type = type}
    IN {Task[t].execTimes[i].model :
            i \in IF matching # {} THEN FirstOf(matching) ELSE FirstOf(entries)}

(* Every value a model can be resolved to; the random draw of the           *)
(* stochastic distributions is a free choice in its (clamped) range.        *)
Outcomes(m, level) ==
    CASE m.kind = "Deterministic"    -> {m.hi}
      [] m.kind = "MixedCriticality" -> {IF level = "Lo" THEN m.lo ELSE m.hi}
      [] m.kind = "Stochastic"       -> IF m.hi <= m.lo THEN {m.lo} ELSE m.lo .. m.hi

SampleExecTime(t, d, level) ==
    UNION {Outcomes(m, level) : m \in ModelFor(t, Device[d].type)}

(* The budget that a LO-mode run of the task is policed against, always     *)
(* looked up for the CPU.                                                   *)
LoWcet(t) ==
    {m.lo : m \in {x \in ModelFor(t, "Cpu") : x.kind = "MixedCriticality"}}

-----------------------------------------------------------------------------
(* Virtual devices                                                          *)

(* Faulty variants: points are ignored; points are not waited for.          *)
AllowsFullyOnly(d, atPoint) == Device[d].preemption = "Fully"
AllowsAnywhere(d, atPoint) == Device[d].preemption # "Non"
AllowsPreemption(d, atPoint) ==
    \/ Device[d].preemption = "Fully"
    \/ Device[d].preemption \in {"Limited", "Interrupt"} /\ atPoint

PreemptionPenalty(d) ==
    IF Device[d].preemption = "Interrupt" THEN Device[d].overhead ELSE 0

HasPreemptionPoints(d) == Device[d].preemption \in {"Limited", "Interrupt"}

(* The instant at which a job dispatched at `now` starts to make progress.  *)
ExecutionStart(now, d, penalty) ==
    now + Device[d].contextSwitch + penalty
        + (IF Device[d].preemption = "Non" THEN Device[d].overhead ELSE 0)

-----------------------------------------------------------------------------
(* Interconnect                                                             *)

(* The first link between two devices, in either direction.                 *)
FindInterconnect(from, to) ==
    {Links[i] : i \in FirstOf({k \in DOMAIN Links :
                                 \/ Links[k].from = from /\ Links[k].to = to
                                 \/ Links[k].from = to /\ Links[k].to = from})}

(* Faulty variant: only the links that end at the target.                   *)
LinkIntoTarget(bus, target) ==
    {Links[i] : i \in FirstOf({k \in DOMAIN Links :
                                 Links[k].bus = bus /\ Links[k].to = target})}

(* The link used for a transfer that waited: the first one of the bus that  *)
(* touches the target, whichever device the data comes from.                *)
LinkOnBus(bus, target) ==
    {Links[i] : i \in FirstOf({k \in DOMAIN Links :
                                 /\ Links[k].bus = bus
                                 /\ target \in {Links[k].from, Links[k].to}})}

TransferTime(link, size) ==
    link.latency + (IF link.num = 0 THEN 0 ELSE CeilDiv(size * link.den, link.num))
=============================================================================
