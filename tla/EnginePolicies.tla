-------------------------- MODULE EnginePolicies --------------------------
(***************************************************************************)
(* The engine driven by each scheduler of the repository.  The state and   *)
(* the engine's own steps are those of Engine; what changes is that a call *)
(* has the answer of the scheduler in use (one answer, up to choices the   *)
(* code takes from the order of insertion, which are left open), and that  *)
(* the scheduler's memory changes with the calls.                          *)
(***************************************************************************)
EXTENDS GpuPolicies, EngineInv

CONSTANT Policies   \* the schedulers a run may be started with

Schedulers == {"Fp", "Edf", "GlobalEdf", "EdfVd", "Llf", "CpEdf", "Federated", "Gang",
               "Heft", "Gcaps", "XSched", "GPreempt", "GpuPp", "Rtgpu", "Match"}

(* Only LlfScheduler asks to be called for reevaluations.                   *)
ASSUME PoliciesAssumption ==
    /\ Policies \subseteq Schedulers
    /\ PeriodicInterval + TriggeredInterval > 0 => Policies \subseteq {"Llf"}

VARIABLES
    policy,     \* the scheduler in use
    mem         \* what it remembers between calls

policyVars == <<vars, policy, mem>>

(* The scheduler's fields after a call ...                                  *)
Remember(cb) ==
    CASE policy = "Llf"       -> LlfMemory(mem, cb)
      [] policy = "CpEdf"     -> CpEdfMemory(mem, cb)
      [] policy = "Federated" -> FederatedMemory(mem, cb)
      [] policy = "Gang"      -> GangMemory(mem, cb)
      [] policy = "Match"     -> MatchMemory(mem, cb)
      [] OTHER                -> mem

(* ... and its answer.                                                      *)
Answers(cb, m) ==
    CASE policy = "Fp"        -> FpAnswers(cb)
      [] policy = "Edf"       -> EdfAnswers(cb)
      [] policy = "GlobalEdf" -> GlobalEdfAnswers(cb)
      [] policy = "EdfVd"     -> EdfVdAnswers(cb)
      [] policy = "Llf"       -> LlfAnswers(cb, m)
      [] policy = "CpEdf"     -> CpEdfAnswers(cb, m)
      [] policy = "Federated" -> FederatedAnswers(cb, m)
      [] policy = "Gang"      -> GangAnswers(cb, m)
      [] policy = "Heft"      -> HeftAnswers(cb)
      [] policy = "Gcaps"     -> GcapsAnswers(cb)
      [] policy = "XSched"    -> XSchedAnswers(cb)
      [] policy = "GPreempt"  -> GPreemptAnswers(cb)
      [] policy = "GpuPp"     -> GpuPpAnswers(cb)
      [] policy = "Rtgpu"     -> RtgpuAnswers(cb)
      [] policy = "Match"     -> MatchAnswers(cb, m)

-----------------------------------------------------------------------------
(* The calls                                                                *)

Arriving(e) == Call("arrival", e.job, NoDevice, running, e.time)
Completed(e) == Call("free", e.job, e.dev, [running EXCEPT ![e.dev] = NoJob], e.time)
AtPoint(e) == Call("point", e.job, e.dev, running, e.time)
Idle(d) == Call("free", NoJob, d, running, now)
Switched(t) == Call("critical", NoJob, NoDevice, running, t)
Reevaluated(d, t) == Call("reevaluation", NoJob, d, running, t)

Consult(cb) == mem' = Remember(cb)

(* The calls made once for a list of actions that are then executed one by  *)
(* one: at the mode switch and at a reevaluation.  The other steps of the   *)
(* engine call nobody.                                                      *)
CallsForList ==
    mem' = CASE phase.op = "poll" /\ phase'.op = "critical" -> Remember(Switched(now'))
             [] phase.op = "poll" /\ phase'.op \in {"reevaluate", "reevaluateTick"} ->
                   Remember(Reevaluated(NoDevice, now'))
             [] OTHER -> mem

PolicyStep ==
    \/ \E e \in EventsOf("TaskArrival") :
          /\ Handles(e, "TaskArrival")
          /\ Consult(Arriving(e))
          /\ \E a \in Answers(Arriving(e), mem') : TaskArrival(e, a)
    \/ \E e \in EventsOf("JobComplete") :
          /\ Handles(e, "JobComplete")
          /\ IF running[e.dev] = e.job THEN Consult(Completed(e)) ELSE mem' = mem
          /\ \E a \in Answers(Completed(e), mem') : JobComplete(e, a)
    \/ \E e \in EventsOf("PreemptionPoint") :
          /\ Handles(e, "PreemptionPoint")
          /\ IF running[e.dev] = e.job THEN Consult(AtPoint(e)) ELSE mem' = mem
          /\ \E a \in Answers(AtPoint(e), mem') : PreemptionPoint(e, a)
    \/ \E e \in EventsOf("TransferComplete") :
          /\ Handles(e, "TransferComplete")
          /\ IF IsTerminal(e.job) THEN mem' = mem ELSE Consult(Arriving(e))
          /\ \E a \in Answers(Arriving(e), mem') : TransferComplete(e, a)
    \/ /\ Continues("critical")
       /\ \E a \in Answers(Switched(now), mem) : SchedulerDropsLo(a.job)
       /\ mem' = mem
    \/ /\ Continues("critical")
       /\ Answers(Switched(now), mem) = {}
       /\ SchedulerDropsNoMore
       /\ mem' = mem
    \/ /\ AtDevice("idle") /\ act.op = "none"
       /\ IF running[phase.k] = NoJob /\ queue[phase.k] # {}
          THEN /\ Consult(Idle(phase.k))
               /\ \E a \in Answers(Idle(phase.k), mem') : DispatchIdle(a)
          ELSE mem' = mem /\ DispatchIdle(NoAction)
    \/ /\ AtDevice("reevaluate")
       /\ \E a \in Answers(Reevaluated(phase.k, now), mem) : Reevaluate(a)
       /\ mem' = mem
    \/ /\ AtDevice("reevaluateTick")
       /\ \E a \in Answers(Reevaluated(phase.k, now), mem) : Reevaluate(a)
       /\ mem' = mem

PolicyInit == Init /\ policy \in Policies /\ mem = NoMemory

PolicyNext == ((EngineStep /\ CallsForList) \/ PolicyStep) /\ UNCHANGED policy

PolicySpec == PolicyInit /\ [][PolicyNext]_policyVars

-----------------------------------------------------------------------------
(* Whatever the scheduler, the engine is one of the engines of Engine: what *)
(* is shown for any scheduler of the class holds for each of these.         *)
ImplementsEngine == Spec

(* The schedule the schedulability analyses assume, between two events of a *)
(* run in LO mode in which no deadline was missed (a miss leaves the device *)
(* idle without a call).                                                    *)
Regular == Polling /\ level = "Lo" /\ metrics.missed = 0

(* On a fully preemptive accelerator an arriving job stops the running one  *)
(* before its own data is there: the device is idle while the preempted job *)
(* is queued, and stays so if the newcomer is placed anew, on another       *)
(* device, when its data has arrived.                                       *)
YieldsBeforeData(d) == FullyPreemptive(d) /\ Device[d].type # "Cpu"

(* Work conservation: no other device idles while a job waits in its queue, *)
(* under every scheduler but Gang, which leaves devices to one task on      *)
(* purpose.  Completions, transfers and preemptions each hand the device    *)
(* over in a different handler.                                             *)
DevicesKeptBusy ==
    Regular /\ policy # "Gang" =>
        \A d \in DeviceIds : running[d] = NoJob /\ ~YieldsBeforeData(d) => queue[d] = {}

(* The order a scheduler is built on, as far as every decision of it goes   *)
(* by that order (MATCH, CP-EDF and LLF have more to say below).            *)
Order(j) ==
    CASE policy \in {"Edf", "GlobalEdf", "Federated", "Llf", "CpEdf"} -> <<Deadline(j)>>
      [] policy = "EdfVd" -> <<EffectiveDeadline(j)>>
      [] policy = "Fp" -> <<Priority(j)>>
      [] policy = "GpuPp" -> <<CriticalityRank(j), Priority(j)>>
      [] OTHER -> <<CriticalityRank(j), Deadline(j)>>

(* A fully preemptive CPU runs a job no queued one of the same device       *)
(* precedes, although jobs arrive at, leave and re-enter a queue in any     *)
(* order and an arriving job considers one device only.                     *)
RunsTheMostUrgent ==
    Regular /\ policy \notin {"Gang", "Heft", "Llf"} =>
        \A d \in DeviceIds :
            FullyPreemptive(d) /\ Device[d].type = "Cpu" /\ running[d] # NoJob =>
                \A q \in queue[d] : ~Precedes(Order(q), Order(running[d]))

(* EDF-VD keeps HI mode free of LO jobs: between two events none runs,      *)
(* waits or is in transfer, whichever way it came in.                       *)
HiModeIsHi ==
    policy = "EdfVd" /\ Polling /\ level = "Hi" =>
        \A j \in JobIds : IsLo(j) => jobs[j].state \in {"Released"} \cup TerminalStates

(* The work LLF and CP-EDF believe is left of a job is never less than what *)
(* is really left, on devices that do at least the work of a nanosecond in  *)
(* one: no laxity is overestimated, over any number of preemptions, missed  *)
(* points and reevaluations.                                                *)
SeenWork(j) ==
    IF jobs[j].state = "Running" /\ j \in DOMAIN mem.seen
    THEN WallToWork(mem.seen[j], jobs[j].dev) ELSE 0
EstimatesAreSafe ==
    Polling => \A j \in DOMAIN mem.left :
        LET d == jobs[j].dev
        IN jobs[j].state \in {"Ready", "Running", "Suspended"} /\ Device[d].num >= Device[d].den =>
              mem.left[j] + jobs[j].exec + SeenWork(j) >= jobs[j].actual

(* Whenever the engine has carried out a reevaluation, every fully          *)
(* preemptive device runs a job of the least laxity of those it could run,  *)
(* by LLF's estimates: between two callbacks laxities cross unseen, and the *)
(* preemptions of one answer are executed one after the other.              *)
LaxityRestored ==
    Reevaluating /\ phase.k \notin DeviceIds =>
        \A d \in DeviceIds : FullyPreemptive(d) /\ running[d] # NoJob =>
            \A q \in queue[d] : Laxity(running[d], mem) <= Laxity(q, mem)

(* Jobs a scheduler can see: assigned to a device and not in transfer.      *)
Visible(j) == jobs[j].dev # NoDevice /\ jobs[j].state \in {"Ready", "Running", "Suspended"}

(* Federated keeps one device per DAG and device type for as long as a job  *)
(* of the DAG is visible there: every such job is pinned and is where its   *)
(* pin says, although jobs in transfer drop out of the view, their pins are *)
(* reclaimed and the device may be dedicated anew before they come back.    *)
DagsKeepTheirDevice ==
    policy = "Federated" /\ Polling =>
        \A j \in JobIds : Visible(j) /\ DagOf(j) # NoDag =>
            /\ j \in DOMAIN mem.pins
            /\ mem.pins[j] \in DOMAIN mem.dedicated
            /\ mem.dedicated[mem.pins[j]] = jobs[j].dev

(* MATCH keeps the visible jobs of a task together, on the device the task  *)
(* is mapped to, by the same argument.                                      *)
TasksKeepTheirDevice ==
    policy = "Match" /\ Polling =>
        \A j \in JobIds : Visible(j) =>
            /\ jobs[j].task \in DOMAIN mem.mapping
            /\ mem.mapping[jobs[j].task] = jobs[j].dev
            /\ j \in DOMAIN mem.alloc => mem.alloc[j] = jobs[j].dev
=============================================================================
