--------------------------- MODULE Engine_proofs ---------------------------
(***************************************************************************)
(* Proof that IInv is an invariant of Engine for every platform, task set, *)
(* trace and scheduler of the class, and with it type correctness,         *)
(* Placement and LiveEventsAreMeant.                                       *)
(*                                                                         *)
(* Then, relative to it, what holds of every job and every transfer.       *)
(*                                                                         *)
(* The job state machine of Engine is the one drawn in job.rs, whatever    *)
(* the scheduler answers: a finished job is never touched again, a job     *)
(* that changes state changes its version, and every change is legal.      *)
(* Both are action properties that follow from the inductive invariant     *)
(* before the step; the work is to show that each handler finds the job in *)
(* a state it may leave.                                                   *)
(*                                                                         *)
(* The transfer manager loses no transfer and never lets two share a bus:  *)
(* BusIInv is inductive relative to IInv.  Only three actions touch the    *)
(* buses; all the others must leave every job that waits for its data      *)
(* exactly as it is, or end it, and neither add nor discard a completion   *)
(* of it.  ServedIInv, inductive relative to both, says that whoever waits *)
(* for a bus waits behind somebody.                                        *)
(*                                                                         *)
(* Engine neither loses nor invents time: over any number of preemptions,  *)
(* drops, misses and transfers a job executes at most its demand and       *)
(* completes with exactly it, a running job has exactly one completion     *)
(* that will be believed, no stretch of a device's time is counted twice   *)
(* as busy, and a device is never credited with more work than its busy    *)
(* time has room for; one reevaluation of each kind is outstanding at      *)
(* most, the periodic ones in step with the clock; and preemption points   *)
(* recur as long as a job runs, and jobs are suspended only there.         *)
(***************************************************************************)
EXTENDS EngineInv, Platform_proofs, FiniteSetTheorems

-----------------------------------------------------------------------------
(* Updates of a job record                                                  *)

(* A transition keeps everything of a job but its state and its version.    *)
LEMMA TransitionLemma ==
    ASSUME NEW r \in JobRecord, NEW s \in JobStates
    PROVE  /\ Transition(r, s) \in JobRecord
           /\ Transition(r, s).state = s
           /\ Transition(r, s).ver = r.ver + 1
           /\ Transition(r, s).dev = r.dev
           /\ Transition(r, s).start = r.start
           /\ Transition(r, s).task = r.task
           /\ Transition(r, s).exec = r.exec
           /\ Transition(r, s).actual = r.actual
  <1> DEFINE v == r.ver + 1
  <1>1. v \in Nat
    BY DEF JobRecord
  <1>2. Transition(r, s) = [r EXCEPT !.state = s, !.ver = v]
    BY DEF Transition
  <1>3. v = r.ver + 1
    OBVIOUS
  <1> HIDE DEF v
  <1>4. [r EXCEPT !.state = s, !.ver = v] \in JobRecord
    BY <1>1 DEF JobRecord
  <1> QED BY <1>2, <1>3, <1>4 DEF JobRecord

(* Settling a job is a transition unless it is already there.               *)
LEMMA SettleLemma ==
    ASSUME NEW r \in JobRecord, NEW s \in JobStates
    PROVE  /\ Settle(r, s) \in JobRecord
           /\ Settle(r, s).state = s
           /\ Settle(r, s).ver = IF r.state = s THEN r.ver ELSE r.ver + 1
           /\ Settle(r, s).dev = r.dev
           /\ Settle(r, s).start = r.start
           /\ Settle(r, s).task = r.task
           /\ Settle(r, s).exec = r.exec
  BY TransitionLemma DEF Settle

(* What remains of a job is an amount of work.                              *)
LEMMA RemainingNat ==
    ASSUME NEW r \in JobRecord
    PROVE  Remaining(r) \in Nat
  BY DEF Remaining, JobRecord, Unset

(* Accounting the progress of a job that ran since r.start.                 *)
LEMMA ProgressedLemma ==
    ASSUME NEW r \in JobRecord, NEW d \in DeviceIds, NEW t \in Nat, r.start \in 0 .. t
    PROVE  /\ Progressed(r, d, t) \in JobRecord
           /\ Progressed(r, d, t).exec \in Nat
           /\ Progressed(r, d, t).state = r.state
           /\ Progressed(r, d, t).ver = r.ver
           /\ Progressed(r, d, t).dev = r.dev
           /\ Progressed(r, d, t).task = r.task
  <1>1. t - r.start \in Nat
    OBVIOUS
  <1>2. WallToWork(t - r.start, d) \in Nat
    BY <1>1, WallToWorkNat
  <1>3. MinOf(WallToWork(t - r.start, d), Remaining(r)) \in Nat
    BY <1>2, RemainingNat DEF MinOf
  <1> DEFINE x == r.exec + MinOf(WallToWork(t - r.start, d), Remaining(r))
  <1>4. x \in Nat
    BY <1>3 DEF JobRecord
  <1>5. Progressed(r, d, t) = [r EXCEPT !.exec = x, !.start = Unset]
    BY DEF Progressed
  <1> HIDE DEF x
  <1>6. [r EXCEPT !.exec = x, !.start = Unset] \in JobRecord
    BY <1>4 DEF JobRecord
  <1> QED BY <1>4, <1>5, <1>6 DEF JobRecord

(* Resolving the actual execution time of a job.                            *)
LEMMA ResolvedLemma ==
    ASSUME NEW r \in JobRecord, NEW x \in Nat
    PROVE  /\ Resolved(r, x) \in JobRecord
           /\ Resolved(r, x).state = r.state
           /\ Resolved(r, x).ver = r.ver
           /\ Resolved(r, x).dev = r.dev
           /\ Resolved(r, x).task = r.task
           /\ Resolved(r, x).exec = r.exec
           /\ Resolved(r, x).actual \in Nat
  BY DEF Resolved, JobRecord, Unset

(* Assigning a job to a device, with or without a start time.               *)
LEMMA AssignedLemma ==
    ASSUME NEW r \in JobRecord, NEW d \in DeviceIds, NEW s \in Nat \cup {Unset}
    PROVE  /\ Assigned(r, d, s) \in JobRecord
           /\ Assigned(r, d, s).state = r.state
           /\ Assigned(r, d, s).ver = r.ver
           /\ Assigned(r, d, s).dev = d
           /\ Assigned(r, d, s).start = s
           /\ Assigned(r, d, s).task = r.task
           /\ Assigned(r, d, s).actual = r.actual
           /\ Assigned(r, d, s).exec = r.exec
  BY DEF Assigned, JobRecord

(* Every event built from typed parts is an event.                          *)
LEMMA EventLemma ==
    ASSUME NEW t \in Nat, NEW s \in Nat, NEW k \in EventKinds, NEW j \in Nat \cup {NoJob},
           NEW v \in Nat, NEW d \in DeviceIds \cup {NoDevice}
    PROVE  /\ Event(t, s, k, j, v, d) \in EventRecord
           /\ Event(t, s, k, j, v, d).time = t
           /\ Event(t, s, k, j, v, d).kind = k
           /\ Event(t, s, k, j, v, d).job = j
           /\ Event(t, s, k, j, v, d).ver = v
           /\ Event(t, s, k, j, v, d).dev = d
  BY DEF Event, EventRecord

-----------------------------------------------------------------------------
(* What the steps have in common                                            *)

(* In this step job k stays as it is, or it moves on and leaves no pending  *)
(* event that would still be believed.                                      *)
MovesOn(k) ==
    /\ jobs'[k].ver >= jobs[k].ver
    /\ jobs'[k].ver = jobs[k].ver => jobs[k].state \notin {"Transferring", "Running"}
    /\ jobs'[k].state \in TerminalStates \/ NotArriving(k)
    /\ jobs'[k].state \in {"Running", "Suspended"} =>
          /\ jobs'[k].dev \in DeviceIds
          /\ ModelFor(jobs'[k].task, Device[jobs'[k].dev].type) # {}

(* An event this step may schedule.                                         *)
MayBeScheduled(e) ==
    /\ e.time >= now'
    /\ e.kind # "TaskArrival"
    /\ e.kind \in VersionedKinds \cup {"DeadlineCheck"} => e.job \in JobIds
    /\ e.kind \in {"JobComplete", "PreemptionPoint", "TransferComplete"} => e.dev \in DeviceIds
    /\ e.kind = "PreemptionPoint" => HasPreemptionPoints(e.dev)
    /\ e.kind \in VersionedKinds =>
          /\ e.ver <= jobs'[e.job].ver
          /\ e.ver = jobs'[e.job].ver =>
                /\ jobs'[e.job].state =
                      IF e.kind = "TransferComplete" THEN "Transferring" ELSE "Running"
                /\ e.kind # "BudgetOverrun" => jobs'[e.job].dev = e.dev

(* A transfer this step may let wait.                                       *)
MayWait(p) ==
    /\ p.ver <= jobs'[p.job].ver
    /\ p.ver = jobs'[p.job].ver =>
          jobs'[p.job].state = "Transferring" /\ jobs'[p.job].dev = p.dev

(* A step that creates no job, moves some on and schedules what it may.     *)
EventsFollow ==
    /\ nextJob' = nextJob
    /\ \A k \in JobIds : jobs'[k] = jobs[k] \/ (jobs'[k] \in JobRecord /\ MovesOn(k))
    /\ \A e \in events' : (e \in events /\ e.time >= now') \/ MayBeScheduled(e)
    /\ \A p \in pending' : p \in pending \/ MayWait(p)

(* Such a step keeps the events sound.                                      *)
LEMMA EventsStaySound ==
    ASSUME TypeOK, EventsAreSound, EventsFollow
    PROVE  EventsAreSound'
  <1>1. JobIds' = JobIds
    BY DEF JobIds, EventsFollow
  <1> USE DEF EventsFollow
  <1>2. /\ \A k \in JobIds : jobs[k] \in JobRecord
        /\ \A k \in JobIds : jobs[k].ver \in Nat /\ jobs'[k].ver \in Nat
        /\ \A e \in events : e.ver \in Nat
        /\ \A p \in pending : p.ver \in Nat /\ p.job \in JobIds
    BY DEF TypeOK, EventRecord, JobRecord
  <1>4. LiveEventsAreMeant'
    BY <1>1, <1>2 DEF EventsAreSound, LiveEventsAreMeant, MovesOn, MayBeScheduled
  <1>5. EventsAreWellFormed'
    BY <1>1 DEF EventsAreSound, EventsAreWellFormed, MayBeScheduled
  <1>6. ArrivalsAreFresh'
    BY <1>1 DEF EventsAreSound, EventsAreWellFormed, ArrivalsAreFresh, MovesOn, MayBeScheduled, NotArriving
  <1>7. WaitingTransfersAreMeant'
    BY <1>1, <1>2 DEF EventsAreSound, WaitingTransfersAreMeant, MovesOn, MayWait
  <1>8. StartedJobsHaveModels'
    BY <1>1 DEF EventsAreSound, StartedJobsHaveModels, MovesOn
  <1>9. NothingInThePast'
    BY DEF EventsAreSound, NothingInThePast, MayBeScheduled
  <1> QED BY <1>4, <1>5, <1>6, <1>7, <1>8, <1>9 DEF EventsAreSound

(* Job v becomes r, and the slots and queues it is in follow.               *)
SlotsFollow(v, r) ==
    /\ \A d \in DeviceIds :
          running'[d] = IF r.state = "Running" /\ r.dev = d THEN v
                        ELSE IF running[d] = v THEN NoJob ELSE running[d]
    /\ r.state = "Running" => /\ r.dev \in DeviceIds
                              /\ running[r.dev] \in {v, NoJob}
                              /\ r.start \in 0 .. now'
QueuesFollow(v, r) ==
    /\ \A d \in DeviceIds : \A j \in JobIds : j # v => (j \in queue'[d] <=> j \in queue[d])
    /\ \A d \in DeviceIds : queue'[d] \subseteq JobIds
    /\ \A d \in DeviceIds : v \in queue'[d] =>
          r.state \in {"Ready", "Suspended"} /\ r.dev = d
    /\ r.state = "Suspended" => r.dev \in DeviceIds /\ v \in queue'[r.dev]

(* Such a step keeps the job table and the device manager in agreement.     *)
LEMMA PlacementStays ==
    ASSUME TypeOK, Placement, now' \in Nat, now' >= now, nextJob' = nextJob,
           NEW v \in JobIds, NEW r \in JobRecord, jobs' = [jobs EXCEPT ![v] = r],
           SlotsFollow(v, r), QueuesFollow(v, r)
    PROVE  Placement'
  <1> USE DEF SlotsFollow, QueuesFollow
  <1>1. JobIds' = JobIds /\ v # NoJob
    BY DEF JobIds, NoJob
  <1>2. /\ \A k \in JobIds : jobs[k] \in JobRecord /\ jobs[k].start \in Nat \cup {Unset}
        /\ jobs'[v] = r
        /\ \A k \in JobIds : k # v => jobs'[k] = jobs[k]
        /\ now \in Nat
    BY DEF TypeOK, JobRecord
  <1>3. SlotsHoldRunningJobs'
    BY <1>1, <1>2 DEF Placement, SlotsHoldRunningJobs
  <1>4. RunningJobsHaveSlots'
    <2> SUFFICES ASSUME NEW k \in JobIds, jobs'[k].state = "Running"
                 PROVE  /\ jobs'[k].dev \in DeviceIds
                        /\ running'[jobs'[k].dev] = k
                        /\ jobs'[k].start \in 0 .. now'
      BY <1>1 DEF RunningJobsHaveSlots
    <2>1. CASE k = v
      BY <2>1, <1>1, <1>2
    <2>2. CASE k # v
      <3>1. jobs'[k] = jobs[k]
        BY <2>2, <1>2
      <3>2. jobs[k].dev \in DeviceIds /\ running[jobs[k].dev] = k /\ jobs[k].start \in 0 .. now
        BY <3>1 DEF Placement, RunningJobsHaveSlots
      <3>3. ~(r.state = "Running" /\ r.dev = jobs[k].dev)
        BY <2>2, <3>2 DEF JobIds, NoJob
      <3>4. running'[jobs[k].dev] = k
        BY <2>2, <3>2, <3>3
      <3>5. jobs[k].start \in 0 .. now'
        BY <3>2, <1>2
      <3> QED BY <3>1, <3>2, <3>4, <3>5
    <2> QED BY <2>1, <2>2
  <1>5. QueuesHoldWaitingJobs'
    BY <1>1, <1>2 DEF Placement, QueuesHoldWaitingJobs
  <1>6. SuspendedJobsWait'
    BY <1>1, <1>2 DEF Placement, SuspendedJobsWait
  <1> QED BY <1>3, <1>4, <1>5, <1>6 DEF Placement

(* A step that leaves jobs, slots and queues alone keeps Placement.         *)
LEMMA PlacementFrame ==
    ASSUME TypeOK, Placement, now' \in Nat, now' >= now,
           UNCHANGED <<nextJob, jobs, running, queue>>
    PROVE  Placement'
  <1>1. \A k \in JobIds : jobs[k].start \in 0 .. now => jobs[k].start \in 0 .. now'
    BY DEF TypeOK
  <1> QED
    BY <1>1 DEF Placement, SlotsHoldRunningJobs, RunningJobsHaveSlots,
                QueuesHoldWaitingJobs, SuspendedJobsWait, JobIds

(* The actions the engine can be given, field by field.                     *)
LEMMA DispatchFields ==
    ASSUME NEW j \in Nat, NEW d \in DeviceIds, NEW p \in Nat
    PROVE  /\ Dispatch(j, d, p) \in ActRecord
           /\ Dispatch(j, d, p).op = "dispatch"
           /\ Dispatch(j, d, p).job = j
           /\ Dispatch(j, d, p).dev = d
           /\ Dispatch(j, d, p).penalty = p
  BY DEF NoAction, Dispatch, ActRecord, NoJob, NoDevice

(* Enqueue names its job and device.                                        *)
LEMMA EnqueueFields ==
    ASSUME NEW j \in Nat, NEW d \in DeviceIds
    PROVE  /\ Enqueue(j, d) \in ActRecord
           /\ Enqueue(j, d).op = "enqueue"
           /\ Enqueue(j, d).job = j
           /\ Enqueue(j, d).dev = d
  BY DEF NoAction, Enqueue, ActRecord, NoJob, NoDevice

(* Preempt names its victim, the job to run instead, and the device.        *)
LEMMA PreemptFields ==
    ASSUME NEW j \in Nat, NEW b \in Nat, NEW d \in DeviceIds, NEW atPoint \in BOOLEAN
    PROVE  /\ Preempt(j, b, d, atPoint) \in ActRecord
           /\ Preempt(j, b, d, atPoint).op = "preempt"
           /\ Preempt(j, b, d, atPoint).job = j
           /\ Preempt(j, b, d, atPoint).by = b
           /\ Preempt(j, b, d, atPoint).dev = d
           /\ Preempt(j, b, d, atPoint).atPoint = atPoint
  BY DEF NoAction, Preempt, ActRecord, NoJob, NoDevice

(* Drop names its job, and no job to dispatch.                              *)
LEMMA DropFields ==
    ASSUME NEW j \in Nat
    PROVE  /\ Drop(j) \in ActRecord
           /\ Drop(j).op = "drop"
           /\ Drop(j).job = j
           /\ Drop(j).by = NoJob
  BY DEF NoAction, Drop, ActRecord, NoJob, NoDevice

(* A drop followed by a dispatch names both jobs and the device.            *)
LEMMA DropThenDispatchFields ==
    ASSUME NEW j \in Nat, NEW b \in Nat, NEW d \in DeviceIds
    PROVE  /\ DropThenDispatch(j, b, d) \in ActRecord
           /\ DropThenDispatch(j, b, d).op = "drop"
           /\ DropThenDispatch(j, b, d).job = j
           /\ DropThenDispatch(j, b, d).by = b
           /\ DropThenDispatch(j, b, d).dev = d
  BY DEF NoAction, DropThenDispatch, ActRecord, NoJob, NoDevice

(* No action is a sound action.                                             *)
LEMMA NoActionIsSound ==
    NoAction \in ActRecord /\ NoAction.op = "none" /\ (act' = NoAction => ActionIsSound')
  BY DEF NoAction, ActRecord, NoJob, NoDevice, ActionIsSound, SoundAction

(* The jobs in the state and those an action names are job ids.             *)
LEMMA JobIdsAreNat == TypeOK => JobIds \subseteq Nat
  BY DEF TypeOK, JobIds

(* A step that only decides which action comes next.                        *)
LEMMA DecisionInv ==
    ASSUME IInv,
           UNCHANGED <<now, level, jobVars, deviceVars, eventVars, transferVars,
                       reevalVars, metrics>>,
           act' \in ActRecord, ActionIsSound',
           phase' \in PhaseRecord, PhaseIsSound',
           phase'.op = phase.op
             \/ phase'.op \notin {"setup", "replay", "start", "reevaluateTick"}
    PROVE  IInv'
  <1>1. UNCHANGED <<now, level, nextJob, jobs, running, queue, busy, events, seq, active,
                    pending, trig, tick, metrics>>
    BY DEF jobVars, deviceVars, eventVars, transferVars, reevalVars
  <1>2. TypeOK'
    BY <1>1 DEF IInv, TypeOK, JobIds
  <1>3. Placement'
    BY <1>1, PlacementFrame DEF IInv, TypeOK
  <1>4. EventsAreSound'
    <2>1. \A e \in events' : e \in events /\ e.time >= now'
      BY <1>1 DEF IInv, EventsAreSound, NothingInThePast
    <2>2. /\ nextJob' = nextJob
          /\ \A k \in JobIds : jobs'[k] = jobs[k]
          /\ \A p \in pending' : p \in pending
      BY <1>1
    <2>3. EventsFollow
      BY <2>1, <2>2 DEF EventsFollow
    <2> QED BY <2>3, EventsStaySound DEF IInv
  <1>5. ClockIsSound'
    BY <1>1 DEF IInv, ClockIsSound
  <1> QED BY <1>2, <1>3, <1>4, <1>5 DEF IInv

(* An action that is sound stays so while no job, slot or queue changes and *)
(* no job arrives.                                                          *)
LEMMA SoundActionFrame ==
    ASSUME NEW a, SoundAction(a), UNCHANGED <<nextJob, jobs, queue, running>>, events' \subseteq events
    PROVE  SoundAction(a)'
  BY DEF SoundAction, Placeable, Queued, IsTerminal, NotArriving, JobIds

(* A job in a queue may be placed on the device of that queue.              *)
LEMMA QueuedIsPlaceable ==
    ASSUME IInv, NEW d \in DeviceIds, NEW q \in queue[d]
    PROVE  /\ q \in JobIds /\ q \in Nat /\ q # NoJob
           /\ jobs[q].state \in {"Ready", "Suspended"} /\ jobs[q].dev = d
           /\ NotArriving(q)
           /\ \A c \in DeviceIds : q \in queue[c] => c = d
           /\ Placeable(q, d)
  <1>1. q \in JobIds /\ jobs[q].state \in {"Ready", "Suspended"} /\ jobs[q].dev = d
    BY DEF IInv, Placement, QueuesHoldWaitingJobs
  <1>2. q \in Nat /\ q # NoJob
    BY <1>1 DEF IInv, TypeOK, JobIds, NoJob
  <1>3. NotArriving(q)
    BY <1>1 DEF IInv, EventsAreSound, ArrivalsAreFresh, NotArriving, TerminalStates
  <1>4. \A c \in DeviceIds : q \in queue[c] => c = d
    BY <1>1 DEF IInv, Placement, QueuesHoldWaitingJobs
  <1> QED BY <1>1, <1>2, <1>3, <1>4 DEF Placeable

(* The job in a slot runs, and is neither queued nor arriving.              *)
LEMMA RunningJob ==
    ASSUME IInv, NEW d \in DeviceIds, running[d] # NoJob
    PROVE  /\ running[d] \in JobIds /\ running[d] \in Nat
           /\ jobs[running[d]] \in JobRecord
           /\ jobs[running[d]].state = "Running"
           /\ jobs[running[d]].dev = d
           /\ jobs[running[d]].start \in 0 .. now
           /\ NotArriving(running[d])
           /\ \A c \in DeviceIds : running[c] = running[d] => c = d
           /\ \A c \in DeviceIds : running[d] \notin queue[c]
  <1>1. running[d] \in JobIds /\ jobs[running[d]].state = "Running" /\ jobs[running[d]].dev = d
    BY DEF IInv, Placement, SlotsHoldRunningJobs
  <1>2. running[d] \in Nat /\ jobs[running[d]] \in JobRecord
    BY <1>1, JobIdsAreNat DEF IInv, TypeOK
  <1>3. jobs[running[d]].start \in 0 .. now
    BY <1>1 DEF IInv, Placement, RunningJobsHaveSlots
  <1>4. NotArriving(running[d])
    BY <1>1 DEF IInv, EventsAreSound, ArrivalsAreFresh, NotArriving, TerminalStates
  <1>5. \A c \in DeviceIds : running[c] = running[d] => c = d
    BY <1>1 DEF IInv, Placement, SlotsHoldRunningJobs
  <1>6. \A c \in DeviceIds : running[d] \notin queue[c]
    BY <1>1 DEF IInv, Placement, QueuesHoldWaitingJobs
  <1> QED BY <1>1, <1>2, <1>3, <1>4, <1>5, <1>6

(* While an action is being executed the handler's next phase stays.        *)
LEMMA SamePhase ==
    ASSUME IInv, phase' = phase, nextJob' = nextJob, act.op # "none" \/ act' = act
    PROVE  phase' \in PhaseRecord /\ PhaseIsSound'
  BY DEF IInv, TypeOK, PhaseIsSound, JobIds

(* A phase that refers to no job is sound.                                  *)
LEMMA NewPhase ==
    ASSUME NEW op \in PhaseOps \ {"setup", "replay", "start", "ended", "release", "point"},
           NEW k \in Nat, phase' = Phase(op, k)
    PROVE  phase' \in PhaseRecord /\ phase'.op = op /\ PhaseIsSound'
  BY DEF Phase, PhaseRecord, PhaseIsSound, NoJob

(* Job v becomes the record r, which has moved on.                          *)
BecomesRecord(v, r) ==
    /\ jobs' = [jobs EXCEPT ![v] = r]
    /\ \/ r.ver > jobs[v].ver
       \/ /\ r.ver = jobs[v].ver
          /\ jobs[v].state \notin {"Transferring", "Running"}
    /\ r.state \in TerminalStates \/ NotArriving(v)
    /\ r.state \in {"Running", "Suspended"} =>
          r.dev \in DeviceIds /\ ModelFor(r.task, Device[r.dev].type) # {}

(* Updating one job with a record that has moved on.                        *)
LEMMA JobMovesOn ==
    ASSUME IInv, NEW v \in JobIds, NEW r \in JobRecord, BecomesRecord(v, r)
    PROVE  /\ jobs' \in [JobIds -> JobRecord]
           /\ jobs'[v] = r
           /\ \A k \in JobIds : k # v => jobs'[k] = jobs[k]
           /\ \A k \in JobIds : jobs'[k] = jobs[k] \/ (jobs'[k] \in JobRecord /\ MovesOn(k))
  <1>1. jobs' \in [JobIds -> JobRecord] /\ jobs'[v] = r /\ \A k \in JobIds : k # v => jobs'[k] = jobs[k]
    BY DEF BecomesRecord, IInv, TypeOK
  <1>2. r.ver \in Nat /\ jobs[v].ver \in Nat
    BY DEF IInv, TypeOK, JobRecord
  <1>3. MovesOn(v)
    BY <1>1, <1>2 DEF BecomesRecord, MovesOn
  <1> QED BY <1>1, <1>3

(* A job about to be placed is in no slot and in no queue but its target's. *)
LEMMA WaitingJob ==
    ASSUME IInv, NEW j, NEW d, Placeable(j, d), ~IsTerminal(j)
    PROVE  /\ j \in JobIds /\ j \in Nat /\ d \in DeviceIds
           /\ jobs[j] \in JobRecord /\ jobs[j].ver \in Nat
           /\ jobs[j].state \in {"Released", "Ready", "Suspended"}
           /\ NotArriving(j)
           /\ \A c \in DeviceIds : running[c] # j
           /\ \A c \in DeviceIds : j \in queue[c] => c = d
  <1>1. /\ j \in JobIds /\ d \in DeviceIds
        /\ jobs[j].state \in {"Released", "Ready", "Suspended"}
        /\ NotArriving(j)
        /\ \A c \in DeviceIds : j \in queue[c] => c = d
    BY DEF Placeable
  <1>2. j \in Nat /\ jobs[j] \in JobRecord /\ jobs[j].ver \in Nat
    BY <1>1 DEF IInv, TypeOK, JobIds, JobRecord
  <1>3. \A c \in DeviceIds : running[c] # j
    BY <1>1, <1>2 DEF IInv, Placement, SlotsHoldRunningJobs, NoJob
  <1> QED BY <1>1, <1>2, <1>3

(* Popping an event without touching a job, a slot, a queue or a bus.       *)
LEMMA PopBasics ==
    ASSUME IInv, NEW e \in events, Pops(e)
    PROVE  /\ e \in EventRecord /\ e.time \in Nat
           /\ now' = e.time /\ now' \in Nat /\ now' >= now
           /\ \A f \in events : f.time >= now'
           /\ act.op = "none" /\ phase.op = "poll"
  <1>1. e \in EventRecord /\ e.time \in Nat /\ now \in Nat /\ \A f \in events : f.time \in Nat
    BY DEF IInv, TypeOK, EventRecord
  <1>2. e.time >= now
    BY DEF IInv, EventsAreSound, NothingInThePast
  <1> QED BY <1>1, <1>2 DEF Pops, Polling, IsFirst

(* Such a step keeps the invariant if it chooses a sound action and phase.  *)
LEMMA PopStep ==
    ASSUME IInv, NEW e \in events, Pops(e), events' = events \ {e},
           UNCHANGED <<nextJob, jobs, running, queue, busy, seq, active, pending>>,
           level' \in Levels,
           metrics' \in [total: Nat, completed: Nat, missed: Nat, preemptions: Nat],
           trig' \in [gen: Nat, at: Nat \cup {Unset}],
           tick' \in [gen: Nat, at: Nat \cup {Unset}, next: Nat \cup {Unset}],
           act' \in ActRecord, ActionIsSound',
           phase' \in PhaseRecord, PhaseIsSound', ClockIsSound'
    PROVE  IInv'
  <1>1. Placement'
    BY PopBasics, PlacementFrame DEF IInv
  <1>2. EventsAreSound'
    <2>1. EventsFollow
      BY PopBasics DEF EventsFollow
    <2> QED BY <2>1, EventsStaySound DEF IInv
  <1>3. TypeOK'
    BY PopBasics DEF IInv, TypeOK, JobIds
  <1> QED BY <1>1, <1>2, <1>3 DEF IInv

(* The last step of executing an action.                                    *)
LEMMA ActionDone ==
    ASSUME IInv, act.op # "none", act' = NoAction,
           UNCHANGED <<now, level, nextJob, trig, tick, metrics, phase>>,
           jobs' \in [JobIds -> JobRecord],
           running' \in [DeviceIds -> JobIds \cup {NoJob}],
           queue' \in [DeviceIds -> SUBSET JobIds],
           busy' \in [DeviceIds -> Nat],
           events' \subseteq EventRecord,
           seq' \in Nat,
           active' \subseteq [job: JobIds, bus: BusIds \cup {NoBus}],
           pending' \subseteq [job: JobIds, dev: DeviceIds, ver: Nat, bus: BusIds, stamp: Nat],
           Placement', EventsAreSound'
    PROVE  IInv'
  <1>1. act' \in ActRecord /\ ActionIsSound'
    BY NoActionIsSound
  <1>2. phase' \in PhaseRecord /\ PhaseIsSound'
    BY SamePhase
  <1>3. TypeOK'
    BY <1>1, <1>2 DEF IInv, TypeOK, JobIds
  <1>4. ClockIsSound'
    BY DEF IInv, ClockIsSound
  <1> QED BY <1>1, <1>2, <1>3, <1>4 DEF IInv

-----------------------------------------------------------------------------
(* One lemma per action                                                     *)

(* A terminal job is not dispatched.                                        *)
LEMMA DispatchTerminalInv == IInv /\ DispatchTerminal => IInv'
  <1> SUFFICES ASSUME IInv, DispatchTerminal PROVE IInv'
    OBVIOUS
  <1>1. act' \in ActRecord /\ ActionIsSound'
    BY NoActionIsSound DEF DispatchTerminal
  <1>2. phase' = phase
    BY DEF DispatchTerminal
  <1>3. act.op = "dispatch"
    BY DEF DispatchTerminal, Executing
  <1>4. phase' \in PhaseRecord /\ PhaseIsSound'
    BY <1>2, <1>3, SamePhase DEF DispatchTerminal, jobVars
  <1> QED BY <1>1, <1>2, <1>4, DecisionInv DEF DispatchTerminal

(* On a busy device the job waits instead.                                  *)
LEMMA DispatchBusyInv == IInv /\ DispatchBusy => IInv'
  <1> SUFFICES ASSUME IInv, DispatchBusy PROVE IInv'
    OBVIOUS
  <1>0. /\ act.op = "dispatch" /\ phase' = phase
        /\ UNCHANGED <<nextJob, jobs, events, queue, running>>
    BY DEF DispatchBusy, Executing, jobVars, eventVars, deviceVars
  <1>1. Placeable(act.job, act.dev) /\ ~Queued(act.job)
    BY <1>0 DEF IInv, ActionIsSound, SoundAction, DispatchBusy
  <1>2. act.job \in JobIds /\ act.dev \in DeviceIds /\ act.job \in Nat
    BY <1>1, JobIdsAreNat DEF Placeable, IInv
  <1>3. act' \in ActRecord /\ ActionIsSound'
    <2>1. CASE act' = NoAction
      BY <2>1, NoActionIsSound
    <2>2. CASE act' = Enqueue(act.job, act.dev)
      <3>1. act' \in ActRecord /\ act'.op = "enqueue" /\ act'.job = act.job /\ act'.dev = act.dev
        BY <1>2, <2>2, EnqueueFields
      <3>2. SoundAction(act')
        BY <1>1, <3>1 DEF SoundAction
      <3>3. SoundAction(act)'
        BY <1>0, <3>2, SoundActionFrame
      <3> QED BY <3>1, <3>3 DEF ActionIsSound
    <2> QED BY <2>1, <2>2 DEF DispatchBusy
  <1>4. phase' \in PhaseRecord /\ PhaseIsSound'
    BY <1>0, SamePhase
  <1> QED BY <1>0, <1>3, <1>4, DecisionInv DEF DispatchBusy

(* Where the device cannot be preempted now, the other job waits.           *)
LEMMA PreemptDeferredInv == IInv /\ PreemptDeferred => IInv'
  <1> SUFFICES ASSUME IInv, PreemptDeferred PROVE IInv'
    OBVIOUS
  <1>0. /\ act.op = "preempt" /\ phase' = phase
        /\ act' = Enqueue(act.by, act.dev)
        /\ UNCHANGED <<nextJob, jobs, events, queue, running>>
    BY DEF PreemptDeferred, Executing, jobVars, eventVars, deviceVars
  <1>1. Placeable(act.by, act.dev) /\ ~Queued(act.by)
    BY <1>0 DEF IInv, ActionIsSound, SoundAction, PreemptDeferred
  <1>2. act.by \in Nat /\ act.dev \in DeviceIds
    BY <1>1, JobIdsAreNat DEF Placeable, IInv
  <1>3. act' \in ActRecord /\ act'.op = "enqueue" /\ act'.job = act.by /\ act'.dev = act.dev
    BY <1>0, <1>2, EnqueueFields
  <1>4. SoundAction(act')
    BY <1>1, <1>3 DEF SoundAction
  <1>5. ActionIsSound'
    BY <1>0, <1>4, SoundActionFrame DEF ActionIsSound
  <1> QED BY <1>0, <1>3, <1>5, SamePhase, DecisionInv DEF PreemptDeferred

(* The scheduler may drop any job it sees.                                  *)
LEMMA DropIsSound ==
    ASSUME IInv, NEW j \in JobIds
    PROVE  Drop(j) \in ActRecord /\ SoundAction(Drop(j))
  BY DropFields, JobIdsAreNat DEF SoundAction, IInv

(* The scheduler's own drops at a criticality switch.                       *)
LEMMA SchedulerDropsLoInv ==
    ASSUME IInv, NEW j \in JobIds, SchedulerDropsLo(j) PROVE IInv'
  <1>0. /\ act.op = "none" /\ phase' = phase /\ phase.op = "critical"
        /\ act' = Drop(j)
        /\ UNCHANGED <<nextJob, jobs, events, queue, running>>
    BY DEF SchedulerDropsLo, Continues, jobVars, eventVars, deviceVars
  <1>1. act' \in ActRecord /\ ActionIsSound'
    BY <1>0, DropIsSound, SoundActionFrame DEF ActionIsSound
  <1>2. phase' \in PhaseRecord /\ PhaseIsSound'
    BY <1>0 DEF IInv, TypeOK, PhaseIsSound
  <1> QED BY <1>0, <1>1, <1>2, DecisionInv DEF SchedulerDropsLo

(* They end.                                                                *)
LEMMA SchedulerDropsNoMoreInv == IInv /\ SchedulerDropsNoMore => IInv'
  <1> SUFFICES ASSUME IInv, SchedulerDropsNoMore PROVE IInv'
    OBVIOUS
  <1>0. act' = act /\ UNCHANGED <<nextJob, jobs, events, queue, running>>
    BY DEF SchedulerDropsNoMore, jobVars, eventVars, deviceVars
  <1>1. act' \in ActRecord /\ ActionIsSound'
    BY <1>0, SoundActionFrame DEF ActionIsSound, IInv, TypeOK
  <1>2. phase' \in PhaseRecord /\ phase'.op = "dropLo" /\ PhaseIsSound'
    BY NewPhase DEF SchedulerDropsNoMore, PhaseOps
  <1> QED BY <1>1, <1>2, DecisionInv DEF SchedulerDropsNoMore

(* The engine's own drops.                                                  *)
LEMMA DropLoJobsInv == IInv /\ DropLoJobs => IInv'
  <1> SUFFICES ASSUME IInv, DropLoJobs PROVE IInv'
    OBVIOUS
  <1>0. /\ act.op = "none" /\ phase.op = "dropLo"
        /\ UNCHANGED <<nextJob, jobs, events, queue, running>>
    BY DEF DropLoJobs, Continues, jobVars, eventVars, deviceVars
  <1>1. CASE UnfinishedLoJobs = {}
    <2>1. act' = act /\ phase' = Phase("idle", 0)
      BY <1>1 DEF DropLoJobs
    <2>2. act' \in ActRecord /\ ActionIsSound'
      BY <1>0, <2>1, SoundActionFrame DEF ActionIsSound, IInv, TypeOK
    <2>3. phase' \in PhaseRecord /\ phase'.op = "idle" /\ PhaseIsSound'
      BY <2>1, NewPhase DEF PhaseOps
    <2> QED BY <2>2, <2>3, DecisionInv DEF DropLoJobs
  <1>2. CASE UnfinishedLoJobs # {}
    <2>1. PICK j \in JobIds : act' = Drop(j) /\ phase' = phase
      BY <1>2 DEF DropLoJobs, FirstOf, UnfinishedLoJobs
    <2>2. act' \in ActRecord /\ ActionIsSound'
      BY <1>0, <2>1, DropIsSound, SoundActionFrame DEF ActionIsSound
    <2>3. phase' \in PhaseRecord /\ PhaseIsSound'
      BY <1>0, <2>1 DEF IInv, TypeOK, PhaseIsSound
    <2> QED BY <2>1, <2>2, <2>3, DecisionInv DEF DropLoJobs
  <1> QED BY <1>1, <1>2

(* An idle device with waiting jobs is offered to the scheduler.            *)
LEMMA DispatchIdleInv ==
    ASSUME IInv, phase.k \in DeviceIds, NEW a \in IdleActions(phase.k), DispatchIdle(a)
    PROVE  IInv'
  <1>0. /\ act.op = "none" /\ phase.op = "idle"
        /\ act' = a /\ phase' = Phase("idle", phase.k + 1)
        /\ UNCHANGED <<nextJob, jobs, events, queue, running>>
    BY DEF DispatchIdle, Continues, jobVars, eventVars, deviceVars
  <1>1. a \in ActRecord /\ SoundAction(a)
    <2>1. CASE a = NoAction
      BY <2>1 DEF SoundAction, NoAction, ActRecord, NoJob, NoDevice
    <2>2. CASE a # NoAction
      <3>1. PICK q \in queue[phase.k] : a = Dispatch(q, phase.k, 0) /\ running[phase.k] = NoJob
        BY <2>2 DEF IdleActions, FreeActions
      <3>2. q \in Nat /\ Placeable(q, phase.k)
        BY QueuedIsPlaceable
      <3>3. a \in ActRecord /\ a.op = "dispatch" /\ a.job = q /\ a.dev = phase.k
        BY <3>1, <3>2, DispatchFields
      <3> QED BY <3>1, <3>2, <3>3 DEF SoundAction
    <2> QED BY <2>1, <2>2
  <1>2. act' \in ActRecord /\ ActionIsSound'
    BY <1>0, <1>1, SoundActionFrame DEF ActionIsSound
  <1>3. phase.k + 1 \in Nat
    BY DEF IInv, TypeOK, PhaseRecord
  <1>4. phase' \in PhaseRecord /\ phase'.op = "idle" /\ PhaseIsSound'
    BY <1>0, <1>3, NewPhase DEF PhaseOps
  <1> QED BY <1>2, <1>4, DecisionInv DEF DispatchIdle

(* All devices have been offered.                                           *)
LEMMA DispatchIdleDoneInv == IInv /\ DispatchIdleDone => IInv'
  <1> SUFFICES ASSUME IInv, DispatchIdleDone PROVE IInv'
    OBVIOUS
  <1>0. act' = act /\ UNCHANGED <<nextJob, jobs, events, queue, running>>
    BY DEF DispatchIdleDone, jobVars, eventVars, deviceVars
  <1>1. act' \in ActRecord /\ ActionIsSound'
    BY <1>0, SoundActionFrame DEF ActionIsSound, IInv, TypeOK
  <1>2. phase' \in PhaseRecord /\ phase'.op = "trigger" /\ PhaseIsSound'
    BY NewPhase DEF DispatchIdleDone, PhaseOps, Trigger
  <1> QED BY <1>1, <1>2, DecisionInv DEF DispatchIdleDone

(* A reevaluation replaces a running job by a queued one.                   *)
LEMMA ReevaluateInv ==
    ASSUME IInv, phase.k \in DeviceIds, NEW a \in ReevaluationActions(phase.k), Reevaluate(a)
    PROVE  IInv'
  <1>0. /\ act.op = "none" /\ phase.op \in {"reevaluate", "reevaluateTick"}
        /\ act' = a /\ phase' = [phase EXCEPT !.k = phase.k + 1]
        /\ UNCHANGED <<nextJob, jobs, events, queue, running>>
    BY DEF Reevaluate, Reevaluating, jobVars, eventVars, deviceVars
  <1>1. a \in ActRecord /\ SoundAction(a)
    <2>1. CASE a = NoAction
      BY <2>1 DEF SoundAction, NoAction, ActRecord, NoJob, NoDevice
    <2>2. CASE a # NoAction
      <3>1. PICK q \in queue[phase.k] :
               /\ a = Preempt(running[phase.k], q, phase.k, FALSE)
               /\ running[phase.k] # NoJob
               /\ Device[phase.k].preemption = "Fully"
        BY <2>2 DEF ReevaluationActions
      <3>2. q \in Nat /\ Placeable(q, phase.k)
        BY QueuedIsPlaceable
      <3>3. running[phase.k] \in JobIds /\ running[phase.k] \in Nat
        BY <3>1, RunningJob
      <3>4. /\ a \in ActRecord /\ a.op = "preempt" /\ a.job = running[phase.k]
            /\ a.by = q /\ a.dev = phase.k
        BY <3>1, <3>2, <3>3, PreemptFields DEF Preempt, NoAction, ActRecord, NoJob, NoDevice
      <3>5. AllowsPreemption(a.dev, a.atPoint)
        BY <3>1, <3>4 DEF AllowsPreemption
      <3> QED BY <3>2, <3>3, <3>4, <3>5 DEF SoundAction
    <2> QED BY <2>1, <2>2
  <1>2. act' \in ActRecord /\ ActionIsSound'
    BY <1>0, <1>1, SoundActionFrame DEF ActionIsSound
  <1>3. phase.k + 1 \in Nat /\ phase \in PhaseRecord
    BY DEF IInv, TypeOK, PhaseRecord
  <1>4. phase' \in PhaseRecord /\ phase'.op = phase.op
    BY <1>0, <1>3 DEF PhaseRecord
  <1>5. PhaseIsSound'
    BY <1>0, <1>4 DEF PhaseIsSound
  <1> QED BY <1>2, <1>4, <1>5, DecisionInv DEF Reevaluate

(* After the end nothing changes.                                           *)
LEMMA StutterInv == IInv /\ UNCHANGED vars => IInv'
  <1> SUFFICES ASSUME IInv, UNCHANGED vars PROVE IInv'
    OBVIOUS
  <1>0. /\ UNCHANGED <<act, phase>>
        /\ UNCHANGED <<nextJob, jobs, events, queue, running>>
    BY DEF vars, jobVars, eventVars, deviceVars
  <1>1. act' \in ActRecord /\ ActionIsSound'
    BY <1>0, SoundActionFrame DEF ActionIsSound, IInv, TypeOK
  <1>2. phase' \in PhaseRecord /\ PhaseIsSound'
    BY <1>0, SamePhase
  <1> QED BY <1>0, <1>1, <1>2, DecisionInv DEF vars

(* A preempted job waits in the queue of its device, its old events dead.   *)
LEMMA PreemptNowInv == IInv /\ PreemptNow => IInv'
  <1> SUFFICES ASSUME IInv, PreemptNow PROVE IInv'
    OBVIOUS
  <1> PICK v : v = act.job
    OBVIOUS
  <1> PICK d : d = act.dev
    OBVIOUS
  <1> PICK b : b = act.by
    OBVIOUS
  <1>0. act.op = "preempt" /\ running[d] = v
    BY DEF PreemptNow, Executing
  <1>1. v \in JobIds /\ Placeable(b, d)
    BY <1>0 DEF IInv, ActionIsSound, SoundAction
  <1>2. d \in DeviceIds /\ b \in JobIds /\ b \in Nat /\ v # NoJob
    BY <1>1, JobIdsAreNat DEF IInv, Placeable, JobIds, NoJob
  <1>3. /\ jobs[v] \in JobRecord
        /\ jobs[v].state = "Running"
        /\ jobs[v].dev = d
        /\ jobs[v].start \in 0 .. now
        /\ NotArriving(v)
        /\ \A c \in DeviceIds : running[c] = v => c = d
        /\ \A c \in DeviceIds : v \notin queue[c]
        /\ now \in Nat
    <2>1. now \in Nat
      BY DEF IInv, TypeOK
    <2> QED BY <2>1, <1>0, <1>2, RunningJob
  <1>4. ModelFor(jobs[v].task, Device[d].type) # {}
    BY <1>1, <1>3 DEF IInv, EventsAreSound, StartedJobsHaveModels
  <1> PICK p : p = Progressed(jobs[v], d, now)
    OBVIOUS
  <1> PICK r : r = Transition(p, "Suspended")
    OBVIOUS
  <1>5. p \in JobRecord /\ p.ver = jobs[v].ver /\ p.dev = d /\ p.task = jobs[v].task
    BY <1>2, <1>3, ProgressedLemma
  <1>6. /\ r \in JobRecord
        /\ r.state = "Suspended"
        /\ r.ver > jobs[v].ver
        /\ r.dev = d
        /\ r.task = jobs[v].task
    <2>1. "Suspended" \in JobStates
      BY DEF JobStates
    <2>2. jobs[v].ver \in Nat
      BY <1>3 DEF JobRecord
    <2> QED BY <2>1, <2>2, <1>5, TransitionLemma
  <1>7. /\ jobs' = [jobs EXCEPT ![v] = r]
        /\ busy' = [busy EXCEPT ![d] = busy[d] + (now - jobs[v].start)]
        /\ running' = [running EXCEPT ![d] = NoJob]
        /\ queue' = [queue EXCEPT ![d] = queue[d] \cup {v}]
        /\ act' = Dispatch(b, d, PreemptionPenalty(d))
        /\ metrics' = [metrics EXCEPT !.preemptions = metrics.preemptions + 1]
    BY DEF PreemptNow
  <1>8. UNCHANGED <<now, level, nextJob, events, seq, active, pending, trig, tick, phase>>
    BY DEF PreemptNow, eventVars, transferVars, reevalVars
  <1>9. /\ jobs' \in [JobIds -> JobRecord]
        /\ jobs'[v] = r
        /\ \A k \in JobIds : k # v => jobs'[k] = jobs[k]
        /\ \A k \in JobIds : jobs'[k] = jobs[k] \/ (jobs'[k] \in JobRecord /\ MovesOn(k))
    <2>1. BecomesRecord(v, r)
      BY <1>2, <1>3, <1>4, <1>6, <1>7 DEF BecomesRecord
    <2> QED BY <1>1, <1>6, <2>1, JobMovesOn
  <1>10. EventsAreSound'
    <2>1. EventsFollow
      BY <1>8, <1>9 DEF EventsFollow, IInv, EventsAreSound, NothingInThePast
    <2> QED BY <2>1, EventsStaySound DEF IInv
  <1>11. running \in [DeviceIds -> JobIds \cup {NoJob}] /\ queue \in [DeviceIds -> SUBSET JobIds]
    BY DEF IInv, TypeOK
  <1>12. Placement'
    <2>1. now' \in Nat /\ now' >= now
      BY <1>3, <1>8
    <2>2. \A c \in DeviceIds :
              running'[c] = IF r.state = "Running" /\ r.dev = c THEN v
                            ELSE IF running[c] = v THEN NoJob ELSE running[c]
      BY <1>0, <1>3, <1>6, <1>7, <1>11
    <2>3. /\ \A c \in DeviceIds : \A j \in JobIds : j # v => (j \in queue'[c] <=> j \in queue[c])
          /\ \A c \in DeviceIds : queue'[c] \subseteq JobIds
          /\ \A c \in DeviceIds : v \in queue'[c] => r.dev = c
          /\ v \in queue'[d]
      BY <1>1, <1>2, <1>3, <1>6, <1>7, <1>11
    <2>4. SlotsFollow(v, r) /\ QueuesFollow(v, r)
      BY <1>2, <1>6, <2>2, <2>3 DEF SlotsFollow, QueuesFollow
    <2> QED BY <1>1, <1>6, <1>7, <1>8, <2>1, <2>4, PlacementStays DEF IInv
  <1>13. TypeOK'
    <2>1. busy' \in [DeviceIds -> Nat]
      <3>1. now - jobs[v].start \in Nat
        BY <1>3
      <3> QED BY <3>1, <1>2, <1>7 DEF IInv, TypeOK
    <2>2. running' \in [DeviceIds -> JobIds \cup {NoJob}] /\ queue' \in [DeviceIds -> SUBSET JobIds]
      BY <1>1, <1>2, <1>7, <1>11
    <2>3. act' \in ActRecord
      BY <1>2, <1>7, DispatchFields, PreemptionPenaltyNat
    <2>4. metrics' \in [total: Nat, completed: Nat, missed: Nat, preemptions: Nat]
      BY <1>7 DEF IInv, TypeOK
    <2> QED BY <1>8, <1>9, <2>1, <2>2, <2>3, <2>4 DEF IInv, TypeOK, JobIds
  <1>14. ActionIsSound'
    <2>1. act'.op = "dispatch" /\ act'.job = b /\ act'.dev = d
      BY <1>2, <1>7, DispatchFields, PreemptionPenaltyNat
    <2>2. running'[d] = NoJob
      BY <1>2, <1>7, <1>11
    <2>3. Placeable(b, d)'
      <3>1. CASE b = v
        BY <3>1, <1>1, <1>2, <1>3 DEF Placeable, IsTerminal, TerminalStates
      <3>2. CASE b # v
        <4>1. jobs'[b] = jobs[b]
          BY <3>2, <1>2, <1>9
        <4>2. \A c \in DeviceIds : b \in queue'[c] => b \in queue[c]
          BY <3>2, <1>2, <1>7, <1>11
        <4> QED BY <4>1, <4>2, <1>1, <1>8 DEF Placeable, IsTerminal, NotArriving, JobIds
      <3> QED BY <3>1, <3>2
    <2> QED BY <2>1, <2>2, <2>3 DEF ActionIsSound, SoundAction, Placeable, Queued, NotArriving, IsTerminal
  <1>15. PhaseIsSound'
    BY <1>0, <1>8, SamePhase
  <1>16. ClockIsSound'
    BY <1>8 DEF IInv, ClockIsSound
  <1> QED BY <1>10, <1>12, <1>13, <1>14, <1>15, <1>16 DEF IInv

(* An enqueued job is ready on its device, in one queue.                    *)
LEMMA EnqueueJobInv == IInv /\ EnqueueJob => IInv'
  <1> SUFFICES ASSUME IInv, EnqueueJob PROVE IInv'
    OBVIOUS
  <1> PICK j : j = act.job
    OBVIOUS
  <1> PICK d : d = act.dev
    OBVIOUS
  <1>0. act.op = "enqueue" /\ act' = NoAction
    BY DEF EnqueueJob, Executing
  <1>1. Placeable(j, d) /\ ~Queued(j)
    BY <1>0 DEF IInv, ActionIsSound, SoundAction
  <1>2. /\ UNCHANGED <<now, level, nextJob, events, seq, active, pending, trig, tick, phase>>
        /\ UNCHANGED <<running, busy, metrics>>
    BY DEF EnqueueJob, eventVars, transferVars, reevalVars
  <1>3. CASE IsTerminal(j)
    <2>1. UNCHANGED <<jobs, queue>>
      BY <1>3 DEF EnqueueJob
    <2>2. Placement' /\ EventsAreSound'
      BY <1>2, <2>1, PlacementFrame, EventsStaySound
         DEF IInv, TypeOK, EventsFollow, EventsAreSound, NothingInThePast
    <2> QED BY <1>0, <1>2, <2>1, <2>2, ActionDone DEF IInv, TypeOK
  <1>4. CASE ~IsTerminal(j)
    <2>1. /\ j \in JobIds /\ d \in DeviceIds
          /\ jobs[j] \in JobRecord /\ jobs[j].ver \in Nat
          /\ jobs[j].state \in {"Released", "Ready", "Suspended"}
          /\ NotArriving(j)
          /\ \A c \in DeviceIds : running[c] # j
          /\ \A c \in DeviceIds : j \notin queue[c]
      BY <1>1, <1>4, WaitingJob DEF Queued
    <2> PICK p : p = Assigned(jobs[j], d, Unset)
      OBVIOUS
    <2> PICK r : r = Settle(p, "Ready")
      OBVIOUS
    <2>2. p \in JobRecord /\ p.ver = jobs[j].ver /\ p.state = jobs[j].state /\ p.dev = d
      <3>1. d \in DeviceIds /\ jobs[j] \in JobRecord /\ Unset \in Nat \cup {Unset}
        BY <2>1
      <3> QED BY <3>1, AssignedLemma
    <2>3. /\ r \in JobRecord
          /\ r.state = "Ready"
          /\ r.dev = d
          /\ r.ver = IF jobs[j].state = "Ready" THEN jobs[j].ver ELSE jobs[j].ver + 1
      <3>1. "Ready" \in JobStates
        BY DEF JobStates
      <3> QED BY <2>2, <3>1, SettleLemma
    <2>4. jobs' = [jobs EXCEPT ![j] = r] /\ queue' = [queue EXCEPT ![d] = queue[d] \cup {j}]
      BY <1>4 DEF EnqueueJob
    <2>5. /\ jobs' \in [JobIds -> JobRecord]
          /\ jobs'[j] = r
          /\ \A k \in JobIds : k # j => jobs'[k] = jobs[k]
          /\ \A k \in JobIds : jobs'[k] = jobs[k] \/ (jobs'[k] \in JobRecord /\ MovesOn(k))
      <3>1. BecomesRecord(j, r)
        BY <2>1, <2>3, <2>4 DEF BecomesRecord
      <3> QED BY <2>1, <2>3, <3>1, JobMovesOn
    <2>6. EventsAreSound'
      <3>1. EventsFollow
        BY <1>2, <2>5 DEF EventsFollow, IInv, EventsAreSound, NothingInThePast
      <3> QED BY <3>1, EventsStaySound DEF IInv
    <2>7. queue \in [DeviceIds -> SUBSET JobIds] /\ now \in Nat
      BY DEF IInv, TypeOK
    <2>8. Placement'
      <3>1. SlotsFollow(j, r) /\ QueuesFollow(j, r)
        BY <1>2, <2>1, <2>3, <2>4, <2>7 DEF SlotsFollow, QueuesFollow
      <3>2. now' \in Nat /\ now' >= now
        BY <1>2, <2>7
      <3> QED BY <1>2, <2>1, <2>3, <2>4, <3>1, <3>2, PlacementStays DEF IInv
    <2>9. queue' \in [DeviceIds -> SUBSET JobIds]
      BY <2>1, <2>4, <2>7
    <2> QED BY <1>0, <1>2, <2>5, <2>6, <2>8, <2>9, ActionDone DEF IInv, TypeOK
  <1> QED BY <1>3, <1>4

(* What the three ways of a dispatch onto a free device have in common.     *)
LEMMA DispatchBasics ==
    ASSUME IInv, MayDispatch
    PROVE  /\ act.op = "dispatch" /\ act' = NoAction
           /\ act.job \in JobIds /\ act.dev \in DeviceIds
           /\ jobs[act.job] \in JobRecord /\ jobs[act.job].ver \in Nat
           /\ jobs[act.job].task \in TaskIds
           /\ jobs[act.job].state \in {"Released", "Ready", "Suspended"}
           /\ NotArriving(act.job)
           /\ running[act.dev] = NoJob
           /\ \A c \in DeviceIds : running[c] # act.job
           /\ queue' \in [DeviceIds -> SUBSET JobIds]
           /\ \A c \in DeviceIds : \A k \in JobIds :
                 k # act.job => (k \in queue'[c] <=> k \in queue[c])
           /\ \A c \in DeviceIds : act.job \notin queue'[c]
           /\ running \in [DeviceIds -> JobIds \cup {NoJob}]
           /\ now \in Nat /\ level \in Levels /\ seq \in Nat
           /\ act.penalty \in Nat
  <1> PICK j : j = act.job
    OBVIOUS
  <1> PICK d : d = act.dev
    OBVIOUS
  <1>1. /\ act.op = "dispatch" /\ act' = NoAction /\ ~IsTerminal(j) /\ running[d] = NoJob
        /\ queue' = [queue EXCEPT ![d] = queue[d] \ {j}]
    BY DEF MayDispatch, Executing
  <1>2. Placeable(j, d)
    BY <1>1 DEF IInv, ActionIsSound, SoundAction
  <1>3. /\ j \in JobIds /\ d \in DeviceIds
        /\ jobs[j] \in JobRecord /\ jobs[j].ver \in Nat
        /\ jobs[j].state \in {"Released", "Ready", "Suspended"}
        /\ NotArriving(j)
        /\ \A c \in DeviceIds : running[c] # j
        /\ \A c \in DeviceIds : j \in queue[c] => c = d
    BY <1>1, <1>2, WaitingJob
  <1>4. /\ queue \in [DeviceIds -> SUBSET JobIds]
        /\ running \in [DeviceIds -> JobIds \cup {NoJob}]
        /\ now \in Nat /\ level \in Levels /\ seq \in Nat
        /\ act.penalty \in Nat
        /\ jobs[j].task \in TaskIds
    BY <1>3 DEF IInv, TypeOK, ActRecord, JobRecord
  <1>5. /\ queue' \in [DeviceIds -> SUBSET JobIds]
        /\ \A c \in DeviceIds : \A k \in JobIds : k # j => (k \in queue'[c] <=> k \in queue[c])
        /\ \A c \in DeviceIds : j \notin queue'[c]
    BY <1>1, <1>3, <1>4
  <1> QED BY <1>1, <1>3, <1>4, <1>5

(* A job without an execution-time model has never run: leaving the queue   *)
(* strands no suspended job.                                                *)
LEMMA DispatchWithoutModelInv == IInv /\ DispatchWithoutModel => IInv'
  <1> SUFFICES ASSUME IInv, DispatchWithoutModel PROVE IInv'
    OBVIOUS
  <1> PICK j : j = act.job
    OBVIOUS
  <1>1. MayDispatch /\ ExecTimes = {}
    BY DEF DispatchWithoutModel
  <1>2. /\ UNCHANGED <<now, level, nextJob, jobs, events, seq, active, pending, trig, tick, phase>>
        /\ UNCHANGED <<running, busy, metrics>>
    BY DEF DispatchWithoutModel, jobVars, eventVars, transferVars, reevalVars
  <1>3. ModelFor(jobs[j].task, Device[act.dev].type) = {}
    BY <1>1, DispatchBasics, SampleExecTimeExists DEF ExecTimes
  <1>4. EventsAreSound'
    BY <1>2, EventsStaySound DEF IInv, EventsFollow, EventsAreSound, NothingInThePast
  <1>5. jobs[j].state # "Suspended"
    <2> SUFFICES ASSUME jobs[j].state = "Suspended" PROVE FALSE
      OBVIOUS
    <2>1. j \in JobIds /\ jobs[j].dev \in DeviceIds /\ j \in queue[jobs[j].dev]
      BY <1>1, DispatchBasics DEF IInv, Placement, SuspendedJobsWait
    <2>2. ModelFor(jobs[j].task, Device[jobs[j].dev].type) # {}
      BY <2>1 DEF IInv, EventsAreSound, StartedJobsHaveModels
    <2>3. Placeable(j, act.dev) /\ ~IsTerminal(j)
      BY <1>1, DispatchBasics DEF IInv, ActionIsSound, SoundAction, MayDispatch
    <2>4. jobs[j].dev = act.dev
      BY <2>1, <2>3, WaitingJob
    <2> QED BY <1>3, <2>2, <2>4
  <1>6. Placement'
    <2> PICK r : r = jobs[j]
      OBVIOUS
    <2>1. jobs' = [jobs EXCEPT ![j] = r] /\ now' \in Nat /\ now' >= now
      BY <1>1, <1>2, DispatchBasics DEF IInv, TypeOK
    <2>2. SlotsFollow(j, r) /\ QueuesFollow(j, r)
      BY <1>1, <1>2, <1>5, DispatchBasics DEF SlotsFollow, QueuesFollow
    <2> QED BY <1>1, <1>2, <2>1, <2>2, DispatchBasics, PlacementStays DEF IInv
  <1> QED BY <1>1, <1>2, <1>4, <1>6, DispatchBasics, ActionDone DEF IInv, TypeOK

(* The size of a job's data is a number of bytes.                           *)
LEMMA DataSizeNat ==
    ASSUME TypeOK, NEW j \in JobIds
    PROVE  TaskOf(j).dataSize \in Nat
  <1>1. jobs[j].task \in TaskIds
    BY DEF TypeOK, JobRecord
  <1>2. Task[jobs[j].task] \in TaskRecord
    BY <1>1, PlatformAssumption
  <1> QED BY <1>2 DEF TaskOf, TaskRecord

(* A transfer that is started or made to wait is of the job's new version.  *)
LEMMA InitiateTransferSound ==
    ASSUME IInv, NEW j \in JobIds, NEW from, NEW to \in DeviceIds, NEW ver \in Nat,
           InitiateTransfer(j, from, to, ver), now' = now,
           jobs'[j].ver = ver, jobs'[j].state = "Transferring", jobs'[j].dev = to
    PROVE  /\ events' \subseteq EventRecord /\ seq' \in Nat
           /\ active' \subseteq [job: JobIds, bus: BusIds \cup {NoBus}]
           /\ pending' \subseteq [job: JobIds, dev: DeviceIds, ver: Nat, bus: BusIds, stamp: Nat]
           /\ \A e \in events' : (e \in events /\ e.time >= now') \/ MayBeScheduled(e)
           /\ \A p \in pending' : p \in pending \/ MayWait(p)
  <1>1. /\ events \subseteq EventRecord /\ seq \in Nat /\ now \in Nat
        /\ active \subseteq [job: JobIds, bus: BusIds \cup {NoBus}]
        /\ pending \subseteq [job: JobIds, dev: DeviceIds, ver: Nat, bus: BusIds, stamp: Nat]
        /\ \A e \in events : e.time >= now
        /\ j \in Nat
    BY JobIdsAreNat DEF IInv, TypeOK, EventsAreSound, NothingInThePast
  <1>2. ASSUME NEW t \in Nat, t >= now
        PROVE  /\ Event(t, seq, "TransferComplete", j, ver, to) \in EventRecord
               /\ MayBeScheduled(Event(t, seq, "TransferComplete", j, ver, to))
    <2> PICK e : e = Event(t, seq, "TransferComplete", j, ver, to)
      OBVIOUS
    <2>1. /\ "TransferComplete" \in EventKinds
          /\ j \in Nat \cup {NoJob} /\ to \in DeviceIds \cup {NoDevice}
      BY <1>1 DEF EventKinds, VersionedKinds
    <2>2. /\ e \in EventRecord /\ e.time = t /\ e.kind = "TransferComplete" /\ e.job = j
          /\ e.ver = ver /\ e.dev = to
      <3>1. seq \in Nat /\ t \in Nat /\ ver \in Nat
        BY <1>1
      <3> QED BY <2>1, <3>1, EventLemma
    <2> QED BY <1>2, <2>2 DEF MayBeScheduled, VersionedKinds
  <1>3. seq' = seq + 1
    BY DEF InitiateTransfer
  <1>4. CASE FindInterconnect(from, to) = {}
    <2>1. /\ events' = events \cup {Event(now, seq, "TransferComplete", j, ver, to)}
          /\ UNCHANGED <<active, pending>>
      BY <1>4 DEF InitiateTransfer, transferVars
    <2> QED BY <1>1, <1>2, <1>3, <2>1
  <1>5. CASE FindInterconnect(from, to) # {}
    <2>1. PICK link \in FindInterconnect(from, to) :
             IF link.bus # NoBus /\ \E a \in active : a.bus = link.bus
             THEN /\ pending' = pending \cup {[job |-> j, dev |-> to, ver |-> ver,
                                               bus |-> link.bus, stamp |-> seq]}
                  /\ UNCHANGED <<active, events>>
             ELSE /\ active' = active \cup {[job |-> j, bus |-> link.bus]}
                  /\ events' = events \cup
                       {Event(now + TransferTime(link, TaskOf(j).dataSize), seq,
                              "TransferComplete", j, ver, to)}
                  /\ UNCHANGED pending
      BY <1>5 DEF InitiateTransfer, BusBusy
    <2>2. link \in LinkRecord /\ link.bus \in BusIds \cup {NoBus}
      <3>1. link \in LinkRecord
        BY LinksAreLinks
      <3> QED BY <3>1 DEF LinkRecord
    <2>3. CASE link.bus # NoBus /\ \E a \in active : a.bus = link.bus
      <3> PICK q : q = [job |-> j, dev |-> to, ver |-> ver, bus |-> link.bus, stamp |-> seq]
        OBVIOUS
      <3>1. pending' = pending \cup {q} /\ UNCHANGED <<active, events>>
        BY <2>1, <2>3
      <3>2. q \in [job: JobIds, dev: DeviceIds, ver: Nat, bus: BusIds, stamp: Nat]
        BY <1>1, <2>2, <2>3
      <3>3. MayWait(q)
        BY DEF MayWait
      <3> QED BY <1>1, <1>3, <3>1, <3>2, <3>3
    <2>4. CASE ~(link.bus # NoBus /\ \E a \in active : a.bus = link.bus)
      <3> PICK t : t = now + TransferTime(link, TaskOf(j).dataSize)
        OBVIOUS
      <3>1. t \in Nat /\ t >= now
        <4>1. TransferTime(link, TaskOf(j).dataSize) \in Nat
          BY <2>2, DataSizeNat, TransferTimeNat DEF IInv
        <4> QED BY <4>1, <1>1
      <3>2. /\ active' = active \cup {[job |-> j, bus |-> link.bus]}
            /\ events' = events \cup {Event(t, seq, "TransferComplete", j, ver, to)}
            /\ UNCHANGED pending
        BY <2>1, <2>4
      <3>3. [job |-> j, bus |-> link.bus] \in [job: JobIds, bus: BusIds \cup {NoBus}]
        BY <2>2
      <3>4. /\ Event(t, seq, "TransferComplete", j, ver, to) \in EventRecord
            /\ MayBeScheduled(Event(t, seq, "TransferComplete", j, ver, to))
        BY <1>2, <3>1
      <3>5. active' \subseteq [job: JobIds, bus: BusIds \cup {NoBus}]
        BY <1>1, <3>2, <3>3
      <3> QED BY <1>1, <1>3, <3>2, <3>4, <3>5
    <2> QED BY <2>3, <2>4
  <1> QED BY <1>4, <1>5

(* A job whose data must first be moved.                                    *)
LEMMA DispatchTransferInv == IInv /\ DispatchTransfer => IInv'
  <1> SUFFICES ASSUME IInv, DispatchTransfer PROVE IInv'
    OBVIOUS
  <1> PICK j : j = act.job
    OBVIOUS
  <1> PICK d : d = act.dev
    OBVIOUS
  <1>1. MayDispatch
    BY DEF DispatchTransfer
  <1>2. UNCHANGED <<now, level, nextJob, trig, tick, metrics, phase, running, busy>>
    BY DEF DispatchTransfer, reevalVars
  <1>3. PICK x \in ExecTimes, source \in TransferSources(j, d) :
           LET r == Settle(Assigned(Resolved(jobs[j], x), d, Unset), "Transferring")
           IN /\ jobs' = [jobs EXCEPT ![j] = r]
              /\ InitiateTransfer(j, source, d, r.ver)
    BY DEF DispatchTransfer
  <1> PICK p : p = Resolved(jobs[j], x)
    OBVIOUS
  <1> PICK q : q = Assigned(p, d, Unset)
    OBVIOUS
  <1> PICK r : r = Settle(q, "Transferring")
    OBVIOUS
  <1>4. x \in Nat
    BY <1>1, DispatchBasics, SampleExecTimeNat DEF ExecTimes
  <1>5. /\ q \in JobRecord /\ q.state = jobs[j].state /\ q.ver = jobs[j].ver
        /\ q.dev = d
    <2>1. p \in JobRecord /\ p.state = jobs[j].state /\ p.ver = jobs[j].ver
      BY <1>1, <1>4, DispatchBasics, ResolvedLemma
    <2>2. d \in DeviceIds /\ Unset \in Nat \cup {Unset}
      BY <1>1, DispatchBasics
    <2> QED BY <2>1, <2>2, AssignedLemma
  <1>6. /\ r \in JobRecord /\ r.state = "Transferring" /\ r.dev = d
        /\ r.ver = jobs[j].ver + 1 /\ r.ver \in Nat
    <2>1. "Transferring" \in JobStates
      BY DEF JobStates
    <2>2. q.state # "Transferring" /\ q.ver \in Nat
      BY <1>1, <1>5, DispatchBasics
    <2> QED BY <1>5, <2>1, <2>2, SettleLemma
  <1>7. jobs' = [jobs EXCEPT ![j] = r] /\ InitiateTransfer(j, source, d, r.ver)
    BY <1>3
  <1>8. /\ jobs' \in [JobIds -> JobRecord]
        /\ jobs'[j] = r
        /\ \A k \in JobIds : jobs'[k] = jobs[k] \/ (jobs'[k] \in JobRecord /\ MovesOn(k))
    <2>1. BecomesRecord(j, r)
      BY <1>1, <1>6, <1>7, DispatchBasics DEF BecomesRecord
    <2> QED BY <1>1, <1>6, <2>1, DispatchBasics, JobMovesOn
  <1>9. /\ events' \subseteq EventRecord /\ seq' \in Nat
        /\ active' \subseteq [job: JobIds, bus: BusIds \cup {NoBus}]
        /\ pending' \subseteq [job: JobIds, dev: DeviceIds, ver: Nat, bus: BusIds, stamp: Nat]
        /\ \A e \in events' : (e \in events /\ e.time >= now') \/ MayBeScheduled(e)
        /\ \A w \in pending' : w \in pending \/ MayWait(w)
    BY <1>1, <1>2, <1>6, <1>7, <1>8, DispatchBasics, InitiateTransferSound
  <1>10. EventsAreSound'
    <2>1. EventsFollow
      BY <1>2, <1>8, <1>9 DEF EventsFollow
    <2> QED BY <2>1, EventsStaySound DEF IInv
  <1>11. Placement'
    <2>1. SlotsFollow(j, r) /\ QueuesFollow(j, r)
      BY <1>1, <1>2, <1>6, DispatchBasics DEF SlotsFollow, QueuesFollow
    <2>2. now' \in Nat /\ now' >= now
      BY <1>1, <1>2, DispatchBasics
    <2> QED BY <1>1, <1>2, <1>6, <1>7, <2>1, <2>2, DispatchBasics, PlacementStays DEF IInv
  <1> QED BY <1>1, <1>2, <1>8, <1>9, <1>10, <1>11, DispatchBasics, ActionDone DEF IInv, TypeOK

(* An event of a running job, of its current version and on its device.     *)
LEMMA RunningEventSound ==
    ASSUME NEW t \in Nat, NEW s \in Nat, NEW j \in JobIds, j \in Nat, NEW ver \in Nat,
           NEW d \in DeviceIds, t >= now',
           jobs'[j].ver = ver, jobs'[j].state = "Running", jobs'[j].dev = d
    PROVE  /\ Event(t, s, "JobComplete", j, ver, d) \in EventRecord
           /\ MayBeScheduled(Event(t, s, "JobComplete", j, ver, d))
           /\ Event(t, s, "BudgetOverrun", j, ver, NoDevice) \in EventRecord
           /\ MayBeScheduled(Event(t, s, "BudgetOverrun", j, ver, NoDevice))
           /\ Event(t, s, "PreemptionPoint", j, ver, d) \in EventRecord
           /\ HasPreemptionPoints(d) => MayBeScheduled(Event(t, s, "PreemptionPoint", j, ver, d))
  <1>1. /\ {"JobComplete", "BudgetOverrun", "PreemptionPoint"} \subseteq EventKinds
        /\ j \in Nat \cup {NoJob} /\ d \in DeviceIds \cup {NoDevice}
        /\ NoDevice \in DeviceIds \cup {NoDevice}
    BY DEF EventKinds, VersionedKinds
  <1>2. ASSUME NEW k \in {"JobComplete", "BudgetOverrun", "PreemptionPoint"},
               NEW c \in DeviceIds \cup {NoDevice}, NEW e, e = Event(t, s, k, j, ver, c),
               k # "BudgetOverrun" => c = d
        PROVE  e \in EventRecord /\ ((k = "PreemptionPoint" /\ ~HasPreemptionPoints(d)) \/ MayBeScheduled(e))
    <2>1. /\ e \in EventRecord /\ e.time = t /\ e.kind = k /\ e.job = j
          /\ e.ver = ver /\ e.dev = c
      <3>1. k \in EventKinds
        BY <1>1
      <3> QED BY <1>1, <1>2, <3>1 DEF Event, EventRecord
    <2> QED BY <1>2, <2>1 DEF MayBeScheduled, VersionedKinds
  <1> QED BY <1>1, <1>2

(* Everything a started job schedules is of its new version.                *)
LEMMA StartEventsSound ==
    ASSUME IInv, NEW j \in JobIds, NEW d \in DeviceIds, NEW r \in JobRecord, NEW penalty \in Nat,
           now' = now, jobs'[j] = r, r.state = "Running", r.dev = d,
           NEW e \in StartEvents(j, r, d, penalty)
    PROVE  e \in EventRecord /\ MayBeScheduled(e)
  <1> DEFINE left(b) == IF b > r.exec THEN b - r.exec ELSE 0
  <1> PICK start : start = ExecutionStart(now, d, penalty)
    OBVIOUS
  <1>1. /\ j \in Nat /\ now \in Nat /\ seq \in Nat
        /\ r.ver \in Nat /\ r.exec \in Nat /\ r.task \in TaskIds
    BY JobIdsAreNat DEF IInv, TypeOK, JobRecord
  <1>2. start \in Nat /\ start >= now
    BY <1>1, ExecutionStartNat
  <1>3. CASE e = Event(start + WorkToWall(Remaining(r), d), seq, "JobComplete", j, r.ver, d)
    <2> PICK t : t = start + WorkToWall(Remaining(r), d)
      OBVIOUS
    <2>1. WorkToWall(Remaining(r), d) \in Nat
      BY RemainingNat, WorkToWallNat
    <2>2. t \in Nat /\ t >= now'
      BY <1>1, <1>2, <2>1
    <2> QED BY <1>1, <1>3, <2>2, RunningEventSound
  <1>4. ASSUME NEW b \in LoWcet(r.task),
               e = Event(now + WorkToWall(left(b), d), seq + 1, "BudgetOverrun", j, r.ver, NoDevice)
        PROVE  e \in EventRecord /\ MayBeScheduled(e)
    <2> PICK t : t = now + WorkToWall(left(b), d)
      OBVIOUS
    <2>1. b \in Nat
      BY <1>1, LoWcetNat
    <2>2. left(b) \in Nat
      BY <1>1, <2>1
    <2>3. WorkToWall(left(b), d) \in Nat
      BY <2>2, WorkToWallNat
    <2>4. t \in Nat /\ t >= now' /\ seq + 1 \in Nat
      BY <1>1, <2>3
    <2> QED BY <1>1, <1>4, <2>4, RunningEventSound
  <1>5. CASE /\ HasPreemptionPoints(d)
             /\ e = Event(start + Device[d].interval, seq + 2, "PreemptionPoint", j, r.ver, d)
    <2> PICK t : t = start + Device[d].interval
      OBVIOUS
    <2>1. Device[d].interval \in Nat
      BY PlatformAssumption DEF DeviceRecord
    <2>2. t \in Nat /\ t >= now' /\ seq + 2 \in Nat
      BY <1>1, <1>2, <2>1
    <2> QED BY <1>1, <1>5, <2>2, RunningEventSound
  <1> QED BY <1>3, <1>4, <1>5 DEF StartEvents

(* A job that starts running: its slot, its version and its events agree.   *)
LEMMA DispatchRunInv == IInv /\ DispatchRun => IInv'
  <1> SUFFICES ASSUME IInv, DispatchRun PROVE IInv'
    OBVIOUS
  <1> PICK j : j = act.job
    OBVIOUS
  <1> PICK d : d = act.dev
    OBVIOUS
  <1>1. MayDispatch
    BY DEF DispatchRun
  <1>2. UNCHANGED <<now, level, nextJob, trig, tick, metrics, phase, busy, active, pending>>
    BY DEF DispatchRun, reevalVars, transferVars
  <1>3. PICK x \in ExecTimes :
           LET r == Transition(Assigned(Resolved(jobs[j], x), d, now), "Running")
           IN /\ jobs' = [jobs EXCEPT ![j] = r]
              /\ running' = [running EXCEPT ![d] = j]
              /\ events' = events \cup StartEvents(j, r, d, act.penalty)
              /\ seq' = seq + 3
    BY DEF DispatchRun
  <1> PICK p : p = Resolved(jobs[j], x)
    OBVIOUS
  <1> PICK q : q = Assigned(p, d, now)
    OBVIOUS
  <1> PICK r : r = Transition(q, "Running")
    OBVIOUS
  <1>4. x \in Nat
    BY <1>1, DispatchBasics, SampleExecTimeNat DEF ExecTimes
  <1>5. /\ q \in JobRecord /\ q.ver = jobs[j].ver /\ q.dev = d /\ q.start = now
        /\ q.task = jobs[j].task
    <2>1. p \in JobRecord /\ p.ver = jobs[j].ver /\ p.task = jobs[j].task
      BY <1>1, <1>4, DispatchBasics, ResolvedLemma
    <2>2. d \in DeviceIds /\ now \in Nat \cup {Unset}
      BY <1>1, DispatchBasics
    <2> QED BY <2>1, <2>2, AssignedLemma
  <1>6. /\ r \in JobRecord /\ r.state = "Running" /\ r.dev = d /\ r.start = now
        /\ r.ver = jobs[j].ver + 1 /\ r.ver \in Nat /\ r.task = jobs[j].task /\ r.exec \in Nat
    <2>1. "Running" \in JobStates
      BY DEF JobStates
    <2>2. /\ r \in JobRecord /\ r.state = "Running" /\ r.dev = d /\ r.start = now
          /\ r.ver = jobs[j].ver + 1 /\ r.task = jobs[j].task
      BY <1>5, <2>1, TransitionLemma
    <2>3. r.ver \in Nat /\ r.exec \in Nat
      BY <2>2 DEF JobRecord
    <2> QED BY <2>2, <2>3
  <1>7. /\ jobs' = [jobs EXCEPT ![j] = r]
        /\ running' = [running EXCEPT ![d] = j]
        /\ events' = events \cup StartEvents(j, r, d, act.penalty)
        /\ seq' = seq + 3
    BY <1>3
  <1>8. /\ jobs' \in [JobIds -> JobRecord]
        /\ jobs'[j] = r
        /\ \A k \in JobIds : jobs'[k] = jobs[k] \/ (jobs'[k] \in JobRecord /\ MovesOn(k))
    <2>1. ModelFor(r.task, Device[d].type) # {}
      BY <1>6 DEF ExecTimes, SampleExecTime
    <2>2. BecomesRecord(j, r)
      BY <1>1, <1>6, <1>7, <2>1, DispatchBasics DEF BecomesRecord
    <2> QED BY <1>1, <1>6, <2>2, DispatchBasics, JobMovesOn
  <1>9. j \in JobIds /\ j \in Nat /\ d \in DeviceIds /\ now \in Nat /\ seq \in Nat
        /\ act.penalty \in Nat /\ r.task \in TaskIds
    BY <1>1, <1>6, DispatchBasics, JobIdsAreNat DEF IInv
  <1>10. /\ events' \subseteq EventRecord
         /\ \A e \in events' : (e \in events /\ e.time >= now') \/ MayBeScheduled(e)
    <2>1. events \subseteq EventRecord /\ \A e \in events : e.time >= now'
      BY <1>2 DEF IInv, TypeOK, EventsAreSound, NothingInThePast
    <2> QED BY <1>1, <1>2, <1>6, <1>7, <1>8, <1>9, <2>1, StartEventsSound
  <1>11. EventsAreSound'
    <2>1. EventsFollow
      BY <1>2, <1>8, <1>10 DEF EventsFollow
    <2> QED BY <2>1, EventsStaySound DEF IInv
  <1>12. running' \in [DeviceIds -> JobIds \cup {NoJob}]
    BY <1>1, <1>7, <1>9, DispatchBasics
  <1>13. Placement'
    <2>1. SlotsFollow(j, r)
      BY <1>1, <1>2, <1>6, <1>7, DispatchBasics DEF SlotsFollow
    <2>2. QueuesFollow(j, r)
      BY <1>1, <1>6, DispatchBasics DEF QueuesFollow
    <2>3. now' \in Nat /\ now' >= now
      BY <1>2, <1>9
    <2> QED BY <1>1, <1>2, <1>6, <1>7, <2>1, <2>2, <2>3, DispatchBasics, PlacementStays DEF IInv
  <1>14. seq' \in Nat
    BY <1>7, <1>9
  <1> QED BY <1>1, <1>2, <1>8, <1>10, <1>11, <1>12, <1>13, <1>14, DispatchBasics, ActionDone DEF IInv, TypeOK

(* A transfer that starts when its bus becomes free, or waits on, is as     *)
(* meant as it was when it was requested.                                   *)
LEMMA ReleaseBusSound ==
    ASSUME IInv, NEW gone, NEW waiting, waiting \subseteq pending,
           NEW rest, rest \subseteq events, NEW t \in Nat,
           ReleaseBus(gone, waiting, rest, t), now' = t,
           \A k \in JobIds : jobs'[k] = jobs[k] \/ (jobs'[k] \in JobRecord /\ MovesOn(k))
    PROVE  /\ events' \subseteq EventRecord /\ seq' \in Nat
           /\ active' \subseteq [job: JobIds, bus: BusIds \cup {NoBus}]
           /\ pending' \subseteq [job: JobIds, dev: DeviceIds, ver: Nat, bus: BusIds, stamp: Nat]
           /\ pending' \subseteq pending
           /\ \A e \in events' : e \in rest \/ MayBeScheduled(e)
  <1>1. /\ events \subseteq EventRecord /\ seq \in Nat
        /\ active \subseteq [job: JobIds, bus: BusIds \cup {NoBus}]
        /\ pending \subseteq [job: JobIds, dev: DeviceIds, ver: Nat, bus: BusIds, stamp: Nat]
    BY DEF IInv, TypeOK
  <1> PICK next \in SUBSET waiting, started \in SUBSET waiting :
           /\ pending' = waiting \ next
           /\ active' = (active \ gone) \cup {[job |-> p.job, bus |-> p.bus] : p \in started}
           /\ events' = rest \cup UNION {{Event(t + TransferTime(link, TaskOf(p.job).dataSize), seq,
                              "TransferComplete", p.job, p.ver, p.dev) :
                                 link \in LinkOnBus(p.bus, p.dev)} : p \in next}
           /\ seq' = seq + 1
    BY ZenonT(30) DEF ReleaseBus
  <1>2. ASSUME NEW p \in next, NEW link \in LinkOnBus(p.bus, p.dev), NEW e,
               e = Event(t + TransferTime(link, TaskOf(p.job).dataSize), seq,
                         "TransferComplete", p.job, p.ver, p.dev)
        PROVE  e \in EventRecord /\ MayBeScheduled(e)
    <2>1. /\ p \in pending /\ p.job \in JobIds /\ p.job \in Nat /\ p.dev \in DeviceIds
          /\ p.ver \in Nat
      BY <1>1, JobIdsAreNat DEF IInv
    <2>2. link \in LinkRecord
      BY LinksAreLinks
    <2>3. TransferTime(link, TaskOf(p.job).dataSize) \in Nat
      BY <2>1, <2>2, DataSizeNat, TransferTimeNat DEF IInv
    <2> PICK u : u = t + TransferTime(link, TaskOf(p.job).dataSize)
      OBVIOUS
    <2>4. u \in Nat /\ u >= t
      BY <2>3
    <2>5. /\ e \in EventRecord /\ e.time = u /\ e.kind = "TransferComplete" /\ e.job = p.job
          /\ e.ver = p.ver /\ e.dev = p.dev
      BY <1>1, <1>2, <2>1, <2>4 DEF Event, EventRecord, EventKinds, VersionedKinds
    <2>6. /\ p.ver <= jobs[p.job].ver
          /\ p.ver = jobs[p.job].ver =>
                jobs[p.job].state = "Transferring" /\ jobs[p.job].dev = p.dev
      BY <2>1 DEF IInv, EventsAreSound, WaitingTransfersAreMeant
    <2>7. jobs[p.job].ver \in Nat /\ jobs'[p.job].ver \in Nat
      BY <2>1 DEF IInv, TypeOK, JobRecord
    <2>8. /\ p.ver <= jobs'[p.job].ver
          /\ p.ver = jobs'[p.job].ver =>
                jobs'[p.job].state = "Transferring" /\ jobs'[p.job].dev = p.dev
      BY <2>1, <2>6, <2>7 DEF MovesOn
    <2> QED BY <2>1, <2>4, <2>5, <2>8 DEF MayBeScheduled, VersionedKinds
  <1>3. \A e \in events' : e \in rest \/ (e \in EventRecord /\ MayBeScheduled(e))
    BY <1>2
  <1>4. \A p \in started : [job |-> p.job, bus |-> p.bus] \in [job: JobIds, bus: BusIds \cup {NoBus}]
    BY <1>1
  <1>5. active' \subseteq [job: JobIds, bus: BusIds \cup {NoBus}]
    BY <1>1, <1>4
  <1> QED BY SMTT(30), <1>1, <1>3, <1>5

(* A job that is dropped or misses its deadline is in no slot and no queue  *)
(* any more.                                                                *)
LEMMA RetireSound ==
    ASSUME IInv, NEW j \in JobIds, NEW state \in TerminalStates, NEW t \in Nat,
           Retire(j, state, t), t >= now, now' = t, nextJob' = nextJob
    PROVE  /\ jobs' \in [JobIds -> JobRecord]
           /\ jobs'[j].state \in TerminalStates
           /\ \A k \in JobIds : k # j => jobs'[k] = jobs[k]
           /\ \A k \in JobIds : jobs'[k] = jobs[k] \/ (jobs'[k] \in JobRecord /\ MovesOn(k))
           /\ running' \in [DeviceIds -> JobIds \cup {NoJob}]
           /\ \A d \in DeviceIds : running'[d] = IF running[d] = j THEN NoJob ELSE running[d]
           /\ queue' \in [DeviceIds -> SUBSET JobIds]
           /\ \A d \in DeviceIds : queue'[d] = queue[d] \ {j}
           /\ busy' \in [DeviceIds -> Nat]
           /\ Placement'
  <1>1. /\ jobs \in [JobIds -> JobRecord] /\ now \in Nat
        /\ running \in [DeviceIds -> JobIds \cup {NoJob}]
        /\ queue \in [DeviceIds -> SUBSET JobIds]
        /\ busy \in [DeviceIds -> Nat]
        /\ jobs[j] \in JobRecord /\ jobs[j].ver \in Nat
    BY DEF IInv, TypeOK, JobRecord
  <1>2. /\ running' = [d \in DeviceIds |-> IF running[d] = j THEN NoJob ELSE running[d]]
        /\ queue' = [d \in DeviceIds |-> queue[d] \ {j}]
        /\ busy' = [d \in DeviceIds |-> IF running[d] = j THEN busy[d] + (t - jobs[j].start) ELSE busy[d]]
    BY DEF Retire
  <1> PICK stopped : stopped = IF \E d \in DeviceIds : running[d] = j
                               THEN Progressed(jobs[j], jobs[j].dev, t)
                               ELSE [jobs[j] EXCEPT !.start = Unset]
    OBVIOUS
  <1> PICK r : r = IF IsTerminal(j) THEN jobs[j] ELSE Transition(stopped, state)
    OBVIOUS
  <1>3. jobs' = [jobs EXCEPT ![j] = r]
    BY DEF Retire
  <1>4. \A d \in DeviceIds : running[d] = j =>
           jobs[j].start \in 0 .. t /\ jobs[j].dev = d /\ jobs[j].state = "Running"
    BY <1>1, RunningJob DEF NoJob, JobIds
  <1>5. stopped \in JobRecord /\ stopped.ver = jobs[j].ver
    <2>1. CASE \E d \in DeviceIds : running[d] = j
      BY <1>1, <1>4, <2>1, ProgressedLemma
    <2>2. CASE ~\E d \in DeviceIds : running[d] = j
      BY <1>1, <2>2 DEF JobRecord
    <2> QED BY <2>1, <2>2
  <1>6. /\ r \in JobRecord /\ r.state \in TerminalStates
        /\ IF IsTerminal(j) THEN r = jobs[j] ELSE r.ver = jobs[j].ver + 1
    <2>1. CASE IsTerminal(j)
      BY <1>1, <2>1 DEF IsTerminal
    <2>2. CASE ~IsTerminal(j)
      <3>1. state \in JobStates
        BY DEF JobStates
      <3>2. r = Transition(stopped, state)
        BY <2>2
      <3>3. r \in JobRecord /\ r.state = state /\ r.ver = jobs[j].ver + 1
        <4>1. /\ Transition(stopped, state) \in JobRecord
              /\ Transition(stopped, state).state = state
              /\ Transition(stopped, state).ver = stopped.ver + 1
          BY <1>5, <3>1, TransitionLemma, ZenonT(30)
        <4> QED BY <1>5, <3>2, <4>1
      <3> QED BY <2>2, <3>1, <3>3
    <2> QED BY <2>1, <2>2
  <1>7. /\ jobs' \in [JobIds -> JobRecord]
        /\ jobs'[j] = r
        /\ \A k \in JobIds : k # j => jobs'[k] = jobs[k]
    BY <1>1, <1>3, <1>6
  <1>8. \A k \in JobIds : jobs'[k] = jobs[k] \/ (jobs'[k] \in JobRecord /\ MovesOn(k))
    BY <1>1, <1>6, <1>7 DEF MovesOn, TerminalStates
  <1>9. running' \in [DeviceIds -> JobIds \cup {NoJob}] /\ queue' \in [DeviceIds -> SUBSET JobIds]
    BY <1>1, <1>2
  <1>10. busy' \in [DeviceIds -> Nat]
    <2>1. \A d \in DeviceIds : running[d] = j => t - jobs[j].start \in Nat
      BY <1>4
    <2> QED BY <1>1, <1>2, <2>1
  <1>11. Placement'
    <2>1. SlotsFollow(j, r)
      BY <1>2, <1>6 DEF SlotsFollow, TerminalStates
    <2>2. QueuesFollow(j, r)
      BY <1>1, <1>2, <1>6 DEF QueuesFollow, TerminalStates
    <2> QED BY <1>1, <1>3, <1>6, <2>1, <2>2, PlacementStays DEF IInv
  <1> QED BY <1>2, <1>6, <1>7, <1>8, <1>9, <1>10, <1>11

(* A dropped job leaves everything; the job that takes its place has its    *)
(* slot free.                                                               *)
LEMMA DropJobInv == IInv /\ DropJob => IInv'
  <1> SUFFICES ASSUME IInv, DropJob PROVE IInv'
    OBVIOUS
  <1> PICK j : j = act.job
    OBVIOUS
  <1> PICK b : b = act.by
    OBVIOUS
  <1> PICK d : d = act.dev
    OBVIOUS
  <1>1. /\ act.op = "drop"
        /\ Retire(j, "Dropped", now)
        /\ ReleaseBus({a \in active : a.job = j}, {p \in pending : p.job # j}, events, now)
        /\ act' = IF b = NoJob THEN NoAction ELSE Dispatch(b, d, 0)
        /\ UNCHANGED <<now, level, nextJob, trig, tick, metrics, phase>>
    BY DEF DropJob, Executing, reevalVars
  <1>2. /\ j \in JobIds
        /\ b # NoJob => Placeable(b, d) /\ running[d] = j
    BY <1>1 DEF IInv, ActionIsSound, SoundAction
  <1>3. now \in Nat /\ now' = now /\ now >= now /\ "Dropped" \in TerminalStates
    BY <1>1 DEF IInv, TypeOK, TerminalStates
  <1>4. /\ jobs' \in [JobIds -> JobRecord]
        /\ jobs'[j].state \in TerminalStates
        /\ \A k \in JobIds : k # j => jobs'[k] = jobs[k]
        /\ \A k \in JobIds : jobs'[k] = jobs[k] \/ (jobs'[k] \in JobRecord /\ MovesOn(k))
        /\ running' \in [DeviceIds -> JobIds \cup {NoJob}]
        /\ \A c \in DeviceIds : running'[c] = IF running[c] = j THEN NoJob ELSE running[c]
        /\ queue' \in [DeviceIds -> SUBSET JobIds]
        /\ \A c \in DeviceIds : queue'[c] = queue[c] \ {j}
        /\ busy' \in [DeviceIds -> Nat]
        /\ Placement'
    BY <1>1, <1>2, <1>3, RetireSound
  <1>5. /\ events' \subseteq EventRecord /\ seq' \in Nat
        /\ active' \subseteq [job: JobIds, bus: BusIds \cup {NoBus}]
        /\ pending' \subseteq [job: JobIds, dev: DeviceIds, ver: Nat, bus: BusIds, stamp: Nat]
        /\ pending' \subseteq pending
        /\ \A e \in events' : e \in events \/ MayBeScheduled(e)
    <2>1. {p \in pending : p.job # j} \subseteq pending /\ events \subseteq events
      OBVIOUS
    <2> QED BY <1>1, <1>3, <1>4, <2>1, ReleaseBusSound
  <1>6. EventsAreSound'
    <2>1. EventsFollow
      BY <1>1, <1>3, <1>4, <1>5 DEF EventsFollow, IInv, EventsAreSound, NothingInThePast
    <2> QED BY <2>1, EventsStaySound DEF IInv
  <1>7. act' \in ActRecord /\ ActionIsSound'
    <2>1. CASE b = NoJob
      BY <1>1, <2>1, NoActionIsSound
    <2>2. CASE b # NoJob
      <3>1. Placeable(b, d) /\ running[d] = j /\ b \in JobIds /\ b \in Nat /\ d \in DeviceIds
        BY <1>2, <2>2, JobIdsAreNat DEF Placeable, IInv
      <3>2. /\ act' \in ActRecord /\ act'.op = "dispatch" /\ act'.job = b /\ act'.dev = d
        BY <1>1, <2>2, <3>1, DispatchFields
      <3>3. running'[d] = NoJob
        BY <1>4, <3>1
      <3>4. Placeable(b, d)'
        <4>1. JobIds' = JobIds
          BY <1>1 DEF JobIds
        <4>2. CASE b = j
          BY <1>4, <3>1, <4>1, <4>2 DEF Placeable, IsTerminal
        <4>3. CASE b # j
          <5>1. jobs'[b] = jobs[b] /\ \A c \in DeviceIds : b \in queue'[c] => b \in queue[c]
            BY <1>4, <3>1, <4>3
          <5>2. NotArriving(b) => NotArriving(b)'
            BY <1>5 DEF NotArriving, MayBeScheduled
          <5> QED BY <3>1, <4>1, <5>1, <5>2 DEF Placeable, IsTerminal
        <4> QED BY <4>2, <4>3
      <3> QED BY <3>2, <3>3, <3>4 DEF ActionIsSound, SoundAction, Placeable, Queued, NotArriving, IsTerminal
    <2> QED BY <2>1, <2>2
  <1>8. phase' \in PhaseRecord /\ PhaseIsSound'
    BY <1>1, SamePhase
  <1>9. ClockIsSound'
    BY <1>1 DEF IInv, ClockIsSound
  <1>10. TypeOK'
    BY <1>1, <1>4, <1>5, <1>7, <1>8 DEF IInv, TypeOK, JobIds
  <1> QED BY <1>4, <1>6, <1>7, <1>8, <1>9, <1>10 DEF IInv

(* A stale event is discarded.                                              *)
LEMMA DiscardStaleInv == IInv /\ DiscardStale => IInv'
  <1> SUFFICES ASSUME IInv, DiscardStale PROVE IInv'
    OBVIOUS
  <1>1. PICK e \in events : Pops(e) /\ events' = events \ {e}
    BY DEF DiscardStale
  <1>2. UNCHANGED <<level, nextJob, jobs, running, queue, busy, seq, active, pending, trig, tick,
                    metrics, act, phase>>
    BY DEF DiscardStale, jobVars, deviceVars, transferVars, reevalVars
  <1>3. act.op = "none" /\ phase.op = "poll"
    BY <1>1, PopBasics
  <1>4. ActionIsSound' /\ PhaseIsSound' /\ ClockIsSound'
    BY <1>2, <1>3 DEF IInv, ActionIsSound, SoundAction, PhaseIsSound, ClockIsSound
  <1> QED BY <1>1, <1>2, <1>4, PopStep DEF IInv, TypeOK

(* The end event ends the loop.                                             *)
LEMMA SimulationEndInv == IInv /\ SimulationEnd => IInv'
  <1> SUFFICES ASSUME IInv, SimulationEnd PROVE IInv'
    OBVIOUS
  <1>1. PICK e \in events : Pops(e) /\ events' = events \ {e}
    BY DEF SimulationEnd, Handles
  <1>2. UNCHANGED <<level, nextJob, jobs, running, queue, busy, seq, active, pending, trig, tick,
                    metrics, act>>
    BY DEF SimulationEnd, jobVars, deviceVars, transferVars, reevalVars
  <1>3. act.op = "none" /\ phase' \in PhaseRecord /\ phase'.op = "ended"
    BY <1>1, PopBasics DEF SimulationEnd, Phase, PhaseRecord, PhaseOps, NoJob
  <1>4. ActionIsSound' /\ PhaseIsSound' /\ ClockIsSound'
    BY <1>2, <1>3 DEF IInv, ActionIsSound, SoundAction, PhaseIsSound, ClockIsSound
  <1> QED BY <1>1, <1>2, <1>3, <1>4, PopStep DEF IInv, TypeOK

(* What the scheduler answers to a job that has become placeable is sound.  *)
LEMMA ArrivalActionSound ==
    ASSUME IInv, NEW j \in JobIds, NEW a \in ArrivalActions(j), UNCHANGED <<nextJob, running>>,
           \A d \in DeviceIds : Placeable(j, d)',
           ~Queued(j)'
    PROVE  a \in ActRecord /\ SoundAction(a)'
  <1>0. JobIds' = JobIds /\ j \in Nat
    BY JobIdsAreNat DEF JobIds, IInv
  <1>1. CASE a = NoAction
    BY <1>1 DEF NoAction, ActRecord, NoJob, NoDevice, SoundAction
  <1>2. CASE a = Drop(j)
    BY <1>0, <1>2, DropFields DEF SoundAction
  <1>3. ASSUME NEW d \in Compatible(j), a = Dispatch(j, d, 0)
        PROVE  a \in ActRecord /\ SoundAction(a)'
    <2>1. d \in DeviceIds
      BY DEF Compatible
    <2>2. a \in ActRecord /\ a.op = "dispatch" /\ a.job = j /\ a.dev = d
      BY <1>0, <1>3, <2>1, DispatchFields
    <2> QED BY <2>1, <2>2 DEF SoundAction
  <1>4. ASSUME NEW d \in Compatible(j), a = Enqueue(j, d)
        PROVE  a \in ActRecord /\ SoundAction(a)'
    <2>1. d \in DeviceIds
      BY DEF Compatible
    <2>2. a \in ActRecord /\ a.op = "enqueue" /\ a.job = j /\ a.dev = d
      BY <1>0, <1>4, <2>1, EnqueueFields
    <2> QED BY <2>1, <2>2 DEF SoundAction
  <1>5. ASSUME NEW d \in CompatibleBusy(j), a = Preempt(running[d], j, d, FALSE)
        PROVE  a \in ActRecord /\ SoundAction(a)'
    <2>1. d \in DeviceIds /\ running[d] # NoJob
      BY DEF Compatible, CompatibleBusy
    <2>2. running[d] \in JobIds /\ running[d] \in Nat
      BY <2>1, RunningJob
    <2>3. a \in ActRecord /\ a.op = "preempt" /\ a.job = running[d] /\ a.by = j /\ a.dev = d
      BY <1>0, <1>5, <2>1, <2>2 DEF Preempt, NoAction, ActRecord, NoJob, NoDevice
    <2> QED BY <1>0, <2>1, <2>2, <2>3 DEF SoundAction
  <1>6. ASSUME NEW d \in CompatibleBusy(j), a = DropThenDispatch(running[d], j, d)
        PROVE  a \in ActRecord /\ SoundAction(a)'
    <2>1. d \in DeviceIds /\ running[d] # NoJob
      BY DEF Compatible, CompatibleBusy
    <2>2. running[d] \in JobIds /\ running[d] \in Nat
      BY <2>1, RunningJob
    <2>3. a \in ActRecord /\ a.op = "drop" /\ a.job = running[d] /\ a.by = j /\ a.dev = d
      BY <1>0, <1>6, <2>1, <2>2, DropThenDispatchFields
    <2> QED BY <1>0, <2>1, <2>2, <2>3 DEF SoundAction
  <1> QED BY <1>1, <1>2, <1>3, <1>4, <1>5, <1>6 DEF ArrivalActions

(* An arriving job is fresh, or already ended.                              *)
LEMMA TaskArrivalInv ==
    ASSUME IInv, NEW e \in EventsOf("TaskArrival"), NEW a \in ArrivalActions(e.job), TaskArrival(e, a)
    PROVE  IInv'
  <1> PICK j : j = e.job
    OBVIOUS
  <1>1. /\ e \in events /\ e.kind = "TaskArrival" /\ Pops(e) /\ events' = events \ {e}
        /\ metrics' = [metrics EXCEPT !.total = metrics.total + 1]
        /\ act' = a /\ phase' = Phase("release", jobs[j].task)
        /\ UNCHANGED <<level, nextJob, jobs, running, queue, busy, seq, active, pending, trig, tick>>
    BY DEF TaskArrival, Handles, EventsOf, jobVars, deviceVars, transferVars, reevalVars
  <1>2. /\ j \in JobIds
        /\ jobs[j].state \in {"Released"} \cup TerminalStates
        /\ \A f \in events : f.kind = "TaskArrival" /\ f.job = j => f = e
    BY <1>1 DEF IInv, EventsAreSound, EventsAreWellFormed, ArrivalsAreFresh, VersionedKinds
  <1>3. ~Queued(j)
    BY <1>2 DEF Queued, IInv, Placement, QueuesHoldWaitingJobs, TerminalStates
  <1>4. JobIds' = JobIds
    BY <1>1 DEF JobIds
  <1>5. NotArriving(j)'
    BY <1>1, <1>2 DEF NotArriving
  <1>6. ~Queued(j)' /\ \A d \in DeviceIds : Placeable(j, d)'
    BY <1>1, <1>2, <1>3, <1>4, <1>5 DEF Placeable, Queued, IsTerminal
  <1>7. a \in ActRecord /\ SoundAction(a)'
    BY <1>1, <1>2, <1>6, ArrivalActionSound
  <1>8. act' \in ActRecord /\ ActionIsSound'
    BY <1>1, <1>7 DEF ActionIsSound
  <1>9. jobs[j].task \in TaskIds /\ jobs[j].task \in Nat
    BY <1>2, PlatformAssumption DEF IInv, TypeOK, JobRecord, TaskIds
  <1>10. phase' \in PhaseRecord /\ phase'.op = "release" /\ PhaseIsSound'
    BY <1>1, <1>9 DEF Phase, PhaseRecord, PhaseOps, PhaseIsSound, NoJob
  <1>11. ClockIsSound'
    BY <1>1, <1>10 DEF IInv, ClockIsSound
  <1>12. metrics' \in [total: Nat, completed: Nat, missed: Nat, preemptions: Nat]
    BY <1>1 DEF IInv, TypeOK
  <1> QED BY <1>1, <1>8, <1>10, <1>11, <1>12, PopStep DEF IInv, TypeOK

(* A live event of a running job finds it in its slot.                      *)
LEMMA LiveRunningEvent ==
    ASSUME IInv, NEW e \in events, e.kind \in {"JobComplete", "PreemptionPoint"}, ~IsStale(e)
    PROVE  /\ e.job \in JobIds /\ e.dev \in DeviceIds
           /\ jobs[e.job].state = "Running" /\ jobs[e.job].dev = e.dev
           /\ running[e.dev] = e.job
  <1>1. /\ e.job \in JobIds /\ e.dev \in DeviceIds
        /\ jobs[e.job].state = "Running" /\ jobs[e.job].dev = e.dev
    BY DEF IsStale, IInv, EventsAreSound, LiveEventsAreMeant, EventsAreWellFormed, VersionedKinds
  <1> QED BY <1>1 DEF IInv, Placement, RunningJobsHaveSlots

(* A preemption point stops nothing by itself: the scheduler may replace    *)
(* the job that has reached it.                                             *)
LEMMA PreemptionPointInv ==
    ASSUME IInv, NEW e \in EventsOf("PreemptionPoint"), NEW a \in PointActions(e.dev, e.job),
           PreemptionPoint(e, a)
    PROVE  IInv'
  <1> PICK j : j = e.job
    OBVIOUS
  <1> PICK d : d = e.dev
    OBVIOUS
  <1>1. /\ e \in events /\ e.kind = "PreemptionPoint" /\ Pops(e) /\ ~IsStale(e)
        /\ events' = events \ {e}
        /\ UNCHANGED <<level, nextJob, jobs, running, queue, busy, seq, active, pending, trig, tick,
                       metrics>>
    BY DEF PreemptionPoint, Handles, EventsOf, jobVars, deviceVars, transferVars, reevalVars
  <1>2. j \in JobIds /\ d \in DeviceIds /\ running[d] = j /\ j \in Nat /\ HasPreemptionPoints(d)
    BY <1>1, LiveRunningEvent, JobIdsAreNat DEF IInv, EventsAreSound, EventsAreWellFormed
  <1>3. act' = a /\ phase' = PointPhase(d, j)
    BY <1>2 DEF PreemptionPoint
  <1>4. a \in ActRecord /\ SoundAction(a)
    <2>1. CASE a = NoAction
      BY <2>1 DEF NoAction, ActRecord, NoJob, NoDevice, SoundAction
    <2>2. ASSUME NEW q \in queue[d], a = Preempt(j, q, d, TRUE)
          PROVE  a \in ActRecord /\ SoundAction(a)
      <3>1. q \in Nat /\ Placeable(q, d)
        BY <1>2, QueuedIsPlaceable
      <3>2. /\ a \in ActRecord /\ a.op = "preempt" /\ a.job = j /\ a.by = q /\ a.dev = d
            /\ a.atPoint = TRUE
        BY <1>2, <2>2, <3>1 DEF Preempt, NoAction, ActRecord, NoJob, NoDevice
      <3>3. AllowsPreemption(a.dev, a.atPoint)
        BY <1>2, <3>2 DEF AllowsPreemption, HasPreemptionPoints
      <3> QED BY <1>2, <3>1, <3>2, <3>3 DEF SoundAction
    <2>3. ASSUME NEW q \in queue[d], a = DropThenDispatch(j, q, d)
          PROVE  a \in ActRecord /\ SoundAction(a)
      <3>1. q \in Nat /\ Placeable(q, d)
        BY <1>2, QueuedIsPlaceable
      <3>2. a \in ActRecord /\ a.op = "drop" /\ a.job = j /\ a.by = q /\ a.dev = d
        BY <1>2, <2>3, <3>1, DropThenDispatchFields
      <3> QED BY <1>2, <3>1, <3>2 DEF SoundAction
    <2> QED BY <2>1, <2>2, <2>3 DEF PointActions
  <1>5. act' \in ActRecord /\ ActionIsSound'
    BY <1>1, <1>3, <1>4, SoundActionFrame DEF ActionIsSound
  <1>6. phase' \in PhaseRecord /\ phase'.op = "point" /\ phase'.k = d /\ phase'.job = j
    BY <1>2, <1>3 DEF PointPhase, PhaseRecord, PhaseOps, DeviceIds
  <1>7. PhaseIsSound' /\ ClockIsSound'
    BY <1>1, <1>2, <1>6 DEF IInv, PhaseIsSound, ClockIsSound, JobIds
  <1> QED BY <1>1, <1>5, <1>6, <1>7, PopStep DEF IInv, TypeOK

(* The criticality switch begins.                                           *)
LEMMA BudgetOverrunInv ==
    ASSUME IInv, NEW e \in events, BudgetOverrun(e) PROVE IInv'
  <1>1. /\ Pops(e) /\ events' = events \ {e} /\ level' = "Hi"
        /\ UNCHANGED <<nextJob, jobs, running, queue, busy, seq, active, pending, trig, tick,
                       metrics, act>>
    BY DEF BudgetOverrun, Handles, jobVars, deviceVars, transferVars, reevalVars
  <1>2. phase' \in PhaseRecord /\ phase'.op \in {"critical", "trigger"} /\ PhaseIsSound'
    BY NewPhase DEF BudgetOverrun, Trigger, PhaseOps
  <1>3. ActionIsSound' /\ ClockIsSound'
    BY <1>1, <1>2, PopBasics DEF IInv, ActionIsSound, SoundAction, ClockIsSound
  <1> QED BY <1>1, <1>2, <1>3, PopStep DEF IInv, TypeOK, Levels

(* A triggered reevaluation begins, or is out of date.                      *)
LEMMA TriggeredReevaluationInv ==
    ASSUME IInv, NEW e \in events, TriggeredReevaluation(e) PROVE IInv'
  <1>1. /\ Pops(e) /\ events' = events \ {e}
        /\ UNCHANGED <<level, nextJob, jobs, running, queue, busy, seq, active, pending, tick,
                       metrics, act>>
    BY DEF TriggeredReevaluation, Handles, jobVars, deviceVars, transferVars
  <1>2. /\ trig' \in [gen: Nat, at: Nat \cup {Unset}]
        /\ phase' = phase \/ phase' = Phase("reevaluate", 0)
    BY DEF TriggeredReevaluation, IInv, TypeOK
  <1>3. phase.op = "poll" /\ phase \in PhaseRecord /\ act.op = "none"
    BY <1>1, PopBasics DEF IInv, TypeOK
  <1>4. phase' \in PhaseRecord /\ phase'.op \in {"poll", "reevaluate"}
    BY <1>2, <1>3 DEF Phase, PhaseRecord, PhaseOps, NoJob
  <1>5. PhaseIsSound' /\ ActionIsSound' /\ ClockIsSound'
    BY <1>1, <1>3, <1>4 DEF IInv, PhaseIsSound, ActionIsSound, SoundAction, ClockIsSound
  <1> QED BY <1>1, <1>2, <1>4, <1>5, PopStep DEF IInv, TypeOK

(* A periodic reevaluation begins, at the tick the engine expects.          *)
LEMMA PeriodicReevaluationInv ==
    ASSUME IInv, NEW e \in events, PeriodicReevaluation(e) PROVE IInv'
  <1>1. /\ Pops(e) /\ events' = events \ {e}
        /\ UNCHANGED <<level, nextJob, jobs, running, queue, busy, seq, active, pending, trig,
                       metrics, act>>
    BY DEF PeriodicReevaluation, Handles, jobVars, deviceVars, transferVars
  <1>2. /\ phase.op = "poll" /\ phase \in PhaseRecord /\ act.op = "none"
        /\ now' = e.time /\ now' \in Nat
        /\ tick \in [gen: Nat, at: Nat \cup {Unset}, next: Nat \cup {Unset}]
        /\ tick.at # Unset => tick.at = tick.next
    BY <1>1, PopBasics DEF IInv, TypeOK, ClockIsSound
  <1>3. CASE tick.gen = e.ver /\ tick.at = e.time
    <2>1. tick' = [tick EXCEPT !.at = Unset] /\ phase' = Phase("reevaluateTick", 0)
      BY <1>3 DEF PeriodicReevaluation
    <2>2. /\ tick' \in [gen: Nat, at: Nat \cup {Unset}, next: Nat \cup {Unset}]
          /\ tick'.at = Unset /\ tick'.next = now'
      BY <1>2, <1>3, <2>1 DEF Unset
    <2>3. phase' \in PhaseRecord /\ phase'.op = "reevaluateTick" /\ PhaseIsSound'
      BY <2>1, NewPhase DEF PhaseOps
    <2>4. ActionIsSound' /\ ClockIsSound'
      BY <1>1, <1>2, <2>2, <2>3 DEF ActionIsSound, SoundAction, ClockIsSound
    <2> QED BY <1>1, <2>2, <2>3, <2>4, PopStep DEF IInv, TypeOK
  <1>4. CASE ~(tick.gen = e.ver /\ tick.at = e.time)
    <2>1. UNCHANGED <<tick, phase>>
      BY <1>4 DEF PeriodicReevaluation
    <2>2. ActionIsSound' /\ ClockIsSound' /\ PhaseIsSound'
      BY <1>1, <1>2, <2>1 DEF IInv, ActionIsSound, SoundAction, ClockIsSound, PhaseIsSound
    <2> QED BY <1>1, <1>2, <2>1, <2>2, PopStep DEF IInv, TypeOK
  <1> QED BY <1>3, <1>4

(* A completed job leaves its device free for a queued one.                 *)
LEMMA JobCompleteInv ==
    ASSUME IInv, NEW e \in EventsOf("JobComplete"), NEW a \in FreeActions(e.dev), JobComplete(e, a)
    PROVE  IInv'
  <1> PICK j : j = e.job
    OBVIOUS
  <1> PICK d : d = e.dev
    OBVIOUS
  <1>1. /\ e \in events /\ e.kind = "JobComplete" /\ Pops(e) /\ ~IsStale(e)
        /\ events' = events \ {e} /\ phase' = Trigger
        /\ UNCHANGED <<level, nextJob, queue, seq, active, pending, trig, tick>>
    BY DEF JobComplete, Handles, EventsOf, transferVars, reevalVars
  <1>2. /\ j \in JobIds /\ d \in DeviceIds /\ j \in Nat /\ j # NoJob
        /\ jobs[j].state = "Running" /\ jobs[j].dev = d /\ running[d] = j
    BY <1>1, LiveRunningEvent, JobIdsAreNat DEF IInv, NoJob
  <1>3. /\ jobs[j] \in JobRecord /\ jobs[j].ver \in Nat
        /\ jobs[j].start \in 0 .. now /\ now \in Nat
        /\ \A c \in DeviceIds : running[c] = j => c = d
        /\ \A c \in DeviceIds : j \notin queue[c]
    BY <1>2, RunningJob DEF IInv, TypeOK, JobRecord
  <1>4. /\ e.time \in Nat /\ now' = e.time /\ e.time >= now
        /\ \A f \in events : f.time >= now'
        /\ act.op = "none"
    BY <1>1, PopBasics
  <1> PICK done : done = IF jobs[j].actual # Unset THEN jobs[j].actual
                                                   ELSE Progressed(jobs[j], d, e.time).exec
    OBVIOUS
  <1> PICK p : p = [jobs[j] EXCEPT !.exec = done, !.start = Unset]
    OBVIOUS
  <1> PICK r : r = Transition(p, "Completed")
    OBVIOUS
  <1>5. /\ jobs' = [jobs EXCEPT ![j] = r]
        /\ running' = [running EXCEPT ![d] = NoJob]
        /\ busy' = [busy EXCEPT ![d] = busy[d] + (e.time - jobs[j].start)]
        /\ metrics' = [metrics EXCEPT !.completed = metrics.completed + 1]
        /\ act' = a
    BY <1>2 DEF JobComplete
  <1>6. done \in Nat
    <2>1. CASE jobs[j].actual # Unset
      BY <1>3, <2>1 DEF JobRecord
    <2>2. CASE jobs[j].actual = Unset
      <3>1. jobs[j].start \in 0 .. e.time
        BY <1>3, <1>4
      <3> QED BY <1>2, <1>3, <1>4, <2>2, <3>1, ProgressedLemma
    <2> QED BY <2>1, <2>2
  <1>7. p \in JobRecord /\ p.ver = jobs[j].ver
    BY <1>3, <1>6 DEF JobRecord
  <1>8. r \in JobRecord /\ r.state = "Completed" /\ r.ver = jobs[j].ver + 1
    <2>1. "Completed" \in JobStates
      BY DEF JobStates, TerminalStates
    <2>2. /\ Transition(p, "Completed") \in JobRecord
          /\ Transition(p, "Completed").state = "Completed"
          /\ Transition(p, "Completed").ver = p.ver + 1
      BY <1>7, <2>1, TransitionLemma, ZenonT(30)
    <2> QED BY <1>7, <2>2
  <1>9. /\ jobs' \in [JobIds -> JobRecord]
        /\ \A k \in JobIds : k # j => jobs'[k] = jobs[k]
        /\ \A k \in JobIds : jobs'[k] = jobs[k] \/ (jobs'[k] \in JobRecord /\ MovesOn(k))
    <2>1. BecomesRecord(j, r)
      <3>1. jobs' = [jobs EXCEPT ![j] = r]
        BY <1>5
      <3>2. r.ver > jobs[j].ver
        BY <1>3, <1>8
      <3>3. r.state \in TerminalStates /\ r.state \notin {"Running", "Suspended"}
        BY <1>8 DEF TerminalStates
      <3> QED BY <3>1, <3>2, <3>3, Zenon DEF BecomesRecord
    <2> QED BY <1>2, <1>8, <2>1, JobMovesOn
  <1>10. EventsAreSound'
    <2>1. EventsFollow
      BY <1>1, <1>4, <1>9 DEF EventsFollow
    <2> QED BY <2>1, EventsStaySound DEF IInv
  <1>11. /\ running \in [DeviceIds -> JobIds \cup {NoJob}] /\ queue \in [DeviceIds -> SUBSET JobIds]
         /\ running' \in [DeviceIds -> JobIds \cup {NoJob}] /\ running'[d] = NoJob
    BY <1>2, <1>5 DEF IInv, TypeOK
  <1>12. Placement'
    <2>1. SlotsFollow(j, r)
      BY <1>2, <1>3, <1>5, <1>8, <1>11 DEF SlotsFollow
    <2>2. QueuesFollow(j, r)
      BY <1>1, <1>3, <1>8, <1>11 DEF QueuesFollow
    <2> QED BY <1>1, <1>2, <1>4, <1>5, <1>8, <2>1, <2>2, PlacementStays DEF IInv
  <1>13. act' \in ActRecord /\ ActionIsSound'
    <2>1. CASE a = NoAction
      BY <1>5, <2>1, NoActionIsSound
    <2>2. ASSUME NEW q \in queue[d], a = Dispatch(q, d, 0)
          PROVE  act' \in ActRecord /\ ActionIsSound'
      <3>1. q \in Nat /\ q \in JobIds /\ Placeable(q, d)
        BY <1>2, QueuedIsPlaceable
      <3>2. act' \in ActRecord /\ act'.op = "dispatch" /\ act'.job = q /\ act'.dev = d
        BY <1>2, <1>5, <2>2, <3>1, DispatchFields
      <3>3. q # j
        BY <1>2, <1>3, <2>2
      <3>4. Placeable(q, d)'
        BY <1>1, <1>9, <3>1, <3>3 DEF Placeable, IsTerminal, NotArriving, JobIds
      <3> QED BY <1>11, <3>2, <3>4 DEF ActionIsSound, SoundAction, Placeable, Queued, NotArriving, IsTerminal
    <2> QED BY <2>1, <2>2 DEF FreeActions
  <1>14. phase' \in PhaseRecord /\ phase'.op = "trigger" /\ PhaseIsSound'
    BY <1>1, NewPhase DEF Trigger, PhaseOps
  <1>15. ClockIsSound'
    BY <1>1, <1>14 DEF IInv, ClockIsSound
  <1>16. busy' \in [DeviceIds -> Nat]
    <2>1. e.time - jobs[j].start \in Nat
      BY <1>3, <1>4
    <2> QED BY <1>2, <1>5, <2>1 DEF IInv, TypeOK
  <1>17. metrics' \in [total: Nat, completed: Nat, missed: Nat, preemptions: Nat]
    BY <1>5 DEF IInv, TypeOK
  <1>18. TypeOK'
    BY <1>1, <1>4, <1>9, <1>11, <1>13, <1>14, <1>16, <1>17 DEF IInv, TypeOK, JobIds
  <1> QED BY <1>10, <1>12, <1>13, <1>14, <1>15, <1>18 DEF IInv

(* A job whose data has arrived is ready to be placed.                      *)
LEMMA TransferCompleteInv ==
    ASSUME IInv, NEW e \in EventsOf("TransferComplete"), NEW a \in ArrivalActions(e.job),
           TransferComplete(e, a)
    PROVE  IInv'
  <1> PICK j : j = e.job
    OBVIOUS
  <1> PICK d : d = e.dev
    OBVIOUS
  <1>1. /\ e \in events /\ e.kind = "TransferComplete" /\ Pops(e) /\ ~IsStale(e)
        /\ ReleaseBus({x \in active : x.job = j}, pending, events \ {e}, e.time)
        /\ phase' = Trigger
        /\ UNCHANGED <<level, nextJob, running, queue, busy, trig, tick, metrics>>
    BY DEF TransferComplete, Handles, EventsOf, deviceVars, reevalVars
  <1>2. /\ j \in JobIds /\ d \in DeviceIds
        /\ jobs[j].state = "Transferring" /\ jobs[j].dev = d
    BY <1>1 DEF IsStale, IInv, EventsAreSound, LiveEventsAreMeant, EventsAreWellFormed, VersionedKinds
  <1>3. /\ jobs[j] \in JobRecord /\ jobs[j].ver \in Nat
        /\ running \in [DeviceIds -> JobIds \cup {NoJob}] /\ queue \in [DeviceIds -> SUBSET JobIds]
        /\ j # NoJob /\ j \in Nat
    BY <1>2, JobIdsAreNat DEF IInv, TypeOK, JobRecord, NoJob
  <1>4. /\ e.time \in Nat /\ now' = e.time /\ e.time >= now
        /\ \A f \in events : f.time >= now'
    BY <1>1, PopBasics
  <1>5. /\ \A c \in DeviceIds : running[c] # j
        /\ \A c \in DeviceIds : j \notin queue[c]
        /\ NotArriving(j)
    BY <1>2, <1>3 DEF IInv, Placement, SlotsHoldRunningJobs, QueuesHoldWaitingJobs,
                      EventsAreSound, ArrivalsAreFresh, NotArriving, TerminalStates
  <1> PICK p : p = Assigned(jobs[j], d, Unset)
    OBVIOUS
  <1> PICK r : r = Settle(p, "Ready")
    OBVIOUS
  <1>6. jobs' = [jobs EXCEPT ![j] = r] /\ act' = a
    BY <1>2 DEF TransferComplete, IsTerminal, TerminalStates
  <1>7. p \in JobRecord /\ p.ver = jobs[j].ver /\ p.state = "Transferring" /\ p.dev = d
    <2>1. Unset \in Nat \cup {Unset}
      OBVIOUS
    <2> QED BY ZenonT(30), <1>2, <1>3, <2>1, AssignedLemma
  <1>8. r \in JobRecord /\ r.state = "Ready" /\ r.ver = jobs[j].ver + 1 /\ r.dev = d
    <2>1. "Ready" \in JobStates
      BY DEF JobStates
    <2> QED BY <1>7, <2>1, SettleLemma
  <1>9. /\ jobs' \in [JobIds -> JobRecord]
        /\ jobs'[j] = r
        /\ \A k \in JobIds : jobs'[k] = jobs[k] \/ (jobs'[k] \in JobRecord /\ MovesOn(k))
    <2>1. BecomesRecord(j, r)
      BY <1>3, <1>5, <1>6, <1>8 DEF BecomesRecord
    <2> QED BY <1>2, <1>8, <2>1, JobMovesOn
  <1>10. /\ events' \subseteq EventRecord /\ seq' \in Nat
         /\ active' \subseteq [job: JobIds, bus: BusIds \cup {NoBus}]
         /\ pending' \subseteq [job: JobIds, dev: DeviceIds, ver: Nat, bus: BusIds, stamp: Nat]
         /\ pending' \subseteq pending
         /\ \A f \in events' : f \in events \ {e} \/ MayBeScheduled(f)
    <2>1. events \ {e} \subseteq events /\ pending \subseteq pending
      OBVIOUS
    <2> QED BY <1>1, <1>4, <1>9, <2>1, ReleaseBusSound
  <1>11. EventsAreSound'
    <2>1. EventsFollow
      BY <1>1, <1>4, <1>9, <1>10 DEF EventsFollow
    <2> QED BY <2>1, EventsStaySound DEF IInv
  <1>12. Placement'
    <2>1. SlotsFollow(j, r) /\ QueuesFollow(j, r)
      BY <1>1, <1>3, <1>5, <1>8 DEF SlotsFollow, QueuesFollow
    <2> QED BY <1>1, <1>2, <1>4, <1>6, <1>8, <2>1, PlacementStays DEF IInv
  <1>13. act' \in ActRecord /\ ActionIsSound'
    <2>1. NotArriving(j)'
      BY <1>5, <1>10 DEF NotArriving, MayBeScheduled
    <2>2. ~Queued(j)' /\ \A c \in DeviceIds : Placeable(j, c)'
      BY <1>1, <1>2, <1>5, <1>8, <1>9, <2>1 DEF Queued, Placeable, JobIds
    <2> QED BY <1>1, <1>2, <1>6, <2>2, ArrivalActionSound DEF ActionIsSound
  <1>14. phase' \in PhaseRecord /\ phase'.op = "trigger" /\ PhaseIsSound'
    BY <1>1, NewPhase DEF Trigger, PhaseOps
  <1>15. ClockIsSound'
    BY <1>1, <1>14 DEF IInv, ClockIsSound
  <1>16. TypeOK'
    BY <1>1, <1>4, <1>9, <1>10, <1>13, <1>14 DEF IInv, TypeOK, JobIds
  <1> QED BY <1>11, <1>12, <1>13, <1>14, <1>15, <1>16 DEF IInv

(* A job that misses its deadline leaves its slot and its queue.            *)
LEMMA DeadlineCheckInv ==
    ASSUME IInv, NEW e \in events, DeadlineCheck(e) PROVE IInv'
  <1> PICK j : j = e.job
    OBVIOUS
  <1>1. /\ Pops(e) /\ e.kind = "DeadlineCheck" /\ events' = events \ {e}
        /\ UNCHANGED <<level, nextJob, seq, active, pending, trig, tick, act, phase>>
    BY DEF DeadlineCheck, Handles, transferVars, reevalVars
  <1>2. /\ e.time \in Nat /\ now' = e.time /\ e.time >= now
        /\ \A f \in events : f.time >= now'
        /\ act.op = "none" /\ phase.op = "poll"
        /\ j \in JobIds
    BY <1>1, PopBasics DEF IInv, EventsAreSound, EventsAreWellFormed
  <1>3. ActionIsSound' /\ PhaseIsSound' /\ ClockIsSound'
    BY <1>1, <1>2 DEF IInv, ActionIsSound, SoundAction, PhaseIsSound, ClockIsSound
  <1>4. CASE HasMissedDeadline(j, e.time)
    <2>1. /\ Retire(j, "DeadlineMissed", e.time)
          /\ metrics' = [metrics EXCEPT !.missed = metrics.missed + 1]
      BY <1>4 DEF DeadlineCheck
    <2>2. "DeadlineMissed" \in TerminalStates
      BY DEF TerminalStates
    <2>3. /\ jobs' \in [JobIds -> JobRecord]
          /\ \A k \in JobIds : jobs'[k] = jobs[k] \/ (jobs'[k] \in JobRecord /\ MovesOn(k))
          /\ running' \in [DeviceIds -> JobIds \cup {NoJob}]
          /\ queue' \in [DeviceIds -> SUBSET JobIds]
          /\ busy' \in [DeviceIds -> Nat]
          /\ Placement'
      BY <1>1, <1>2, <2>1, <2>2, RetireSound
    <2>4. EventsAreSound'
      <3>1. EventsFollow
        BY <1>1, <1>2, <2>3 DEF EventsFollow
      <3> QED BY <3>1, EventsStaySound DEF IInv
    <2>5. metrics' \in [total: Nat, completed: Nat, missed: Nat, preemptions: Nat]
      BY <2>1 DEF IInv, TypeOK
    <2>6. TypeOK'
      BY <1>1, <1>2, <2>3, <2>5 DEF IInv, TypeOK, JobIds
    <2> QED BY <1>3, <2>3, <2>4, <2>6 DEF IInv
  <1>5. CASE ~HasMissedDeadline(j, e.time)
    <2>1. UNCHANGED <<jobs, running, queue, busy, metrics>>
      BY <1>5 DEF DeadlineCheck, deviceVars
    <2> QED BY <1>1, <1>3, <2>1, PopStep DEF IInv, TypeOK
  <1> QED BY <1>4, <1>5

(* A step that only schedules events: jobs, slots, queues and buses stay.   *)
LEMMA ScheduleStep ==
    ASSUME IInv, UNCHANGED <<now, level, nextJob, jobs, running, queue, busy, active, pending, metrics, act>>,
           act.op = "none",
           events' \subseteq EventRecord, seq' \in Nat,
           \A e \in events' : e \in events \/ MayBeScheduled(e),
           trig' \in [gen: Nat, at: Nat \cup {Unset}],
           tick' \in [gen: Nat, at: Nat \cup {Unset}, next: Nat \cup {Unset}],
           phase' \in PhaseRecord, PhaseIsSound', ClockIsSound'
    PROVE  IInv'
  <1>0. now \in Nat /\ \A e \in events : e.time >= now
    BY DEF IInv, TypeOK, EventsAreSound, NothingInThePast
  <1>1. Placement'
    BY <1>0, PlacementFrame DEF IInv
  <1>2. EventsAreSound'
    <2>1. EventsFollow
      BY <1>0 DEF EventsFollow
    <2> QED BY <2>1, EventsStaySound DEF IInv
  <1>3. ActionIsSound'
    BY DEF ActionIsSound, SoundAction
  <1>4. TypeOK'
    BY DEF IInv, TypeOK, JobIds
  <1> QED BY <1>1, <1>2, <1>3, <1>4 DEF IInv

(* An event of no job, at a time that is not past.                          *)
LEMMA JoblessEventSound ==
    ASSUME NEW t \in Nat, t >= now', NEW s \in Nat, NEW ver \in Nat,
           NEW kind \in {"SimulationEnd", "Triggered", "Periodic"}
    PROVE  /\ Event(t, s, kind, NoJob, ver, NoDevice) \in EventRecord
           /\ MayBeScheduled(Event(t, s, kind, NoJob, ver, NoDevice))
  BY DEF Event, EventRecord, EventKinds, VersionedKinds, NoJob, NoDevice, MayBeScheduled

(* The next periodic tick is where the engine will expect it.               *)
LEMMA PeriodicSound ==
    ASSUME IInv, NEW time \in Nat, time >= now, now' = now, tick.at = Unset,
           NEW end, end \subseteq EventRecord, \A e \in end : MayBeScheduled(e),
           SchedulePeriodicReevaluation(time, end)
    PROVE  /\ events' \subseteq EventRecord /\ seq' \in Nat
           /\ \A e \in events' : e \in events \/ MayBeScheduled(e)
           /\ tick' \in [gen: Nat, at: Nat \cup {Unset}, next: Nat \cup {Unset}]
           /\ tick'.at # Unset => tick'.at = tick'.next
  <1>1. /\ tick \in [gen: Nat, at: Nat \cup {Unset}, next: Nat \cup {Unset}]
        /\ events \subseteq EventRecord /\ seq \in Nat /\ Duration \in Nat
    BY EngineAssumption DEF IInv, TypeOK
  <1>2. CASE time > Duration
    BY <1>1, <1>2 DEF SchedulePeriodicReevaluation
  <1>3. CASE ~(time > Duration)
    <2>1. /\ tick' = [gen |-> tick.gen + 1, at |-> time, next |-> time]
          /\ events' = events \cup end \cup
               {Event(time, seq + 1, "Periodic", NoJob, tick.gen + 1, NoDevice)}
          /\ seq' = seq + 2
      BY <1>3 DEF SchedulePeriodicReevaluation
    <2>2. seq + 1 \in Nat /\ tick.gen + 1 \in Nat /\ time >= now'
      BY <1>1
    <2>3. /\ Event(time, seq + 1, "Periodic", NoJob, tick.gen + 1, NoDevice) \in EventRecord
          /\ MayBeScheduled(Event(time, seq + 1, "Periodic", NoJob, tick.gen + 1, NoDevice))
      BY <2>2, JoblessEventSound
    <2> QED BY <1>1, <2>1, <2>2, <2>3
  <1> QED BY <1>2, <1>3

(* The head of run() schedules the end and the first tick.                  *)
LEMMA StartRunInv == IInv /\ StartRun => IInv'
  <1> SUFFICES ASSUME IInv, StartRun PROVE IInv'
    OBVIOUS
  <1>1. /\ UNCHANGED <<now, level, nextJob, jobs, running, queue, busy, active, pending, metrics,
                       act, trig>>
        /\ phase.op = "start" /\ phase' = Poll
    BY DEF StartRun, jobVars, deviceVars, transferVars
  <1>2. act.op = "none" /\ tick.at = Unset /\ now = 0
    BY <1>1 DEF IInv, PhaseIsSound, ClockIsSound
  <1>3. phase' \in PhaseRecord /\ phase'.op = "poll" /\ PhaseIsSound'
    BY <1>1, NewPhase DEF Poll, PhaseOps
  <1> PICK end : end = {Event(Duration, seq, "SimulationEnd", NoJob, 0, NoDevice)}
    OBVIOUS
  <1>4. end \subseteq EventRecord /\ \A e \in end : MayBeScheduled(e)
    <2>1. seq \in Nat /\ Duration \in Nat /\ Duration >= now'
      BY <1>1, <1>2, EngineAssumption DEF IInv, TypeOK
    <2> QED BY <2>1, JoblessEventSound
  <1>5. /\ events' \subseteq EventRecord /\ seq' \in Nat
        /\ \A e \in events' : e \in events \/ MayBeScheduled(e)
        /\ tick' \in [gen: Nat, at: Nat \cup {Unset}, next: Nat \cup {Unset}]
        /\ tick'.at # Unset => tick'.at = tick'.next
    <2>1. CASE PeriodicInterval = 0
      <3>1. events' = events \cup end /\ seq' = seq + 1 /\ tick' = tick
        BY <2>1 DEF StartRun
      <3> QED BY <1>2, <1>4, <3>1 DEF IInv, TypeOK
    <2>2. CASE PeriodicInterval # 0
      <3>1. SchedulePeriodicReevaluation(PeriodicInterval, end)
        BY <2>2 DEF StartRun
      <3>2. PeriodicInterval \in Nat /\ PeriodicInterval >= now /\ now' = now
        BY <1>1, <1>2, EngineAssumption
      <3> QED BY <1>2, <1>4, <3>1, <3>2, PeriodicSound
    <2> QED BY <2>1, <2>2
  <1>6. ClockIsSound'
    BY <1>3, <1>5 DEF ClockIsSound
  <1> QED BY <1>1, <1>2, <1>3, <1>5, <1>6, ScheduleStep DEF IInv, TypeOK

(* The end of a reevaluation schedules the next tick.                       *)
LEMMA ReevaluateDoneInv == IInv /\ ReevaluateDone => IInv'
  <1> SUFFICES ASSUME IInv, ReevaluateDone PROVE IInv'
    OBVIOUS
  <1>1. /\ UNCHANGED <<now, level, nextJob, jobs, running, queue, busy, active, pending, metrics,
                       act, trig>>
        /\ act.op = "none" /\ phase' = Poll
    BY DEF ReevaluateDone, Reevaluating, jobVars, deviceVars, transferVars
  <1>2. phase' \in PhaseRecord /\ phase'.op = "poll" /\ PhaseIsSound'
    BY <1>1, NewPhase DEF Poll, PhaseOps
  <1>3. /\ events' \subseteq EventRecord /\ seq' \in Nat
        /\ \A e \in events' : e \in events \/ MayBeScheduled(e)
        /\ tick' \in [gen: Nat, at: Nat \cup {Unset}, next: Nat \cup {Unset}]
        /\ tick'.at # Unset => tick'.at = tick'.next
    <2>1. CASE phase.op = "reevaluateTick"
      <3>1. SchedulePeriodicReevaluation(tick.next + PeriodicInterval, {})
        BY <2>1 DEF ReevaluateDone
      <3>2. tick.at = Unset /\ tick.next = now /\ now \in Nat /\ PeriodicInterval \in Nat
        BY <2>1, EngineAssumption DEF IInv, TypeOK, ClockIsSound
      <3>3. tick.next + PeriodicInterval \in Nat /\ tick.next + PeriodicInterval >= now
        BY <3>2
      <3> QED BY <1>1, <3>1, <3>2, <3>3, PeriodicSound
    <2>2. CASE phase.op # "reevaluateTick"
      <3>1. UNCHANGED <<events, seq, tick>>
        BY <2>2 DEF ReevaluateDone, eventVars
      <3> QED BY <3>1 DEF IInv, TypeOK, ClockIsSound
    <2> QED BY <2>1, <2>2
  <1>4. ClockIsSound'
    BY <1>2, <1>3 DEF ClockIsSound
  <1> QED BY <1>1, <1>2, <1>3, <1>4, ScheduleStep DEF IInv, TypeOK

(* The last step of a handler may schedule a reevaluation.                  *)
LEMMA ScheduleTriggeredInv == IInv /\ ScheduleTriggeredReevaluation => IInv'
  <1> SUFFICES ASSUME IInv, ScheduleTriggeredReevaluation PROVE IInv'
    OBVIOUS
  <1>1. /\ UNCHANGED <<now, level, nextJob, jobs, running, queue, busy, active, pending, metrics,
                       act, tick>>
        /\ act.op = "none" /\ phase' = Poll
    BY DEF ScheduleTriggeredReevaluation, Continues, jobVars, deviceVars, transferVars
  <1>2. phase' \in PhaseRecord /\ phase'.op = "poll" /\ PhaseIsSound'
    BY <1>1, NewPhase DEF Poll, PhaseOps
  <1>3. ClockIsSound'
    BY <1>1, <1>2 DEF IInv, ClockIsSound
  <1> PICK time : time = now + TriggeredInterval
    OBVIOUS
  <1>4. /\ time \in Nat /\ time >= now' /\ seq \in Nat /\ events \subseteq EventRecord
        /\ trig \in [gen: Nat, at: Nat \cup {Unset}]
    BY <1>1, EngineAssumption DEF IInv, TypeOK
  <1>5. \/ UNCHANGED <<trig, events, seq>>
        \/ /\ trig' = [gen |-> trig.gen + 1, at |-> time]
           /\ events' = events \cup {Event(time, seq, "Triggered", NoJob, trig.gen + 1, NoDevice)}
           /\ seq' = seq + 1
    BY DEF ScheduleTriggeredReevaluation, eventVars
  <1>6. /\ Event(time, seq, "Triggered", NoJob, trig.gen + 1, NoDevice) \in EventRecord
        /\ MayBeScheduled(Event(time, seq, "Triggered", NoJob, trig.gen + 1, NoDevice))
    <2>1. trig.gen + 1 \in Nat
      BY <1>4
    <2> QED BY <1>4, <2>1, JoblessEventSound
  <1>7. /\ events' \subseteq EventRecord /\ seq' \in Nat
        /\ \A e \in events' : e \in events \/ MayBeScheduled(e)
        /\ trig' \in [gen: Nat, at: Nat \cup {Unset}]
    BY <1>4, <1>5, <1>6
  <1> QED BY <1>1, <1>2, <1>3, <1>7, ScheduleStep DEF IInv, TypeOK

(* The next preemption point is that of the job that still runs.            *)
LEMMA ReschedulePointInv == IInv /\ ReschedulePoint => IInv'
  <1> SUFFICES ASSUME IInv, ReschedulePoint PROVE IInv'
    OBVIOUS
  <1> PICK j : j = phase.job
    OBVIOUS
  <1> PICK d : d = phase.k
    OBVIOUS
  <1>1. /\ UNCHANGED <<now, level, nextJob, jobs, running, queue, busy, active, pending, metrics,
                       act, trig, tick>>
        /\ act.op = "none" /\ phase.op = "point" /\ phase' = Trigger
    BY DEF ReschedulePoint, Continues, jobVars, deviceVars, transferVars, reevalVars
  <1>2. phase' \in PhaseRecord /\ phase'.op = "trigger" /\ PhaseIsSound'
    BY <1>1, NewPhase DEF Trigger, PhaseOps
  <1>3. ClockIsSound'
    BY <1>1, <1>2 DEF IInv, ClockIsSound
  <1>4. /\ d \in DeviceIds /\ j \in JobIds /\ HasPreemptionPoints(d) /\ j \in Nat
    BY <1>1, JobIdsAreNat DEF IInv, PhaseIsSound
  <1>5. /\ events' \subseteq EventRecord /\ seq' \in Nat
        /\ \A e \in events' : e \in events \/ MayBeScheduled(e)
    <2>1. CASE running[d] = j
      <3> PICK t : t = now + Device[d].interval
        OBVIOUS
      <3> PICK ver : ver = jobs[j].ver
        OBVIOUS
      <3>1. /\ events' = events \cup {Event(t, seq, "PreemptionPoint", j, ver, d)}
            /\ seq' = seq + 1
        BY <2>1 DEF ReschedulePoint
      <3>2. /\ t \in Nat /\ t >= now' /\ seq \in Nat /\ ver \in Nat /\ events \subseteq EventRecord
        <4>1. Device[d].interval \in Nat
          BY <1>4, PlatformAssumption DEF DeviceRecord
        <4> QED BY <1>1, <1>4, <4>1 DEF IInv, TypeOK, JobRecord
      <3>3. jobs'[j].state = "Running" /\ jobs'[j].dev = d /\ jobs'[j].ver = ver
        BY <1>1, <1>4, <2>1, RunningJob DEF NoJob
      <3>4. /\ Event(t, seq, "PreemptionPoint", j, ver, d) \in EventRecord
            /\ MayBeScheduled(Event(t, seq, "PreemptionPoint", j, ver, d))
        BY <1>4, <3>2, <3>3, RunningEventSound
      <3> QED BY <3>1, <3>2, <3>4
    <2>2. CASE running[d] # j
      BY <2>2 DEF ReschedulePoint, eventVars, IInv, TypeOK
    <2> QED BY <2>1, <2>2
  <1> QED BY <1>1, <1>2, <1>3, <1>5, ScheduleStep DEF IInv, TypeOK

(* A new job is fresh: nothing in the state refers to its id yet.           *)
LEMMA AddJobStep ==
    ASSUME IInv, NEW r \in JobRecord, NEW checkTime \in Nat, AddJob(r, checkTime),
           r.state = "Released", r.release >= now, checkTime >= now,
           UNCHANGED <<now, level, running, queue, busy, active, pending, trig, tick, metrics, act>>,
           act.op = "none", phase' \in PhaseRecord, PhaseIsSound', ClockIsSound'
    PROVE  IInv'
  <1> PICK n : n = nextJob
    OBVIOUS
  <1>1. /\ n \in Nat /\ jobs \in [JobIds -> JobRecord] /\ seq \in Nat /\ now \in Nat
        /\ events \subseteq EventRecord /\ r.release \in Nat
        /\ running \in [DeviceIds -> JobIds \cup {NoJob}] /\ queue \in [DeviceIds -> SUBSET JobIds]
    BY DEF IInv, TypeOK, JobRecord
  <1>2. JobIds = 0 .. n - 1 /\ JobIds' = 0 .. n /\ n \notin JobIds /\ n \in JobIds' /\ JobIds \subseteq JobIds'
        /\ \A k \in JobIds' : k = n \/ k \in JobIds
    BY <1>1 DEF JobIds, AddJob, AppendJob
  <1>3. jobs' = [j \in JobIds' |-> IF j = n THEN r ELSE jobs[j]]
    BY <1>2 DEF AddJob, AppendJob
  <1>4. /\ jobs' \in [JobIds' -> JobRecord]
        /\ jobs'[n] = r
        /\ \A k \in JobIds : jobs'[k] = jobs[k]
    BY <1>1, <1>2, <1>3
  <1> PICK arrival : arrival = Event(r.release, seq, "TaskArrival", n, 0, NoDevice)
    OBVIOUS
  <1> PICK check : check = Event(checkTime, seq + 1, "DeadlineCheck", n, 0, NoDevice)
    OBVIOUS
  <1>5. /\ arrival \in EventRecord /\ arrival.kind = "TaskArrival" /\ arrival.job = n
        /\ arrival.time >= now
        /\ check \in EventRecord /\ check.kind = "DeadlineCheck" /\ check.job = n
        /\ check.time >= now
    BY <1>1 DEF Event, EventRecord, EventKinds, VersionedKinds, NoJob, NoDevice
  <1>6. events' = events \cup {arrival, check} /\ seq' = seq + 2
    BY DEF AddJob
  <1>7. Placement'
    <2>1. SlotsHoldRunningJobs'
      BY <1>1, <1>2, <1>4 DEF IInv, Placement, SlotsHoldRunningJobs
    <2>2. RunningJobsHaveSlots'
      BY <1>1, <1>2, <1>4 DEF IInv, Placement, RunningJobsHaveSlots
    <2>3. QueuesHoldWaitingJobs'
      BY <1>1, <1>2, <1>4 DEF IInv, Placement, QueuesHoldWaitingJobs
    <2>4. SuspendedJobsWait'
      BY <1>1, <1>2, <1>4 DEF IInv, Placement, SuspendedJobsWait
    <2> QED BY <2>1, <2>2, <2>3, <2>4 DEF Placement
  <1>8. EventsAreSound'
    <2>1. /\ \A e \in events : e.kind \in VersionedKinds \cup {"TaskArrival", "DeadlineCheck"} => e.job \in JobIds
          /\ "TaskArrival" \notin VersionedKinds /\ "DeadlineCheck" \notin VersionedKinds
      BY DEF IInv, EventsAreSound, EventsAreWellFormed, VersionedKinds
    <2>2. LiveEventsAreMeant'
      BY <1>2, <1>4, <1>5, <1>6, <2>1 DEF IInv, EventsAreSound, LiveEventsAreMeant
    <2>3. EventsAreWellFormed'
      BY <1>2, <1>5, <1>6, <2>1 DEF IInv, EventsAreSound, EventsAreWellFormed
    <2>4. ArrivalsAreFresh'
      BY <1>2, <1>4, <1>5, <1>6, <2>1 DEF IInv, EventsAreSound, ArrivalsAreFresh
    <2>5. WaitingTransfersAreMeant'
      <3>1. \A p \in pending : p.job \in JobIds
        BY DEF IInv, TypeOK
      <3> QED BY <1>4, <3>1 DEF IInv, EventsAreSound, WaitingTransfersAreMeant
    <2>6. StartedJobsHaveModels'
      BY <1>2, <1>4 DEF IInv, EventsAreSound, StartedJobsHaveModels
    <2>7. NothingInThePast'
      BY <1>5, <1>6 DEF IInv, EventsAreSound, NothingInThePast
    <2> QED BY <2>2, <2>3, <2>4, <2>5, <2>6, <2>7 DEF EventsAreSound
  <1>9. ActionIsSound'
    BY DEF ActionIsSound, SoundAction
  <1>10. TypeOK'
    <2>1. nextJob' \in Nat /\ seq' \in Nat
      BY <1>1, <1>6 DEF AddJob, AppendJob
    <2>2. events' \subseteq EventRecord
      BY <1>1, <1>5, <1>6
    <2>3. /\ running \in [DeviceIds -> JobIds' \cup {NoJob}]
          /\ queue \in [DeviceIds -> SUBSET JobIds']
      BY <1>1, <1>2
    <2>4. /\ active \subseteq [job: JobIds', bus: BusIds \cup {NoBus}]
          /\ pending \subseteq [job: JobIds', dev: DeviceIds, ver: Nat, bus: BusIds, stamp: Nat]
      BY <1>2 DEF IInv, TypeOK
    <2> QED BY <1>4, <2>1, <2>2, <2>3, <2>4 DEF IInv, TypeOK
  <1> QED BY <1>7, <1>8, <1>9, <1>10 DEF IInv

(* A new job record.                                                        *)
LEMMA NewJobRecord ==
    ASSUME NEW t \in TaskIds, NEW release \in Nat, NEW deadline \in Nat,
           NEW actual \in Nat \cup {Unset}
    PROVE  /\ NewJob(t, release, deadline, actual) \in JobRecord
           /\ NewJob(t, release, deadline, actual).state = "Released"
           /\ NewJob(t, release, deadline, actual).release = release
  BY DEF NewJob, JobRecord, JobStates, TaskIds

(* The release of the next job of a recurring task.                         *)
LEMMA ScheduleJobReleaseStep ==
    ASSUME IInv, NEW t \in TaskIds, NEW release \in Nat, release >= now,
           ScheduleJobRelease(t, release),
           UNCHANGED <<now, level, running, queue, busy, active, pending, trig, tick, metrics, act>>,
           act.op = "none", phase' \in PhaseRecord, PhaseIsSound', ClockIsSound'
    PROVE  IInv'
  <1>1. CASE release > Duration
    <2>1. UNCHANGED <<nextJob, jobs, events, seq>>
      BY <1>1 DEF ScheduleJobRelease, jobVars, eventVars
    <2> QED BY <2>1, ScheduleStep DEF IInv, TypeOK
  <1>2. CASE ~(release > Duration)
    <2> PICK deadline : deadline = release + Task[t].deadline
      OBVIOUS
    <2> PICK r : r = NewJob(t, release, deadline, Unset)
      OBVIOUS
    <2>1. AddJob(r, deadline)
      BY <1>2 DEF ScheduleJobRelease
    <2>2. deadline \in Nat /\ deadline >= now
      <3>1. Task[t].deadline \in Nat /\ now \in Nat
        BY PlatformAssumption DEF TaskRecord, IInv, TypeOK
      <3> QED BY <3>1
    <2>3. Unset \in Nat \cup {Unset}
      OBVIOUS
    <2>4. NewJob(t, release, deadline, Unset) \in JobRecord
      BY <2>2, <2>3, NewJobRecord
    <2>5. /\ NewJob(t, release, deadline, Unset).state = "Released"
          /\ NewJob(t, release, deadline, Unset).release = release
      BY DEF NewJob
    <2>6. r \in JobRecord /\ r.state = "Released" /\ r.release = release
      BY <2>4, <2>5, ZenonT(30)
    <2> QED BY <2>1, <2>2, <2>6, AddJobStep
  <1> QED BY <1>1, <1>2

(* One task of the initial loop.                                            *)
LEMMA ScheduleInitialArrivalInv == IInv /\ ScheduleInitialArrival => IInv'
  <1> SUFFICES ASSUME IInv, ScheduleInitialArrival PROVE IInv'
    OBVIOUS
  <1>1. /\ UNCHANGED <<now, level, running, queue, busy, active, pending, trig, tick, metrics, act>>
        /\ phase.op = "setup"
    BY DEF ScheduleInitialArrival, deviceVars, transferVars, reevalVars
  <1>2. act.op = "none" /\ tick.at = Unset /\ now = 0 /\ phase.k \in Nat
    BY <1>1 DEF IInv, PhaseIsSound, ClockIsSound, TypeOK, PhaseRecord
  <1>3. phase' = Phase("setup", phase.k + 1) \/ phase' = Phase("replay", 1)
    BY DEF ScheduleInitialArrival
  <1>4. phase' \in PhaseRecord /\ PhaseIsSound' /\ ClockIsSound'
    BY <1>1, <1>2, <1>3 DEF Phase, PhaseRecord, PhaseOps, PhaseIsSound, ClockIsSound, NoJob
  <1>5. CASE phase.k \in TaskIds /\ Task[phase.k].period > 0
    <2>1. ScheduleJobRelease(phase.k, 0)
      BY <1>5 DEF ScheduleInitialArrival
    <2> QED BY <1>1, <1>2, <1>4, <1>5, <2>1, ScheduleJobReleaseStep
  <1>6. CASE ~(phase.k \in TaskIds /\ Task[phase.k].period > 0)
    <2>1. UNCHANGED <<nextJob, jobs, events, seq>>
      BY <1>6 DEF ScheduleInitialArrival, jobVars, eventVars
    <2> QED BY <1>1, <1>2, <1>4, <2>1, ScheduleStep DEF IInv, TypeOK
  <1> QED BY <1>5, <1>6

(* One job of the replay trace.                                             *)
LEMMA ScheduleReplayJobInv == IInv /\ ScheduleReplayJob => IInv'
  <1> SUFFICES ASSUME IInv, ScheduleReplayJob PROVE IInv'
    OBVIOUS
  <1>1. /\ UNCHANGED <<now, level, running, queue, busy, active, pending, trig, tick, metrics, act>>
        /\ phase.op = "replay"
    BY DEF ScheduleReplayJob, deviceVars, transferVars, reevalVars
  <1>2. act.op = "none" /\ tick.at = Unset /\ now = 0 /\ phase.k \in Nat
    BY <1>1 DEF IInv, PhaseIsSound, ClockIsSound, TypeOK, PhaseRecord
  <1>3. phase' = Phase("replay", phase.k + 1) \/ phase' = Phase("start", 0)
    BY DEF ScheduleReplayJob
  <1>4. phase' \in PhaseRecord /\ PhaseIsSound' /\ ClockIsSound'
    BY <1>1, <1>2, <1>3 DEF Phase, PhaseRecord, PhaseOps, PhaseIsSound, ClockIsSound, NoJob
  <1>5. CASE phase.k \in DOMAIN ReplayJobs
    <2> PICK x : x = ReplayJobs[phase.k]
      OBVIOUS
    <2>1. x \in ReplayRecord
      BY <1>5, EngineAssumption
    <2>2. /\ x.task \in TaskIds /\ x.release \in Nat /\ x.deadline \in Nat
          /\ x.actual \in Nat \cup {Unset}
      BY <2>1 DEF ReplayRecord
    <2> PICK r : r = NewJob(x.task, x.release, x.deadline, x.actual)
      OBVIOUS
    <2>3. AddJob(r, x.deadline + 1)
      BY <1>5 DEF ScheduleReplayJob
    <2>4. NewJob(x.task, x.release, x.deadline, x.actual) \in JobRecord
      BY <2>2, NewJobRecord
    <2>5. /\ NewJob(x.task, x.release, x.deadline, x.actual).state = "Released"
          /\ NewJob(x.task, x.release, x.deadline, x.actual).release = x.release
      BY DEF NewJob
    <2>6. r \in JobRecord /\ r.state = "Released" /\ r.release = x.release
      BY <2>4, <2>5, ZenonT(30)
    <2>7. x.deadline + 1 \in Nat /\ x.deadline + 1 >= now /\ x.release >= now
      BY <1>2, <2>2
    <2> QED BY <1>1, <1>2, <1>4, <2>3, <2>6, <2>7, AddJobStep
  <1>6. CASE phase.k \notin DOMAIN ReplayJobs
    <2>1. UNCHANGED <<nextJob, jobs, events, seq>>
      BY <1>6 DEF ScheduleReplayJob, jobVars, eventVars
    <2> QED BY <1>1, <1>2, <1>4, <2>1, ScheduleStep DEF IInv, TypeOK
  <1> QED BY <1>5, <1>6

(* The end of the arrival handler releases the task's next job.             *)
LEMMA ReleaseNextJobInv == IInv /\ ReleaseNextJob => IInv'
  <1> SUFFICES ASSUME IInv, ReleaseNextJob PROVE IInv'
    OBVIOUS
  <1>1. /\ UNCHANGED <<now, level, running, queue, busy, active, pending, trig, tick, metrics, act>>
        /\ phase.op = "release" /\ act.op = "none" /\ phase' = Trigger
    BY DEF ReleaseNextJob, Continues, deviceVars, transferVars, reevalVars
  <1>2. phase.k \in TaskIds /\ now \in Nat
    BY <1>1 DEF IInv, PhaseIsSound, TypeOK
  <1>3. phase' \in PhaseRecord /\ phase'.op = "trigger" /\ PhaseIsSound'
    BY <1>1, NewPhase DEF Trigger, PhaseOps
  <1>4. ClockIsSound'
    BY <1>1, <1>3 DEF IInv, ClockIsSound
  <1>5. CASE Task[phase.k].period > 0
    <2> PICK release : release = now + Task[phase.k].period
      OBVIOUS
    <2>1. ScheduleJobRelease(phase.k, release)
      BY <1>5 DEF ReleaseNextJob
    <2>2. release \in Nat /\ release >= now
      <3>1. Task[phase.k].period \in Nat
        BY <1>2, PlatformAssumption DEF TaskRecord
      <3> QED BY <1>2, <3>1
    <2> QED BY <1>1, <1>2, <1>3, <1>4, <2>1, <2>2, ScheduleJobReleaseStep
  <1>6. CASE ~(Task[phase.k].period > 0)
    <2>1. UNCHANGED <<nextJob, jobs, events, seq>>
      BY <1>6 DEF ReleaseNextJob, jobVars, eventVars
    <2> QED BY <1>1, <1>3, <1>4, <2>1, ScheduleStep DEF IInv, TypeOK
  <1> QED BY <1>5, <1>6

-----------------------------------------------------------------------------
(* The theorems                                                             *)

(* The engine starts with nothing created and nothing scheduled.            *)
LEMMA InitInv == Init => IInv
  <1> SUFFICES ASSUME Init PROVE IInv
    OBVIOUS
  <1> USE DEF Init
  <1>1. JobIds = {}
    BY DEF JobIds
  <1>2. TypeOK
    BY <1>1 DEF TypeOK, Levels, NoAction, ActRecord, Phase, PhaseRecord, PhaseOps, NoJob, NoDevice
  <1>3. Placement
    BY <1>1 DEF Placement, SlotsHoldRunningJobs, RunningJobsHaveSlots, QueuesHoldWaitingJobs,
                SuspendedJobsWait
  <1>4. EventsAreSound
    BY <1>1 DEF EventsAreSound, LiveEventsAreMeant, EventsAreWellFormed, ArrivalsAreFresh,
                WaitingTransfersAreMeant, StartedJobsHaveModels, NothingInThePast
  <1>5. ActionIsSound /\ PhaseIsSound /\ ClockIsSound
    BY DEF ActionIsSound, SoundAction, PhaseIsSound, ClockIsSound, NoAction, Phase
  <1> QED BY <1>2, <1>3, <1>4, <1>5 DEF IInv

(* Every step of the engine, whatever the scheduler answers, keeps the      *)
(* inductive invariant.                                                     *)
LEMMA NextInv == IInv /\ [Next]_vars => IInv'
  <1> SUFFICES ASSUME IInv, [Next]_vars PROVE IInv'
    OBVIOUS
  <1>1. CASE EngineStep
    BY <1>1, ScheduleInitialArrivalInv, ScheduleReplayJobInv, StartRunInv, DispatchTerminalInv,
       DispatchBusyInv, DispatchWithoutModelInv, DispatchTransferInv, DispatchRunInv, PreemptNowInv,
       PreemptDeferredInv, EnqueueJobInv, DropJobInv, DiscardStaleInv, SimulationEndInv,
       DeadlineCheckInv, BudgetOverrunInv, TriggeredReevaluationInv, PeriodicReevaluationInv,
       ReleaseNextJobInv, ReschedulePointInv, DropLoJobsInv,
       DispatchIdleDoneInv, ReevaluateDoneInv, ScheduleTriggeredInv, StutterInv
    DEF EngineStep, Ended
  <1>2. CASE SchedulerStep
    BY <1>2, TaskArrivalInv, JobCompleteInv, PreemptionPointInv, TransferCompleteInv,
       SchedulerDropsLoInv, SchedulerDropsNoMoreInv, DispatchIdleInv, ReevaluateInv
    DEF SchedulerStep, AtDevice
  <1>3. CASE UNCHANGED vars
    BY <1>3, StutterInv
  <1> QED BY <1>1, <1>2, <1>3 DEF Next

(* The inductive invariant holds in every reachable state.                  *)
THEOREM Invariance == Spec => []IInv
  <1>1. Init => IInv
    BY InitInv
  <1>2. IInv /\ [Next]_vars => IInv'
    BY NextInv
  <1> QED BY <1>1, <1>2, PTL DEF Spec

(* Type correctness.                                                        *)
THEOREM TypeCorrectness == Spec => []TypeOK
  <1>1. IInv => TypeOK
    BY DEF IInv
  <1> QED BY <1>1, Invariance, PTL

(* The job table and the device manager always agree: a slot holds exactly  *)
(* the running job of its device, a queue only jobs waiting for it, and no  *)
(* preempted job is lost.                                                   *)
THEOREM PlacementHolds == Spec => []Placement
  <1>1. IInv => Placement
    BY DEF IInv
  <1> QED BY <1>1, Invariance, PTL

(* An event that passes the staleness check finds its job in the state and  *)
(* on the device it was scheduled for.                                      *)
THEOREM LiveEventsAreAlwaysMeant == Spec => []LiveEventsAreMeant
  <1>1. IInv => LiveEventsAreMeant
    BY DEF IInv, EventsAreSound
  <1> QED BY <1>1, Invariance, PTL

(* The clock never has to move backwards: the debug_assert of run() holds.  *)
THEOREM ClockIsMonotone == Spec => []NothingInThePast
  <1>1. IInv => NothingInThePast
    BY DEF IInv, EventsAreSound
  <1> QED BY <1>1, Invariance, PTL

-----------------------------------------------------------------------------
(* Jobs                                                                     *)

(* What a step may do to job k.                                             *)
JobAllowed(k) ==
    /\ IsTerminal(k) => jobs'[k] = jobs[k]
    /\ jobs'[k].task = jobs[k].task
    /\ jobs'[k].state # jobs[k].state =>
          /\ jobs'[k].ver > jobs[k].ver
          /\ \/ jobs'[k].state \in LegalSuccessors(jobs[k].state)
             \/ ~IsTerminal(k) /\ jobs'[k].state \in {"Dropped", "DeadlineMissed"}
    /\ jobs[k].state = "Running" /\ jobs'[k].state = "Running" => jobs'[k] = jobs[k]
    /\ jobs[k].state = "Running" /\ jobs'[k].state = "Suspended" => PreemptNow /\ k = act.job
JobsAllowed == \A k \in JobIds : JobAllowed(k)

(* No job starts or stops waiting for its data, unless it is too late.      *)
TransfersKept ==
    /\ JobIds \subseteq JobIds'
    /\ \A k \in JobIds' : k \notin JobIds => jobs'[k].state # "Transferring"
    /\ \A k \in JobIds :
          \/ jobs'[k] = jobs[k]
          \/ jobs'[k].state = "DeadlineMissed"
          \/ /\ "Transferring" \notin {jobs[k].state, jobs'[k].state}
             /\ jobs[k].state # "DeadlineMissed"

(* Record r is a legal next record of the unfinished job v.                 *)
LegalNext(v, r) ==
    /\ ~IsTerminal(v)
    /\ r.task = jobs[v].task
    /\ r.ver > jobs[v].ver
    /\ r.state = "Suspended" => PreemptNow /\ v = act.job
    /\ r.state \in LegalSuccessors(jobs[v].state) \cup {"Dropped", "DeadlineMissed"}

(* The diagram, state by state.                                             *)
LEMMA Successors ==
    /\ \A s \in {"Released", "Ready"} :
          {"Transferring", "Running"} \subseteq LegalSuccessors(s)
    /\ "Ready" \in LegalSuccessors("Released")
    /\ "Ready" \in LegalSuccessors("Transferring")
    /\ {"Suspended", "Completed"} \subseteq LegalSuccessors("Running")
    /\ "Running" \in LegalSuccessors("Suspended")
  BY DEF LegalSuccessors

(* A step that changes one job to a legal next record.                      *)
LEMMA OneJobMoves ==
    ASSUME TypeOK, NEW v \in JobIds, NEW r, LegalNext(v, r) \/ r = jobs[v],
           jobs' = [jobs EXCEPT ![v] = r]
    PROVE  /\ JobsAllowed
           /\ /\ nextJob' = nextJob
              /\ \/ r = jobs[v]
                 \/ r.state = "DeadlineMissed"
                 \/ ~IsTerminal(v) /\ "Transferring" \notin {jobs[v].state, r.state}
              => TransfersKept
  <1>1. jobs'[v] = r /\ \A k \in JobIds : k # v => jobs'[k] = jobs[k]
    BY DEF TypeOK
  <1>2. JobAllowed(v)
    BY <1>1 DEF JobAllowed, LegalNext, LegalSuccessors
  <1>3. \A k \in JobIds : k # v => JobAllowed(k)
    BY <1>1 DEF JobAllowed
  <1>4. nextJob' = nextJob => JobIds' = JobIds
    BY DEF JobIds
  <1> QED BY <1>1, <1>2, <1>3, <1>4 DEF JobsAllowed, TransfersKept, IsTerminal, TerminalStates

(* A step that leaves the existing jobs alone.                              *)
LEMMA NoJobMoves ==
    ASSUME \A k \in JobIds : jobs'[k] = jobs[k]
    PROVE  JobsAllowed /\ (nextJob' = nextJob => TransfersKept)
  BY DEF JobsAllowed, JobAllowed, TransfersKept, JobIds

-----------------------------------------------------------------------------
(* The steps that create jobs                                               *)

(* A new job takes an id no other job has.                                  *)
LEMMA AddJobJobs ==
    ASSUME TypeOK, NEW r, NEW t, AddJob(r, t), r.state = "Released"
    PROVE  JobsAllowed /\ TransfersKept
  <1>1. nextJob \in Nat /\ JobIds = 0 .. nextJob - 1
    BY DEF TypeOK, JobIds
  <1>2. /\ nextJob' = nextJob + 1
        /\ jobs' = [j \in 0 .. nextJob |-> IF j = nextJob THEN r ELSE jobs[j]]
    BY DEF AddJob, AppendJob
  <1>3. /\ \A k \in JobIds : jobs'[k] = jobs[k]
        /\ JobIds \subseteq JobIds'
        /\ \A k \in JobIds' : k \notin JobIds => jobs'[k] = r
    BY <1>1, <1>2 DEF JobIds
  <1> QED BY <1>3, NoJobMoves DEF TransfersKept

(* The release of a job of a recurring task.                                *)
LEMMA ScheduleJobReleaseJobs ==
    ASSUME TypeOK, NEW t, NEW release, ScheduleJobRelease(t, release)
    PROVE  JobsAllowed /\ TransfersKept
  <1>1. CASE release > Duration
    BY <1>1, NoJobMoves DEF ScheduleJobRelease, jobVars
  <1>2. CASE ~(release > Duration)
    <2> PICK r : r = NewJob(t, release, release + Task[t].deadline, Unset)
      OBVIOUS
    <2>1. r.state = "Released"
      BY DEF NewJob
    <2>2. AddJob(r, release + Task[t].deadline)
      BY <1>2 DEF ScheduleJobRelease
    <2> QED BY <2>1, <2>2, AddJobJobs
  <1> QED BY <1>1, <1>2

(* One step of the three loops that release jobs.                           *)
LEMMA ReleaseJobs ==
    ASSUME TypeOK, ScheduleInitialArrival \/ ScheduleReplayJob \/ ReleaseNextJob
    PROVE  JobsAllowed /\ TransfersKept
  <1>1. CASE ScheduleInitialArrival
    BY <1>1, ScheduleJobReleaseJobs, NoJobMoves DEF ScheduleInitialArrival, jobVars
  <1>2. CASE ScheduleReplayJob
    <2>1. CASE phase.k \in DOMAIN ReplayJobs
      <3>1. PICK r, t : AddJob(r, t) /\ r.state = "Released"
        BY <1>2, <2>1 DEF ScheduleReplayJob, NewJob
      <3> QED BY <3>1, AddJobJobs
    <2>2. CASE phase.k \notin DOMAIN ReplayJobs
      BY <1>2, <2>2, NoJobMoves DEF ScheduleReplayJob, jobVars
    <2> QED BY <2>1, <2>2
  <1>3. CASE ReleaseNextJob
    BY <1>3, ScheduleJobReleaseJobs, NoJobMoves DEF ReleaseNextJob, jobVars
  <1> QED BY <1>1, <1>2, <1>3

-----------------------------------------------------------------------------
(* The steps that execute a scheduler action                                *)

(* A preempted job stays on the device it was preempted on, so its data is  *)
(* there: no transfer can intervene between a suspension and a resumption.  *)
LEMMA SuspendedNeedsNoTransfer ==
    ASSUME IInv, MayDispatch, jobs[act.job].state = "Suspended"
    PROVE  jobs[act.job].dev = act.dev
  <1>1. act.job \in JobIds
    BY DispatchBasics
  <1>2. jobs[act.job].dev \in DeviceIds /\ act.job \in queue[jobs[act.job].dev]
    BY <1>1 DEF IInv, Placement, SuspendedJobsWait
  <1>3. Placeable(act.job, act.dev) /\ ~IsTerminal(act.job)
    BY DEF MayDispatch, Executing, IInv, ActionIsSound, SoundAction
  <1> QED BY <1>2, <1>3, WaitingJob

(* A job leaves for its target's memory only before it has ever run.        *)
LEMMA DispatchTransferJobs == IInv /\ DispatchTransfer => JobsAllowed
  <1> SUFFICES ASSUME IInv, DispatchTransfer PROVE JobsAllowed
    OBVIOUS
  <1> PICK j : j = act.job
    OBVIOUS
  <1>1. MayDispatch /\ jobs[j].dev # act.dev
    BY DEF DispatchTransfer, NeedsTransfer
  <1>2. PICK x \in ExecTimes :
           jobs' = [jobs EXCEPT ![j] =
                      Settle(Assigned(Resolved(jobs[j], x), act.dev, Unset), "Transferring")]
    BY DEF DispatchTransfer
  <1> PICK q : q = Assigned(Resolved(jobs[j], x), act.dev, Unset)
    OBVIOUS
  <1> PICK r : r = Settle(q, "Transferring")
    OBVIOUS
  <1>3. j \in JobIds /\ jobs[j].ver \in Nat /\ jobs[j].state \in {"Released", "Ready"}
    BY <1>1, DispatchBasics, SuspendedNeedsNoTransfer
  <1>4. q \in JobRecord /\ q.state = jobs[j].state /\ q.ver = jobs[j].ver /\ q.task = jobs[j].task
    <2>1. x \in Nat
      BY <1>1, DispatchBasics, SampleExecTimeNat DEF ExecTimes
    <2>2. /\ Resolved(jobs[j], x) \in JobRecord
          /\ Resolved(jobs[j], x).state = jobs[j].state
          /\ Resolved(jobs[j], x).ver = jobs[j].ver
          /\ Resolved(jobs[j], x).task = jobs[j].task
      BY <1>1, <2>1, DispatchBasics, ResolvedLemma
    <2>3. act.dev \in DeviceIds /\ Unset \in Nat \cup {Unset}
      BY <1>1, DispatchBasics
    <2> QED BY <2>2, <2>3, AssignedLemma
  <1>5. r.state = "Transferring" /\ r.ver = jobs[j].ver + 1 /\ r.task = jobs[j].task
    <2>1. "Transferring" \in JobStates
      BY DEF JobStates
    <2> QED BY <1>3, <1>4, <2>1, SettleLemma
  <1>6. LegalNext(j, r)
    BY <1>3, <1>5, Successors DEF LegalNext, IsTerminal, TerminalStates
  <1> QED BY <1>2, <1>3, <1>6, OneJobMoves DEF IInv

(* A job starts or resumes.                                                 *)
LEMMA DispatchRunJobs == IInv /\ DispatchRun => JobsAllowed /\ TransfersKept
  <1> SUFFICES ASSUME IInv, DispatchRun PROVE JobsAllowed /\ TransfersKept
    OBVIOUS
  <1> PICK j : j = act.job
    OBVIOUS
  <1>1. MayDispatch
    BY DEF DispatchRun
  <1>2. PICK x \in ExecTimes :
           jobs' = [jobs EXCEPT ![j] =
                      Transition(Assigned(Resolved(jobs[j], x), act.dev, now), "Running")]
    BY DEF DispatchRun
  <1> PICK q : q = Assigned(Resolved(jobs[j], x), act.dev, now)
    OBVIOUS
  <1> PICK r : r = Transition(q, "Running")
    OBVIOUS
  <1>3. /\ j \in JobIds /\ jobs[j].ver \in Nat
        /\ jobs[j].state \in {"Released", "Ready", "Suspended"}
    BY <1>1, DispatchBasics
  <1>4. q \in JobRecord /\ q.ver = jobs[j].ver /\ q.task = jobs[j].task
    <2>1. x \in Nat
      BY <1>1, DispatchBasics, SampleExecTimeNat DEF ExecTimes
    <2>2. /\ Resolved(jobs[j], x) \in JobRecord
          /\ Resolved(jobs[j], x).ver = jobs[j].ver
          /\ Resolved(jobs[j], x).task = jobs[j].task
      BY <1>1, <2>1, DispatchBasics, ResolvedLemma
    <2>3. act.dev \in DeviceIds /\ now \in Nat \cup {Unset}
      BY <1>1, DispatchBasics
    <2> QED BY <2>2, <2>3, AssignedLemma
  <1>5. r.state = "Running" /\ r.ver = jobs[j].ver + 1 /\ r.task = jobs[j].task
    <2>1. "Running" \in JobStates
      BY DEF JobStates
    <2> QED BY <1>4, <2>1, TransitionLemma
  <1>6. LegalNext(j, r)
    BY <1>3, <1>5, Successors DEF LegalNext, IsTerminal, TerminalStates
  <1>7. nextJob' = nextJob
    BY DEF DispatchRun
  <1> QED BY <1>2, <1>3, <1>5, <1>6, <1>7, OneJobMoves DEF IInv, IsTerminal, TerminalStates

(* The job in the slot is the one that is preempted, and it runs.           *)
LEMMA PreemptNowJobs == IInv /\ PreemptNow => JobsAllowed /\ TransfersKept
  <1> SUFFICES ASSUME IInv, PreemptNow PROVE JobsAllowed /\ TransfersKept
    OBVIOUS
  <1> PICK v : v = act.job
    OBVIOUS
  <1> PICK d : d = act.dev
    OBVIOUS
  <1>1. act.op = "preempt" /\ running[d] = v
    BY DEF PreemptNow, Executing
  <1>2. v \in JobIds /\ d \in DeviceIds /\ v # NoJob /\ now \in Nat
    BY <1>1 DEF IInv, ActionIsSound, SoundAction, Placeable, JobIds, NoJob, TypeOK
  <1>3. jobs[v] \in JobRecord /\ jobs[v].state = "Running" /\ jobs[v].start \in 0 .. now
    BY <1>1, <1>2, RunningJob
  <1> PICK p : p = Progressed(jobs[v], d, now)
    OBVIOUS
  <1> PICK r : r = Transition(p, "Suspended")
    OBVIOUS
  <1>4. p \in JobRecord /\ p.ver = jobs[v].ver /\ p.task = jobs[v].task
    BY <1>2, <1>3, ProgressedLemma
  <1>5. r.state = "Suspended" /\ r.ver = jobs[v].ver + 1 /\ jobs[v].ver \in Nat
        /\ r.task = jobs[v].task
    <2>1. "Suspended" \in JobStates /\ jobs[v].ver \in Nat
      BY <1>3 DEF JobStates, JobRecord
    <2> QED BY <1>4, <2>1, TransitionLemma
  <1>6. LegalNext(v, r)
    BY <1>3, <1>5, Successors DEF LegalNext, IsTerminal, TerminalStates
  <1>7. jobs' = [jobs EXCEPT ![v] = r] /\ nextJob' = nextJob
    BY DEF PreemptNow
  <1> QED BY <1>2, <1>3, <1>5, <1>6, <1>7, OneJobMoves DEF IInv, IsTerminal, TerminalStates

(* A job is enqueued when it has just been released, or has just got its    *)
(* data: a suspended job is in a queue already.                             *)
LEMMA EnqueueJobJobs == IInv /\ EnqueueJob => JobsAllowed /\ TransfersKept
  <1> SUFFICES ASSUME IInv, EnqueueJob PROVE JobsAllowed /\ TransfersKept
    OBVIOUS
  <1> PICK j : j = act.job
    OBVIOUS
  <1> PICK d : d = act.dev
    OBVIOUS
  <1>1. Placeable(j, d) /\ ~Queued(j)
    BY DEF EnqueueJob, Executing, IInv, ActionIsSound, SoundAction
  <1>2. CASE IsTerminal(j)
    BY <1>2, NoJobMoves DEF EnqueueJob
  <1>3. CASE ~IsTerminal(j)
    <2>1. /\ j \in JobIds /\ d \in DeviceIds
          /\ jobs[j] \in JobRecord /\ jobs[j].ver \in Nat
          /\ jobs[j].state \in {"Released", "Ready", "Suspended"}
      BY <1>1, <1>3, WaitingJob
    <2>2. jobs[j].state # "Suspended"
      BY <1>1, <2>1 DEF IInv, Placement, SuspendedJobsWait, Queued
    <2> PICK p : p = Assigned(jobs[j], d, Unset)
      OBVIOUS
    <2> PICK r : r = Settle(p, "Ready")
      OBVIOUS
    <2>3. p \in JobRecord /\ p.ver = jobs[j].ver /\ p.state = jobs[j].state
          /\ p.task = jobs[j].task
      <3>1. Unset \in Nat \cup {Unset}
        OBVIOUS
      <3> QED BY ZenonT(30), <2>1, <3>1, AssignedLemma
    <2>4. /\ r.state = "Ready" /\ r.task = jobs[j].task
          /\ r.ver = IF jobs[j].state = "Ready" THEN jobs[j].ver ELSE jobs[j].ver + 1
      <3>1. "Ready" \in JobStates
        BY DEF JobStates
      <3> QED BY <2>3, <3>1, SettleLemma
    <2>5. jobs' = [jobs EXCEPT ![j] = r]
      BY <1>3 DEF EnqueueJob
    <2>6. jobs'[j] = r /\ \A k \in JobIds : k # j => jobs'[k] = jobs[k]
      BY <2>1, <2>5 DEF IInv, TypeOK
    <2>7. JobAllowed(j)
      BY <1>3, <2>1, <2>2, <2>4, <2>6, Successors DEF JobAllowed
    <2>8. \A k \in JobIds : k # j => JobAllowed(k)
      BY <2>6 DEF JobAllowed
    <2>9. JobIds' = JobIds
      BY DEF EnqueueJob, JobIds
    <2> QED BY <2>1, <2>4, <2>6, <2>7, <2>8, <2>9 DEF JobsAllowed, TransfersKept, IsTerminal
  <1> QED BY <1>2, <1>3

(* A job that is dropped or misses its deadline, unless it has ended.       *)
LEMMA RetireJobs ==
    ASSUME IInv, NEW j \in JobIds, NEW state \in {"Dropped", "DeadlineMissed"}, NEW t \in Nat,
           t >= now, Retire(j, state, t), nextJob' = nextJob
    PROVE  /\ JobsAllowed
           /\ state = "DeadlineMissed" => TransfersKept
           /\ \A k \in JobIds : k # j => jobs'[k] = jobs[k]
           /\ jobs'[j].state \in TerminalStates
  <1> PICK stopped : stopped = IF \E d \in DeviceIds : running[d] = j
                               THEN Progressed(jobs[j], jobs[j].dev, t)
                               ELSE [jobs[j] EXCEPT !.start = Unset]
    OBVIOUS
  <1> PICK r : r = IF IsTerminal(j) THEN jobs[j] ELSE Transition(stopped, state)
    OBVIOUS
  <1>1. jobs' = [jobs EXCEPT ![j] = r]
    BY DEF Retire
  <1>2. jobs[j] \in JobRecord /\ jobs[j].ver \in Nat /\ now \in Nat /\ j # NoJob
    BY DEF IInv, TypeOK, JobRecord, JobIds, NoJob
  <1>3. stopped \in JobRecord /\ stopped.ver = jobs[j].ver /\ stopped.task = jobs[j].task
    <2>1. CASE \E d \in DeviceIds : running[d] = j
      <3>1. jobs[j].start \in 0 .. t /\ jobs[j].dev \in DeviceIds
        BY <1>2, <2>1, RunningJob
      <3> QED BY <1>2, <2>1, <3>1, ProgressedLemma
    <2>2. CASE ~\E d \in DeviceIds : running[d] = j
      BY <1>2, <2>2 DEF JobRecord
    <2> QED BY <2>1, <2>2
  <1>4. /\ (LegalNext(j, r) /\ r.state = state) \/ r = jobs[j]
        /\ r.state \in TerminalStates
    <2>1. CASE IsTerminal(j)
      BY <2>1 DEF IsTerminal
    <2>2. CASE ~IsTerminal(j)
      <3>1. state \in JobStates
        BY DEF JobStates, TerminalStates
      <3>2. /\ Transition(stopped, state).state = state
            /\ Transition(stopped, state).ver = stopped.ver + 1
            /\ Transition(stopped, state).task = stopped.task
        BY <1>3, <3>1, TransitionLemma, ZenonT(30)
      <3>3. r = Transition(stopped, state)
        BY <2>2
      <3>4. r.state = state /\ r.ver = jobs[j].ver + 1 /\ r.task = jobs[j].task
        BY <1>3, <3>2, <3>3
      <3> QED BY <1>2, <2>2, <3>4 DEF LegalNext, TerminalStates
    <2> QED BY <2>1, <2>2
  <1>5. jobs'[j] = r /\ \A k \in JobIds : k # j => jobs'[k] = jobs[k]
    BY <1>1 DEF IInv, TypeOK
  <1> QED BY <1>1, <1>4, <1>5, OneJobMoves DEF IInv

(* Drops come from the scheduler, and after a criticality switch from the   *)
(* engine.                                                                  *)
LEMMA DropJobJobs == IInv /\ DropJob => JobsAllowed
  <1> SUFFICES ASSUME IInv, DropJob PROVE JobsAllowed
    OBVIOUS
  <1>1. act.job \in JobIds /\ Retire(act.job, "Dropped", now)
    BY DEF DropJob, Executing, IInv, ActionIsSound, SoundAction
  <1>2. now \in Nat /\ now >= now /\ nextJob' = nextJob
    BY DEF IInv, TypeOK, DropJob
  <1> QED BY <1>1, <1>2, RetireJobs

-----------------------------------------------------------------------------
(* The handlers                                                             *)

(* A deadline check ends only a job that has not ended.                     *)
LEMMA DeadlineCheckJobs ==
    ASSUME IInv, NEW e \in events, DeadlineCheck(e)
    PROVE  JobsAllowed /\ TransfersKept
  <1>1. Pops(e) /\ e.kind = "DeadlineCheck" /\ nextJob' = nextJob
    BY DEF DeadlineCheck, Handles
  <1>2. e.job \in JobIds /\ e.time \in Nat /\ e.time >= now
    BY <1>1, PopBasics DEF IInv, EventsAreSound, EventsAreWellFormed
  <1>3. CASE HasMissedDeadline(e.job, e.time)
    <2>1. Retire(e.job, "DeadlineMissed", e.time)
      BY <1>3 DEF DeadlineCheck
    <2> QED BY <1>1, <1>2, <2>1, RetireJobs
  <1>4. CASE ~HasMissedDeadline(e.job, e.time)
    BY <1>1, <1>4, NoJobMoves DEF DeadlineCheck
  <1> QED BY <1>3, <1>4

(* A completion that is believed finds the job running.                     *)
LEMMA JobCompleteJobs ==
    ASSUME IInv, NEW e \in EventsOf("JobComplete"), NEW a, JobComplete(e, a)
    PROVE  JobsAllowed /\ TransfersKept
  <1> PICK j : j = e.job
    OBVIOUS
  <1>1. e \in events /\ e.kind = "JobComplete" /\ Pops(e) /\ ~IsStale(e)
    BY DEF JobComplete, Handles, EventsOf
  <1>2. j \in JobIds /\ jobs[j].state = "Running" /\ running[e.dev] = j
    BY <1>1, LiveRunningEvent
  <1>3. jobs[j] \in JobRecord /\ jobs[j].ver \in Nat
    BY <1>2 DEF IInv, TypeOK, JobRecord
  <1>4. PICK done : jobs' = [jobs EXCEPT ![j] =
                       Transition([jobs[j] EXCEPT !.exec = done, !.start = Unset], "Completed")]
    BY <1>2 DEF JobComplete
  <1> PICK p : p = [jobs[j] EXCEPT !.exec = done, !.start = Unset]
    OBVIOUS
  <1> PICK r : r = Transition(p, "Completed")
    OBVIOUS
  <1>5. r.state = "Completed" /\ r.ver = jobs[j].ver + 1 /\ r.task = jobs[j].task
    BY <1>3 DEF Transition, JobRecord
  <1>6. LegalNext(j, r)
    BY <1>2, <1>3, <1>5, Successors DEF LegalNext, IsTerminal, TerminalStates
  <1>7. nextJob' = nextJob
    BY DEF JobComplete
  <1> QED BY <1>2, <1>4, <1>5, <1>6, <1>7, OneJobMoves DEF IInv, IsTerminal, TerminalStates

(* A transfer that completes finds the job waiting for its data.            *)
LEMMA TransferCompleteJobs ==
    ASSUME IInv, NEW e \in EventsOf("TransferComplete"), NEW a, TransferComplete(e, a)
    PROVE  JobsAllowed
  <1> PICK j : j = e.job
    OBVIOUS
  <1>1. e \in events /\ e.kind = "TransferComplete" /\ ~IsStale(e)
    BY DEF TransferComplete, Handles, EventsOf
  <1>2. j \in JobIds /\ e.dev \in DeviceIds /\ jobs[j].state = "Transferring"
    BY <1>1 DEF IsStale, IInv, EventsAreSound, LiveEventsAreMeant, EventsAreWellFormed, VersionedKinds
  <1>3. jobs[j] \in JobRecord /\ jobs[j].ver \in Nat
    BY <1>2 DEF IInv, TypeOK, JobRecord
  <1> PICK p : p = Assigned(jobs[j], e.dev, Unset)
    OBVIOUS
  <1> PICK r : r = Settle(p, "Ready")
    OBVIOUS
  <1>4. jobs' = [jobs EXCEPT ![j] = r]
    BY <1>2 DEF TransferComplete, IsTerminal, TerminalStates
  <1>5. p \in JobRecord /\ p.ver = jobs[j].ver /\ p.state = "Transferring"
        /\ p.task = jobs[j].task
    <2>1. Unset \in Nat \cup {Unset}
      OBVIOUS
    <2> QED BY ZenonT(30), <1>2, <1>3, <2>1, AssignedLemma
  <1>6. r.state = "Ready" /\ r.ver = jobs[j].ver + 1 /\ r.task = jobs[j].task
    <2>1. "Ready" \in JobStates
      BY DEF JobStates
    <2> QED BY <1>5, <2>1, SettleLemma
  <1>7. LegalNext(j, r)
    BY <1>2, <1>3, <1>6, Successors DEF LegalNext, IsTerminal, TerminalStates
  <1> QED BY <1>2, <1>4, <1>7, OneJobMoves DEF IInv

-----------------------------------------------------------------------------
(* The theorems                                                             *)

(* Every step of the engine treats every job as the state machine says.     *)
LEMMA NextJobs == IInv /\ [Next]_vars => JobsAllowed
  <1> SUFFICES ASSUME IInv, [Next]_vars PROVE JobsAllowed
    OBVIOUS
  <1>0. TypeOK /\ (UNCHANGED jobs => JobsAllowed)
    BY NoJobMoves DEF IInv
  <1>1. CASE EngineStep
    <2>1. CASE ScheduleInitialArrival \/ ScheduleReplayJob \/ ReleaseNextJob
      BY <1>0, <2>1, ReleaseJobs
    <2>2. CASE DispatchTransfer \/ DispatchRun \/ PreemptNow \/ EnqueueJob \/ DropJob
      BY <2>2, DispatchTransferJobs, DispatchRunJobs, PreemptNowJobs, EnqueueJobJobs, DropJobJobs
    <2>3. CASE \E e \in events : DeadlineCheck(e)
      BY <2>3, DeadlineCheckJobs
    <2>4. CASE \/ StartRun \/ DispatchTerminal \/ DispatchBusy \/ DispatchWithoutModel
               \/ PreemptDeferred \/ DiscardStale \/ SimulationEnd \/ Ended
      BY <1>0, <2>4 DEF StartRun, DispatchTerminal, DispatchBusy, DispatchWithoutModel,
                        PreemptDeferred, DiscardStale, SimulationEnd, Ended, jobVars, vars
    <2>5. CASE \/ \E e \in events : \/ BudgetOverrun(e)
                                    \/ TriggeredReevaluation(e)
                                    \/ PeriodicReevaluation(e)
               \/ ReschedulePoint \/ DropLoJobs \/ DispatchIdleDone \/ ReevaluateDone
               \/ ScheduleTriggeredReevaluation
      BY <1>0, <2>5 DEF BudgetOverrun, TriggeredReevaluation, PeriodicReevaluation,
                        ReschedulePoint, DropLoJobs, DispatchIdleDone, ReevaluateDone,
                        ScheduleTriggeredReevaluation, jobVars
    <2> QED BY <1>1, <2>1, <2>2, <2>3, <2>4, <2>5 DEF EngineStep
  <1>2. CASE SchedulerStep
    <2>1. CASE \E e \in EventsOf("JobComplete") : \E a \in FreeActions(e.dev) : JobComplete(e, a)
      BY <2>1, JobCompleteJobs
    <2>2. CASE \E e \in EventsOf("TransferComplete") :
                  \E a \in ArrivalActions(e.job) : TransferComplete(e, a)
      BY <2>2, TransferCompleteJobs
    <2>3. CASE \/ \E e, a : TaskArrival(e, a) \/ PreemptionPoint(e, a)
               \/ \E j : SchedulerDropsLo(j)
               \/ SchedulerDropsNoMore
               \/ \E a : DispatchIdle(a) \/ Reevaluate(a)
      BY <1>0, <2>3 DEF TaskArrival, PreemptionPoint, SchedulerDropsLo, SchedulerDropsNoMore,
                        DispatchIdle, Reevaluate, jobVars
    <2> QED BY <1>2, <2>1, <2>2, <2>3 DEF SchedulerStep
  <1>3. CASE UNCHANGED vars
    BY <1>0, <1>3 DEF vars, jobVars
  <1> QED BY <1>1, <1>2, <1>3 DEF Next

(* A finished job is never touched again, and a job that changes state      *)
(* invalidates the events it left behind, whatever stale events, action     *)
(* lists and transfers still name it.                                       *)
THEOREM FinishedJobsStayFinished == Spec => FinishedStaysFinished
  <1>1. IInv /\ [Next]_vars => [FinishedIsFinal]_vars
    BY NextJobs DEF JobsAllowed, JobAllowed, FinishedIsFinal
  <1> QED BY <1>1, Invariance, PTL DEF Spec, FinishedStaysFinished

(* Every job follows the state machine drawn in job.rs, for every scheduler *)
(* of the class.                                                            *)
THEOREM JobsFollowTheStateMachine == Spec => LegalTransitions
  <1>1. IInv /\ [Next]_vars => [LegalTransition]_vars
    BY NextJobs DEF JobsAllowed, JobAllowed, LegalTransition
  <1> QED BY <1>1, Invariance, PTL DEF Spec, LegalTransitions

-----------------------------------------------------------------------------
(* The steps that do not touch the buses                                    *)

(* The completions of a kind that would be believed stay.                   *)
CompletionsKept(kind) ==
    \A e : e.kind = kind =>
        /\ e \in events' => e \in events
        /\ e \in events => e \in events' \/ IsStale(e)

BusesKept ==
    /\ UNCHANGED <<active, pending>>
    /\ seq' >= seq
    /\ CompletionsKept("TransferComplete")

(* Most steps schedule and discard no completion of a job either.           *)
QuietStep == BusesKept /\ CompletionsKept("JobComplete")

(* Such a step keeps the transfers accounted for.                           *)
LEMMA BusFrame ==
    ASSUME IInv, BusIInv, BusesKept, JobsAllowed, TransfersKept, seq' \in Nat
    PROVE  BusIInv'
  <1>0. seq \in Nat /\ \A p \in pending : p.stamp \in Nat /\ p.job \in JobIds
    BY DEF IInv, TypeOK
  <1>1. BusExclusive'
    BY DEF BusIInv, BusExclusive, BusesKept
  <1>2. StampsAreDistinct'
    BY <1>0 DEF BusIInv, StampsAreDistinct, BusesKept
  <1>3. WaitingTransfersCanStart'
    BY DEF BusIInv, WaitingTransfersCanStart, BusesKept
  <1>5. TransfersAreWanted'
    <2>1. \A x \in active \cup pending :
              x.job \in JobIds /\ jobs[x.job].state \in {"Transferring", "DeadlineMissed"}
      BY <1>0 DEF IInv, TypeOK, BusIInv, TransfersAreWanted
    <2>2. \A k \in JobIds : jobs[k].state \in {"Transferring", "DeadlineMissed"} =>
              jobs'[k].state \in {"Transferring", "DeadlineMissed"}
      BY DEF TransfersKept
    <2> QED BY <2>1, <2>2 DEF TransfersAreWanted, BusesKept
  <1>4. TransfersAccounted'
    <2> SUFFICES ASSUME NEW k \in JobIds', jobs'[k].state = "Transferring"
                 PROVE  /\ k \in JobIds /\ jobs[k].state = "Transferring" /\ jobs'[k] = jobs[k]
                        /\ LiveTransfers(k)' = LiveTransfers(k)
                        /\ WaitingTransfers(k)' = WaitingTransfers(k)
      BY DEF BusIInv, TransfersAccounted
    <2>1. k \in JobIds /\ jobs'[k] = jobs[k]
      BY DEF TransfersKept, TerminalStates
    <2>2. LiveTransfers(k)' = LiveTransfers(k)
      BY <2>1 DEF LiveTransfers, BusesKept, CompletionsKept, IsStale, VersionedKinds
    <2>3. WaitingTransfers(k)' = WaitingTransfers(k)
      BY DEF WaitingTransfers, BusesKept
    <2> QED BY <2>1, <2>2, <2>3
  <1> QED BY <1>1, <1>2, <1>3, <1>4, <1>5 DEF BusIInv

(* A step that leaves the events alone, or only pops one that completes     *)
(* nothing.                                                                 *)
LEMMA NothingScheduled ==
    ASSUME UNCHANGED <<seq, active, pending>>, TypeOK,
           \/ UNCHANGED events
           \/ \E e \in events : /\ events' = events \ {e}
                                /\ e.kind \notin {"JobComplete", "TransferComplete"} \/ IsStale(e)
    PROVE  QuietStep
  BY DEF QuietStep, BusesKept, CompletionsKept, TypeOK

(* Creating a job schedules its arrival and its deadline check.             *)
LEMMA AddJobBuses ==
    ASSUME TypeOK, NEW r, NEW t, AddJob(r, t), UNCHANGED <<active, pending>>
    PROVE  QuietStep
  <1> PICK arrival : arrival = Event(r.release, seq, "TaskArrival", nextJob, 0, NoDevice)
    OBVIOUS
  <1> PICK check : check = Event(t, seq + 1, "DeadlineCheck", nextJob, 0, NoDevice)
    OBVIOUS
  <1>1. events' = events \cup {arrival, check} /\ seq' = seq + 2
    BY DEF AddJob
  <1>2. arrival.kind = "TaskArrival" /\ check.kind = "DeadlineCheck"
    BY DEF Event
  <1>3. CompletionsKept("TransferComplete") /\ CompletionsKept("JobComplete")
    BY <1>1, <1>2 DEF CompletionsKept
  <1>4. seq' >= seq
    BY <1>1 DEF TypeOK
  <1> QED BY <1>3, <1>4 DEF QuietStep, BusesKept

(* The three loops that release jobs.                                       *)
LEMMA ReleaseBuses ==
    ASSUME TypeOK, ScheduleInitialArrival \/ ScheduleReplayJob \/ ReleaseNextJob
    PROVE  QuietStep
  <1>1. ASSUME NEW t, NEW release, ScheduleJobRelease(t, release), UNCHANGED <<active, pending>>
        PROVE  QuietStep
    BY <1>1, AddJobBuses, NothingScheduled DEF ScheduleJobRelease, eventVars
  <1>2. CASE ScheduleInitialArrival
    BY <1>1, <1>2, NothingScheduled DEF ScheduleInitialArrival, eventVars, transferVars
  <1>3. CASE ScheduleReplayJob
    <2>1. UNCHANGED <<active, pending>>
      BY <1>3 DEF ScheduleReplayJob, transferVars
    <2>2. CASE phase.k \in DOMAIN ReplayJobs
      <3>1. PICK r, t : AddJob(r, t)
        BY <1>3, <2>2 DEF ScheduleReplayJob
      <3> QED BY <2>1, <3>1, AddJobBuses
    <2>3. CASE phase.k \notin DOMAIN ReplayJobs
      BY <1>3, <2>1, <2>3, NothingScheduled DEF ScheduleReplayJob, eventVars
    <2> QED BY <2>2, <2>3
  <1>4. CASE ReleaseNextJob
    BY <1>1, <1>4, NothingScheduled DEF ReleaseNextJob, eventVars, transferVars
  <1> QED BY <1>2, <1>3, <1>4

(* A tick of the periodic reevaluation.                                     *)
LEMMA PeriodicBuses ==
    ASSUME TypeOK, NEW time, NEW end, SchedulePeriodicReevaluation(time, end),
           \A e \in end : e.kind = "SimulationEnd", UNCHANGED <<active, pending>>
    PROVE  QuietStep
  <1> PICK next : next = Event(time, seq + 1, "Periodic", NoJob, tick.gen + 1, NoDevice)
    OBVIOUS
  <1>1. next.kind = "Periodic"
    BY DEF Event
  <1>2. /\ \/ events' = (events \ {}) \cup end
           \/ events' = (events \ {}) \cup (end \cup {next})
        /\ seq' = seq + 1 \/ seq' = seq + 2
    BY DEF SchedulePeriodicReevaluation
  <1>3. CompletionsKept("TransferComplete") /\ CompletionsKept("JobComplete")
    BY <1>1, <1>2 DEF CompletionsKept
  <1>4. seq' >= seq
    BY <1>2 DEF TypeOK
  <1> QED BY <1>3, <1>4 DEF QuietStep, BusesKept

(* The head of run().                                                       *)
LEMMA StartRunBuses == TypeOK /\ StartRun => QuietStep
  <1> SUFFICES ASSUME TypeOK, StartRun PROVE QuietStep
    OBVIOUS
  <1> PICK end : end = {Event(Duration, seq, "SimulationEnd", NoJob, 0, NoDevice)}
    OBVIOUS
  <1>1. UNCHANGED <<active, pending>> /\ \A e \in end : e.kind = "SimulationEnd"
    BY DEF StartRun, transferVars, Event
  <1>2. CASE PeriodicInterval = 0
    <2>1. events' = (events \ {}) \cup end /\ seq' = seq + 1
      BY <1>2 DEF StartRun
    <2>2. CompletionsKept("TransferComplete") /\ CompletionsKept("JobComplete")
      BY <1>1, <2>1 DEF CompletionsKept
    <2>3. seq' >= seq
      BY <2>1 DEF TypeOK
    <2> QED BY <1>1, <2>2, <2>3 DEF QuietStep, BusesKept
  <1>3. CASE PeriodicInterval # 0
    <2>1. SchedulePeriodicReevaluation(PeriodicInterval, end)
      BY <1>3 DEF StartRun
    <2> QED BY <1>1, <2>1, PeriodicBuses
  <1> QED BY <1>2, <1>3

(* The tail of a periodic reevaluation.                                     *)
LEMMA ReevaluateDoneBuses == TypeOK /\ ReevaluateDone => QuietStep
  <1> SUFFICES ASSUME TypeOK, ReevaluateDone PROVE QuietStep
    OBVIOUS
  <1>1. UNCHANGED <<active, pending>>
    BY DEF ReevaluateDone, transferVars
  <1>2. CASE phase.op = "reevaluateTick"
    <2>1. SchedulePeriodicReevaluation(tick.next + PeriodicInterval, {})
      BY <1>2 DEF ReevaluateDone
    <2> QED BY <1>1, <2>1, PeriodicBuses
  <1>3. CASE phase.op # "reevaluateTick"
    BY <1>1, <1>3, NothingScheduled DEF ReevaluateDone, eventVars
  <1> QED BY <1>2, <1>3

(* The next preemption point, and the triggered reevaluation.               *)
LEMMA OneEventBuses ==
    ASSUME TypeOK, ReschedulePoint \/ ScheduleTriggeredReevaluation
    PROVE  QuietStep
  <1>1. UNCHANGED <<active, pending>>
    BY DEF ReschedulePoint, ScheduleTriggeredReevaluation, transferVars
  <1>2. CASE UNCHANGED <<events, seq>>
    BY <1>1, <1>2, NothingScheduled
  <1>3. ASSUME NEW t, NEW s, NEW k, NEW j, NEW v, NEW d, k \notin {"TransferComplete", "JobComplete"},
               events' = events \cup {Event(t, s, k, j, v, d)}, seq' = seq + 1
        PROVE  QuietStep
    <2>1. Event(t, s, k, j, v, d).kind = k
      BY DEF Event
    <2>2. CompletionsKept("TransferComplete") /\ CompletionsKept("JobComplete")
      BY <1>3, <2>1 DEF CompletionsKept
    <2>3. seq' >= seq
      BY <1>3 DEF TypeOK
    <2> QED BY <1>1, <2>2, <2>3 DEF QuietStep, BusesKept
  <1>4. CASE ReschedulePoint
    BY <1>2, <1>3, <1>4 DEF ReschedulePoint, eventVars
  <1>5. CASE ScheduleTriggeredReevaluation
    BY <1>2, <1>3, <1>5 DEF ScheduleTriggeredReevaluation, eventVars
  <1> QED BY <1>4, <1>5

(* A started job schedules no transfer.                                     *)
LEMMA DispatchRunBuses == TypeOK /\ DispatchRun => BusesKept
  <1> SUFFICES ASSUME TypeOK, DispatchRun PROVE BusesKept
    OBVIOUS
  <1>1. PICK r : /\ events' = events \cup StartEvents(act.job, r, act.dev, act.penalty)
                 /\ seq' = seq + 3
                 /\ UNCHANGED <<active, pending>>
    BY DEF DispatchRun, transferVars
  <1>2. \A e \in StartEvents(act.job, r, act.dev, act.penalty) : e.kind # "TransferComplete"
    BY DEF StartEvents, Event
  <1>3. CompletionsKept("TransferComplete")
    BY <1>1, <1>2 DEF CompletionsKept
  <1>4. seq' >= seq
    BY <1>1 DEF TypeOK
  <1> QED BY <1>1, <1>3, <1>4 DEF BusesKept

(* The handlers that pop an event that completes nothing.                   *)
LEMMA PopBuses ==
    ASSUME TypeOK,
           \/ DiscardStale \/ SimulationEnd
           \/ \E e \in events : \/ DeadlineCheck(e) \/ BudgetOverrun(e)
                                \/ TriggeredReevaluation(e) \/ PeriodicReevaluation(e)
           \/ \E e, a : TaskArrival(e, a) \/ PreemptionPoint(e, a)
    PROVE  QuietStep
  <1>1. UNCHANGED <<seq, active, pending>>
    BY DEF DiscardStale, SimulationEnd, DeadlineCheck, BudgetOverrun, TriggeredReevaluation,
           PeriodicReevaluation, TaskArrival, PreemptionPoint, transferVars
  <1>2. \E e \in events : /\ events' = events \ {e}
                          /\ e.kind \notin {"JobComplete", "TransferComplete"} \/ IsStale(e)
    BY DEF DiscardStale, SimulationEnd, DeadlineCheck, BudgetOverrun, TriggeredReevaluation,
           PeriodicReevaluation, TaskArrival, PreemptionPoint, Handles, Pops
  <1> QED BY <1>1, <1>2, NothingScheduled

(* The completion of a job touches no bus.                                  *)
LEMMA JobCompleteBuses ==
    ASSUME TypeOK, NEW e \in EventsOf("JobComplete"), NEW a, JobComplete(e, a)
    PROVE  BusesKept
  <1>1. UNCHANGED <<seq, active, pending>> /\ events' = events \ {e} /\ e.kind = "JobComplete"
    BY DEF JobComplete, EventsOf, transferVars
  <1> QED BY <1>1 DEF BusesKept, CompletionsKept, TypeOK

-----------------------------------------------------------------------------
(* A transfer starts, or waits for its bus                                  *)

(* A job has at most one transfer under way or waiting, of its new version. *)
LEMMA DispatchTransferBuses == IInv /\ BusIInv /\ DispatchTransfer => BusIInv'
  <1> SUFFICES ASSUME IInv, BusIInv, DispatchTransfer PROVE BusIInv'
    OBVIOUS
  <1> PICK j : j = act.job
    OBVIOUS
  <1> PICK d : d = act.dev
    OBVIOUS
  <1>1. MayDispatch /\ UNCHANGED nextJob
    BY DEF DispatchTransfer
  <1>2. PICK x \in ExecTimes, source \in TransferSources(j, d) :
           LET r == Settle(Assigned(Resolved(jobs[j], x), d, Unset), "Transferring")
           IN /\ jobs' = [jobs EXCEPT ![j] = r]
              /\ InitiateTransfer(j, source, d, r.ver)
    BY DEF DispatchTransfer
  <1> PICK q : q = Assigned(Resolved(jobs[j], x), d, Unset)
    OBVIOUS
  <1> PICK r : r = Settle(q, "Transferring")
    OBVIOUS
  <1>3. /\ j \in JobIds /\ d \in DeviceIds /\ jobs[j].ver \in Nat /\ jobs[j] \in JobRecord
        /\ jobs[j].state \in {"Released", "Ready", "Suspended"}
        /\ jobs \in [JobIds -> JobRecord] /\ seq \in Nat
    BY <1>1, DispatchBasics DEF IInv, TypeOK
  <1>4. q \in JobRecord /\ q.state = jobs[j].state /\ q.ver = jobs[j].ver /\ q.dev = d
    <2>1. x \in Nat
      BY <1>1, DispatchBasics, SampleExecTimeNat DEF ExecTimes
    <2>2. /\ Resolved(jobs[j], x) \in JobRecord
          /\ Resolved(jobs[j], x).state = jobs[j].state
          /\ Resolved(jobs[j], x).ver = jobs[j].ver
      BY <1>3, <2>1, ResolvedLemma
    <2>3. d \in DeviceIds /\ Unset \in Nat \cup {Unset}
      BY <1>3
    <2> QED BY <2>2, <2>3, AssignedLemma
  <1>5. r.state = "Transferring" /\ r.ver = jobs[j].ver + 1 /\ r.dev = d
    <2>1. "Transferring" \in JobStates
      BY DEF JobStates
    <2> QED BY <1>3, <1>4, <2>1, SettleLemma
  <1>6. /\ jobs' = [jobs EXCEPT ![j] = r] /\ InitiateTransfer(j, source, d, r.ver)
        /\ jobs'[j] = r /\ \A k \in JobIds : k # j => jobs'[k] = jobs[k]
        /\ JobIds' = JobIds
    BY <1>1, <1>2, <1>3 DEF JobIds
  <1>7. WaitingTransfers(j) = {}
    BY <1>3 DEF WaitingTransfers, BusIInv, TransfersAreWanted
  <1>8. \A e \in events : e.kind = "TransferComplete" /\ e.job = j => e.ver # r.ver
    <2>1. \A e \in events : e.kind = "TransferComplete" /\ e.job = j =>
              e.ver <= jobs[j].ver /\ e.ver \in Nat
      BY DEF IInv, TypeOK, EventRecord, EventsAreSound, LiveEventsAreMeant, VersionedKinds
    <2> QED BY <1>3, <1>5, <2>1
  <1>9. seq' = seq + 1
    BY <1>6 DEF InitiateTransfer
  <1>10. \A p \in pending : p.job \in JobIds /\ p.stamp \in Nat /\ p.stamp < seq
    BY DEF IInv, TypeOK, BusIInv, StampsAreDistinct
  <1>14. TransfersAreWanted'
    <2>1. \A w \in active' \cup pending' : w \in active \cup pending \/ w.job = j
      BY <1>6 DEF InitiateTransfer, transferVars
    <2>2. \A w \in active \cup pending :
              w.job \in JobIds /\ jobs[w.job].state \in {"Transferring", "DeadlineMissed"}
      BY DEF IInv, TypeOK, BusIInv, TransfersAreWanted
    <2> QED BY <1>5, <1>6, <2>1, <2>2 DEF TransfersAreWanted
  (* The transfer starts at once: its completion is scheduled. *)
  <1>11. ASSUME NEW t,
                events' = events \cup {Event(t, seq, "TransferComplete", j, r.ver, d)},
                UNCHANGED pending, BusExclusive'
         PROVE  BusIInv'
    <2> PICK done : done = Event(t, seq, "TransferComplete", j, r.ver, d)
      OBVIOUS
    <2>1. done.kind = "TransferComplete" /\ done.job = j /\ done.ver = r.ver
      BY DEF Event
    <2>2. LiveTransfers(j)' = {done} /\ WaitingTransfers(j)' = {}
      BY <1>6, <1>7, <1>8, <1>11, <2>1 DEF LiveTransfers, WaitingTransfers
    <2>3. \A k \in JobIds : k # j => /\ LiveTransfers(k)' = LiveTransfers(k)
                                     /\ WaitingTransfers(k)' = WaitingTransfers(k)
      BY <1>6, <1>11, <2>1 DEF LiveTransfers, WaitingTransfers
    <2>4. TransfersAccounted'
      <3> SUFFICES ASSUME NEW k \in JobIds, jobs'[k].state = "Transferring"
                   PROVE \/ /\ WaitingTransfers(k)' = {}
                            /\ \E e \in LiveTransfers(k)' : LiveTransfers(k)' = {e}
                         \/ /\ LiveTransfers(k)' = {}
                            /\ \E p \in WaitingTransfers(k)' : /\ WaitingTransfers(k)' = {p}
                                                               /\ p.ver = jobs'[k].ver
                                                               /\ p.dev = jobs'[k].dev
        BY <1>6 DEF TransfersAccounted
      <3> QED BY <1>6, <2>2, <2>3 DEF BusIInv, TransfersAccounted
    <2>5. StampsAreDistinct'
      BY <1>3, <1>9, <1>10, <1>11 DEF BusIInv, StampsAreDistinct
    <2>6. WaitingTransfersCanStart'
      BY <1>11 DEF BusIInv, WaitingTransfersCanStart
    <2> QED BY <1>11, <1>14, <2>4, <2>5, <2>6 DEF BusIInv
  <1>12. CASE FindInterconnect(source, d) = {}
    <2>1. /\ events' = events \cup {Event(now, seq, "TransferComplete", j, r.ver, d)}
          /\ UNCHANGED <<active, pending>>
      BY <1>6, <1>12 DEF InitiateTransfer, transferVars
    <2>2. BusExclusive'
      BY <2>1 DEF BusIInv, BusExclusive
    <2> QED BY <1>11, <2>1, <2>2
  <1>13. CASE FindInterconnect(source, d) # {}
    <2>1. PICK link \in FindInterconnect(source, d) :
             IF link.bus # NoBus /\ BusBusy(link.bus)
             THEN /\ pending' = pending \cup {[job |-> j, dev |-> d, ver |-> r.ver,
                                               bus |-> link.bus, stamp |-> seq]}
                  /\ UNCHANGED <<active, events>>
             ELSE /\ active' = active \cup {[job |-> j, bus |-> link.bus]}
                  /\ events' = events \cup
                       {Event(now + TransferTime(link, TaskOf(j).dataSize), seq,
                              "TransferComplete", j, r.ver, d)}
                  /\ UNCHANGED pending
      BY <1>6, <1>13 DEF InitiateTransfer
    <2>2. CASE ~(link.bus # NoBus /\ BusBusy(link.bus))
      <3>1. BusExclusive'
        BY <2>1, <2>2 DEF BusIInv, BusExclusive, BusBusy
      <3> QED BY <1>11, <2>1, <2>2, <3>1
    <2>3. CASE link.bus # NoBus /\ BusBusy(link.bus)
      <3> PICK w : w = [job |-> j, dev |-> d, ver |-> r.ver, bus |-> link.bus, stamp |-> seq]
        OBVIOUS
      <3>1. pending' = pending \cup {w} /\ UNCHANGED <<active, events>>
        BY <2>1, <2>3
      <3>2. w.job = j /\ w.dev = d /\ w.ver = r.ver /\ w.bus = link.bus /\ w.stamp = seq
        OBVIOUS
      <3>3. BusExclusive'
        BY <3>1 DEF BusIInv, BusExclusive
      <3>4. WaitingTransfers(j)' = {w} /\ LiveTransfers(j)' = {}
        BY <1>6, <1>7, <1>8, <3>1, <3>2 DEF LiveTransfers, WaitingTransfers
      <3>5. \A k \in JobIds : k # j => /\ LiveTransfers(k)' = LiveTransfers(k)
                                       /\ WaitingTransfers(k)' = WaitingTransfers(k)
        BY <1>6, <3>1, <3>2 DEF LiveTransfers, WaitingTransfers
      <3>6. TransfersAccounted'
        <4> SUFFICES ASSUME NEW k \in JobIds, jobs'[k].state = "Transferring"
                     PROVE \/ /\ WaitingTransfers(k)' = {}
                              /\ \E e \in LiveTransfers(k)' : LiveTransfers(k)' = {e}
                           \/ /\ LiveTransfers(k)' = {}
                              /\ \E p \in WaitingTransfers(k)' : /\ WaitingTransfers(k)' = {p}
                                                                 /\ p.ver = jobs'[k].ver
                                                                 /\ p.dev = jobs'[k].dev
          BY <1>6 DEF TransfersAccounted
        <4> QED BY <1>5, <1>6, <3>2, <3>4, <3>5 DEF BusIInv, TransfersAccounted
      <3>7. StampsAreDistinct'
        BY <1>3, <1>9, <1>10, <3>1, <3>2 DEF BusIInv, StampsAreDistinct
      <3>8. WaitingTransfersCanStart'
        <4>1. LinkOnBus(w.bus, w.dev) # {}
          BY <3>2, BusReachesTarget
        <4> QED BY <3>1, <4>1 DEF BusIInv, WaitingTransfersCanStart
      <3> QED BY <1>14, <3>3, <3>6, <3>7, <3>8 DEF BusIInv
    <2> QED BY <2>2, <2>3
  <1> QED BY <1>12, <1>13

-----------------------------------------------------------------------------
(* A bus is released                                                        *)

(* Job v no longer waits for its data, its transfers are gone, and the next *)
(* one waiting for a bus it held starts, if there is one.                   *)
LEMMA ReleaseBusBuses ==
    ASSUME IInv, BusIInv, NEW v \in JobIds, NEW rest, NEW t,
           ReleaseBus({a \in active : a.job = v}, {p \in pending : p.job # v}, rest, t),
           rest \subseteq events,
           \A e \in events : e.kind = "TransferComplete" /\ e.job # v => e \in rest,
           nextJob' = nextJob,
           \A k \in JobIds : k # v => jobs'[k] = jobs[k],
           jobs'[v].state # "Transferring"
    PROVE  BusIInv'
  <1> DEFINE gone == {a \in active : a.job = v}
             waiting == {p \in pending : p.job # v}
             candidates == {p \in waiting : \E a \in gone : a.bus = p.bus}
             precedes(p, q) ==
                 IF p.bus \in PriorityBuses /\ TaskOf(p.job).priority # TaskOf(q.job).priority
                 THEN TaskOf(p.job).priority < TaskOf(q.job).priority
                 ELSE p.stamp <= q.stamp
             next == {p \in candidates : \A q \in candidates : precedes(p, q)}
             started == {p \in next : LinkOnBus(p.bus, p.dev) # {}}
             completion(p) ==
                 {Event(t + TransferTime(link, TaskOf(p.job).dataSize), seq,
                        "TransferComplete", p.job, p.ver, p.dev) :
                     link \in LinkOnBus(p.bus, p.dev)}
  <1>1. /\ pending' = waiting \ next
        /\ active' = (active \ gone) \cup {[job |-> p.job, bus |-> p.bus] : p \in started}
        /\ events' = rest \cup UNION {completion(p) : p \in next}
        /\ seq' = seq + 1
    BY DEF ReleaseBus
  <1>2. /\ seq \in Nat
        /\ \A p \in pending : /\ p.job \in JobIds /\ p.stamp \in Nat
                              /\ TaskOf(p.job).priority \in Nat
    <2>1. /\ seq \in Nat
          /\ \A p \in pending : p.job \in JobIds /\ p.stamp \in Nat
      BY DEF IInv, TypeOK
    <2>2. \A j \in JobIds : Task[jobs[j].task] \in TaskRecord
      BY PlatformAssumption DEF IInv, TypeOK, JobRecord
    <2>3. \A j \in JobIds : TaskOf(j).priority \in Nat
      BY <2>2 DEF TaskOf, TaskRecord
    <2> QED BY <2>1, <2>3
  <1>3. \A p, q \in next : p = q \/ p.bus # q.bus
    <2> SUFFICES ASSUME NEW p \in next, NEW q \in next, p.bus = q.bus PROVE p = q
      OBVIOUS
    <2>1. p \in pending /\ q \in pending /\ precedes(p, q) /\ precedes(q, p)
      OBVIOUS
    <2>2. /\ TaskOf(p.job).priority \in Nat /\ TaskOf(q.job).priority \in Nat
          /\ p.stamp \in Nat /\ q.stamp \in Nat
      BY <1>2, <2>1
    <2>3. p.stamp = q.stamp
      BY <2>1, <2>2
    <2> QED BY <2>1, <2>3 DEF BusIInv, StampsAreDistinct
  <1>4. \A p \in next : \E g \in gone : g.bus = p.bus
    OBVIOUS
  <1> DEFINE onBus(p) == [job |-> p.job, bus |-> p.bus]
  <1>5. BusExclusive'
    <2> SUFFICES ASSUME NEW a \in active', NEW b \in active', a.bus = b.bus, a.bus # NoBus
                 PROVE  a = b
      BY DEF BusExclusive
    <2>1. /\ a \in active \ gone \/ \E p \in next : a = onBus(p)
          /\ b \in active \ gone \/ \E p \in next : b = onBus(p)
      BY <1>1
    <2>2. ASSUME NEW c \in active \ gone, NEW p \in next, c.bus = p.bus, c.bus # NoBus
          PROVE  FALSE
      BY <1>4, <2>2 DEF BusIInv, BusExclusive
    <2>3. \A p \in next : onBus(p).bus = p.bus
      OBVIOUS
    <2>4. CASE a \in active \ gone /\ b \in active \ gone
      BY <2>4 DEF BusIInv, BusExclusive
    <2>5. CASE \E p, q \in next : a = onBus(p) /\ b = onBus(q)
      BY <1>3, <2>3, <2>5
    <2> QED BY <2>1, <2>2, <2>3, <2>4, <2>5
  <1>6. StampsAreDistinct'
    BY <1>1, <1>2 DEF BusIInv, StampsAreDistinct
  <1>7. WaitingTransfersCanStart'
    BY <1>1 DEF BusIInv, WaitingTransfersCanStart
  <1>10. TransfersAreWanted'
    <2>1. \A x \in active' \cup pending' :
              \E y \in active \cup pending : y.job = x.job /\ y.job # v
      BY <1>1
    <2>2. \A x \in active \cup pending :
              x.job \in JobIds /\ jobs[x.job].state \in {"Transferring", "DeadlineMissed"}
      BY DEF IInv, TypeOK, BusIInv, TransfersAreWanted
    <2> QED BY <2>1, <2>2 DEF TransfersAreWanted
  <1>8. JobIds' = JobIds
    BY DEF JobIds
  <1>9. TransfersAccounted'
    <2> SUFFICES ASSUME NEW k \in JobIds, jobs'[k].state = "Transferring"
                 PROVE \/ /\ WaitingTransfers(k)' = {}
                          /\ \E e \in LiveTransfers(k)' : LiveTransfers(k)' = {e}
                       \/ /\ LiveTransfers(k)' = {}
                          /\ \E p \in WaitingTransfers(k)' : /\ WaitingTransfers(k)' = {p}
                                                             /\ p.ver = jobs'[k].ver
                                                             /\ p.dev = jobs'[k].dev
      BY <1>8 DEF TransfersAccounted
    <2>1. k # v /\ jobs'[k] = jobs[k] /\ jobs[k].state = "Transferring"
      OBVIOUS
    <2> DEFINE begun == UNION {completion(p) : p \in next}
    <2>2. \A e \in begun : \E p \in next : e \in completion(p)
      OBVIOUS
    <2>3. \A p : \A e \in completion(p) :
              e.kind = "TransferComplete" /\ e.job = p.job /\ e.ver = p.ver
      BY DEF Event
    <2>4. \A e : e \in LiveTransfers(k)' <=>
              e \in LiveTransfers(k)
              \/ \E p \in next : e \in completion(p) /\ p.job = k /\ p.ver = jobs[k].ver
      <3> HIDE DEF completion, next
      <3>1. \A e : e \in LiveTransfers(k)' <=>
                /\ e \in rest \cup begun
                /\ e.kind = "TransferComplete" /\ e.job = k /\ e.ver = jobs[k].ver
        BY <1>1, <2>1 DEF LiveTransfers
      <3>2. \A e : e \in LiveTransfers(k) <=>
                /\ e \in rest
                /\ e.kind = "TransferComplete" /\ e.job = k /\ e.ver = jobs[k].ver
        BY <2>1 DEF LiveTransfers
      <3>3. \A e : e \in begun <=> \E p \in next : e \in completion(p)
        OBVIOUS
      <3> HIDE DEF begun
      <3> QED BY <2>3, <3>1, <3>2, <3>3
    <2>5. \A p : p \in WaitingTransfers(k)' <=> p \in WaitingTransfers(k) /\ p \notin next
      BY <1>1, <2>1 DEF WaitingTransfers
    <2>6. \A p \in next : p.job = k => p \in WaitingTransfers(k)
      BY DEF WaitingTransfers
    <2>7. \/ /\ WaitingTransfers(k) = {}
             /\ \E e \in LiveTransfers(k) : LiveTransfers(k) = {e}
          \/ /\ LiveTransfers(k) = {}
             /\ \E p \in WaitingTransfers(k) : /\ WaitingTransfers(k) = {p}
                                               /\ p.ver = jobs[k].ver
                                               /\ p.dev = jobs[k].dev
      BY <2>1 DEF BusIInv, TransfersAccounted
    <2> HIDE DEF next, completion, begun
    <2>8. CASE /\ WaitingTransfers(k) = {}
               /\ \E e \in LiveTransfers(k) : LiveTransfers(k) = {e}
      <3>1. WaitingTransfers(k)' = {}
        BY <2>5, <2>8
      <3>2. LiveTransfers(k)' = LiveTransfers(k)
        BY <2>4, <2>6, <2>8
      <3> QED BY <2>8, <3>1, <3>2
    <2>9. ASSUME NEW p \in WaitingTransfers(k), WaitingTransfers(k) = {p}, LiveTransfers(k) = {},
                 p.ver = jobs[k].ver, p.dev = jobs[k].dev
          PROVE  \/ /\ WaitingTransfers(k)' = {}
                    /\ \E e \in LiveTransfers(k)' : LiveTransfers(k)' = {e}
                 \/ /\ LiveTransfers(k)' = {}
                    /\ WaitingTransfers(k)' = {p}
      <3>1. CASE p \notin next
        <4>1. LiveTransfers(k)' = {}
          BY <2>4, <2>6, <2>9, <3>1
        <4>2. WaitingTransfers(k)' = {p}
          BY <2>5, <2>9, <3>1
        <4> QED BY <4>1, <4>2
      <3>2. CASE p \in next
        <4>1. WaitingTransfers(k)' = {}
          BY <2>5, <2>9, <3>2
        <4>2. PICK link \in LinkOnBus(p.bus, p.dev) : LinkOnBus(p.bus, p.dev) = {link}
          <5>1. p \in pending
            BY <2>9 DEF WaitingTransfers
          <5> QED BY <5>1, LinkOnBusIsUnique DEF BusIInv, WaitingTransfersCanStart
        <4>3. \E e : completion(p) = {e}
          BY <4>2 DEF completion
        <4>4. p.job = k /\ p.ver = jobs[k].ver
          BY <2>9 DEF WaitingTransfers
        <4>5. \A e : e \in LiveTransfers(k)' <=> e \in completion(p)
          BY <2>4, <2>6, <2>9, <3>2, <4>4
        <4>6. LiveTransfers(k)' = completion(p)
          BY <4>5
        <4> QED BY <4>1, <4>3, <4>6
      <3> QED BY <3>1, <3>2
    <2> QED BY <2>1, <2>7, <2>8, <2>9
  <1> QED BY <1>5, <1>6, <1>7, <1>9, <1>10 DEF BusIInv

(* Dropping a job cancels its transfers.                                    *)
LEMMA DropJobBuses == IInv /\ BusIInv /\ DropJob => BusIInv'
  <1> SUFFICES ASSUME IInv, BusIInv, DropJob PROVE BusIInv'
    OBVIOUS
  <1>1. /\ act.job \in JobIds /\ Retire(act.job, "Dropped", now) /\ nextJob' = nextJob
        /\ ReleaseBus({a \in active : a.job = act.job}, {p \in pending : p.job # act.job}, events, now)
    BY DEF DropJob, Executing, IInv, ActionIsSound, SoundAction
  <1>2. now \in Nat /\ now >= now
    BY DEF IInv, TypeOK
  <1>3. /\ \A k \in JobIds : k # act.job => jobs'[k] = jobs[k]
        /\ jobs'[act.job].state \in TerminalStates
    BY <1>1, <1>2, RetireJobs
  <1>4. jobs'[act.job].state # "Transferring"
    BY <1>3 DEF TerminalStates
  <1> QED BY <1>1, <1>3, <1>4, ReleaseBusBuses

(* A completed transfer frees its bus; the job that got its data has no     *)
(* other transfer waiting.                                                  *)
LEMMA TransferCompleteBuses ==
    ASSUME IInv, BusIInv, NEW e \in EventsOf("TransferComplete"), NEW a, TransferComplete(e, a)
    PROVE  BusIInv'
  <1> PICK j : j = e.job
    OBVIOUS
  <1>1. /\ e \in events /\ e.kind = "TransferComplete" /\ ~IsStale(e) /\ nextJob' = nextJob
        /\ ReleaseBus({x \in active : x.job = j}, pending, events \ {e}, e.time)
    BY DEF TransferComplete, Handles, EventsOf
  <1>2. /\ j \in JobIds /\ e.dev \in DeviceIds
        /\ jobs[j].state = "Transferring" /\ e.ver = jobs[j].ver
    BY <1>1 DEF IsStale, IInv, EventsAreSound, LiveEventsAreMeant, EventsAreWellFormed, VersionedKinds
  <1>3. pending = {p \in pending : p.job # j}
    <2>1. e \in LiveTransfers(j)
      BY <1>1, <1>2 DEF LiveTransfers
    <2>2. WaitingTransfers(j) = {}
      BY <1>2, <2>1 DEF BusIInv, TransfersAccounted
    <2> QED BY <2>2 DEF WaitingTransfers
  <1>4. jobs' = [jobs EXCEPT ![j] = Settle(Assigned(jobs[j], e.dev, Unset), "Ready")]
    BY <1>2 DEF TransferComplete, IsTerminal, TerminalStates
  <1>5. Settle(Assigned(jobs[j], e.dev, Unset), "Ready").state = "Ready"
    <2>1. jobs[j] \in JobRecord /\ Unset \in Nat \cup {Unset}
      BY <1>2 DEF IInv, TypeOK
    <2>2. Assigned(jobs[j], e.dev, Unset) \in JobRecord
      BY <1>2, <2>1, AssignedLemma
    <2>3. "Ready" \in JobStates
      BY DEF JobStates
    <2> QED BY <2>2, <2>3, SettleLemma
  <1>6. /\ \A k \in JobIds : k # j => jobs'[k] = jobs[k]
        /\ jobs'[j].state # "Transferring"
    BY <1>2, <1>4, <1>5 DEF IInv, TypeOK
  <1>7. ReleaseBus({x \in active : x.job = j}, {p \in pending : p.job # j}, events \ {e}, e.time)
    BY <1>1, <1>3
  <1>8. /\ events \ {e} \subseteq events
        /\ \A f \in events : f.kind = "TransferComplete" /\ f.job # j => f \in events \ {e}
    OBVIOUS
  <1> QED BY <1>1, <1>2, <1>6, <1>7, <1>8, ReleaseBusBuses

-----------------------------------------------------------------------------
(* The theorems                                                             *)

(* All steps but the three that touch the buses.                            *)
LEMMA OtherSteps ==
    IInv /\ [Next]_vars =>
        \/ TransfersKept /\ BusesKept
        \/ DispatchTransfer
        \/ DropJob
        \/ \E e \in EventsOf("TransferComplete") : \E a : TransferComplete(e, a)
  <1> SUFFICES ASSUME IInv, [Next]_vars,
                      ~DispatchTransfer, ~DropJob,
                      ~ \E e \in EventsOf("TransferComplete") : \E a : TransferComplete(e, a)
               PROVE  TransfersKept /\ BusesKept
    OBVIOUS
  <1>0. TypeOK /\ (UNCHANGED <<nextJob, jobs>> => TransfersKept)
        /\ (UNCHANGED <<events, seq, active, pending>> => BusesKept)
    BY NoJobMoves, NothingScheduled DEF IInv, QuietStep
  <1>1. CASE EngineStep
    <2>1. CASE ScheduleInitialArrival \/ ScheduleReplayJob \/ ReleaseNextJob
      BY <1>0, <2>1, ReleaseJobs, ReleaseBuses DEF QuietStep
    <2>2. CASE DispatchRun
      BY <1>0, <2>2, DispatchRunJobs, DispatchRunBuses
    <2>3. CASE PreemptNow \/ EnqueueJob
      BY <1>0, <2>3, PreemptNowJobs, EnqueueJobJobs DEF PreemptNow, EnqueueJob, eventVars, transferVars
    <2>4. CASE \E e \in events : DeadlineCheck(e)
      BY <1>0, <2>4, DeadlineCheckJobs, PopBuses DEF QuietStep
    <2>5. CASE DispatchTerminal \/ DispatchBusy \/ DispatchWithoutModel \/ PreemptDeferred
               \/ DropLoJobs \/ DispatchIdleDone \/ Ended
      BY <1>0, <2>5 DEF DispatchTerminal, DispatchBusy, DispatchWithoutModel, PreemptDeferred,
                        DropLoJobs, DispatchIdleDone, Ended, vars, jobVars, eventVars, transferVars
    <2>6. CASE \/ DiscardStale \/ SimulationEnd
               \/ \E e \in events : \/ BudgetOverrun(e)
                                    \/ TriggeredReevaluation(e)
                                    \/ PeriodicReevaluation(e)
      <3>1. BusesKept
        BY <1>0, <2>6, PopBuses DEF QuietStep
      <3>2. UNCHANGED <<nextJob, jobs>>
        BY <2>6 DEF DiscardStale, SimulationEnd, BudgetOverrun, TriggeredReevaluation,
                    PeriodicReevaluation, jobVars
      <3> QED BY <1>0, <3>1, <3>2
    <2>7. CASE StartRun \/ ReevaluateDone \/ ReschedulePoint \/ ScheduleTriggeredReevaluation
      <3>1. BusesKept
        BY <1>0, <2>7, StartRunBuses, ReevaluateDoneBuses, OneEventBuses DEF QuietStep
      <3>2. UNCHANGED <<nextJob, jobs>>
        BY <2>7 DEF StartRun, ReevaluateDone, ReschedulePoint, ScheduleTriggeredReevaluation, jobVars
      <3> QED BY <1>0, <3>1, <3>2
    <2> QED BY <1>1, <2>1, <2>2, <2>3, <2>4, <2>5, <2>6, <2>7 DEF EngineStep
  <1>2. CASE SchedulerStep
    <2>1. CASE \E e \in EventsOf("JobComplete") : \E a \in FreeActions(e.dev) : JobComplete(e, a)
      BY <1>0, <2>1, JobCompleteJobs, JobCompleteBuses
    <2>2. CASE \E e, a : TaskArrival(e, a) \/ PreemptionPoint(e, a)
      <3>1. BusesKept
        BY <1>0, <2>2, PopBuses DEF QuietStep
      <3>2. UNCHANGED <<nextJob, jobs>>
        BY <2>2 DEF TaskArrival, PreemptionPoint, jobVars
      <3> QED BY <1>0, <3>1, <3>2
    <2>3. CASE \/ \E j : SchedulerDropsLo(j)
               \/ SchedulerDropsNoMore
               \/ \E a : DispatchIdle(a) \/ Reevaluate(a)
      BY <1>0, <2>3 DEF SchedulerDropsLo, SchedulerDropsNoMore, DispatchIdle, Reevaluate,
                        jobVars, eventVars, transferVars
    <2> QED BY <1>2, <2>1, <2>2, <2>3 DEF SchedulerStep
  <1>3. CASE UNCHANGED vars
    BY <1>0, <1>3 DEF vars, jobVars, eventVars, transferVars
  <1> QED BY <1>1, <1>2, <1>3 DEF Next

(* No step loses, duplicates or misplaces a transfer.                       *)
LEMMA NextBuses == IInv /\ BusIInv /\ [Next]_vars => BusIInv'
  <1> SUFFICES ASSUME IInv, BusIInv, [Next]_vars PROVE BusIInv'
    OBVIOUS
  <1>1. CASE TransfersKept /\ BusesKept
    <2>1. JobsAllowed
      BY NextJobs
    <2>2. seq' \in Nat
      BY NextInv DEF IInv, TypeOK
    <2> QED BY <1>1, <2>1, <2>2, BusFrame
  <1> QED BY <1>1, OtherSteps, DispatchTransferBuses, DropJobBuses, TransferCompleteBuses

(* The inductive invariant of the buses holds in every reachable state.     *)
THEOREM BusInvariance == Spec => []BusIInv
  <1>1. Init => BusIInv
    BY DEF Init, BusIInv, BusExclusive, TransfersAccounted, StampsAreDistinct,
           TransfersAreWanted, WaitingTransfersCanStart, JobIds
  <1>2. IInv /\ BusIInv /\ [Next]_vars => BusIInv'
    BY NextBuses
  <1> QED BY <1>1, <1>2, Invariance, PTL DEF Spec

(* A shared bus carries one transfer at a time, across completions,         *)
(* cancellations and mode switches.                                         *)
THEOREM BusesAreExclusive == Spec => []BusExclusive
  <1>1. BusIInv => BusExclusive
    BY DEF BusIInv
  <1> QED BY <1>1, BusInvariance, PTL

(* A job whose data is on its way has exactly one thing that will end the   *)
(* wait: no interleaving of drops, misses, completions and mode switches    *)
(* strands it or delivers it twice.                                         *)
THEOREM TransfersAreAccounted == Spec => []TransfersAccounted
  <1>1. BusIInv => TransfersAccounted
    BY DEF BusIInv
  <1> QED BY <1>1, BusInvariance, PTL

-----------------------------------------------------------------------------
(* The waiting transfers are served                                         *)

(* A waiting transfer has a job, whose task has a priority.                 *)
LEMMA WaitingBasics ==
    IInv => \A p \in pending : /\ p.job \in JobIds /\ p.bus \in BusIds /\ p.stamp \in Nat
                               /\ TaskOf(p.job).priority \in Nat
  <1> SUFFICES ASSUME IInv PROVE \A p \in pending : /\ p.job \in JobIds /\ p.bus \in BusIds
                                                    /\ p.stamp \in Nat
                                                    /\ TaskOf(p.job).priority \in Nat
    OBVIOUS
  <1>1. \A p \in pending : p.job \in JobIds /\ p.bus \in BusIds /\ p.stamp \in Nat
    BY DEF IInv, TypeOK
  <1>2. \A j \in JobIds : Task[jobs[j].task] \in TaskRecord
    BY PlatformAssumption DEF IInv, TypeOK, JobRecord
  <1>3. \A j \in JobIds : TaskOf(j).priority \in Nat
    BY <1>2 DEF TaskOf, TaskRecord
  <1> QED BY <1>1, <1>3

(* Of the transfers that wait for one bus, one was requested first.         *)
LEMMA SomebodyIsFirst ==
    ASSUME IInv, NEW S \in SUBSET pending, S # {}
    PROVE  \E p \in S : \A q \in S : p.stamp <= q.stamp
  <1> DEFINE stamps == {p.stamp : p \in S}
  <1>1. stamps \in SUBSET Nat /\ stamps # {}
    BY WaitingBasics
  <1>2. PICK s : s \in FirstOf(stamps)
    BY <1>1, FirstOfNat
  <1>3. s \in stamps /\ \A u \in stamps : s <= u
    BY <1>2 DEF FirstOf
  <1> QED BY <1>3

(* Of the transfers that wait for one bus, one is next.                     *)
LEMMA SomebodyIsNext ==
    ASSUME IInv, NEW S \in SUBSET pending, S # {}, \A p, q \in S : p.bus = q.bus
    PROVE  \E p \in S : \A q \in S :
               IF p.bus \in PriorityBuses /\ TaskOf(p.job).priority # TaskOf(q.job).priority
               THEN TaskOf(p.job).priority < TaskOf(q.job).priority
               ELSE p.stamp <= q.stamp
  <1> DEFINE priorities == {TaskOf(p.job).priority : p \in S}
  <1>1. priorities \in SUBSET Nat /\ priorities # {}
    BY WaitingBasics
  <1>2. PICK m : m \in FirstOf(priorities)
    BY <1>1, FirstOfNat
  <1>3. m \in priorities /\ \A u \in priorities : m <= u
    BY <1>2 DEF FirstOf
  <1> DEFINE urgent == {p \in S : TaskOf(p.job).priority = m}
  <1>4. urgent \in SUBSET pending /\ urgent # {}
    BY <1>3
  <1>5. PICK p \in urgent : \A q \in urgent : p.stamp <= q.stamp
    BY <1>4, SomebodyIsFirst
  <1>6. PICK f \in S : \A q \in S : f.stamp <= q.stamp
    BY SomebodyIsFirst
  <1>7. \A q \in S : TaskOf(q.job).priority \in Nat /\ m <= TaskOf(q.job).priority
    BY <1>3, WaitingBasics
  <1>8. m \in Nat
    BY <1>1, <1>3
  <1>9. CASE p.bus \in PriorityBuses
    <2>1. ASSUME NEW q \in S, TaskOf(p.job).priority # TaskOf(q.job).priority
          PROVE  TaskOf(p.job).priority < TaskOf(q.job).priority
      <3>1. TaskOf(p.job).priority = m
        BY <1>5
      <3> QED BY <1>7, <1>8, <2>1, <3>1
    <2>2. ASSUME NEW q \in S, TaskOf(p.job).priority = TaskOf(q.job).priority
          PROVE  p.stamp <= q.stamp
      <3>1. q \in urgent
        BY <1>5, <2>2
      <3> QED BY <1>5, <3>1
    <2> HIDE DEF urgent
    <2>3. p \in S
      BY <1>5 DEF urgent
    <2>4. ASSUME NEW q \in S
          PROVE  IF p.bus \in PriorityBuses /\ TaskOf(p.job).priority # TaskOf(q.job).priority
                 THEN TaskOf(p.job).priority < TaskOf(q.job).priority
                 ELSE p.stamp <= q.stamp
      BY <1>9, <2>1, <2>2
    <2> QED BY <2>3, <2>4
  <1>10. CASE p.bus \notin PriorityBuses
    <2>1. p \in S
      BY <1>5
    <2>2. f.bus \notin PriorityBuses
      BY <1>10, <2>1
    <2> QED BY <1>6, <2>2
  <1> QED BY <1>9, <1>10

(* A bus that loses its transfer gets the next one that waits for it.       *)
LEMMA ReleaseBusServes ==
    ASSUME IInv, BusIInv, ServedIInv, NEW v \in JobIds, NEW rest, NEW t,
           ReleaseBus({a \in active : a.job = v}, {p \in pending : p.job # v}, rest, t)
    PROVE  ServedIInv'
  <1> DEFINE gone == {a \in active : a.job = v}
             waiting == {p \in pending : p.job # v}
             candidates == {p \in waiting : \E a \in gone : a.bus = p.bus}
             precedes(p, q) ==
                 IF p.bus \in PriorityBuses /\ TaskOf(p.job).priority # TaskOf(q.job).priority
                 THEN TaskOf(p.job).priority < TaskOf(q.job).priority
                 ELSE p.stamp <= q.stamp
             next == {p \in candidates : \A q \in candidates : precedes(p, q)}
             started == {p \in next : LinkOnBus(p.bus, p.dev) # {}}
             onBus(p) == [job |-> p.job, bus |-> p.bus]
  <1>1. /\ pending' = waiting \ next
        /\ active' = (active \ gone) \cup {onBus(p) : p \in started}
    BY DEF ReleaseBus
  <1>2. started = next
    BY DEF BusIInv, WaitingTransfersCanStart
  <1>3. \A a, b \in gone : a = b
    BY DEF ServedIInv, OneTransferPerJob
  <1>4. \A p, q \in candidates : p.bus = q.bus
    BY <1>3
  <1>5. candidates # {} => next # {}
    <2>1. candidates \in SUBSET pending
      OBVIOUS
    <2> QED BY <1>4, <2>1, SomebodyIsNext
  <1>6. next \subseteq candidates /\ candidates \subseteq waiting
    OBVIOUS
  <1> HIDE DEF next
  <1>7. \A p \in next : onBus(p) \in active' /\ onBus(p).job = p.job /\ onBus(p).bus = p.bus
    BY <1>1, <1>2
  <1>8. \A a \in active' : a \in active \/ \E p \in next : a = onBus(p)
    BY <1>1, <1>2
  <1>9. BusesServeTheWaiting'
    <2> SUFFICES ASSUME NEW p \in pending' PROVE \E a \in active' : a.bus = p.bus
      BY DEF BusesServeTheWaiting, BusBusy
    <2>1. p \in pending /\ p \in waiting
      BY <1>1
    <2>2. PICK a \in active : a.bus = p.bus
      BY <2>1 DEF ServedIInv, BusesServeTheWaiting, BusBusy
    <2>3. CASE a \in gone
      <3>1. p \in candidates
        BY <2>1, <2>2, <2>3
      <3>2. PICK q \in next : TRUE
        BY <1>5, <3>1
      <3>3. q.bus = p.bus
        BY <1>4, <1>6, <3>1, <3>2
      <3> QED BY <1>7, <3>2, <3>3
    <2>4. CASE a \notin gone
      BY <1>1, <2>2, <2>4
    <2> QED BY <2>3, <2>4
  <1>10. OneTransferPerJob'
    <2>1. \A p \in pending' : p \in pending /\ p \notin next
      BY <1>1
    <2>2. \A p \in next : p \in pending
      BY <1>6
    <2>3. \A p \in pending', a \in active' : p.job # a.job
      <3> SUFFICES ASSUME NEW p \in pending', NEW a \in active', p.job = a.job PROVE FALSE
        OBVIOUS
      <3>1. CASE a \in active
        BY <2>1, <3>1 DEF ServedIInv, OneTransferPerJob
      <3>2. ASSUME NEW q \in next, a = onBus(q) PROVE FALSE
        <4>1. p.job = q.job
          BY <3>2
        <4> QED BY <2>1, <2>2, <4>1 DEF ServedIInv, OneTransferPerJob
      <3> QED BY <1>8, <3>1, <3>2
    <2>4. \A p, q \in pending' : p.job = q.job => p = q
      BY <2>1 DEF ServedIInv, OneTransferPerJob
    <2>5. \A a, b \in active' : a.job = b.job => a = b
      <3> SUFFICES ASSUME NEW a \in active', NEW b \in active', a.job = b.job PROVE a = b
        OBVIOUS
      <3>1. CASE a \in active /\ b \in active
        BY <3>1 DEF ServedIInv, OneTransferPerJob
      <3>2. ASSUME NEW c \in active, NEW q \in next, c.job = onBus(q).job PROVE FALSE
        <4>1. c.job = q.job /\ q \in pending
          BY <2>2, <3>2
        <4> QED BY <4>1 DEF ServedIInv, OneTransferPerJob
      <3>3. ASSUME NEW p \in next, NEW q \in next, onBus(p).job = onBus(q).job
            PROVE  onBus(p) = onBus(q)
        <4>1. p.job = q.job
          BY <3>3
        <4>2. p = q
          BY <2>2, <4>1 DEF ServedIInv, OneTransferPerJob
        <4> QED BY <4>2
      <3> HIDE DEF onBus
      <3> QED BY <1>8, <3>1, <3>2, <3>3
    <2> QED BY <2>3, <2>4, <2>5 DEF OneTransferPerJob
  <1> QED BY <1>9, <1>10 DEF ServedIInv

(* A transfer waits only behind another on its bus, and its job has none:   *)
(* it has been somewhere else until now.                                    *)
LEMMA DispatchTransferServes ==
    IInv /\ BusIInv /\ ServedIInv /\ DispatchTransfer => ServedIInv'
  <1> SUFFICES ASSUME IInv, BusIInv, ServedIInv, DispatchTransfer PROVE ServedIInv'
    OBVIOUS
  <1> PICK j : j = act.job
    OBVIOUS
  <1>1. j \in JobIds /\ jobs[j].state \in {"Released", "Ready", "Suspended"}
    <2>1. MayDispatch
      BY DEF DispatchTransfer
    <2> QED BY <2>1, DispatchBasics
  <1>2. \A x \in active \cup pending : x.job # j
    BY <1>1 DEF BusIInv, TransfersAreWanted
  <1>3. PICK source, ver : InitiateTransfer(j, source, act.dev, ver)
    BY DEF DispatchTransfer
  <1>4. CASE UNCHANGED <<active, pending>>
    BY <1>4 DEF ServedIInv, BusesServeTheWaiting, OneTransferPerJob, BusBusy
  <1>5. ASSUME NEW bus, active' = active \cup {[job |-> j, bus |-> bus]}, UNCHANGED pending
        PROVE  ServedIInv'
    BY <1>2, <1>5 DEF ServedIInv, BusesServeTheWaiting, OneTransferPerJob, BusBusy
  <1>6. ASSUME NEW p, p.job = j, BusBusy(p.bus), pending' = pending \cup {p}, UNCHANGED active
        PROVE  ServedIInv'
    BY <1>2, <1>6 DEF ServedIInv, BusesServeTheWaiting, OneTransferPerJob, BusBusy
  <1>7. CASE FindInterconnect(source, act.dev) = {}
    BY <1>3, <1>4, <1>7 DEF InitiateTransfer, transferVars
  <1>8. CASE FindInterconnect(source, act.dev) # {}
    <2>1. PICK link \in FindInterconnect(source, act.dev) :
             IF link.bus # NoBus /\ BusBusy(link.bus)
             THEN /\ pending' = pending \cup {[job |-> j, dev |-> act.dev, ver |-> ver,
                                               bus |-> link.bus, stamp |-> seq]}
                  /\ UNCHANGED active
             ELSE /\ active' = active \cup {[job |-> j, bus |-> link.bus]}
                  /\ UNCHANGED pending
      BY <1>3, <1>8 DEF InitiateTransfer
    <2>2. CASE link.bus # NoBus /\ BusBusy(link.bus)
      <3>1. PICK w : w = [job |-> j, dev |-> act.dev, ver |-> ver, bus |-> link.bus, stamp |-> seq]
        OBVIOUS
      <3>2. w.job = j /\ w.bus = link.bus
        BY <3>1
      <3>3. pending' = pending \cup {w} /\ UNCHANGED active
        BY <2>1, <2>2, <3>1
      <3> QED BY ONLY <1>6, <2>2, <3>2, <3>3
    <2>3. CASE ~(link.bus # NoBus /\ BusBusy(link.bus))
      BY <1>5, <2>1, <2>3
    <2> QED BY <2>2, <2>3
  <1> QED BY <1>7, <1>8

(* Dropping a job frees the bus it held.                                    *)
LEMMA DropJobServes == IInv /\ BusIInv /\ ServedIInv /\ DropJob => ServedIInv'
  <1> SUFFICES ASSUME IInv, BusIInv, ServedIInv, DropJob PROVE ServedIInv'
    OBVIOUS
  <1>1. /\ act.job \in JobIds
        /\ ReleaseBus({a \in active : a.job = act.job}, {p \in pending : p.job # act.job}, events, now)
    BY DEF DropJob, Executing, IInv, ActionIsSound, SoundAction
  <1> QED BY <1>1, ReleaseBusServes

(* So does the completion of a transfer.                                    *)
LEMMA TransferCompleteServes ==
    ASSUME IInv, BusIInv, ServedIInv,
           NEW e \in EventsOf("TransferComplete"), NEW a, TransferComplete(e, a)
    PROVE  ServedIInv'
  <1> PICK j : j = e.job
    OBVIOUS
  <1>1. /\ e \in events /\ e.kind = "TransferComplete" /\ ~IsStale(e)
        /\ ReleaseBus({x \in active : x.job = j}, pending, events \ {e}, e.time)
    BY DEF TransferComplete, Handles, EventsOf
  <1>2. j \in JobIds /\ jobs[j].state = "Transferring" /\ e.ver = jobs[j].ver
    BY <1>1 DEF IsStale, IInv, EventsAreSound, LiveEventsAreMeant, VersionedKinds
  <1>3. pending = {p \in pending : p.job # j}
    <2>1. e \in LiveTransfers(j)
      BY <1>1, <1>2 DEF LiveTransfers
    <2>2. WaitingTransfers(j) = {}
      BY <1>2, <2>1 DEF BusIInv, TransfersAccounted
    <2> QED BY <2>2 DEF WaitingTransfers
  <1>4. ReleaseBus({x \in active : x.job = j}, {p \in pending : p.job # j}, events \ {e}, e.time)
    BY <1>1, <1>3
  <1> QED BY <1>2, <1>4, ReleaseBusServes

(* No step leaves a transfer waiting for a bus that carries none.           *)
LEMMA NextServes == IInv /\ BusIInv /\ ServedIInv /\ [Next]_vars => ServedIInv'
  <1> SUFFICES ASSUME IInv, BusIInv, ServedIInv, [Next]_vars PROVE ServedIInv'
    OBVIOUS
  <1>1. CASE BusesKept
    BY <1>1 DEF BusesKept, ServedIInv, BusesServeTheWaiting, OneTransferPerJob, BusBusy
  <1> QED BY <1>1, OtherSteps, DispatchTransferServes, DropJobServes, TransferCompleteServes

(* The transfer a waiting one waits for will complete, unless its job has   *)
(* missed its deadline: it does not wait itself.                            *)
LEMMA CarriedTransfersComplete ==
    BusIInv /\ ServedIInv /\ TypeOK => BusWorkConserving
  <1> SUFFICES ASSUME BusIInv, ServedIInv, TypeOK, NEW p \in pending
               PROVE  \E a \in active : /\ a.bus = p.bus
                                        /\ \/ LiveTransfers(a.job) # {}
                                           \/ jobs[a.job].state = "DeadlineMissed"
    BY DEF BusWorkConserving
  <1>1. PICK a \in active : a.bus = p.bus
    BY DEF ServedIInv, BusesServeTheWaiting, BusBusy
  <1>2. a.job \in JobIds /\ jobs[a.job].state \in {"Transferring", "DeadlineMissed"}
    BY DEF TypeOK, BusIInv, TransfersAreWanted
  <1>3. WaitingTransfers(a.job) = {}
    BY DEF ServedIInv, OneTransferPerJob, WaitingTransfers
  <1>4. CASE jobs[a.job].state = "Transferring"
    BY <1>1, <1>2, <1>3, <1>4 DEF BusIInv, TransfersAccounted
  <1> QED BY <1>1, <1>2, <1>4

(* The buses are work-conserving, whatever is cancelled, completed or       *)
(* missed: only a job that has missed its deadline keeps others waiting for *)
(* nothing.                                                                 *)
THEOREM BusesConserveWork == Spec => []BusWorkConserving
  <1>1. Init => ServedIInv
    BY DEF Init, ServedIInv, BusesServeTheWaiting, OneTransferPerJob
  <1>2. IInv /\ BusIInv /\ ServedIInv /\ [Next]_vars => ServedIInv'
    BY NextServes
  <1>3. IInv /\ BusIInv /\ ServedIInv => BusWorkConserving
    BY CarriedTransfersComplete DEF IInv
  <1> QED BY <1>1, <1>2, <1>3, Invariance, BusInvariance, PTL DEF Spec

-----------------------------------------------------------------------------
(* The criticality switch                                                   *)

(* The devices are redispatched once no LO job is left to drop, and no job  *)
(* is created meanwhile.                                                    *)
LEMMA IdlePhase ==
    ASSUME IInv, [Next]_vars, phase'.op = "idle"
    PROVE  /\ nextJob' = nextJob
           /\ \/ phase.op = "idle"
              \/ UnfinishedLoJobs = {} /\ jobs' = jobs
  <1>1. CASE EngineStep
    <2>1. CASE \/ ScheduleInitialArrival \/ ScheduleReplayJob \/ StartRun \/ ReleaseNextJob
               \/ ReschedulePoint \/ DispatchIdleDone \/ ReevaluateDone
               \/ ScheduleTriggeredReevaluation \/ SimulationEnd
      BY <2>1 DEF ScheduleInitialArrival, ScheduleReplayJob, StartRun, ReleaseNextJob,
                  ReschedulePoint, DispatchIdleDone, ReevaluateDone,
                  ScheduleTriggeredReevaluation, SimulationEnd, Phase, Poll, Trigger
    <2>2. CASE \/ DispatchTerminal \/ DispatchBusy \/ DispatchWithoutModel \/ DispatchTransfer
               \/ DispatchRun \/ PreemptNow \/ PreemptDeferred \/ EnqueueJob \/ DropJob \/ Ended
      BY <2>2 DEF DispatchTerminal, DispatchBusy, DispatchWithoutModel, DispatchTransfer,
                  DispatchRun, PreemptNow, PreemptDeferred, EnqueueJob, DropJob, Ended,
                  vars, jobVars
    <2>3. CASE \/ DiscardStale
               \/ \E e \in events : \/ DeadlineCheck(e) \/ BudgetOverrun(e)
                                    \/ TriggeredReevaluation(e) \/ PeriodicReevaluation(e)
      BY <2>3 DEF DiscardStale, DeadlineCheck, BudgetOverrun, TriggeredReevaluation,
                  PeriodicReevaluation, Handles, Pops, Polling, Phase, Trigger
    <2>4. CASE DropLoJobs
      BY <2>4 DEF DropLoJobs, Continues, jobVars
    <2> QED BY <1>1, <2>1, <2>2, <2>3, <2>4 DEF EngineStep
  <1>2. CASE SchedulerStep
    <2>1. CASE \E e, a : \/ TaskArrival(e, a) \/ JobComplete(e, a) \/ PreemptionPoint(e, a)
                         \/ TransferComplete(e, a)
      BY <2>1 DEF TaskArrival, JobComplete, PreemptionPoint, TransferComplete,
                  Phase, PointPhase, Trigger
    <2>2. CASE SchedulerDropsNoMore \/ \E j : SchedulerDropsLo(j)
      BY <2>2 DEF SchedulerDropsNoMore, SchedulerDropsLo, Continues, Phase
    <2>3. CASE \E a : DispatchIdle(a) \/ Reevaluate(a)
      <3>1. phase.op \in {"idle", "reevaluate", "reevaluateTick"} /\ nextJob' = nextJob
        BY <2>3 DEF DispatchIdle, Reevaluate, Reevaluating, Continues, jobVars
      <3>2. ASSUME NEW a, Reevaluate(a) PROVE phase'.op = phase.op
        BY <3>2 DEF Reevaluate, IInv, TypeOK, PhaseRecord
      <3>3. ASSUME NEW a, DispatchIdle(a) PROVE phase.op = "idle"
        BY <3>3 DEF DispatchIdle, Continues
      <3> QED BY <2>3, <3>1, <3>2, <3>3
    <2> QED BY <1>2, <2>1, <2>2, <2>3 DEF SchedulerStep
  <1>3. CASE UNCHANGED vars
    BY <1>3 DEF vars, jobVars
  <1> QED BY <1>1, <1>2, <1>3 DEF Next

(* Nothing brings an unfinished LO job back.                                *)
LEMMA NextPurge == IInv /\ PurgeIsComplete /\ [Next]_vars => PurgeIsComplete'
  <1> SUFFICES ASSUME IInv, PurgeIsComplete, [Next]_vars, phase'.op = "idle",
                      NEW j \in JobIds', IsLo(j)'
               PROVE  IsTerminal(j)'
    BY DEF PurgeIsComplete
  <1>1. JobAllowed(j) /\ j \in JobIds
    BY NextJobs, IdlePhase DEF JobsAllowed, JobIds
  <1>2. IsLo(j)
    BY <1>1 DEF IsLo, TaskOf, JobAllowed
  <1>3. IsTerminal(j)
    BY <1>1, <1>2, IdlePhase DEF PurgeIsComplete, UnfinishedLoJobs
  <1> QED BY <1>1, <1>3 DEF JobAllowed, IsTerminal

(* No LO job survives the criticality switch, in transfer or not yet        *)
(* arrived though it may be, and whichever jobs the scheduler itself drops. *)
THEOREM SwitchPurgesEveryLoJob == Spec => []SwitchPurgesLo
  <1>1. Init => PurgeIsComplete
    BY DEF Init, PurgeIsComplete, Phase
  <1>2. IInv /\ PurgeIsComplete /\ [Next]_vars => PurgeIsComplete'
    BY NextPurge
  <1>3. IInv /\ BusIInv /\ PurgeIsComplete => SwitchPurgesLo
    <2> SUFFICES ASSUME IInv, BusIInv, PurgeIsComplete, phase.op = "idle",
                        NEW j \in JobIds, IsLo(j)
                 PROVE  /\ IsTerminal(j)
                        /\ \A d \in DeviceIds : running[d] # j /\ j \notin queue[d]
                        /\ \A x \in active \cup pending : x.job = j => jobs[j].state = "DeadlineMissed"
      BY DEF SwitchPurgesLo
    <2>1. jobs[j].state \in TerminalStates /\ j # NoJob
      BY DEF PurgeIsComplete, IsTerminal, JobIds, NoJob
    <2>2. \A d \in DeviceIds : running[d] # j /\ j \notin queue[d]
      BY <2>1 DEF IInv, Placement, SlotsHoldRunningJobs, QueuesHoldWaitingJobs, TerminalStates
    <2>3. \A x \in active \cup pending : x.job = j => jobs[j].state = "DeadlineMissed"
      BY <2>1 DEF BusIInv, TransfersAreWanted, TerminalStates
    <2> QED BY <2>1, <2>2, <2>3 DEF IsTerminal
  <1> QED BY <1>1, <1>2, <1>3, Invariance, BusInvariance, PTL DEF Spec

-----------------------------------------------------------------------------
(* Sums over jobs                                                           *)

(* Of a family of finite sets some set is smallest.                         *)
LEMMA SmallestSet ==
    ASSUME NEW F, F # {}, \A T \in F : IsFiniteSet(T)
    PROVE  \E T \in F : \A U \in F : Cardinality(T) <= Cardinality(U)
  <1> DEFINE sizes == {Cardinality(T) : T \in F}
  <1>1. sizes \in SUBSET Nat /\ sizes # {}
    BY FS_CardinalityType
  <1> HIDE DEF sizes
  <1>2. PICK c \in sizes : \A b \in sizes : c <= b
    BY <1>1, FirstOfNat DEF FirstOf
  <1> QED BY <1>2 DEF sizes

(* A finite set is larger than what is left of it without one element.      *)
LEMMA OneLess ==
    ASSUME NEW S, IsFiniteSet(S), NEW x \in S
    PROVE  /\ IsFiniteSet(S \ {x})
           /\ Cardinality(S) \in Nat /\ Cardinality(S \ {x}) \in Nat
           /\ Cardinality(S \ {x}) < Cardinality(S)
  <1>1. IsFiniteSet(S \ {x}) /\ Cardinality(S \ {x}) = Cardinality(S) - 1
    BY FS_RemoveElement, Zenon
  <1>2. Cardinality(S) \in Nat /\ Cardinality(S \ {x}) \in Nat
    BY <1>1, FS_CardinalityType
  <1> QED BY <1>1, <1>2

(* The work executed by the jobs of S, whose records r maps them to.        *)
Executed(r, S) == MapThenSumSet(LAMBDA j : r[j].exec, S)

(* g gives every subset of S its sum, whichever job is added first.         *)
IsSum(g, r, S) ==
    /\ g \in [SUBSET S -> Nat]
    /\ g[{}] = 0
    /\ \A T \in SUBSET S : \A x \in T : g[T] = r[x].exec + g[T \ {x}]

Counted(r, S) == IsFiniteSet(S) /\ \A j \in S : r[j].exec \in Nat

(* One more job adds its work to every sum it is in.                        *)
LEMMA SumExtends ==
    ASSUME NEW r, NEW S, NEW x, x \notin S, \A j \in S \cup {x} : r[j].exec \in Nat,
           NEW g, IsSum(g, r, S)
    PROVE  \E h : IsSum(h, r, S \cup {x})
  <1> DEFINE h == [T \in SUBSET (S \cup {x}) |->
                      IF x \in T THEN r[x].exec + g[T \ {x}] ELSE g[T]]
  <1>1. \A T \in SUBSET (S \cup {x}) : T \ {x} \in SUBSET S /\ (x \notin T => T \in SUBSET S)
    OBVIOUS
  <1>2. h \in [SUBSET (S \cup {x}) -> Nat]
    <2>1. \A T \in SUBSET S : g[T] \in Nat
      BY DEF IsSum
    <2>2. \A T \in SUBSET (S \cup {x}) :
             (IF x \in T THEN r[x].exec + g[T \ {x}] ELSE g[T]) \in Nat
      BY <1>1, <2>1
    <2> QED BY <2>2
  <1>3. h[{}] = 0
    BY DEF IsSum
  <1>4. ASSUME NEW T \in SUBSET (S \cup {x}), NEW y \in T
        PROVE  h[T] = r[y].exec + h[T \ {y}]
    <2>1. T \ {y} \in SUBSET (S \cup {x})
      OBVIOUS
    <2>2. CASE y = x
      BY <1>1, <2>1, <2>2
    <2>3. CASE y # x /\ x \in T
      <3>1. (T \ {x}) \ {y} = (T \ {y}) \ {x} /\ y \in T \ {x}
        BY <2>3
      <3>2. g[T \ {x}] = r[y].exec + g[(T \ {y}) \ {x}]
        <4> PICK U : U = T \ {x}
          OBVIOUS
        <4>1. U \in SUBSET S /\ y \in U
          BY <1>1, <3>1
        <4>2. g[U] = r[y].exec + g[U \ {y}]
          BY <4>1 DEF IsSum
        <4> QED BY <3>1, <4>2
      <3>3. h[T] = r[x].exec + g[T \ {x}] /\ h[T \ {y}] = r[x].exec + g[(T \ {y}) \ {x}]
        BY <2>1, <2>3
      <3>4. T \ {x} \in SUBSET S /\ (T \ {y}) \ {x} \in SUBSET S
        OBVIOUS
      <3>5. g[T \ {x}] \in Nat /\ g[(T \ {y}) \ {x}] \in Nat
        BY <3>4 DEF IsSum
      <3>6. r[y].exec \in Nat /\ r[x].exec \in Nat
        OBVIOUS
      <3> QED BY <3>2, <3>3, <3>5, <3>6
    <2>4. CASE x \notin T
      BY <1>1, <2>1, <2>4 DEF IsSum
    <2> QED BY <2>2, <2>3, <2>4
  <1> HIDE DEF h
  <1> QED BY <1>2, <1>3, <1>4 DEF IsSum

(* Every finite set of jobs has its sums: a smallest one without would have *)
(* them by the previous lemma.                                              *)
LEMMA SumExists ==
    ASSUME NEW r, NEW S, Counted(r, S)
    PROVE  \E g : IsSum(g, r, S)
  <1> SUFFICES ASSUME ~ \E g : IsSum(g, r, S) PROVE FALSE
    OBVIOUS
  <1> DEFINE F == {T \in SUBSET S : ~ \E g : IsSum(g, r, T)}
  <1>1. F # {} /\ \A T \in F : IsFiniteSet(T)
    BY FS_Subset DEF Counted
  <1>2. PICK T \in F : \A U \in F : Cardinality(T) <= Cardinality(U)
    BY <1>1, SmallestSet
  <1>3. T # {}
    <2>1. IsSum([U \in SUBSET {} |-> 0], r, {})
      BY DEF IsSum
    <2> QED BY <2>1
  <1>4. PICK x \in T : TRUE
    BY <1>3
  <1>5. Cardinality(T \ {x}) < Cardinality(T) /\ Cardinality(T \ {x}) \in Nat
        /\ Cardinality(T) \in Nat
    BY <1>1, <1>4, OneLess, Zenon
  <1>6. T \ {x} \in SUBSET S /\ T \ {x} \notin F
    BY <1>2, <1>5
  <1>7. PICK g : IsSum(g, r, T \ {x})
    BY <1>6
  <1>8. \A j \in (T \ {x}) \cup {x} : r[j].exec \in Nat
    BY DEF Counted
  <1>9. x \notin T \ {x} /\ (T \ {x}) \cup {x} = T
    OBVIOUS
  <1>10. \E h : IsSum(h, r, (T \ {x}) \cup {x})
    BY <1>7, <1>8, <1>9, SumExtends, Zenon
  <1> QED BY <1>9, <1>10

(* The equation of the fold that sums, which picks the jobs in some order.  *)
Unfolds(h, r, S) ==
    h = [T \in SUBSET S |->
            IF T = {} THEN 0
            ELSE r[CHOOSE x \in T : TRUE].exec + h[T \ {CHOOSE x \in T : TRUE}]]

(* The sums solve it,                                                       *)
LEMMA SumUnfolds ==
    ASSUME NEW r, NEW S, NEW g, IsSum(g, r, S)
    PROVE  Unfolds(g, r, S)
  <1>1. \A T \in SUBSET S : T # {} => (CHOOSE x \in T : TRUE) \in T
    OBVIOUS
  <1> QED BY <1>1 DEF IsSum, Unfolds

(* and nothing else does: a smallest set with another value would have one  *)
(* without the job that is picked first.                                    *)
LEMMA SumIsUnique ==
    ASSUME NEW r, NEW S, IsFiniteSet(S), NEW g, IsSum(g, r, S), NEW h, Unfolds(h, r, S)
    PROVE  h = g
  <1> SUFFICES ASSUME h # g PROVE FALSE
    OBVIOUS
  <1> DEFINE any(T) == CHOOSE x \in T : TRUE
  <1> DEFINE F == {T \in SUBSET S : h[T] # g[T]}
  <1>0. Unfolds(g, r, S)
    BY SumUnfolds
  <1>1. F # {}
    <2>1. g = [T \in SUBSET S |-> g[T]] /\ h = [T \in SUBSET S |-> h[T]]
      BY <1>0 DEF Unfolds
    <2> QED BY <2>1
  <1>2. \A T \in F : IsFiniteSet(T)
    BY FS_Subset
  <1>3. PICK T \in F : \A U \in F : Cardinality(T) <= Cardinality(U)
    BY <1>1, <1>2, SmallestSet
  <1>4. /\ h[T] = IF T = {} THEN 0 ELSE r[any(T)].exec + h[T \ {any(T)}]
        /\ g[T] = IF T = {} THEN 0 ELSE r[any(T)].exec + g[T \ {any(T)}]
    BY <1>0 DEF Unfolds
  <1>5. T # {}
    BY <1>4
  <1>6. any(T) \in T
    BY <1>5
  <1>7. PICK x \in T : x = any(T)
    BY <1>6
  <1> HIDE DEF any
  <1>8. Cardinality(T \ {x}) < Cardinality(T) /\ Cardinality(T \ {x}) \in Nat
        /\ Cardinality(T) \in Nat
    BY <1>2, OneLess, Zenon
  <1>9. T \ {x} \notin F
    BY <1>3, <1>8
  <1>10. h[T \ {x}] = g[T \ {x}]
    BY <1>9
  <1> QED BY <1>4, <1>5, <1>7, <1>10

(* So the fold returns the sum.                                             *)
LEMMA ExecutedIsSum ==
    ASSUME NEW r, NEW S, IsFiniteSet(S), NEW g, IsSum(g, r, S)
    PROVE  Executed(r, S) = g[S] /\ Executed(r, S) \in Nat
  <1>1. \A h : Unfolds(h, r, S) => h = g
    BY SumIsUnique
  <1>2. Unfolds(g, r, S)
    BY SumUnfolds
  <1>3. Executed(r, S) = g[S]
    BY <1>1, <1>2 DEF Unfolds, Executed, MapThenSumSet, MapThenFoldSet
  <1> QED BY <1>3 DEF IsSum

(* The work of one job can be taken out of the sum.                         *)
LEMMA ExecutedWithout ==
    ASSUME NEW r, NEW S, Counted(r, S), NEW x
    PROVE  /\ Executed(r, S) \in Nat /\ Executed(r, S \ {x}) \in Nat
           /\ x \in S => Executed(r, S) = r[x].exec + Executed(r, S \ {x})
  <1>1. PICK g : IsSum(g, r, S)
    BY SumExists
  <1>2. Executed(r, S) = g[S] /\ Executed(r, S) \in Nat
    BY <1>1, ExecutedIsSum DEF Counted
  <1>3. CASE x \in S
    <2>1. IsSum([T \in SUBSET (S \ {x}) |-> g[T]], r, S \ {x})
      BY <1>1 DEF IsSum
    <2>2. IsFiniteSet(S \ {x})
      BY <1>3, OneLess DEF Counted
    <2>3. Executed(r, S \ {x}) = g[S \ {x}] /\ Executed(r, S \ {x}) \in Nat
      BY <2>1, <2>2, ExecutedIsSum
    <2>4. g[S] = r[x].exec + g[S \ {x}]
      BY <1>1, <1>3 DEF IsSum
    <2> QED BY <1>2, <1>3, <2>3, <2>4
  <1>4. CASE x \notin S
    <2>1. S \ {x} = S
      BY <1>4
    <2> QED BY <1>2, <1>4, <2>1
  <1> QED BY <1>3, <1>4

(* Jobs that have executed nothing add nothing.                             *)
LEMMA ExecutedIdle ==
    ASSUME NEW r, NEW S, Counted(r, S), NEW T \in SUBSET S, \A j \in S \ T : r[j].exec = 0
    PROVE  Executed(r, S) = Executed(r, T)
  <1>1. IsFiniteSet(T) /\ Counted(r, T)
    BY FS_Subset DEF Counted
  <1>2. PICK g : IsSum(g, r, T)
    BY <1>1, SumExists
  <1> DEFINE h == [U \in SUBSET S |-> g[U \cap T]]
  <1>3. IsSum(h, r, S)
    <2>1. \A U \in SUBSET S : U \cap T \in SUBSET T
      OBVIOUS
    <2>2. h \in [SUBSET S -> Nat] /\ h[{}] = 0
      BY <1>2, <2>1 DEF IsSum
    <2>3. ASSUME NEW U \in SUBSET S, NEW x \in U
          PROVE  h[U] = r[x].exec + h[U \ {x}]
      <3> PICK V : V = U \cap T
        OBVIOUS
      <3>1. V \in SUBSET T /\ (U \ {x}) \cap T = V \ {x} /\ g[V] \in Nat
        BY <1>2 DEF IsSum
      <3>2. h[U] = g[V] /\ h[U \ {x}] = g[V \ {x}]
        BY <3>1
      <3>3. CASE x \in T
        <4>1. x \in V
          BY <3>3
        <4>2. g[V] = r[x].exec + g[V \ {x}]
          BY <1>2, <3>1, <4>1 DEF IsSum
        <4> QED BY <3>2, <4>2
      <3>4. CASE x \notin T
        <4>1. V \ {x} = V /\ r[x].exec = 0
          BY <3>4
        <4> QED BY <3>1, <3>2, <4>1
      <3> QED BY <3>3, <3>4
    <2> HIDE DEF h
    <2> QED BY <2>2, <2>3 DEF IsSum
  <1>4. Executed(r, S) = h[S]
    BY <1>3, ExecutedIsSum DEF Counted
  <1>5. h[S] = g[T]
    <2>1. S \cap T = T
      OBVIOUS
    <2> QED BY <2>1
  <1>6. Executed(r, T) = g[T]
    BY <1>1, <1>2, ExecutedIsSum
  <1> QED BY <1>4, <1>5, <1>6

(* Two sums in which the same jobs have executed the same are equal.        *)
LEMMA ExecutedSame ==
    ASSUME NEW r, NEW S, Counted(r, S), NEW q, NEW T, Counted(q, T),
           \A j \in S : \/ j \in T /\ q[j].exec = r[j].exec
                        \/ r[j].exec = 0,
           \A j \in T : \/ j \in S /\ q[j].exec = r[j].exec
                        \/ q[j].exec = 0
    PROVE  Executed(r, S) = Executed(q, T)
  <1> DEFINE U == {j \in S \cap T : q[j].exec = r[j].exec}
  <1>1. U \in SUBSET S /\ U \in SUBSET T /\ \A j \in U : q[j].exec = r[j].exec
    OBVIOUS
  <1>2. (\A j \in S \ U : r[j].exec = 0) /\ (\A j \in T \ U : q[j].exec = 0)
    OBVIOUS
  <1> HIDE DEF U
  <1>3. Executed(r, S) = Executed(r, U) /\ Executed(q, T) = Executed(q, U)
    BY <1>1, <1>2, ExecutedIdle
  <1>4. Counted(r, U)
    BY <1>1, FS_Subset DEF Counted
  <1>5. PICK g : IsSum(g, r, U)
    BY <1>4, SumExists
  <1>6. IsSum(g, q, U)
    BY <1>1, <1>5 DEF IsSum
  <1>7. Executed(r, U) = g[U] /\ Executed(q, U) = g[U]
    BY <1>4, <1>5, <1>6, ExecutedIsSum DEF Counted
  <1> QED BY <1>3, <1>7

-----------------------------------------------------------------------------
(* Work and wall time                                                       *)

(* A quotient is the largest number whose product fits.                     *)
LEMMA Quotient ==
    ASSUME NEW n \in Nat, NEW b \in Nat, b # 0
    PROVE  /\ n \div b \in Nat
           /\ b * (n \div b) <= n
           /\ \A k \in Nat : b * k <= n => k <= n \div b
  <1> PICK q : q = n \div b
    OBVIOUS
  <1>1. q \in Nat
    OBVIOUS
  <1>2. b * (n \div b) <= n
    OBVIOUS
  <1>3. n < b * (n \div b) + b
    OBVIOUS
  <1>4. ASSUME NEW k \in Nat, b * k <= n
        PROVE  k <= q
    <2> SUFFICES ASSUME k >= q + 1 PROVE FALSE
      BY <1>1
    <2>1. b * k >= b * (q + 1)
      BY <1>1
    <2>2. b * (q + 1) = b * q + b
      BY <1>1
    <2>3. b * k \in Nat /\ b * q \in Nat
      BY <1>1
    <2>4. n < b * q + b
      BY <1>3
    <2> QED BY <1>4, <2>1, <2>2, <2>3, <2>4
  <1> QED BY <1>1, <1>2, <1>4

(* Two stretches are worth no more than the one they make.                  *)
LEMMA StretchesAdd ==
    ASSUME NEW d \in DeviceIds, NEW a \in Nat, NEW b \in Nat
    PROVE  WallToWork(a, d) + WallToWork(b, d) <= WallToWork(a + b, d)
  <1>1. Device[d].num \in Nat /\ Device[d].den \in Nat \ {0}
    BY PlatformAssumption DEF DeviceRecord
  <1>2. CASE Device[d].num = 0
    BY <1>2 DEF WallToWork
  <1>3. CASE Device[d].num # 0
    <2> PICK m : m = Device[d].num
      OBVIOUS
    <2> PICK n : n = Device[d].den
      OBVIOUS
    <2>1. m \in Nat /\ n \in Nat /\ n # 0
      BY <1>1
    <2>2. a * m \in Nat /\ b * m \in Nat /\ (a + b) * m = a * m + b * m
      BY <2>1
    <2> PICK x : x = a * m
      OBVIOUS
    <2> PICK y : y = b * m
      OBVIOUS
    <2>3. x \in Nat /\ y \in Nat /\ (a + b) * m = x + y /\ x + y \in Nat
      BY <2>2
    <2>4. /\ x \div n \in Nat /\ n * (x \div n) <= x
          /\ y \div n \in Nat /\ n * (y \div n) <= y
      BY <2>1, <2>3, Quotient
    <2> PICK p : p = x \div n
      OBVIOUS
    <2> PICK q : q = y \div n
      OBVIOUS
    <2>5. p \in Nat /\ q \in Nat /\ p + q \in Nat /\ n * p <= x /\ n * q <= y
      BY <2>4
    <2>6. n * (p + q) = n * p + n * q
      BY <2>1, <2>5
    <2>7. n * p \in Nat /\ n * q \in Nat
      BY <2>1, <2>5
    <2>8. n * (p + q) <= x + y
      BY <2>3, <2>5, <2>6, <2>7
    <2>9. p + q <= (x + y) \div n
      BY <2>1, <2>3, <2>5, <2>8, Quotient
    <2> QED BY <1>3, <2>3, <2>9 DEF WallToWork
  <1> QED BY <1>2, <1>3

(* The time reserved for some work is long enough for it, and more time is  *)
(* worth no less.                                                           *)
LEMMA WorkFits ==
    ASSUME NEW d \in DeviceIds, NEW work \in Nat, NEW wall \in Nat, wall >= WorkToWall(work, d)
    PROVE  work <= WallToWork(wall, d)
  <1>1. Device[d].num \in Nat /\ Device[d].den \in Nat \ {0}
    BY PlatformAssumption DEF DeviceRecord
  <1>2. CASE Device[d].num = 0
    BY <1>2 DEF WallToWork, WorkToWall
  <1>3. CASE Device[d].num # 0
    <2> PICK m : m = Device[d].num
      OBVIOUS
    <2> PICK n : n = Device[d].den
      OBVIOUS
    <2>1. m \in Nat /\ m # 0 /\ n \in Nat /\ n # 0
      BY <1>1, <1>3
    <2> PICK x : x = work * n
      OBVIOUS
    <2>2. x \in Nat /\ x = n * work /\ x + m - 1 \in Nat
      <3>1. work * n \in Nat /\ work * n = n * work
        BY <2>1
      <3>2. x \in Nat /\ x = n * work
        BY <3>1
      <3> QED BY <2>1, <3>2
    <2> PICK c : c = (x + m - 1) \div m
      OBVIOUS
    <2>3. c \in Nat /\ wall >= c
      BY <1>3, <2>1, <2>2, Quotient DEF WorkToWall, CeilDiv
    <2>4. m * c >= x
      <3>1. ~ (m * (c + 1) <= x + m - 1)
        BY <2>1, <2>2, <2>3, Quotient
      <3>2. m * (c + 1) = m * c + m /\ m * c \in Nat
        BY <2>1, <2>3
      <3> QED BY <2>1, <2>2, <3>1, <3>2
    <2>5. wall * m >= m * c
      BY <2>1, <2>3
    <2>6. wall * m \in Nat /\ m * c \in Nat
      BY <2>1, <2>3
    <2>7. n * work <= wall * m
      BY <2>2, <2>4, <2>5, <2>6
    <2>8. work <= (wall * m) \div n
      BY <2>1, <2>6, <2>7, Quotient
    <2> QED BY <1>3, <2>8 DEF WallToWork
  <1> QED BY <1>2, <1>3

-----------------------------------------------------------------------------
(* The work of a job record                                                 *)

(* A change of state that neither starts nor completes the job.             *)
LEMMA TransitionWork ==
    ASSUME NEW r \in JobRecord, WorkSound(r),
           NEW s \in JobStates \ {"Running", "Completed"}, s \in UnbegunStates => r.exec = 0
    PROVE  WorkSound(Transition(r, s)) /\ WorkSound(Settle(r, s))
  <1>1. WorkSound(Transition(r, s))
    BY TransitionLemma DEF WorkSound
  <1> QED BY <1>1 DEF Settle

(* An assignment to a device is no work.                                    *)
LEMMA AssignedWork ==
    ASSUME NEW r \in JobRecord, WorkSound(r), NEW d \in DeviceIds, NEW t \in Nat \cup {Unset}
    PROVE  WorkSound(Assigned(r, d, t))
  BY AssignedLemma DEF WorkSound

(* Once it is resolved, the demand of a job that has not completed is known.*)
LEMMA ResolvedWork ==
    ASSUME NEW r \in JobRecord, WorkSound(r), r.state # "Completed", NEW x \in Nat
    PROVE  WorkSound(Resolved(r, x)) /\ Resolved(r, x).actual # Unset
  <1>1. CASE r.actual = Unset
    BY <1>1 DEF Resolved, WorkSound, JobRecord, Unset
  <1>2. CASE r.actual # Unset
    BY <1>2 DEF Resolved, WorkSound, JobRecord
  <1> QED BY <1>1, <1>2

(* Progress is cut off at the demand.                                       *)
LEMMA ProgressedWork ==
    ASSUME NEW r \in JobRecord, WorkSound(r), r.state = "Running",
           NEW d \in DeviceIds, NEW t \in Nat, r.start \in 0 .. t
    PROVE  /\ WorkSound(Progressed(r, d, t))
           /\ Progressed(r, d, t).exec <= r.exec + WallToWork(t - r.start, d)
  <1> DEFINE w == WallToWork(t - r.start, d)
  <1>1. w \in Nat
    <2>1. t - r.start \in Nat
      OBVIOUS
    <2> QED BY <2>1, WallToWorkNat
  <1> HIDE DEF w
  <1>2. r.exec \in Nat /\ r.actual \in Nat \cup {Unset}
    BY DEF JobRecord
  <1> PICK x : x = r.exec + MinOf(w, Remaining(r))
    OBVIOUS
  <1>3. /\ r.actual = Unset => x = 0
        /\ r.actual # Unset => x <= r.actual
    BY <1>1, <1>2 DEF WorkSound, MinOf, Remaining, Unset
  <1>4. Progressed(r, d, t) = [r EXCEPT !.exec = x, !.start = Unset]
    BY DEF Progressed, w
  <1>5. /\ Progressed(r, d, t).exec = x
        /\ Progressed(r, d, t).actual = r.actual
        /\ Progressed(r, d, t).state = r.state
    BY <1>4 DEF JobRecord
  <1>6. x <= r.exec + w
    BY <1>1, <1>2 DEF MinOf, Remaining, Unset
  <1> QED BY <1>3, <1>5, <1>6 DEF WorkSound, UnbegunStates, w

(* Stopping a job's clock is no work.                                       *)
LEMMA StoppedWork ==
    ASSUME NEW r \in JobRecord, WorkSound(r)
    PROVE  [r EXCEPT !.start = Unset] \in JobRecord /\ WorkSound([r EXCEPT !.start = Unset])
  BY DEF WorkSound, JobRecord

-----------------------------------------------------------------------------
(* What the steps but one have in common                                    *)

(* What becomes of a job's record until time t is sound credit: it changes  *)
(* its device with nothing executed or not at all, and is credited with     *)
(* work only for a stretch on its device, as much as that is worth at most. *)
Credited(old, new, t) ==
    \/ new.exec = old.exec /\ (new.dev = old.dev \/ old.exec = 0)
    \/ /\ old.state = "Running"
       /\ new.dev = old.dev
       /\ new.exec <= old.exec + WallToWork(t - old.start, old.dev)
CreditSound(k) ==
    IF k \in JobIds THEN Credited(jobs[k], jobs'[k], now') ELSE jobs'[k].exec = 0

(* No job starts: it stays as it is, or it does not run after the step.     *)
WorkKept ==
    \A k \in JobIds' :
        \/ k \in JobIds /\ jobs'[k] = jobs[k]
        \/ WorkSound(jobs'[k]) /\ jobs'[k].state # "Running" /\ CreditSound(k)

(* A slot stays as it is, or is emptied and its last stretch accounted.     *)
BusyKept ==
    \A d \in DeviceIds :
        \/ /\ running'[d] = running[d] /\ busy'[d] = busy[d]
           /\ running[d] # NoJob => jobs'[running[d]] = jobs[running[d]]
        \/ /\ running[d] # NoJob /\ running'[d] = NoJob
           /\ busy'[d] = busy[d] + (now' - jobs[running[d]].start)

(* The completions of the jobs that run on stay.                            *)
RunsKept ==
    \A e : e.kind = "JobComplete" =>
        /\ e \in events' => e \in events
        /\ e \in events => \/ e \in events' \/ IsStale(e)
                           \/ jobs'[e.job].state # "Running"

(* The two books of a device agree after a step that counts its stretches   *)
(* as busy and credits no job with more than they are worth.                *)
LEMMA BooksFrame ==
    ASSUME IInv, IInv', WorkWithinBusyTime, now' >= now, JobIds \subseteq JobIds',
           \A k \in JobIds' : CreditSound(k),
           \A d \in DeviceIds :
               \/ /\ busy'[d] = busy[d]
                  /\ running[d] # NoJob => jobs'[running[d]] = jobs[running[d]]
               \/ /\ running[d] # NoJob
                  /\ busy'[d] = busy[d] + (now' - jobs[running[d]].start)
    PROVE  WorkWithinBusyTime'
  <1> SUFFICES ASSUME NEW d \in DeviceIds
               PROVE  CreditedOn(d)' <= WallToWork(busy'[d], d)
    BY DEF WorkWithinBusyTime
  <1> PICK S : S = {j \in JobIds : jobs[j].dev = d}
    OBVIOUS
  <1> PICK T : T = {j \in JobIds' : jobs'[j].dev = d}
    OBVIOUS
  <1>1. CreditedOn(d) = Executed(jobs, S) /\ CreditedOn(d)' = Executed(jobs', T)
    BY DEF CreditedOn, Executed, MapThenSumSet, MapThenFoldSet
  <1>2. /\ \A j \in JobIds : jobs[j] \in JobRecord
        /\ \A j \in JobIds' : jobs'[j] \in JobRecord
        /\ busy[d] \in Nat /\ busy'[d] \in Nat /\ now \in Nat /\ now' \in Nat
        /\ nextJob \in Nat /\ nextJob' \in Nat
    BY DEF IInv, TypeOK
  <1>3. /\ \A j \in JobIds : jobs[j].exec \in Nat
        /\ \A j \in JobIds' : jobs'[j].exec \in Nat
    BY <1>2 DEF JobRecord
  <1>4. Counted(jobs, S) /\ Counted(jobs', T)
    <2>1. IsFiniteSet(JobIds) /\ IsFiniteSet(JobIds')
      <3>1. 0 \in Int /\ nextJob - 1 \in Int /\ nextJob' - 1 \in Int
        BY <1>2
      <3>2. IsFiniteSet(0 .. nextJob - 1) /\ IsFiniteSet(0 .. nextJob' - 1)
        BY <3>1, FS_Interval
      <3> QED BY <3>2 DEF JobIds
    <2>2. S \in SUBSET JobIds /\ T \in SUBSET JobIds'
      OBVIOUS
    <2>3. IsFiniteSet(S) /\ IsFiniteSet(T)
      BY <2>1, <2>2, FS_Subset
    <2> QED BY <1>3, <2>2, <2>3 DEF Counted
  <1>5. Executed(jobs, S) <= WallToWork(busy[d], d) /\ Executed(jobs, S) \in Nat
    <2>1. Executed(jobs, S) \in Nat
      BY <1>4, ExecutedWithout
    <2> QED BY <1>1, <2>1 DEF WorkWithinBusyTime
  <1>6. \A j \in JobIds : jobs[j].state = "Running" =>
            /\ jobs[j].dev \in DeviceIds
            /\ running[jobs[j].dev] = j
            /\ j # NoJob
    BY DEF IInv, Placement, RunningJobsHaveSlots, JobIds, NoJob
  <1>7. ASSUME NEW v, \A j \in JobIds : jobs[j].dev = d /\ jobs[j].state = "Running" =>
                          j = v \/ jobs'[j] = jobs[j]
        PROVE  /\ \A j \in S \ {v} : \/ j \in T /\ jobs'[j].exec = jobs[j].exec
                                     \/ jobs[j].exec = 0
               /\ \A j \in T \ {v} : \/ j \in S /\ jobs'[j].exec = jobs[j].exec
                                     \/ jobs'[j].exec = 0
    <2>1. ASSUME NEW j \in S \ {v}
          PROVE  \/ j \in T /\ jobs'[j].exec = jobs[j].exec
                 \/ jobs[j].exec = 0
      <3>1. j \in JobIds /\ j \in JobIds' /\ jobs[j].dev = d /\ Credited(jobs[j], jobs'[j], now')
        BY DEF CreditSound
      <3> QED BY <1>7, <3>1 DEF Credited
    <2>2. ASSUME NEW j \in T \ {v}
          PROVE  \/ j \in S /\ jobs'[j].exec = jobs[j].exec
                 \/ jobs'[j].exec = 0
      <3>1. j \in JobIds' /\ jobs'[j].dev = d /\ CreditSound(j)
        OBVIOUS
      <3>2. CASE j \in JobIds
        BY <1>7, <3>1, <3>2 DEF CreditSound, Credited
      <3>3. CASE j \notin JobIds
        BY <3>1, <3>3 DEF CreditSound
      <3> QED BY <3>2, <3>3
    <2> QED BY <2>1, <2>2
  <1>8. CASE /\ busy'[d] = busy[d]
             /\ running[d] # NoJob => jobs'[running[d]] = jobs[running[d]]
    <2>1. NoJob \notin S /\ NoJob \notin T
      BY <1>2 DEF NoJob, JobIds
    <2>2. \A j \in JobIds : jobs[j].dev = d /\ jobs[j].state = "Running" =>
             j = NoJob \/ jobs'[j] = jobs[j]
      BY <1>6, <1>8
    <2>3. S \ {NoJob} = S /\ T \ {NoJob} = T
      BY <2>1
    <2>4. Executed(jobs, S) = Executed(jobs', T)
      <3>1. /\ \A j \in S : (j \in T /\ jobs'[j].exec = jobs[j].exec) \/ jobs[j].exec = 0
            /\ \A j \in T : (j \in S /\ jobs'[j].exec = jobs[j].exec) \/ jobs'[j].exec = 0
        BY <1>7, <2>2, <2>3
      <3> QED BY <1>4, <3>1, ExecutedSame
    <2> QED BY <1>1, <1>5, <1>8, <2>4
  <1>9. CASE /\ running[d] # NoJob
             /\ busy'[d] = busy[d] + (now' - jobs[running[d]].start)
    <2> PICK v : v = running[d]
      OBVIOUS
    <2> PICK w : w = now' - jobs[v].start
      OBVIOUS
    <2>1. /\ v \in JobIds /\ jobs[v].dev = d /\ jobs[v].start \in 0 .. now
          /\ v \in S
      BY <1>9, RunningJob
    <2>2. w \in Nat /\ busy'[d] = busy[d] + w
      BY <1>2, <1>9, <2>1
    <2>3. \A j \in JobIds : jobs[j].dev = d /\ jobs[j].state = "Running" =>
             j = v \/ jobs'[j] = jobs[j]
      BY <1>6
    <2>4. Counted(jobs, S \ {v}) /\ Counted(jobs', T \ {v})
      BY <1>4, FS_Subset DEF Counted
    <2>5. Executed(jobs, S \ {v}) = Executed(jobs', T \ {v})
      <3>1. /\ \A j \in S \ {v} : \/ j \in T \ {v} /\ jobs'[j].exec = jobs[j].exec
                                  \/ jobs[j].exec = 0
            /\ \A j \in T \ {v} : \/ j \in S \ {v} /\ jobs'[j].exec = jobs[j].exec
                                  \/ jobs'[j].exec = 0
        BY <1>7, <2>3
      <3> QED BY <2>4, <3>1, ExecutedSame
    <2>6. /\ Executed(jobs, S) = jobs[v].exec + Executed(jobs, S \ {v})
          /\ Executed(jobs, S \ {v}) \in Nat
      BY <1>4, <2>1, ExecutedWithout
    <2>7. /\ v \in T => Executed(jobs', T) = jobs'[v].exec + Executed(jobs', T \ {v})
          /\ Executed(jobs', T) \in Nat
      <3>1. Executed(jobs', T) \in Nat
        BY <1>4, ExecutedWithout
      <3>2. ASSUME v \in T
            PROVE  Executed(jobs', T) = jobs'[v].exec + Executed(jobs', T \ {v})
        BY <1>4, <3>2, ExecutedWithout
      <3> QED BY <3>1, <3>2
    <2>8. WallToWork(w, d) \in Nat /\ WallToWork(busy[d], d) \in Nat
          /\ WallToWork(busy[d], d) + WallToWork(w, d) <= WallToWork(busy'[d], d)
          /\ WallToWork(busy'[d], d) \in Nat
      BY <1>2, <2>2, WallToWorkNat, StretchesAdd
    <2>9. v \in JobIds' /\ jobs'[v].exec \in Nat /\ jobs[v].exec \in Nat
          /\ jobs'[v].exec <= jobs[v].exec + WallToWork(w, d)
      <3>1. v \in JobIds' /\ Credited(jobs[v], jobs'[v], now')
        BY <2>1 DEF CreditSound
      <3> QED BY <1>3, <2>1, <2>8, <3>1 DEF Credited
    <2>10. v \notin T => T \ {v} = T
      OBVIOUS
    <2>11. Executed(jobs', T) <= jobs'[v].exec + Executed(jobs', T \ {v})
      <3>1. CASE v \in T
        BY <2>5, <2>6, <2>7, <2>9, <3>1
      <3>2. CASE v \notin T
        <4>1. Executed(jobs', T \ {v}) = Executed(jobs', T)
          BY <2>10, <3>2
        <4> QED BY <2>5, <2>6, <2>7, <2>9, <4>1
      <3> QED BY <3>1, <3>2
    <2> QED BY <1>1, <1>5, <2>5, <2>6, <2>7, <2>8, <2>9, <2>11
  <1> QED BY <1>8, <1>9

(* Such a step keeps the invariant.                                         *)
LEMMA WorkFrame ==
    ASSUME IInv, IInv', WorkIInv, JobIds \subseteq JobIds',
           WorkKept, BusyKept, RunsKept, now' >= now
    PROVE  WorkIInv'
  <1>1. \A k \in JobIds' : WorkSound(jobs[k])'
    BY DEF WorkKept, WorkIInv, WorkSound
  <1>2. CompletionScheduled'
    <2> SUFFICES ASSUME NEW k \in JobIds', jobs'[k].state = "Running"
                 PROVE  \E e \in LiveCompletions(k)' : LiveCompletions(k)' = {e} /\ e.time >= now'
      BY DEF CompletionScheduled
    <2>1. k \in JobIds /\ jobs'[k] = jobs[k]
      BY DEF WorkKept
    <2>2. LiveCompletions(k)' = LiveCompletions(k)
      BY <2>1 DEF LiveCompletions, RunsKept, IsStale, VersionedKinds
    <2>3. PICK e : LiveCompletions(k) = {e}
      BY <2>1 DEF WorkIInv, CompletionScheduled
    <2>4. e \in events'
      BY <2>2, <2>3 DEF LiveCompletions
    <2>5. e.time >= now'
      BY <2>4 DEF IInv, EventsAreSound, NothingInThePast
    <2> QED BY <2>2, <2>3, <2>5
  <1>3. BusyWithinElapsed'
    <2> SUFFICES ASSUME NEW d \in DeviceIds
                 PROVE  busy'[d] + (IF running'[d] = NoJob THEN 0
                                    ELSE now' - jobs'[running'[d]].start) <= now'
      BY DEF BusyWithinElapsed
    <2>1. /\ busy[d] \in Nat /\ now \in Nat /\ now' \in Nat
          /\ busy[d] + (IF running[d] = NoJob THEN 0 ELSE now - jobs[running[d]].start) <= now
      BY DEF IInv, TypeOK, WorkIInv, BusyWithinElapsed
    <2>2. running[d] # NoJob => jobs[running[d]].start \in Nat
      BY RunningJob
    <2> QED BY <2>1, <2>2 DEF BusyKept
  <1>4. CompletionsAreDue'
    <2> SUFFICES ASSUME NEW k \in JobIds', jobs'[k].state = "Running", NEW e \in LiveCompletions(k)'
                 PROVE  e.time >= jobs'[k].start + WorkToWall(Remaining(jobs'[k]), jobs'[k].dev)
      BY DEF CompletionsAreDue
    <2>1. k \in JobIds /\ jobs'[k] = jobs[k]
      BY DEF WorkKept
    <2>2. e \in LiveCompletions(k)
      BY <2>1 DEF LiveCompletions, RunsKept
    <2> QED BY <2>1, <2>2 DEF WorkIInv, CompletionsAreDue
  <1>5. WorkWithinBusyTime'
    <2>1. \A k \in JobIds' : CreditSound(k)
      BY DEF WorkKept, CreditSound, Credited
    <2>2. WorkWithinBusyTime
      BY DEF WorkIInv
    <2> QED BY <2>1, <2>2, BooksFrame DEF BusyKept
  <1> QED BY <1>1, <1>2, <1>3, <1>4, <1>5 DEF WorkIInv

(* One job changes, and does not run after the step.                        *)
LEMMA OneJobWork ==
    ASSUME TypeOK, NEW v \in JobIds, NEW r, jobs' = [jobs EXCEPT ![v] = r], nextJob' = nextJob,
           \/ r = jobs[v]
           \/ WorkSound(r) /\ r.state # "Running" /\ Credited(jobs[v], r, now')
    PROVE  WorkKept /\ JobIds' = JobIds /\ jobs'[v] = r /\ \A k \in JobIds : k # v => jobs'[k] = jobs[k]
  <1>1. jobs'[v] = r /\ \A k \in JobIds : k # v => jobs'[k] = jobs[k]
    BY DEF TypeOK
  <1>2. JobIds' = JobIds
    BY DEF JobIds
  <1> QED BY <1>1, <1>2 DEF WorkKept, CreditSound

(* A job that is not running changes; the slots stay.                       *)
LEMMA WaitingJobWork ==
    ASSUME IInv, WorkIInv, IInv', NEW v \in JobIds, NEW r, jobs' = [jobs EXCEPT ![v] = r],
           WorkSound(r), r.state # "Running", jobs[v].state # "Running",
           r.exec = jobs[v].exec, r.exec = 0 \/ r.dev = jobs[v].dev,
           UNCHANGED <<nextJob, running, busy>>, now' >= now, CompletionsKept("JobComplete")
    PROVE  WorkIInv'
  <1>1. WorkKept /\ JobIds' = JobIds /\ \A k \in JobIds : k # v => jobs'[k] = jobs[k]
    BY OneJobWork DEF IInv, Credited
  <1>2. \A d \in DeviceIds : running[d] # NoJob => running[d] \in JobIds /\ running[d] # v
    BY DEF IInv, Placement, SlotsHoldRunningJobs
  <1>3. BusyKept
    BY <1>1, <1>2 DEF BusyKept
  <1>4. RunsKept
    BY DEF RunsKept, CompletionsKept
  <1> QED BY <1>1, <1>3, <1>4, WorkFrame

(* No existing job changes, and a new one does not run yet.                 *)
OnlyNewJobs ==
    /\ JobIds \subseteq JobIds'
    /\ \A k \in JobIds' : IF k \in JobIds THEN jobs'[k] = jobs[k]
                          ELSE /\ WorkSound(jobs'[k])
                               /\ jobs'[k].state # "Running"
                               /\ jobs'[k].exec = 0

(* Such a step keeps the invariant if the slots stay.                       *)
LEMMA NoJobWork ==
    ASSUME IInv, WorkIInv, IInv', OnlyNewJobs,
           UNCHANGED <<running, busy>>, now' >= now, QuietStep
    PROVE  WorkIInv'
  <1>1. WorkKept /\ JobIds \subseteq JobIds'
    BY DEF WorkKept, OnlyNewJobs, CreditSound
  <1>2. \A d \in DeviceIds : running[d] # NoJob => running[d] \in JobIds
    BY DEF IInv, Placement, SlotsHoldRunningJobs
  <1>3. BusyKept
    BY <1>2 DEF BusyKept, OnlyNewJobs
  <1>4. RunsKept
    BY DEF RunsKept, QuietStep, CompletionsKept
  <1> QED BY <1>1, <1>3, <1>4, WorkFrame

-----------------------------------------------------------------------------
(* The steps that create jobs                                               *)

(* A job is created with nothing executed.                                  *)
LEMMA NewJobWork ==
    ASSUME NEW t \in TaskIds, NEW release \in Nat, NEW deadline \in Nat,
           NEW actual \in Nat \cup {Unset}
    PROVE  /\ WorkSound(NewJob(t, release, deadline, actual))
           /\ NewJob(t, release, deadline, actual).state # "Running"
           /\ NewJob(t, release, deadline, actual).exec = 0
  BY DEF NewJob, WorkSound, Unset

(* It takes an id no other job has.                                         *)
LEMMA AddJobWork ==
    ASSUME TypeOK, NEW r, NEW t, AddJob(r, t), WorkSound(r), r.state # "Running",
           r.exec = 0
    PROVE  OnlyNewJobs
  <1>1. nextJob \in Nat /\ JobIds = 0 .. nextJob - 1
    BY DEF TypeOK, JobIds
  <1>2. /\ nextJob' = nextJob + 1
        /\ jobs' = [j \in 0 .. nextJob |-> IF j = nextJob THEN r ELSE jobs[j]]
    BY DEF AddJob, AppendJob
  <1>3. /\ JobIds \subseteq JobIds'
        /\ \A k \in JobIds : jobs'[k] = jobs[k]
        /\ \A k \in JobIds' : k \notin JobIds => jobs'[k] = r
    BY <1>1, <1>2 DEF JobIds
  <1> QED BY <1>3 DEF OnlyNewJobs

(* The release of a job of a recurring task.                                *)
LEMMA ScheduleJobReleaseWork ==
    ASSUME TypeOK, NEW t \in TaskIds, NEW release \in Nat, ScheduleJobRelease(t, release)
    PROVE  OnlyNewJobs
  <1>1. CASE release > Duration
    BY <1>1 DEF ScheduleJobRelease, jobVars, OnlyNewJobs, JobIds
  <1>2. CASE ~(release > Duration)
    <2> PICK deadline : deadline = release + Task[t].deadline
      OBVIOUS
    <2> PICK r : r = NewJob(t, release, deadline, Unset)
      OBVIOUS
    <2>1. deadline \in Nat
      BY PlatformAssumption DEF TaskRecord
    <2>2. Unset \in Nat \cup {Unset}
      OBVIOUS
    <2>3. WorkSound(r) /\ r.state # "Running" /\ r.exec = 0
      BY <2>1, <2>2, NewJobWork
    <2>4. AddJob(r, deadline)
      BY <1>2 DEF ScheduleJobRelease
    <2> QED BY <2>3, <2>4, AddJobWork
  <1> QED BY <1>1, <1>2

(* One step of the three loops that release jobs.                           *)
LEMMA ReleaseWork ==
    ASSUME IInv, ScheduleInitialArrival \/ ScheduleReplayJob \/ ReleaseNextJob
    PROVE  OnlyNewJobs /\ UNCHANGED <<now, running, busy>>
  <1>0. /\ TypeOK
        /\ UNCHANGED <<nextJob, jobs>> => OnlyNewJobs
    BY DEF IInv, OnlyNewJobs, JobIds
  <1>1. CASE ScheduleInitialArrival
    BY <1>0, <1>1, ScheduleJobReleaseWork DEF ScheduleInitialArrival, jobVars, deviceVars
  <1>2. CASE ScheduleReplayJob
    <2>1. CASE phase.k \in DOMAIN ReplayJobs
      <3> PICK q : q = ReplayJobs[phase.k]
        OBVIOUS
      <3> PICK r : r = NewJob(q.task, q.release, q.deadline, q.actual)
        OBVIOUS
      <3>1. q \in ReplayRecord
        BY <2>1, EngineAssumption
      <3>2. WorkSound(r) /\ r.state # "Running" /\ r.exec = 0
        BY <3>1, NewJobWork DEF ReplayRecord
      <3>3. AddJob(r, q.deadline + 1)
        BY <1>2, <2>1 DEF ScheduleReplayJob
      <3> QED BY <1>0, <1>2, <3>2, <3>3, AddJobWork DEF ScheduleReplayJob, deviceVars
    <2>2. CASE phase.k \notin DOMAIN ReplayJobs
      BY <1>0, <1>2, <2>2 DEF ScheduleReplayJob, jobVars, deviceVars
    <2> QED BY <2>1, <2>2
  <1>3. CASE ReleaseNextJob
    <2>1. phase.k \in TaskIds /\ now \in Nat
      BY <1>3 DEF ReleaseNextJob, Continues, IInv, PhaseIsSound, TypeOK
    <2>2. now + Task[phase.k].period \in Nat
      BY <2>1, PlatformAssumption DEF TaskRecord
    <2> QED BY <1>0, <1>3, <2>1, <2>2, ScheduleJobReleaseWork DEF ReleaseNextJob, jobVars, deviceVars
  <1> QED BY <1>1, <1>2, <1>3

-----------------------------------------------------------------------------
(* The steps that change a job that is not running                          *)

(* A job that is enqueued has not ended.                                    *)
LEMMA EnqueueJobWork == IInv /\ WorkIInv /\ IInv' /\ EnqueueJob => WorkIInv'
  <1> SUFFICES ASSUME IInv, WorkIInv, IInv', EnqueueJob PROVE WorkIInv'
    OBVIOUS
  <1> PICK j : j = act.job
    OBVIOUS
  <1> PICK d : d = act.dev
    OBVIOUS
  <1>1. /\ UNCHANGED <<now, nextJob, running, busy, events, seq, active, pending>>
        /\ now' >= now
    BY DEF EnqueueJob, eventVars, transferVars, IInv, TypeOK
  <1>2. QuietStep
    BY <1>1, NothingScheduled DEF IInv
  <1>3. CASE IsTerminal(j)
    <2>1. OnlyNewJobs
      BY <1>1, <1>3 DEF EnqueueJob, OnlyNewJobs, JobIds
    <2> QED BY <1>1, <1>2, <2>1, NoJobWork
  <1>4. CASE ~IsTerminal(j)
    <2>1. Placeable(j, d) /\ ~Queued(j)
      BY DEF EnqueueJob, Executing, IInv, ActionIsSound, SoundAction
    <2>2. /\ j \in JobIds /\ d \in DeviceIds /\ jobs[j] \in JobRecord
          /\ jobs[j].state \in {"Released", "Ready"} /\ jobs[j].exec = 0
      <3>1. /\ j \in JobIds /\ d \in DeviceIds /\ jobs[j] \in JobRecord
            /\ jobs[j].state \in {"Released", "Ready", "Suspended"}
        BY <1>4, <2>1, WaitingJob
      <3>2. jobs[j].state # "Suspended"
        BY <2>1, <3>1 DEF IInv, Placement, SuspendedJobsWait, Queued
      <3>3. jobs[j].state \in UnbegunStates
        BY <3>1, <3>2 DEF UnbegunStates
      <3> QED BY <3>1, <3>2, <3>3 DEF WorkIInv, WorkSound
    <2> PICK q : q = Assigned(jobs[j], d, Unset)
      OBVIOUS
    <2> PICK r : r = Settle(q, "Ready")
      OBVIOUS
    <2>3. q \in JobRecord /\ WorkSound(q) /\ q.exec = jobs[j].exec
      <3>1. Unset \in Nat \cup {Unset}
        OBVIOUS
      <3>2. WorkSound(jobs[j])
        BY <2>2 DEF WorkIInv
      <3>3. q \in JobRecord /\ q.exec = jobs[j].exec
        BY <2>2, <3>1, AssignedLemma
      <3>4. WorkSound(q)
        BY <2>2, <3>1, <3>2, AssignedWork
      <3> QED BY <3>3, <3>4
    <2>4. WorkSound(r) /\ r.state = "Ready" /\ r.exec = jobs[j].exec
      <3>1. "Ready" \in JobStates /\ "Ready" \in JobStates \ {"Running", "Completed"}
        BY DEF JobStates
      <3> QED BY <2>2, <2>3, <3>1, SettleLemma, TransitionWork
    <2>5. jobs' = [jobs EXCEPT ![j] = r]
      BY <1>4 DEF EnqueueJob
    <2> QED BY <1>1, <1>2, <2>2, <2>4, <2>5, WaitingJobWork DEF QuietStep
  <1> QED BY <1>3, <1>4

(* A transfer that starts or waits completes no job.                        *)
LEMMA DispatchTransferWork == IInv /\ WorkIInv /\ IInv' /\ DispatchTransfer => WorkIInv'
  <1> SUFFICES ASSUME IInv, WorkIInv, IInv', DispatchTransfer PROVE WorkIInv'
    OBVIOUS
  <1> PICK j : j = act.job
    OBVIOUS
  <1> PICK d : d = act.dev
    OBVIOUS
  <1>1. /\ MayDispatch
        /\ UNCHANGED <<now, nextJob, running, busy>> /\ now' >= now
    BY DEF DispatchTransfer, IInv, TypeOK
  <1>2. PICK x \in ExecTimes, source \in TransferSources(j, d) :
           LET r == Settle(Assigned(Resolved(jobs[j], x), d, Unset), "Transferring")
           IN /\ jobs' = [jobs EXCEPT ![j] = r]
              /\ InitiateTransfer(j, source, d, r.ver)
    BY DEF DispatchTransfer
  <1> PICK p : p = Resolved(jobs[j], x)
    OBVIOUS
  <1> PICK q : q = Assigned(p, d, Unset)
    OBVIOUS
  <1> PICK r : r = Settle(q, "Transferring")
    OBVIOUS
  <1>3. /\ j \in JobIds /\ d \in DeviceIds /\ jobs[j] \in JobRecord
        /\ jobs[j].state \in {"Released", "Ready"} /\ jobs[j].exec = 0
    <2>1. /\ j \in JobIds /\ d \in DeviceIds /\ jobs[j] \in JobRecord
          /\ jobs[j].state \in {"Released", "Ready", "Suspended"}
      BY <1>1, DispatchBasics
    <2>2. jobs[j].state # "Suspended"
      BY <1>1, SuspendedNeedsNoTransfer DEF DispatchTransfer, NeedsTransfer
    <2>3. jobs[j].state \in UnbegunStates
      BY <2>1, <2>2 DEF UnbegunStates
    <2> QED BY <2>1, <2>2, <2>3 DEF WorkIInv, WorkSound
  <1>4. p \in JobRecord /\ WorkSound(p) /\ p.exec = jobs[j].exec
    <2>1. x \in Nat
      BY <1>1, DispatchBasics, SampleExecTimeNat DEF ExecTimes
    <2> QED BY <1>3, <2>1, ResolvedLemma, ResolvedWork DEF WorkIInv
  <1>5. q \in JobRecord /\ WorkSound(q) /\ q.exec = jobs[j].exec
    <2>1. Unset \in Nat \cup {Unset}
      OBVIOUS
    <2>2. d \in DeviceIds /\ p \in JobRecord /\ WorkSound(p)
      BY <1>3, <1>4
    <2>3. q \in JobRecord /\ q.exec = p.exec
      BY ZenonT(30), <2>1, <2>2, AssignedLemma
    <2>4. WorkSound(q)
      BY <2>1, <2>2, AssignedWork
    <2> QED BY <1>4, <2>3, <2>4
  <1>6. WorkSound(r) /\ r.state = "Transferring" /\ r.exec = jobs[j].exec
    <2>1. /\ "Transferring" \in JobStates
          /\ "Transferring" \in JobStates \ {"Running", "Completed"}
      BY DEF JobStates
    <2> QED BY <1>3, <1>5, <2>1, SettleLemma, TransitionWork
  <1>7. CompletionsKept("JobComplete")
    <2>1. \/ UNCHANGED events
          \/ \E t : events' = events \cup {Event(t, seq, "TransferComplete", j, r.ver, d)}
      BY <1>2 DEF InitiateTransfer
    <2>2. \A t : Event(t, seq, "TransferComplete", j, r.ver, d).kind = "TransferComplete"
      BY DEF Event
    <2> QED BY <2>1, <2>2 DEF CompletionsKept
  <1> QED BY <1>1, <1>2, <1>3, <1>6, <1>7, WaitingJobWork

(* Releasing a bus schedules nothing but the completion of a transfer.      *)
LEMMA ReleaseBusEvents ==
    ASSUME NEW gone, NEW waiting, NEW rest, NEW t, ReleaseBus(gone, waiting, rest, t)
    PROVE  \A e : e.kind # "TransferComplete" => (e \in events' <=> e \in rest)
  <1> DEFINE begun(next) ==
                UNION {{Event(t + TransferTime(link, TaskOf(p.job).dataSize), seq,
                              "TransferComplete", p.job, p.ver, p.dev) :
                           link \in LinkOnBus(p.bus, p.dev)} : p \in next}
  <1>1. PICK next : events' = rest \cup begun(next)
    BY DEF ReleaseBus
  <1>2. \A e \in begun(next) : e.kind = "TransferComplete"
    BY DEF Event
  <1> HIDE DEF begun
  <1> QED BY <1>1, <1>2

(* The job that gets its data becomes ready.                                *)
LEMMA TransferCompleteWork ==
    ASSUME IInv, WorkIInv, IInv',
           NEW e \in EventsOf("TransferComplete"), NEW a, TransferComplete(e, a)
    PROVE  WorkIInv'
  <1> PICK j : j = e.job
    OBVIOUS
  <1>1. /\ e \in events /\ e.kind = "TransferComplete" /\ Pops(e) /\ ~IsStale(e)
        /\ UNCHANGED <<nextJob, running, busy>>
        /\ ReleaseBus({b \in active : b.job = j}, pending, events \ {e}, e.time)
    BY DEF TransferComplete, Handles, EventsOf, deviceVars
  <1>2. j \in JobIds /\ e.dev \in DeviceIds /\ jobs[j].state = "Transferring"
    BY <1>1 DEF IsStale, IInv, EventsAreSound, LiveEventsAreMeant, EventsAreWellFormed, VersionedKinds
  <1>3. jobs[j] \in JobRecord /\ now' >= now /\ jobs[j].exec = 0
    BY <1>1, <1>2, PopBasics DEF IInv, TypeOK, WorkIInv, WorkSound, UnbegunStates
  <1> PICK q : q = Assigned(jobs[j], e.dev, Unset)
    OBVIOUS
  <1> PICK r : r = Settle(q, "Ready")
    OBVIOUS
  <1>4. jobs' = [jobs EXCEPT ![j] = r]
    BY <1>2 DEF TransferComplete, IsTerminal, TerminalStates
  <1>5. q \in JobRecord /\ WorkSound(q) /\ q.exec = jobs[j].exec
    <2>1. Unset \in Nat \cup {Unset}
      OBVIOUS
    <2>2. WorkSound(jobs[j])
      BY <1>2 DEF WorkIInv
    <2>3. q \in JobRecord /\ q.exec = jobs[j].exec
      BY ZenonT(30), <1>2, <1>3, <2>1, AssignedLemma
    <2>4. WorkSound(q)
      BY <1>2, <1>3, <2>1, <2>2, AssignedWork
    <2> QED BY <2>3, <2>4
  <1>6. WorkSound(r) /\ r.state = "Ready" /\ r.exec = jobs[j].exec
    <2>1. "Ready" \in JobStates /\ "Ready" \in JobStates \ {"Running", "Completed"}
      BY DEF JobStates
    <2> QED BY <1>3, <1>5, <2>1, SettleLemma, TransitionWork
  <1>7. CompletionsKept("JobComplete")
    BY <1>1, ReleaseBusEvents DEF CompletionsKept
  <1> QED BY <1>1, <1>2, <1>3, <1>4, <1>6, <1>7, WaitingJobWork

-----------------------------------------------------------------------------
(* The steps that stop a running job                                        *)

(* One stretch ends on one device: job v leaves the slot of device d.       *)
LEMMA SlotEmptied ==
    ASSUME IInv, NEW d \in DeviceIds, running[d] # NoJob,
           running' = [running EXCEPT ![d] = NoJob],
           busy' = [busy EXCEPT ![d] = @ + (now' - jobs[running[d]].start)],
           \A k \in JobIds : k # running[d] => jobs'[k] = jobs[k]
    PROVE  BusyKept
  <1>1. /\ running \in [DeviceIds -> JobIds \cup {NoJob}] /\ busy \in [DeviceIds -> Nat]
        /\ \A c \in DeviceIds : running[c] # NoJob =>
              /\ running[c] \in JobIds
              /\ c # d => running[c] # running[d]
    BY RunningJob DEF IInv, TypeOK
  <1>2. running'[d] = NoJob /\ busy'[d] = busy[d] + (now' - jobs[running[d]].start)
    BY <1>1
  <1>3. \A c \in DeviceIds : c # d => running'[c] = running[c] /\ busy'[c] = busy[c]
    BY <1>1
  <1> QED BY <1>1, <1>2, <1>3 DEF BusyKept

(* A preempted job keeps the work it has done.                              *)
LEMMA PreemptNowWork == IInv /\ WorkIInv /\ IInv' /\ PreemptNow => WorkIInv'
  <1> SUFFICES ASSUME IInv, WorkIInv, IInv', PreemptNow PROVE WorkIInv'
    OBVIOUS
  <1> PICK v : v = act.job
    OBVIOUS
  <1> PICK d : d = act.dev
    OBVIOUS
  <1>1. /\ act.op = "preempt" /\ running[d] = v
        /\ UNCHANGED <<now, nextJob, events>> /\ now' >= now
    BY DEF PreemptNow, Executing, eventVars, IInv, TypeOK
  <1>2. v \in JobIds /\ d \in DeviceIds /\ v # NoJob /\ now \in Nat
    BY <1>1 DEF IInv, ActionIsSound, SoundAction, Placeable, JobIds, NoJob, TypeOK
  <1>3. /\ jobs[v] \in JobRecord /\ jobs[v].state = "Running" /\ jobs[v].start \in 0 .. now
        /\ jobs[v].dev = d
    BY <1>1, <1>2, RunningJob
  <1> PICK p : p = Progressed(jobs[v], d, now)
    OBVIOUS
  <1> PICK r : r = Transition(p, "Suspended")
    OBVIOUS
  <1>4. /\ p \in JobRecord /\ WorkSound(p) /\ p.dev = d
        /\ p.exec <= jobs[v].exec + WallToWork(now - jobs[v].start, d)
    BY <1>2, <1>3, ProgressedLemma, ProgressedWork DEF WorkIInv
  <1>5. WorkSound(r) /\ r.state = "Suspended" /\ Credited(jobs[v], r, now')
    <2>1. /\ "Suspended" \in JobStates /\ "Suspended" \in JobStates \ {"Running", "Completed"}
          /\ "Suspended" \notin UnbegunStates
      BY DEF JobStates, UnbegunStates
    <2>2. WorkSound(r) /\ r.state = "Suspended" /\ r.exec = p.exec /\ r.dev = p.dev
      BY <1>4, <2>1, TransitionLemma, TransitionWork
    <2> QED BY <1>1, <1>3, <1>4, <2>2 DEF Credited
  <1>6. jobs' = [jobs EXCEPT ![v] = r]
    BY DEF PreemptNow
  <1>7. WorkKept /\ JobIds' = JobIds /\ jobs'[v] = r /\ \A k \in JobIds : k # v => jobs'[k] = jobs[k]
    BY <1>1, <1>2, <1>5, <1>6, OneJobWork DEF IInv
  <1>8. BusyKept
    <2>1. /\ running' = [running EXCEPT ![d] = NoJob]
          /\ busy' = [busy EXCEPT ![d] = @ + (now' - jobs[v].start)]
      BY <1>1 DEF PreemptNow
    <2> QED BY <1>1, <1>2, <1>7, <2>1, SlotEmptied
  <1>9. RunsKept
    BY <1>1 DEF RunsKept
  <1> QED BY <1>1, <1>7, <1>8, <1>9, WorkFrame

(* A completed job has executed its whole demand.                           *)
LEMMA JobCompleteWork ==
    ASSUME IInv, WorkIInv, IInv',
           NEW e \in EventsOf("JobComplete"), NEW a, JobComplete(e, a)
    PROVE  WorkIInv'
  <1> PICK j : j = e.job
    OBVIOUS
  <1> PICK d : d = e.dev
    OBVIOUS
  <1>1. /\ e \in events /\ e.kind = "JobComplete" /\ Pops(e) /\ ~IsStale(e)
        /\ events' = events \ {e} /\ nextJob' = nextJob
    BY DEF JobComplete, Handles, EventsOf
  <1>2. /\ j \in JobIds /\ d \in DeviceIds /\ jobs[j].state = "Running" /\ running[d] = j
        /\ j # NoJob
    BY <1>1, LiveRunningEvent DEF JobIds, NoJob
  <1>3. now' = e.time /\ now' >= now /\ now' \in Nat
    BY <1>1, PopBasics
  <1>4. jobs[j] \in JobRecord /\ WorkSound(jobs[j]) /\ jobs[j].actual # Unset
    BY <1>2 DEF IInv, TypeOK, WorkIInv, WorkSound
  <1>4a. jobs[j].start \in 0 .. now /\ jobs[j].dev = d /\ now \in Nat
    BY <1>2, RunningJob DEF IInv, TypeOK
  <1> PICK r : r = Transition([jobs[j] EXCEPT !.exec = jobs[j].actual, !.start = Unset],
                              "Completed")
    OBVIOUS
  <1>5. jobs' = [jobs EXCEPT ![j] = r]
    BY <1>2, <1>4 DEF JobComplete
  <1>6. r.state = "Completed" /\ WorkSound(r) /\ r.exec = jobs[j].actual /\ r.dev = jobs[j].dev
    <2>1. jobs[j].actual \in Nat
      BY <1>4 DEF JobRecord
    <2>2. /\ r.state = "Completed" /\ r.exec = jobs[j].actual /\ r.actual = jobs[j].actual
          /\ r.dev = jobs[j].dev
      BY <1>4 DEF Transition, JobRecord
    <2> QED BY <1>4, <2>1, <2>2 DEF WorkSound, UnbegunStates
  <1>6a. Credited(jobs[j], r, now')
    <2>1. e \in LiveCompletions(j)
      BY <1>1 DEF LiveCompletions, IsStale, VersionedKinds
    <2> PICK left : left = Remaining(jobs[j])
      OBVIOUS
    <2>2. /\ left \in Nat /\ jobs[j].exec \in Nat /\ jobs[j].actual \in Nat
          /\ jobs[j].actual = jobs[j].exec + left
      BY <1>4, RemainingNat DEF Remaining, JobRecord, WorkSound
    <2>3. e.time >= jobs[j].start + WorkToWall(left, d)
      BY <1>2, <1>4a, <2>1 DEF WorkIInv, CompletionsAreDue
    <2>4. now' - jobs[j].start \in Nat /\ now' - jobs[j].start >= WorkToWall(left, d)
      BY <1>2, <1>3, <1>4a, <2>2, <2>3, WorkToWallNat
    <2>5. left <= WallToWork(now' - jobs[j].start, d) /\ WallToWork(now' - jobs[j].start, d) \in Nat
      BY <1>2, <2>2, <2>4, WorkFits, WallToWorkNat
    <2>6. r.exec <= jobs[j].exec + WallToWork(now' - jobs[j].start, d)
      BY <1>6, <2>2, <2>5
    <2> QED BY <1>2, <1>4a, <1>6, <2>6 DEF Credited
  <1>7. WorkKept /\ JobIds' = JobIds /\ jobs'[j] = r /\ \A k \in JobIds : k # j => jobs'[k] = jobs[k]
    BY <1>1, <1>2, <1>5, <1>6, <1>6a, OneJobWork DEF IInv
  <1>8. BusyKept
    <2>1. /\ running' = [running EXCEPT ![d] = NoJob]
          /\ busy' = [busy EXCEPT ![d] = @ + (now' - jobs[j].start)]
      BY <1>2, <1>3 DEF JobComplete
    <2> QED BY <1>2, <1>7, <2>1, SlotEmptied
  <1>9. RunsKept
    BY <1>1, <1>6, <1>7 DEF RunsKept
  <1> QED BY <1>3, <1>7, <1>8, <1>9, WorkFrame

(* A job that is dropped or misses its deadline stops where it is.          *)
LEMMA RetireWork ==
    ASSUME IInv, WorkIInv, NEW j \in JobIds, NEW state \in {"Dropped", "DeadlineMissed"},
           NEW t \in Nat, t >= now, now' = t, Retire(j, state, t), nextJob' = nextJob
    PROVE  WorkKept /\ BusyKept /\ JobIds' = JobIds
  <1> PICK stopped : stopped = IF \E d \in DeviceIds : running[d] = j
                               THEN Progressed(jobs[j], jobs[j].dev, t)
                               ELSE [jobs[j] EXCEPT !.start = Unset]
    OBVIOUS
  <1> PICK r : r = IF IsTerminal(j) THEN jobs[j] ELSE Transition(stopped, state)
    OBVIOUS
  <1>1. jobs' = [jobs EXCEPT ![j] = r]
    BY DEF Retire
  <1>2. jobs[j] \in JobRecord /\ WorkSound(jobs[j]) /\ now \in Nat /\ j # NoJob
    BY DEF IInv, TypeOK, JobIds, NoJob, WorkIInv
  <1>3. ~IsTerminal(j) => /\ stopped \in JobRecord /\ WorkSound(stopped)
                          /\ Credited(jobs[j], stopped, t)
    <2>1. CASE \E d \in DeviceIds : running[d] = j
      <3>1. jobs[j].start \in 0 .. t /\ jobs[j].dev \in DeviceIds /\ jobs[j].state = "Running"
        BY <1>2, <2>1, RunningJob
      <3>2. /\ stopped \in JobRecord /\ WorkSound(stopped) /\ stopped.dev = jobs[j].dev
            /\ stopped.exec <= jobs[j].exec + WallToWork(t - jobs[j].start, jobs[j].dev)
        BY <1>2, <2>1, <3>1, ProgressedLemma, ProgressedWork
      <3> QED BY <3>1, <3>2 DEF Credited
    <2>2. CASE ~\E d \in DeviceIds : running[d] = j
      <3>1. stopped \in JobRecord /\ WorkSound(stopped)
        BY <1>2, <2>2, StoppedWork
      <3>2. stopped.exec = jobs[j].exec /\ stopped.dev = jobs[j].dev
        BY <1>2, <2>2 DEF JobRecord
      <3> QED BY <3>1, <3>2 DEF Credited
    <2> QED BY <2>1, <2>2
  <1>4. r = jobs[j] \/ (WorkSound(r) /\ r.state # "Running" /\ Credited(jobs[j], r, now'))
    <2>1. CASE IsTerminal(j)
      BY <2>1
    <2>2. CASE ~IsTerminal(j)
      <3>1. /\ state \in JobStates /\ state \in JobStates \ {"Running", "Completed"}
            /\ state \notin UnbegunStates
        BY DEF JobStates, TerminalStates, UnbegunStates
      <3>2. WorkSound(Transition(stopped, state))
        BY <1>3, <2>2, <3>1, TransitionWork
      <3>3. /\ Transition(stopped, state).state = state
            /\ Transition(stopped, state).exec = stopped.exec
            /\ Transition(stopped, state).dev = stopped.dev
        BY <1>3, <2>2, <3>1, TransitionLemma
      <3>4. Credited(jobs[j], r, now')
        BY <1>3, <2>2, <3>3 DEF Credited
      <3> QED BY <2>2, <3>2, <3>3, <3>4
    <2> QED BY <2>1, <2>2
  <1>5. WorkKept /\ JobIds' = JobIds /\ \A k \in JobIds : k # j => jobs'[k] = jobs[k]
    BY <1>1, <1>4, OneJobWork DEF IInv
  <1>6. BusyKept
    <2> SUFFICES ASSUME NEW d \in DeviceIds
                 PROVE  \/ /\ running'[d] = running[d] /\ busy'[d] = busy[d]
                           /\ running[d] # NoJob => jobs'[running[d]] = jobs[running[d]]
                        \/ /\ running[d] # NoJob /\ running'[d] = NoJob
                           /\ busy'[d] = busy[d] + (now' - jobs[running[d]].start)
      BY DEF BusyKept
    <2>1. /\ running'[d] = IF running[d] = j THEN NoJob ELSE running[d]
          /\ busy'[d] = IF running[d] = j THEN busy[d] + (t - jobs[j].start) ELSE busy[d]
      BY DEF Retire
    <2>2. running[d] # NoJob => running[d] \in JobIds
      BY RunningJob
    <2> QED BY <1>2, <1>5, <2>1, <2>2
  <1> QED BY <1>5, <1>6

(* A drop discards no completion; those of the dropped job become stale.    *)
LEMMA DropJobWork == IInv /\ WorkIInv /\ IInv' /\ DropJob => WorkIInv'
  <1> SUFFICES ASSUME IInv, WorkIInv, IInv', DropJob PROVE WorkIInv'
    OBVIOUS
  <1>1. /\ act.job \in JobIds /\ Retire(act.job, "Dropped", now)
        /\ UNCHANGED <<now, nextJob>>
        /\ ReleaseBus({a \in active : a.job = act.job}, {p \in pending : p.job # act.job}, events, now)
    BY DEF DropJob, Executing, IInv, ActionIsSound, SoundAction
  <1>2. now \in Nat /\ now >= now /\ now' >= now
    BY <1>1 DEF IInv, TypeOK
  <1>3. WorkKept /\ BusyKept /\ JobIds' = JobIds
    BY <1>1, <1>2, RetireWork
  <1>4. RunsKept
    BY <1>1, ReleaseBusEvents DEF RunsKept
  <1> QED BY <1>2, <1>3, <1>4, WorkFrame

(* A deadline check that ends a job, or does nothing.                       *)
LEMMA DeadlineCheckWork ==
    ASSUME IInv, WorkIInv, IInv', NEW e \in events, DeadlineCheck(e)
    PROVE  WorkIInv'
  <1>1. /\ Pops(e) /\ e.kind = "DeadlineCheck" /\ nextJob' = nextJob /\ events' = events \ {e}
    BY DEF DeadlineCheck, Handles
  <1>2. e.job \in JobIds /\ e.time \in Nat /\ e.time >= now /\ now' = e.time
    BY <1>1, PopBasics DEF IInv, EventsAreSound, EventsAreWellFormed
  <1>3. QuietStep
    BY PopBuses DEF IInv
  <1>4. CASE HasMissedDeadline(e.job, e.time)
    <2>1. Retire(e.job, "DeadlineMissed", e.time)
      BY <1>4 DEF DeadlineCheck
    <2>2. WorkKept /\ BusyKept /\ JobIds' = JobIds
      BY <1>1, <1>2, <2>1, RetireWork
    <2>3. RunsKept
      BY <1>3 DEF RunsKept, QuietStep, CompletionsKept
    <2> QED BY <1>2, <2>2, <2>3, WorkFrame
  <1>5. CASE ~HasMissedDeadline(e.job, e.time)
    <2>1. UNCHANGED <<jobs, running, busy>>
      BY <1>5 DEF DeadlineCheck, deviceVars
    <2>2. OnlyNewJobs
      BY <1>1, <2>1 DEF OnlyNewJobs, JobIds
    <2> QED BY <1>2, <1>3, <2>1, <2>2, NoJobWork
  <1> QED BY <1>4, <1>5

-----------------------------------------------------------------------------
(* The step that starts a job                                               *)

(* Its completion is scheduled, and those of its earlier runs are stale.    *)
LEMMA DispatchRunWork == IInv /\ WorkIInv /\ IInv' /\ DispatchRun => WorkIInv'
  <1> SUFFICES ASSUME IInv, WorkIInv, IInv', DispatchRun PROVE WorkIInv'
    OBVIOUS
  <1> PICK j : j = act.job
    OBVIOUS
  <1> PICK d : d = act.dev
    OBVIOUS
  <1>1. MayDispatch /\ UNCHANGED <<now, nextJob, busy>>
    BY DEF DispatchRun
  <1>2. PICK x \in ExecTimes :
           LET r == Transition(Assigned(Resolved(jobs[j], x), d, now), "Running")
           IN /\ jobs' = [jobs EXCEPT ![j] = r]
              /\ running' = [running EXCEPT ![d] = j]
              /\ events' = events \cup StartEvents(j, r, d, act.penalty)
    BY DEF DispatchRun
  <1> PICK p : p = Resolved(jobs[j], x)
    OBVIOUS
  <1> PICK q : q = Assigned(p, d, now)
    OBVIOUS
  <1> PICK r : r = Transition(q, "Running")
    OBVIOUS
  <1>3. /\ j \in JobIds /\ d \in DeviceIds /\ jobs[j] \in JobRecord /\ jobs[j].ver \in Nat
        /\ jobs[j].state \in {"Released", "Ready", "Suspended"}
        /\ running[d] = NoJob /\ \A c \in DeviceIds : running[c] # j
        /\ running \in [DeviceIds -> JobIds \cup {NoJob}]
        /\ now \in Nat /\ act.penalty \in Nat
    BY <1>1, DispatchBasics
  <1>4. /\ p \in JobRecord /\ WorkSound(p) /\ p.actual # Unset /\ p.ver = jobs[j].ver
        /\ p.exec = jobs[j].exec
    <2>1. x \in Nat
      BY <1>1, DispatchBasics, SampleExecTimeNat DEF ExecTimes
    <2> QED BY <1>3, <2>1, ResolvedLemma, ResolvedWork DEF WorkIInv
  <1>5. /\ q \in JobRecord /\ WorkSound(q) /\ q.actual # Unset
        /\ q.ver = jobs[j].ver /\ q.start = now /\ q.exec = jobs[j].exec /\ q.dev = d
    <2>1. now \in Nat \cup {Unset}
      BY <1>3
    <2>2. q.actual = p.actual /\ q.exec = p.exec /\ q.ver = p.ver /\ q.start = now
          /\ q.dev = d /\ q \in JobRecord /\ WorkSound(q)
      BY <1>3, <1>4, <2>1, AssignedLemma, AssignedWork
    <2> QED BY <1>4, <2>2
  <1>6. /\ r.state = "Running" /\ r.ver = jobs[j].ver + 1 /\ r.start = now /\ WorkSound(r)
        /\ r.exec = jobs[j].exec /\ r.dev = d /\ r \in JobRecord
    <2>1. "Running" \in JobStates
      BY DEF JobStates
    <2>2. /\ r.state = "Running" /\ r.ver = q.ver + 1 /\ r.start = q.start
          /\ r.exec = q.exec /\ r.actual = q.actual /\ r.dev = q.dev /\ r \in JobRecord
      BY <1>5, <2>1, TransitionLemma
    <2> QED BY <1>5, <2>2 DEF WorkSound, UnbegunStates
  <1>7. /\ jobs' = [jobs EXCEPT ![j] = r]
        /\ running' = [running EXCEPT ![d] = j]
        /\ events' = events \cup StartEvents(j, r, d, act.penalty)
    BY <1>2
  <1>8. /\ JobIds' = JobIds /\ jobs'[j] = r
        /\ \A k \in JobIds : k # j => jobs'[k] = jobs[k]
    BY <1>1, <1>3, <1>7 DEF JobIds, IInv, TypeOK
  <1>9. \A k \in JobIds' : WorkSound(jobs[k])'
    BY <1>6, <1>8 DEF WorkIInv, WorkSound
  <1>10. CompletionScheduled' /\ CompletionsAreDue'
    <2> SUFFICES ASSUME NEW k \in JobIds, jobs'[k].state = "Running"
                 PROVE  \E e \in LiveCompletions(k)' :
                           /\ LiveCompletions(k)' = {e}
                           /\ e.time >= now'
                           /\ e.time >= jobs'[k].start + WorkToWall(Remaining(jobs'[k]), jobs'[k].dev)
      BY <1>8 DEF CompletionScheduled, CompletionsAreDue
    <2> PICK done : done = Event(ExecutionStart(now, d, act.penalty) + WorkToWall(Remaining(r), d),
                                 seq, "JobComplete", j, r.ver, d)
      OBVIOUS
    <2>0. done.time >= now + WorkToWall(Remaining(r), d)
      <3>1. done.time = ExecutionStart(now, d, act.penalty) + WorkToWall(Remaining(r), d)
        BY DEF Event
      <3>2. /\ WorkToWall(Remaining(r), d) \in Nat
            /\ ExecutionStart(now, d, act.penalty) \in Nat
            /\ ExecutionStart(now, d, act.penalty) >= now
        BY <1>3, <1>6, RemainingNat, WorkToWallNat, ExecutionStartNat
      <3> QED BY <1>3, <3>1, <3>2
    <2>1. /\ done.kind = "JobComplete" /\ done.job = j /\ done.ver = r.ver
          /\ done \in StartEvents(j, r, d, act.penalty)
          /\ \A e \in StartEvents(j, r, d, act.penalty) : e.kind = "JobComplete" => e = done
      BY DEF StartEvents, Event
    <2>2. \A e \in events' : e.time >= now'
      BY DEF IInv, EventsAreSound, NothingInThePast
    <2>3. CASE k = j
      <3>1. \A e \in events : e.kind = "JobComplete" /\ e.job = j =>
                e.ver <= jobs[j].ver /\ e.ver \in Nat
        BY DEF IInv, TypeOK, EventRecord, EventsAreSound, LiveEventsAreMeant, VersionedKinds
      <3>2. \A e \in events : e.kind = "JobComplete" /\ e.job = j => e.ver # r.ver
        BY <1>3, <1>6, <3>1
      <3>3. LiveCompletions(j)' = {done}
        BY <1>7, <1>8, <2>1, <3>2 DEF LiveCompletions
      <3>4. done \in events'
        BY <1>7, <2>1
      <3> QED BY <1>6, <1>8, <2>0, <2>2, <2>3, <3>3, <3>4
    <2>4. CASE k # j
      <3>1. LiveCompletions(k)' = LiveCompletions(k)
        BY <1>7, <1>8, <2>1, <2>4 DEF LiveCompletions
      <3>2. PICK e \in LiveCompletions(k) : LiveCompletions(k) = {e}
        BY <1>8, <2>4 DEF WorkIInv, CompletionScheduled
      <3>3. e \in events'
        BY <1>7, <3>2 DEF LiveCompletions
      <3>4. e.time >= jobs'[k].start + WorkToWall(Remaining(jobs'[k]), jobs'[k].dev)
        BY <1>8, <2>4, <3>2 DEF WorkIInv, CompletionsAreDue
      <3> QED BY <2>2, <3>1, <3>2, <3>3, <3>4
    <2> QED BY <2>3, <2>4
  <1>11. BusyWithinElapsed'
    <2> SUFFICES ASSUME NEW c \in DeviceIds
                 PROVE  busy'[c] + (IF running'[c] = NoJob THEN 0
                                    ELSE now' - jobs'[running'[c]].start) <= now'
      BY DEF BusyWithinElapsed
    <2>1. /\ busy[c] \in Nat
          /\ busy[c] + (IF running[c] = NoJob THEN 0 ELSE now - jobs[running[c]].start) <= now
      BY DEF IInv, TypeOK, WorkIInv, BusyWithinElapsed
    <2>2. CASE c = d
      <3>1. running'[c] = j /\ jobs'[running'[c]].start = now
        BY <1>3, <1>6, <1>7, <1>8, <2>2
      <3> QED BY <1>1, <1>3, <2>1, <2>2, <3>1
    <2>3. CASE c # d
      <3>1. running'[c] = running[c]
        BY <1>7, <2>3, <1>3
      <3>2. running[c] # NoJob => jobs'[running[c]] = jobs[running[c]]
        BY <1>3, <1>8
      <3> QED BY <1>1, <2>1, <3>1, <3>2
    <2> QED BY <2>2, <2>3
  <1>12. WorkWithinBusyTime'
    <2>1. \A k \in JobIds' : CreditSound(k)
      <3>1. r.exec = jobs[j].exec /\ (jobs[j].exec = 0 \/ r.dev = jobs[j].dev)
        <4>1. CASE jobs[j].state = "Suspended"
          BY <1>1, <1>6, <4>1, SuspendedNeedsNoTransfer
        <4>2. CASE jobs[j].state # "Suspended"
          <5>1. jobs[j].state \in UnbegunStates
            BY <1>3, <4>2 DEF UnbegunStates
          <5> QED BY <1>3, <1>6, <5>1 DEF WorkIInv, WorkSound
        <4> QED BY <4>1, <4>2
      <3>2. CreditSound(j)
        BY <1>3, <1>8, <3>1 DEF CreditSound, Credited
      <3>3. \A k \in JobIds' : k # j => CreditSound(k)
        BY <1>8 DEF CreditSound, Credited
      <3> QED BY <3>2, <3>3
    <2>2. \A c \in DeviceIds : busy'[c] = busy[c] /\
             (running[c] # NoJob => jobs'[running[c]] = jobs[running[c]])
      <3>1. \A c \in DeviceIds : running[c] # NoJob => running[c] \in JobIds
        BY RunningJob
      <3> QED BY <1>1, <1>3, <1>8, <3>1
    <2>3. WorkWithinBusyTime /\ now' >= now /\ JobIds \subseteq JobIds'
      BY <1>1, <1>3, <1>8 DEF WorkIInv
    <2> QED BY <2>1, <2>2, <2>3, BooksFrame
  <1> QED BY <1>9, <1>10, <1>11, <1>12 DEF WorkIInv

-----------------------------------------------------------------------------
(* The theorems                                                             *)

(* The steps that leave the jobs and the slots alone.                       *)
LEMMA IdleWork ==
    ASSUME IInv, WorkIInv, IInv', UNCHANGED <<nextJob, jobs, running, busy>>,
           now' >= now, QuietStep
    PROVE  WorkIInv'
  <1>1. OnlyNewJobs
    BY DEF OnlyNewJobs, JobIds
  <1> QED BY <1>1, NoJobWork

(* A handler that pops an event and decides nothing about a job.            *)
LEMMA PopWork ==
    ASSUME IInv, WorkIInv, IInv',
           \/ DiscardStale \/ SimulationEnd
           \/ \E e \in events : \/ BudgetOverrun(e) \/ TriggeredReevaluation(e)
                                \/ PeriodicReevaluation(e)
           \/ \E e, a : TaskArrival(e, a) \/ PreemptionPoint(e, a)
    PROVE  WorkIInv'
  <1>1. UNCHANGED <<nextJob, jobs, running, busy>>
    BY DEF DiscardStale, SimulationEnd, BudgetOverrun, TriggeredReevaluation,
           PeriodicReevaluation, TaskArrival, PreemptionPoint, jobVars, deviceVars
  <1>2. QuietStep
    BY PopBuses DEF IInv
  <1>3. PICK e \in events : Pops(e)
    BY DEF DiscardStale, SimulationEnd, BudgetOverrun, TriggeredReevaluation,
           PeriodicReevaluation, TaskArrival, PreemptionPoint, Handles, Pops
  <1>4. now' >= now
    BY <1>3, PopBasics
  <1> QED BY <1>1, <1>2, <1>4, IdleWork

(* No step loses or invents work.                                           *)
LEMMA NextWork == IInv /\ WorkIInv /\ [Next]_vars => WorkIInv'
  <1> SUFFICES ASSUME IInv, WorkIInv, [Next]_vars PROVE WorkIInv'
    OBVIOUS
  <1>0. /\ IInv' /\ TypeOK /\ now >= now
        /\ UNCHANGED <<events, seq, active, pending>> => QuietStep
    BY NextInv, NothingScheduled DEF IInv, TypeOK
  <1>1. CASE EngineStep
    <2>1. CASE ScheduleInitialArrival \/ ScheduleReplayJob \/ ReleaseNextJob
      <3>1. QuietStep /\ OnlyNewJobs /\ UNCHANGED <<now, running, busy>>
        BY <1>0, <2>1, ReleaseBuses, ReleaseWork
      <3> QED BY <1>0, <3>1, NoJobWork
    <2>2. CASE DispatchTransfer \/ DispatchRun \/ PreemptNow \/ EnqueueJob \/ DropJob
      BY <1>0, <2>2, DispatchTransferWork, DispatchRunWork, PreemptNowWork, EnqueueJobWork, DropJobWork
    <2>3. CASE \E e \in events : DeadlineCheck(e)
      BY <1>0, <2>3, DeadlineCheckWork
    <2>4. CASE \/ DispatchTerminal \/ DispatchBusy \/ DispatchWithoutModel \/ PreemptDeferred
               \/ DropLoJobs \/ DispatchIdleDone \/ Ended
      <3>1. /\ UNCHANGED <<events, seq, active, pending>>
            /\ UNCHANGED <<now, nextJob, jobs, running, busy>>
        BY <2>4 DEF DispatchTerminal, DispatchBusy, DispatchWithoutModel, PreemptDeferred,
                    DropLoJobs, DispatchIdleDone, Ended, vars, jobVars, deviceVars, eventVars,
                    transferVars
      <3> QED BY <1>0, <3>1, IdleWork
    <2>5. CASE \/ DiscardStale \/ SimulationEnd
               \/ \E e \in events : \/ BudgetOverrun(e)
                                    \/ TriggeredReevaluation(e)
                                    \/ PeriodicReevaluation(e)
      BY <1>0, <2>5, PopWork
    <2>6. CASE StartRun \/ ReevaluateDone \/ ReschedulePoint \/ ScheduleTriggeredReevaluation
      <3>1. QuietStep
        BY <1>0, <2>6, StartRunBuses, ReevaluateDoneBuses, OneEventBuses
      <3>2. UNCHANGED <<now, nextJob, jobs, running, busy>>
        BY <2>6 DEF StartRun, ReevaluateDone, ReschedulePoint, ScheduleTriggeredReevaluation,
                    jobVars, deviceVars
      <3> QED BY <1>0, <3>1, <3>2, IdleWork
    <2> QED BY <1>1, <2>1, <2>2, <2>3, <2>4, <2>5, <2>6 DEF EngineStep
  <1>2. CASE SchedulerStep
    <2>1. CASE \E e \in EventsOf("JobComplete") : \E a \in FreeActions(e.dev) : JobComplete(e, a)
      BY <1>0, <2>1, JobCompleteWork
    <2>2. CASE \E e \in EventsOf("TransferComplete") :
                  \E a \in ArrivalActions(e.job) : TransferComplete(e, a)
      BY <1>0, <2>2, TransferCompleteWork
    <2>3. CASE \E e, a : TaskArrival(e, a) \/ PreemptionPoint(e, a)
      BY <1>0, <2>3, PopWork
    <2>4. CASE \/ \E j : SchedulerDropsLo(j)
               \/ SchedulerDropsNoMore
               \/ \E a : DispatchIdle(a) \/ Reevaluate(a)
      <3>1. /\ UNCHANGED <<events, seq, active, pending>>
            /\ UNCHANGED <<now, nextJob, jobs, running, busy>>
        BY <2>4 DEF SchedulerDropsLo, SchedulerDropsNoMore, DispatchIdle, Reevaluate,
                    jobVars, deviceVars, eventVars, transferVars
      <3> QED BY <1>0, <3>1, IdleWork
    <2> QED BY <1>2, <2>1, <2>2, <2>3, <2>4 DEF SchedulerStep
  <1>3. CASE UNCHANGED vars
    <2>1. /\ UNCHANGED <<events, seq, active, pending>>
          /\ UNCHANGED <<now, nextJob, jobs, running, busy>>
      BY <1>3 DEF vars, jobVars, deviceVars, eventVars, transferVars
    <2> QED BY <1>0, <2>1, IdleWork
  <1> QED BY <1>1, <1>2, <1>3 DEF Next

(* At first there are no jobs.                                              *)
LEMMA InitWork == Init => WorkIInv
  <1> SUFFICES ASSUME Init PROVE WorkIInv
    OBVIOUS
  <1>1. JobIds = {} /\ \A d \in DeviceIds : busy[d] = 0 /\ running[d] = NoJob
    BY DEF Init, JobIds
  <1>2. /\ \A j \in JobIds : WorkSound(jobs[j])
        /\ CompletionScheduled
        /\ CompletionsAreDue
    BY <1>1 DEF CompletionScheduled, CompletionsAreDue
  <1>3. BusyWithinElapsed
    BY <1>1 DEF Init, BusyWithinElapsed
  <1>4. WorkWithinBusyTime
    <2> SUFFICES ASSUME NEW d \in DeviceIds PROVE CreditedOn(d) <= WallToWork(busy[d], d)
      BY DEF WorkWithinBusyTime
    <2>1. {j \in JobIds : jobs[j].dev = d} = {}
      BY <1>1
    <2>2. CreditedOn(d) = Executed(jobs, {})
      BY <2>1 DEF CreditedOn, Executed
    <2>3. IsSum([T \in SUBSET {} |-> 0], jobs, {})
      BY DEF IsSum
    <2>4. CreditedOn(d) = 0
      BY <2>2, <2>3, FS_EmptySet, ExecutedIsSum
    <2>5. WallToWork(busy[d], d) \in Nat
      BY <1>1, WallToWorkNat
    <2> QED BY <2>4, <2>5
  <1> QED BY <1>2, <1>3, <1>4 DEF WorkIInv

(* The inductive invariant of the executed work holds in every reachable    *)
(* state.                                                                   *)
THEOREM WorkInvariance == Spec => []WorkIInv
  <1>1. Init => WorkIInv
    BY InitWork
  <1>2. IInv /\ WorkIInv /\ [Next]_vars => WorkIInv'
    BY NextWork
  <1> QED BY <1>1, <1>2, Invariance, PTL DEF Spec

(* Work is neither lost nor invented over any number of preemptions.        *)
THEOREM WorkIsConserved == Spec => []WorkConserved
  <1>1. WorkIInv => WorkConserved
    BY DEF WorkIInv, WorkSound, WorkConserved
  <1> QED BY <1>1, WorkInvariance, PTL

(* A running job has exactly one completion event that will be believed.    *)
THEOREM CompletionsAreScheduled == Spec => []CompletionScheduled
  <1>1. WorkIInv => CompletionScheduled
    BY DEF WorkIInv
  <1> QED BY <1>1, WorkInvariance, PTL

(* The reported busy time of a device never exceeds the time elapsed.       *)
THEOREM BusyTimeIsBounded == Spec => []BusyWithinElapsed
  <1>1. WorkIInv => BusyWithinElapsed
    BY DEF WorkIInv
  <1> QED BY <1>1, WorkInvariance, PTL

(* The work the jobs of a device are credited with is never more than the   *)
(* device can have done while it was busy: no stretch is credited twice,    *)
(* whichever of the four handlers ends it.                                  *)
THEOREM WorkIsWithinBusyTime == Spec => []WorkWithinBusyTime
  <1>1. WorkIInv => WorkWithinBusyTime
    BY DEF WorkIInv
  <1> QED BY <1>1, WorkInvariance, PTL

(* A job is enqueued only when it is in no queue and on no device.          *)
THEOREM JobsAreEnqueuedOnce == Spec => []EnqueuedOnce
  <1>1. IInv => EnqueuedOnce
    <2> SUFFICES ASSUME IInv, act.op = "enqueue", ~IsTerminal(act.job), NEW d \in DeviceIds
                 PROVE  act.job \notin queue[d] /\ running[d] # act.job
      BY DEF EnqueuedOnce
    <2>1. Placeable(act.job, act.dev) /\ ~Queued(act.job)
      BY DEF IInv, ActionIsSound, SoundAction
    <2> QED BY <2>1, WaitingJob DEF Queued
  <1> QED BY <1>1, Invariance, PTL

-----------------------------------------------------------------------------
(* Reevaluations                                                            *)

(* Most steps neither schedule nor handle a reevaluation.                   *)
ReevaluationsKept ==
    \A e : e.kind \in {"Triggered", "Periodic"} => (e \in events' <=> e \in events)

(* They leave the events alone, pop one of another kind, or add others.     *)
LEMMA OtherEvents ==
    ASSUME \/ UNCHANGED events
           \/ \E e \in events : events' = events \ {e} /\ e.kind \notin {"Triggered", "Periodic"}
           \/ \E S : events' = events \cup S /\ \A e \in S : e.kind \notin {"Triggered", "Periodic"}
    PROVE  ReevaluationsKept
  BY DEF ReevaluationsKept

(* Such a step keeps the invariant, unless it starts the run or begins to   *)
(* handle a tick.                                                           *)
LEMMA ReevaluationFrame ==
    ASSUME IInv, ReevaluationIInv, ReevaluationsKept, UNCHANGED <<trig, tick>>,
           now' >= now, now' \in Nat,
           BeforeRun' => BeforeRun,
           phase'.op = "reevaluateTick" => phase.op = "reevaluateTick"
    PROVE  ReevaluationIInv'
  <1>1. TriggeredEvents' = TriggeredEvents /\ PeriodicEvents' = PeriodicEvents
    BY DEF TriggeredEvents, PeriodicEvents, ReevaluationsKept
  <1>2. TriggerIsRecorded'
    <2>1. trig.at # Unset => trig.at \in Nat
      BY DEF IInv, TypeOK
    <2>2. now \in Nat /\ TriggeredInterval \in Nat
      BY EngineAssumption DEF IInv, TypeOK
    <2> QED BY <1>1, <2>1, <2>2 DEF ReevaluationIInv, TriggerIsRecorded
  <1>3. TickIsRecorded'
    BY <1>1 DEF ReevaluationIInv, TickIsRecorded
  <1>4. TickIsInStep'
    BY DEF ReevaluationIInv, TickIsInStep
  <1> QED BY <1>2, <1>3, <1>4 DEF ReevaluationIInv

(* A step that discards no event and adds some of these kinds.              *)
Adds(kinds) == events \subseteq events' /\ \A e \in events' \ events : e.kind \in kinds

(* The steps that create jobs.                                              *)
LEMMA ReleaseEvents ==
    ASSUME ScheduleInitialArrival \/ ScheduleReplayJob \/ ReleaseNextJob
    PROVE  Adds({"TaskArrival", "DeadlineCheck"})
  <1>0. UNCHANGED events => Adds({"TaskArrival", "DeadlineCheck"})
    BY DEF Adds
  <1>1. ASSUME NEW r, NEW t, AddJob(r, t) PROVE Adds({"TaskArrival", "DeadlineCheck"})
    <2> PICK arrival : arrival = Event(r.release, seq, "TaskArrival", nextJob, 0, NoDevice)
      OBVIOUS
    <2> PICK check : check = Event(t, seq + 1, "DeadlineCheck", nextJob, 0, NoDevice)
      OBVIOUS
    <2>1. events' = events \cup {arrival, check}
      BY <1>1 DEF AddJob
    <2>2. arrival.kind = "TaskArrival" /\ check.kind = "DeadlineCheck"
      BY DEF Event
    <2> QED BY <2>1, <2>2 DEF Adds
  <1>2. ASSUME NEW t, NEW release, ScheduleJobRelease(t, release) PROVE Adds({"TaskArrival", "DeadlineCheck"})
    BY <1>0, <1>1, <1>2 DEF ScheduleJobRelease, eventVars
  <1>3. CASE ScheduleInitialArrival
    BY <1>0, <1>2, <1>3 DEF ScheduleInitialArrival, eventVars
  <1>4. CASE ScheduleReplayJob
    BY <1>0, <1>1, <1>4 DEF ScheduleReplayJob, eventVars
  <1>5. CASE ReleaseNextJob
    BY <1>0, <1>2, <1>5 DEF ReleaseNextJob, eventVars
  <1> QED BY <1>3, <1>4, <1>5

(* The steps that start a job, a transfer or the way to the next point.     *)
LEMMA StartReevaluations ==
    ASSUME DispatchRun \/ DispatchTransfer \/ ReschedulePoint
    PROVE  ReevaluationsKept
  <1>1. CASE DispatchRun
    <2>1. PICK r : events' = events \cup StartEvents(act.job, r, act.dev, act.penalty)
      BY <1>1 DEF DispatchRun
    <2>2. \A e \in StartEvents(act.job, r, act.dev, act.penalty) :
              e.kind \notin {"Triggered", "Periodic"}
      BY DEF StartEvents, Event
    <2> QED BY <2>1, <2>2, OtherEvents
  <1>2. CASE DispatchTransfer
    <2>1. PICK source, ver : InitiateTransfer(act.job, source, act.dev, ver)
      BY <1>2 DEF DispatchTransfer
    <2>2. \/ UNCHANGED events
          \/ \E t : events' = events \cup
                       {Event(t, seq, "TransferComplete", act.job, ver, act.dev)}
      BY <2>1 DEF InitiateTransfer
    <2>3. \A t : Event(t, seq, "TransferComplete", act.job, ver, act.dev).kind = "TransferComplete"
      BY DEF Event
    <2> QED BY <2>2, <2>3 DEF ReevaluationsKept
  <1>3. CASE ReschedulePoint
    <2>1. \/ UNCHANGED events
          \/ \E t, v : events' = events \cup
                          {Event(t, seq, "PreemptionPoint", phase.job, v, phase.k)}
      BY <1>3 DEF ReschedulePoint, eventVars
    <2>2. \A t, v : Event(t, seq, "PreemptionPoint", phase.job, v, phase.k).kind = "PreemptionPoint"
      BY DEF Event
    <2> QED BY <2>1, <2>2 DEF ReevaluationsKept
  <1> QED BY <1>1, <1>2, <1>3

(* No step but the start of the run and a tick changes where the engine is  *)
(* in its run or in a tick.                                                 *)
PhaseQuiet ==
    /\ BeforeRun' => BeforeRun
    /\ phase'.op = "reevaluateTick" => phase.op = "reevaluateTick"

(* The handlers that pop an event of another kind.                          *)
LEMMA PopReevaluations ==
    ASSUME IInv,
           \/ DiscardStale \/ SimulationEnd
           \/ \E e \in events : DeadlineCheck(e) \/ BudgetOverrun(e)
           \/ \E e, a : TaskArrival(e, a) \/ JobComplete(e, a) \/ PreemptionPoint(e, a)
    PROVE  ReevaluationsKept /\ PhaseQuiet /\ now' >= now
  <1>1. PICK e \in events : /\ Pops(e) /\ events' = events \ {e}
                            /\ e.kind \notin {"Triggered", "Periodic"}
    BY DEF DiscardStale, SimulationEnd, DeadlineCheck, BudgetOverrun, TaskArrival, JobComplete,
           PreemptionPoint, Handles, Pops, IsStale, VersionedKinds
  <1>2. phase' = phase \/ phase'.op \in {"ended", "release", "trigger", "point", "critical"}
    <2>1. CASE DiscardStale \/ SimulationEnd \/ \E f \in events : DeadlineCheck(f) \/ BudgetOverrun(f)
      BY <2>1 DEF DiscardStale, SimulationEnd, DeadlineCheck, BudgetOverrun, Phase, Trigger
    <2>2. ASSUME NEW f, NEW a, TaskArrival(f, a) PROVE phase'.op = "release"
      BY <2>2 DEF TaskArrival, Phase
    <2>3. ASSUME NEW f, NEW a, JobComplete(f, a) PROVE phase'.op = "trigger"
      <3>1. phase' = Trigger
        BY <2>3 DEF JobComplete
      <3> QED BY <3>1 DEF Trigger, Phase
    <2>4. CASE \E f, a : PreemptionPoint(f, a)
      BY <2>4 DEF PreemptionPoint, Phase, Trigger, PointPhase
    <2> QED BY <2>1, <2>2, <2>3, <2>4
  <1> QED BY <1>1, <1>2, OtherEvents, PopBasics DEF PhaseQuiet, BeforeRun

(* The steps that release a bus.                                            *)
LEMMA BusReevaluations ==
    ASSUME IInv, DropJob \/ \E e, a : TransferComplete(e, a)
    PROVE  ReevaluationsKept /\ PhaseQuiet /\ now' >= now
  <1>1. CASE DropJob
    <2>1. ReevaluationsKept
      BY <1>1, ReleaseBusEvents DEF DropJob, ReevaluationsKept
    <2>2. phase' = phase /\ now' = now /\ now \in Nat
      BY <1>1 DEF DropJob, IInv, TypeOK
    <2> QED BY <2>1, <2>2 DEF PhaseQuiet, BeforeRun
  <1>2. CASE \E e, a : TransferComplete(e, a)
    <2>1. PICK e, a : TransferComplete(e, a)
      BY <1>2
    <2>2. /\ Pops(e) /\ e \in events /\ e.kind = "TransferComplete"
          /\ ReleaseBus({x \in active : x.job = e.job}, pending, events \ {e}, e.time)
      BY <2>1 DEF TransferComplete, Handles, Pops
    <2>3. ReevaluationsKept
      BY <2>2, ReleaseBusEvents DEF ReevaluationsKept
    <2>4. phase'.op = "trigger"
      BY <2>1 DEF TransferComplete, Trigger, Phase
    <2> QED BY <2>2, <2>3, <2>4, PopBasics DEF PhaseQuiet, BeforeRun
  <1> QED BY <1>1, <1>2

(* All of these keep the invariant.                                         *)
LEMMA OtherReevaluations ==
    ASSUME IInv, ReevaluationIInv, IInv', ReevaluationsKept, PhaseQuiet, now' >= now,
           UNCHANGED <<trig, tick>>
    PROVE  ReevaluationIInv'
  <1>1. now' \in Nat
    BY DEF IInv, TypeOK
  <1> QED BY <1>1, ReevaluationFrame DEF PhaseQuiet

(* What a step that schedules a tick must find: nothing outstanding, and    *)
(* the time of the tick in step.                                            *)
LEMMA SchedulePeriodic ==
    ASSUME IInv, ReevaluationIInv, NEW time \in Nat, NEW end, SchedulePeriodicReevaluation(time, end),
           UNCHANGED <<now, trig>>,
           \A e \in end : e.kind = "SimulationEnd",
           tick.at = Unset,
           time = (tick.gen + 1) * PeriodicInterval,
           phase'.op = "poll"
    PROVE  ReevaluationIInv'
  <1>1. PeriodicEvents = {}
    BY DEF ReevaluationIInv, TickIsRecorded
  <1>2. tick.gen \in Nat /\ time # Unset /\ tick = [gen |-> tick.gen, at |-> Unset, next |-> tick.next]
    BY DEF IInv, TypeOK, Unset
  <1>3. ~BeforeRun' /\ phase'.op # "reevaluateTick"
    BY DEF BeforeRun
  <1>4. CASE time > Duration
    <2>1. tick' = [tick EXCEPT !.next = time] /\ events' = events \cup end
      BY <1>4 DEF SchedulePeriodicReevaluation
    <2>2. tick'.at = Unset /\ TriggeredEvents' = TriggeredEvents /\ PeriodicEvents' = {}
      BY <1>1, <1>2, <2>1 DEF TriggeredEvents, PeriodicEvents
    <2> QED BY <1>3, <2>2 DEF ReevaluationIInv, TriggerIsRecorded, TickIsRecorded, TickIsInStep
  <1>5. CASE ~(time > Duration)
    <2> DEFINE next == Event(time, seq + 1, "Periodic", NoJob, tick.gen + 1, NoDevice)
    <2>1. /\ tick' = [gen |-> tick.gen + 1, at |-> time, next |-> time]
          /\ events' = events \cup end \cup {next}
      BY <1>5 DEF SchedulePeriodicReevaluation
    <2>2. next.kind = "Periodic" /\ next.ver = tick.gen + 1 /\ next.time = time
      BY DEF Event
    <2> HIDE DEF next
    <2>3. TriggeredEvents' = TriggeredEvents /\ PeriodicEvents' = {next}
      BY <1>1, <2>1, <2>2 DEF TriggeredEvents, PeriodicEvents
    <2>4. TriggerIsRecorded'
      BY <2>3 DEF ReevaluationIInv, TriggerIsRecorded
    <2>5. TickIsRecorded'
      BY <1>2, <2>1, <2>2, <2>3 DEF TickIsRecorded
    <2>6. TickIsInStep'
      <3>1. tick'.next = time /\ tick'.gen = tick.gen + 1
        BY <2>1
      <3> QED BY <1>3, <3>1 DEF TickIsInStep
    <2> QED BY <2>4, <2>5, <2>6 DEF ReevaluationIInv
  <1> QED BY <1>4, <1>5

(* The head of run().                                                       *)
LEMMA StartRunReevaluations == IInv /\ ReevaluationIInv /\ IInv' /\ StartRun => ReevaluationIInv'
  <1> SUFFICES ASSUME IInv, ReevaluationIInv, IInv', StartRun PROVE ReevaluationIInv'
    OBVIOUS
  <1> DEFINE end == {Event(Duration, seq, "SimulationEnd", NoJob, 0, NoDevice)}
  <1>1. \A e \in end : e.kind = "SimulationEnd"
    BY DEF Event
  <1>2. phase.op = "start" /\ phase'.op = "poll" /\ UNCHANGED <<now, trig>> /\ now \in Nat
    BY DEF StartRun, Poll, Phase, IInv, TypeOK
  <1>3. tick.at = Unset /\ tick.gen = 0
    BY <1>2 DEF IInv, ClockIsSound, ReevaluationIInv, TickIsInStep, BeforeRun
  <1>4. CASE PeriodicInterval = 0
    <2>1. events' = events \cup end /\ tick' = tick
      BY <1>4 DEF StartRun
    <2>2. ReevaluationsKept
      BY <1>1, <2>1, OtherEvents
    <2> HIDE DEF end
    <2> QED BY <1>2, <2>1, <2>2, OtherReevaluations DEF PhaseQuiet, BeforeRun
  <1>5. CASE PeriodicInterval # 0
    <2>1. SchedulePeriodicReevaluation(PeriodicInterval, end)
      BY <1>5 DEF StartRun
    <2>2. PeriodicInterval \in Nat /\ PeriodicInterval = (tick.gen + 1) * PeriodicInterval
      BY <1>3, EngineAssumption
    <2> HIDE DEF end
    <2> QED BY <1>1, <1>2, <1>3, <2>1, <2>2, SchedulePeriodic
  <1> QED BY <1>4, <1>5

(* The end of a reevaluation.                                               *)
LEMMA ReevaluateDoneReevaluations ==
    IInv /\ ReevaluationIInv /\ IInv' /\ ReevaluateDone => ReevaluationIInv'
  <1> SUFFICES ASSUME IInv, ReevaluationIInv, IInv', ReevaluateDone PROVE ReevaluationIInv'
    OBVIOUS
  <1>1. phase'.op = "poll" /\ UNCHANGED <<now, trig>> /\ now \in Nat
    BY DEF ReevaluateDone, Poll, Phase, IInv, TypeOK
  <1>2. CASE phase.op = "reevaluateTick"
    <2>1. SchedulePeriodicReevaluation(tick.next + PeriodicInterval, {})
      BY <1>2 DEF ReevaluateDone
    <2>2. tick.at = Unset /\ tick.next = now /\ tick.next = tick.gen * PeriodicInterval
      BY <1>2 DEF IInv, ClockIsSound, ReevaluationIInv, TickIsInStep
    <2>3. PeriodicInterval \in Nat /\ tick.gen \in Nat
      BY EngineAssumption DEF IInv, TypeOK
    <2>4. /\ tick.next + PeriodicInterval \in Nat
          /\ tick.next + PeriodicInterval = (tick.gen + 1) * PeriodicInterval
      BY <1>1, <2>2, <2>3
    <2> QED BY <1>1, <2>1, <2>2, <2>4, SchedulePeriodic
  <1>3. CASE phase.op # "reevaluateTick"
    <2>1. UNCHANGED <<events, tick>>
      BY <1>3 DEF ReevaluateDone, eventVars
    <2> QED BY <1>1, <2>1, OtherEvents, OtherReevaluations DEF PhaseQuiet, BeforeRun
  <1> QED BY <1>2, <1>3

(* The end of a handler: the debounce finds what is outstanding.            *)
LEMMA TriggerReevaluations ==
    IInv /\ ReevaluationIInv /\ IInv' /\ ScheduleTriggeredReevaluation => ReevaluationIInv'
  <1> SUFFICES ASSUME IInv, ReevaluationIInv, IInv', ScheduleTriggeredReevaluation
               PROVE  ReevaluationIInv'
    OBVIOUS
  <1> DEFINE time == now + TriggeredInterval
             next == Event(time, seq, "Triggered", NoJob, trig.gen + 1, NoDevice)
  <1>1. phase'.op = "poll" /\ UNCHANGED <<now, tick>>
    BY DEF ScheduleTriggeredReevaluation, Poll, Phase
  <1>2. time \in Nat /\ time # Unset /\ now \in Nat /\ (trig.at # Unset => trig.at \in Nat)
    BY SMTT(30), EngineAssumption DEF IInv, TypeOK, Unset
  <1>3. CASE UNCHANGED <<trig, events>>
    BY <1>1, <1>2, <1>3, OtherEvents, OtherReevaluations DEF PhaseQuiet, BeforeRun
  <1>4. CASE ~UNCHANGED <<trig, events>>
    <2>1. /\ ~(trig.at # Unset /\ trig.at <= time)
          /\ trig' = [gen |-> trig.gen + 1, at |-> time]
          /\ events' = events \cup {next}
      BY <1>4 DEF ScheduleTriggeredReevaluation, eventVars
    <2>2. trig.at = Unset /\ TriggeredEvents = {}
      BY <2>1 DEF ReevaluationIInv, TriggerIsRecorded
    <2>3. next.kind = "Triggered" /\ next.ver = trig.gen + 1 /\ next.time = time
      BY DEF Event
    <2> HIDE DEF next
    <2>4. TriggeredEvents' = {next} /\ PeriodicEvents' = PeriodicEvents
      BY <2>1, <2>2, <2>3 DEF TriggeredEvents, PeriodicEvents
    <2>5. TriggerIsRecorded'
      BY <1>1, <1>2, <2>1, <2>3, <2>4 DEF TriggerIsRecorded
    <2>6. TickIsRecorded' /\ TickIsInStep'
      BY <1>1, <2>4 DEF ReevaluationIInv, TickIsRecorded, TickIsInStep, BeforeRun
    <2> QED BY <2>5, <2>6 DEF ReevaluationIInv
  <1> QED BY <1>3, <1>4

(* The two handlers find the record that their event belongs to.            *)
LEMMA HandleReevaluations ==
    ASSUME IInv, ReevaluationIInv, IInv', NEW e \in events,
           TriggeredReevaluation(e) \/ PeriodicReevaluation(e)
    PROVE  ReevaluationIInv'
  <1>1. /\ Pops(e) /\ events' = events \ {e}
    BY DEF TriggeredReevaluation, PeriodicReevaluation, Handles
  <1>2. now' >= now /\ now' \in Nat /\ now \in Nat /\ phase.op = "poll" /\ TriggeredInterval \in Nat
    BY <1>1, PopBasics, EngineAssumption DEF IInv, TypeOK
  <1>3. CASE TriggeredReevaluation(e)
    <2>1. e.kind = "Triggered" /\ e \in TriggeredEvents
      BY <1>3 DEF TriggeredReevaluation, Handles, TriggeredEvents
    <2>2. TriggeredEvents = {e} /\ e.ver = trig.gen /\ e.time = trig.at
      BY <2>1 DEF ReevaluationIInv, TriggerIsRecorded
    <2>3. trig = [gen |-> e.ver, at |-> e.time] /\ trig.at # Unset
      BY <2>1, <2>2 DEF IInv, TypeOK, ReevaluationIInv, TriggerIsRecorded
    <2>4. trig' = [trig EXCEPT !.at = Unset] /\ tick' = tick /\ phase'.op = "reevaluate"
      BY <1>3, <2>3 DEF TriggeredReevaluation, Phase
    <2>5. trig'.at = Unset
      BY <2>3, <2>4
    <2>6. TriggeredEvents' = {} /\ PeriodicEvents' = PeriodicEvents
      BY <1>1, <2>1, <2>2 DEF TriggeredEvents, PeriodicEvents
    <2> QED BY <2>4, <2>5, <2>6
            DEF ReevaluationIInv, TriggerIsRecorded, TickIsRecorded, TickIsInStep, BeforeRun
  <1>4. CASE PeriodicReevaluation(e)
    <2>1. e.kind = "Periodic" /\ e \in PeriodicEvents
      BY <1>4 DEF PeriodicReevaluation, Handles, PeriodicEvents
    <2>2. PeriodicEvents = {e} /\ e.ver = tick.gen /\ e.time = tick.at /\ tick.at # Unset
      BY <2>1 DEF ReevaluationIInv, TickIsRecorded
    <2>3. tick' = [tick EXCEPT !.at = Unset] /\ trig' = trig /\ phase'.op = "reevaluateTick"
      BY <1>4, <2>2 DEF PeriodicReevaluation, Phase
    <2>4. tick'.at = Unset /\ tick'.gen = tick.gen /\ tick'.next = tick.next
      BY <2>3 DEF IInv, TypeOK
    <2>5. TriggeredEvents' = TriggeredEvents /\ PeriodicEvents' = {}
      BY <1>1, <2>1, <2>2 DEF TriggeredEvents, PeriodicEvents
    <2>6. TriggerIsRecorded'
      <3>1. trig.at # Unset => trig.at \in Nat
        BY DEF IInv, TypeOK
      <3> QED BY <1>2, <2>3, <2>5, <3>1 DEF ReevaluationIInv, TriggerIsRecorded
    <2>7. TickIsRecorded' /\ TickIsInStep'
      BY <2>2, <2>3, <2>4, <2>5 DEF ReevaluationIInv, TickIsRecorded, TickIsInStep, BeforeRun
    <2> QED BY <2>6, <2>7 DEF ReevaluationIInv
  <1> QED BY <1>3, <1>4

(* No step loses the record of an outstanding reevaluation.                 *)
LEMMA NextReevaluations == IInv /\ ReevaluationIInv /\ [Next]_vars => ReevaluationIInv'
  <1> SUFFICES ASSUME IInv, ReevaluationIInv, [Next]_vars PROVE ReevaluationIInv'
    OBVIOUS
  <1>0. IInv' /\ now >= now
    BY NextInv DEF IInv, TypeOK
  <1>1. CASE EngineStep
    <2>1. CASE ScheduleInitialArrival \/ ScheduleReplayJob \/ ReleaseNextJob
      <3>1. ReevaluationsKept /\ UNCHANGED <<now, trig, tick>>
        BY <2>1, ReleaseEvents
           DEF Adds, ReevaluationsKept, ScheduleInitialArrival, ScheduleReplayJob, ReleaseNextJob,
               reevalVars
      <3>2. PhaseQuiet
        BY <2>1 DEF ScheduleInitialArrival, ScheduleReplayJob, ReleaseNextJob, Continues, Phase,
                    Trigger, PhaseQuiet, BeforeRun
      <3> QED BY <1>0, <3>1, <3>2, OtherReevaluations
    <2>2. CASE DispatchRun \/ DispatchTransfer \/ ReschedulePoint
      <3>1. ReevaluationsKept /\ UNCHANGED <<now, trig, tick>>
        BY <2>2, StartReevaluations DEF DispatchRun, DispatchTransfer, ReschedulePoint, reevalVars
      <3>2. PhaseQuiet
        BY <2>2 DEF DispatchRun, DispatchTransfer, ReschedulePoint, Phase, Trigger, PhaseQuiet,
                    BeforeRun
      <3> QED BY <1>0, <3>1, <3>2, OtherReevaluations
    <2>3. CASE DropJob
      <3>1. UNCHANGED <<trig, tick>>
        BY <2>3 DEF DropJob, reevalVars
      <3> QED BY <1>0, <2>3, <3>1, BusReevaluations, OtherReevaluations
    <2>4. CASE DiscardStale \/ SimulationEnd \/ \E e \in events : DeadlineCheck(e) \/ BudgetOverrun(e)
      <3>1. UNCHANGED <<trig, tick>>
        BY <2>4 DEF DiscardStale, SimulationEnd, DeadlineCheck, BudgetOverrun, reevalVars
      <3> QED BY <1>0, <2>4, <3>1, PopReevaluations, OtherReevaluations
    <2>5. CASE \/ DispatchTerminal \/ DispatchBusy \/ DispatchWithoutModel
               \/ PreemptNow \/ PreemptDeferred \/ EnqueueJob
               \/ DropLoJobs \/ DispatchIdleDone \/ Ended
      <3>1. UNCHANGED <<events, now, trig, tick>>
        BY <2>5 DEF DispatchTerminal, DispatchBusy, DispatchWithoutModel, PreemptNow,
                    PreemptDeferred, EnqueueJob, DropLoJobs, DispatchIdleDone, Ended, vars,
                    eventVars, reevalVars
      <3>2. PhaseQuiet
        BY <2>5 DEF DispatchTerminal, DispatchBusy, DispatchWithoutModel, PreemptNow,
                    PreemptDeferred, EnqueueJob, DropLoJobs, DispatchIdleDone, Ended, vars,
                    Phase, Trigger, Poll, PhaseQuiet, BeforeRun
      <3> QED BY <1>0, <3>1, <3>2, OtherEvents, OtherReevaluations
    <2> QED BY <1>0, <1>1, <2>1, <2>2, <2>3, <2>4, <2>5, StartRunReevaluations,
               ReevaluateDoneReevaluations, TriggerReevaluations, HandleReevaluations
            DEF EngineStep
  <1>2. CASE SchedulerStep
    <2>1. CASE \E e, a : TaskArrival(e, a) \/ JobComplete(e, a) \/ PreemptionPoint(e, a)
      <3>1. UNCHANGED <<trig, tick>>
        BY <2>1 DEF TaskArrival, JobComplete, PreemptionPoint, reevalVars
      <3> QED BY <1>0, <2>1, <3>1, PopReevaluations, OtherReevaluations
    <2>2. CASE \E e, a : TransferComplete(e, a)
      <3>1. UNCHANGED <<trig, tick>>
        BY <2>2 DEF TransferComplete, reevalVars
      <3> QED BY <1>0, <2>2, <3>1, BusReevaluations, OtherReevaluations
    <2>3. CASE \/ \E j : SchedulerDropsLo(j)
               \/ SchedulerDropsNoMore
               \/ \E a : DispatchIdle(a) \/ Reevaluate(a)
      <3>1. UNCHANGED <<events, now, trig, tick>>
        BY <2>3 DEF SchedulerDropsLo, SchedulerDropsNoMore, DispatchIdle, Reevaluate, eventVars,
                    reevalVars
      <3>2. phase \in PhaseRecord
        BY DEF IInv, TypeOK
      <3>3. phase' = phase \/ phase'.op \in {phase.op, "dropLo", "idle"}
        BY <2>3, <3>2 DEF SchedulerDropsLo, SchedulerDropsNoMore, DispatchIdle, Reevaluate, Phase,
                          PhaseRecord
      <3>4. PhaseQuiet
        BY <3>3 DEF PhaseQuiet, BeforeRun
      <3> QED BY <1>0, <3>1, <3>4, OtherEvents, OtherReevaluations
    <2> QED BY <1>2, <2>1, <2>2, <2>3 DEF SchedulerStep
  <1>3. CASE UNCHANGED vars
    <2>1. UNCHANGED <<events, now, trig, tick, phase>>
      BY <1>3 DEF vars, eventVars, reevalVars
    <2> QED BY <1>0, <2>1, OtherEvents, OtherReevaluations DEF PhaseQuiet, BeforeRun
  <1> QED BY <1>1, <1>2, <1>3 DEF Next

(* The inductive invariant of the reevaluations holds in every reachable    *)
(* state.                                                                   *)
THEOREM ReevaluationInvariance == Spec => []ReevaluationIInv
  <1>1. Init => ReevaluationIInv
    BY EngineAssumption
       DEF Init, ReevaluationIInv, TriggerIsRecorded, TickIsRecorded, TickIsInStep, BeforeRun,
           TriggeredEvents, PeriodicEvents, Phase
  <1>2. IInv /\ ReevaluationIInv /\ [Next]_vars => ReevaluationIInv'
    BY NextReevaluations
  <1> QED BY <1>1, <1>2, Invariance, PTL DEF Spec

(* At most one triggered reevaluation is outstanding, the engine's record   *)
(* of it is the event that will be honoured, and the ticks keep their       *)
(* cadence from time 0.                                                     *)
THEOREM ReevaluationsAreOutstandingOnce == Spec => []ReevaluationOutstanding
  <1>1. IInv /\ ReevaluationIInv => ReevaluationOutstanding
    BY DEF IInv, ClockIsSound, ReevaluationIInv, TriggerIsRecorded, TickIsRecorded, TickIsInStep,
           ReevaluationOutstanding
  <1> QED BY <1>1, Invariance, ReevaluationInvariance, PTL

-----------------------------------------------------------------------------
(* Preemption points                                                        *)

(* No job starts: a slot stays as it is, or is emptied.                     *)
NoneStarts == \A d \in DeviceIds : running'[d] \in {running[d], NoJob}

(* A job that runs after such a step has run before, and has not changed.   *)
LEMMA RunsOn ==
    ASSUME IInv, IInv', [Next]_vars, NoneStarts
    PROVE  /\ \A d \in DeviceIds : running'[d] # NoJob =>
                 /\ running'[d] = running[d] /\ running[d] \in JobIds
                 /\ jobs'[running[d]] = jobs[running[d]]
           /\ \A j \in JobIds' : jobs'[j].state = "Running" =>
                 \E d \in DeviceIds : running'[d] = j /\ running[d] = j
  <1>1. ASSUME NEW d \in DeviceIds, running'[d] # NoJob
        PROVE  /\ running'[d] = running[d] /\ running[d] \in JobIds
               /\ jobs'[running[d]] = jobs[running[d]]
    <2>1. running'[d] = running[d]
      BY <1>1 DEF NoneStarts
    <2>2. running[d] \in JobIds /\ jobs[running[d]].state = "Running"
      BY <1>1, <2>1, RunningJob
    <2>3. jobs'[running[d]].state = "Running"
      BY <1>1, <2>1 DEF IInv, Placement, SlotsHoldRunningJobs
    <2> QED BY <2>1, <2>2, <2>3, NextJobs DEF JobsAllowed, JobAllowed
  <1>2. ASSUME NEW j \in JobIds', jobs'[j].state = "Running"
        PROVE  \E d \in DeviceIds : running'[d] = j /\ running[d] = j
    <2>1. j # NoJob
      BY DEF JobIds, NoJob
    <2>2. PICK d \in DeviceIds : running'[d] = j
      BY <1>2, <2>1 DEF IInv, Placement, RunningJobsHaveSlots
    <2> QED BY <1>1, <2>1, <2>2
  <1> QED BY <1>1, <1>2

(* The length of an interval and the instant a job starts are naturals.     *)
LEMMA PointTimes ==
    ASSUME NEW d \in DeviceIds, NEW start \in Nat
    PROVE  /\ Device[d].interval \in Nat /\ PreemptionPenalty(d) \in Nat
           /\ \A penalty \in Nat : ExecutionStart(start, d, penalty) \in Nat
  BY PlatformAssumption DEF DeviceRecord, PreemptionPenalty, ExecutionStart

(* What a step that starts no job and reaches no point preserves.           *)
LEMMA PointsFrame ==
    ASSUME IInv, IInv', PointsIInv, [Next]_vars, NoneStarts, CompletionsKept("PreemptionPoint"),
           now' >= now, phase' = phase \/ "point" \notin {phase.op, phase'.op}, ActsOnPoint'
    PROVE  /\ PointsIInv'
           /\ (phase.op = "point" => now' = now) /\ PointsAreInStep => PointsAreInStep'
  <1>1. PointIsCurrent'
    <2> SUFFICES ASSUME phase' = phase, phase.op = "point",
                        running'[phase.k] # phase.job, jobs'[phase.job].state = "Running"
                 PROVE  FALSE
      BY DEF PointIsCurrent
    <2>1. phase.k \in DeviceIds /\ phase.job \in JobIds /\ phase.job \in JobIds'
      BY DEF IInv, PhaseIsSound
    <2>2. PICK d \in DeviceIds : running'[d] = phase.job /\ running[d] = phase.job
      BY <2>1, RunsOn
    <2>3. phase.job # NoJob
      BY <2>1 DEF JobIds, NoJob
    <2>4. jobs[phase.job].state = "Running"
      BY <2>2, <2>3, RunningJob
    <2>5. running[phase.k] = phase.job
      BY <2>4 DEF PointsIInv, PointIsCurrent
    <2>6. phase.k = d
      BY <2>1, <2>2, <2>3, <2>5, RunningJob
    <2> QED BY <2>2, <2>6
  <1>2. ASSUME NEW d \in DeviceIds, running'[d] # NoJob
        PROVE  /\ running'[d] = running[d] /\ jobs'[running[d]] = jobs[running[d]]
               /\ LivePoints(running[d])' = LivePoints(running[d])
               /\ PointHandled(d)' = PointHandled(d)
    <2>1. running'[d] = running[d] /\ jobs'[running[d]] = jobs[running[d]]
      BY <1>2, RunsOn
    <2>2. LivePoints(running[d])' = LivePoints(running[d])
      BY <2>1 DEF LivePoints, CompletionsKept, IsStale, VersionedKinds
    <2>3. PointHandled(d)' = PointHandled(d)
      BY <2>1 DEF PointHandled
    <2> QED BY <2>1, <2>2, <2>3
  <1>3. PointsAreAhead'
    <2> SUFFICES ASSUME NEW d \in DeviceIds, HasPreemptionPoints(d), running'[d] # NoJob
                 PROVE  IF PointHandled(d)' THEN LivePoints(running[d])' = {} ELSE PointAhead(d)'
      BY DEF PointsAreAhead
    <2>1. CASE PointHandled(d)
      BY <1>2, <2>1 DEF PointsIInv, PointsAreAhead
    <2>2. CASE ~PointHandled(d)
      <3>1. PointAhead(d)
        BY <1>2, <2>2 DEF PointsIInv, PointsAreAhead
      <3> PICK s : s = ExecutionStart(jobs[running[d]].start, d, PreemptionPenalty(d))
        OBVIOUS
      <3>2. PICK e \in events : LivePoints(running[d]) = {e} /\ e.time <= Device[d].interval + MaxOf(now, s)
        BY <3>1 DEF PointAhead, LivePoints
      <3>3. jobs[running[d]].start \in Nat
        BY <1>2, RunningJob
      <3>4. s \in Nat /\ Device[d].interval \in Nat
        BY <3>3, PointTimes
      <3>5. now \in Nat /\ now' \in Nat /\ e.time \in Nat
        BY DEF IInv, TypeOK, EventRecord
      <3>6. e.time <= Device[d].interval + MaxOf(now', s)
        BY <3>2, <3>4, <3>5 DEF MaxOf
      <3>7. s = ExecutionStart(jobs'[running'[d]].start, d, PreemptionPenalty(d))
        BY <1>2
      <3>8. LivePoints(running[d])' = {e}
        BY <1>2, <3>2
      <3>9. PointAhead(d)'
        BY <3>6, <3>7, <3>8 DEF PointAhead
      <3> QED BY <1>2, <2>2, <3>9
    <2> QED BY <2>1, <2>2
  <1>4. ASSUME PointsAreInStep, phase.op = "point" => now' = now
        PROVE  PointsAreInStep'
    <2> SUFFICES ASSUME NEW d \in DeviceIds, HasPreemptionPoints(d), running'[d] # NoJob
                 PROVE  /\ \A e \in LivePoints(running[d])' : InStep(d, e.time)'
                        /\ PointHandled(d)' => InStep(d, now)'
      BY DEF PointsAreInStep
    <2>1. \A t : InStep(d, t)' = InStep(d, t)
      BY <1>2 DEF InStep
    <2>2. PointHandled(d) => now' = now
      BY <1>4 DEF PointHandled
    <2>3. \A e : InStep(d, e.time)' = InStep(d, e.time)
      BY <1>2 DEF InStep
    <2>4. InStep(d, now)' <=> \E penalty \in {0, PreemptionPenalty(d)}, n \in 1 .. now' :
              now' = ExecutionStart(jobs'[running'[d]].start, d, penalty) + n * Device[d].interval
      BY DEF InStep
    <2>5. now' = now => InStep(d, now)' = InStep(d, now)
      BY <1>2, <2>4 DEF InStep
    <2> QED BY <1>2, <1>4, <2>2, <2>3, <2>5 DEF PointsAreInStep
  <1> QED BY <1>1, <1>3, <1>4 DEF PointsIInv

(* All that the frame lemma asks of a step.                                 *)
PhaseKept == phase' = phase \/ "point" \notin {phase.op, phase'.op}
KeepsPoints ==
    /\ NoneStarts /\ CompletionsKept("PreemptionPoint")
    /\ now' >= now /\ (phase.op = "point" => now' = now)
    /\ PhaseKept /\ ActsOnPoint'

(* Events that stay, go stale or are of another kind keep the points.       *)
LEMMA OtherPointEvents ==
    ASSUME \/ UNCHANGED events
           \/ \E e \in events : events' = events \ {e} /\ (e.kind # "PreemptionPoint" \/ IsStale(e))
           \/ \E kinds : Adds(kinds) /\ "PreemptionPoint" \notin kinds
    PROVE  CompletionsKept("PreemptionPoint")
  BY DEF CompletionsKept, Adds

(* The action under way is left alone, or comes to its end.                 *)
LEMMA ActKept ==
    ASSUME ActsOnPoint, UNCHANGED act, PhaseKept
    PROVE  ActsOnPoint'
  BY DEF ActsOnPoint, ActsOnAnother, PenaltyIsDue, AtPointOnly, PhaseKept

(* No action has no penalty and is about no job.                            *)
LEMMA ActNone ==
    ASSUME IInv', act' = NoAction
    PROVE  ActsOnPoint'
  <1>1. act'.op = "none" /\ act'.by = NoJob
    BY DEF NoAction
  <1>2. phase'.op = "point" => phase'.job # NoJob
    BY DEF IInv, PhaseIsSound, JobIds, NoJob
  <1> QED BY <1>1, <1>2 DEF ActsOnPoint, ActsOnAnother, PenaltyIsDue, AtPointOnly

(* What an action of a scheduler looks like outside a preemption point.     *)
Plain(a) == (a.op = "dispatch" => a.penalty = 0) /\ (a.op = "preempt" => ~a.atPoint)

(* Such an action is no concern of the points.                              *)
LEMMA ActPlain ==
    ASSUME Plain(act'), phase'.op # "point"
    PROVE  ActsOnPoint'
  BY DEF Plain, ActsOnPoint, ActsOnAnother, PenaltyIsDue, AtPointOnly

(* The answers to all callbacks but that at a point are of that kind.       *)
LEMMA PlainAnswers ==
    /\ Plain(NoAction)
    /\ \A j, d : Plain(Dispatch(j, d, 0)) /\ Plain(Enqueue(j, d)) /\ Plain(Drop(j))
    /\ \A j, b, d : Plain(Preempt(j, b, d, FALSE)) /\ Plain(DropThenDispatch(j, b, d))
    /\ \A j : \A a \in ArrivalActions(j) : Plain(a)
    /\ \A d : \A a \in FreeActions(d) \cup IdleActions(d) \cup ReevaluationActions(d) : Plain(a)
  <1>1. Plain(NoAction)
    BY DEF Plain, NoAction
  <1>2. \A j, d : Plain(Dispatch(j, d, 0)) /\ Plain(Enqueue(j, d)) /\ Plain(Drop(j))
    BY DEF Plain, Dispatch, Enqueue, Drop, NoAction
  <1>3. \A j, b, d : Plain(Preempt(j, b, d, FALSE)) /\ Plain(DropThenDispatch(j, b, d))
    BY DEF Plain, Preempt, DropThenDispatch, NoAction
  <1>4. \A j : \A a \in ArrivalActions(j) : Plain(a)
    BY <1>1, <1>2, <1>3 DEF ArrivalActions
  <1>5. \A d : \A a \in FreeActions(d) : Plain(a)
    BY <1>1, <1>2 DEF FreeActions
  <1>6. \A d : \A a \in IdleActions(d) : Plain(a)
    BY <1>1, <1>5 DEF IdleActions
  <1>7. \A d : \A a \in ReevaluationActions(d) : Plain(a)
    BY <1>1, <1>3 DEF ReevaluationActions
  <1> QED BY <1>1, <1>2, <1>3, <1>4, <1>5, <1>6, <1>7

(* A device is emptied, or a job leaves whatever device it runs on.         *)
LEMMA NoneStartsThen ==
    ASSUME IInv,
           \/ UNCHANGED running
           \/ \E d : running' = [running EXCEPT ![d] = NoJob]
           \/ \E j, state, t : Retire(j, state, t)
    PROVE  NoneStarts
  BY DEF NoneStarts, Retire, IInv, TypeOK

(* The steps of an action that start no job.                                *)
LEMMA ActionPoints ==
    ASSUME IInv, IInv', PointsIInv,
           \/ DispatchTerminal \/ DispatchBusy \/ DispatchWithoutModel \/ DispatchTransfer
           \/ PreemptNow \/ PreemptDeferred \/ EnqueueJob \/ DropJob
    PROVE  KeepsPoints
  <1>1. UNCHANGED <<now, phase>> /\ now' >= now
    BY DEF DispatchTerminal, DispatchBusy, DispatchWithoutModel, DispatchTransfer, PreemptNow,
           PreemptDeferred, EnqueueJob, DropJob, IInv, TypeOK
  <1>2. NoneStarts
    <2>1. \/ UNCHANGED running
          \/ \E d : running' = [running EXCEPT ![d] = NoJob]
          \/ \E j, state, t : Retire(j, state, t)
      BY DEF DispatchTerminal, DispatchBusy, DispatchWithoutModel, DispatchTransfer, PreemptNow,
             PreemptDeferred, EnqueueJob, DropJob, deviceVars
    <2> QED BY <2>1, NoneStartsThen
  <1>3. CompletionsKept("PreemptionPoint")
    <2>1. CASE \/ DispatchTerminal \/ DispatchBusy \/ DispatchWithoutModel
               \/ PreemptNow \/ PreemptDeferred \/ EnqueueJob
      <3>1. UNCHANGED events
        BY <2>1 DEF DispatchTerminal, DispatchBusy, DispatchWithoutModel, PreemptNow,
                    PreemptDeferred, EnqueueJob, eventVars
      <3> QED BY <3>1, OtherPointEvents
    <2>2. CASE DispatchTransfer
      <3>1. PICK source, ver : InitiateTransfer(act.job, source, act.dev, ver)
        BY <2>2 DEF DispatchTransfer
      <3>2. \/ UNCHANGED events
            \/ \E t : events' = events \cup
                         {Event(t, seq, "TransferComplete", act.job, ver, act.dev)}
        BY <3>1 DEF InitiateTransfer
      <3>3. \A t : Event(t, seq, "TransferComplete", act.job, ver, act.dev).kind = "TransferComplete"
        BY DEF Event
      <3> QED BY <3>2, <3>3 DEF CompletionsKept
    <2>3. CASE DropJob
      BY <2>3, ReleaseBusEvents DEF DropJob, CompletionsKept
    <2> QED BY <2>1, <2>2, <2>3
  <1>4. ActsOnPoint'
    <2>1. CASE DispatchTerminal \/ DispatchWithoutModel \/ DispatchTransfer \/ EnqueueJob
      <3>1. act' = NoAction
        BY <2>1 DEF DispatchTerminal, DispatchWithoutModel, DispatchTransfer, EnqueueJob, MayDispatch
      <3> QED BY <3>1, ActNone
    <2>2. phase.op = "point" => phase.job # NoJob
      BY DEF IInv, PhaseIsSound, JobIds, NoJob
    <2>3. CASE DispatchBusy \/ PreemptDeferred
      <3>1. CASE act' = NoAction
        BY <3>1, ActNone
      <3>2. CASE \E j, d : act' = Enqueue(j, d)
        <4>1. act'.op = "enqueue" /\ act'.by = NoJob
          BY <3>2 DEF Enqueue, NoAction
        <4> QED BY <1>1, <2>2, <4>1 DEF ActsOnPoint, ActsOnAnother, PenaltyIsDue, AtPointOnly
      <3> QED BY <2>3, <3>1, <3>2 DEF DispatchBusy, PreemptDeferred
    <2>4. CASE PreemptNow
      <3>1. act' = Dispatch(act.by, act.dev, PreemptionPenalty(act.dev))
        BY <2>4 DEF PreemptNow
      <3>2. /\ act'.op = "dispatch" /\ act'.by = NoJob /\ act'.job = act.by /\ act'.dev = act.dev
            /\ act'.penalty = PreemptionPenalty(act.dev)
        BY <3>1 DEF Dispatch, NoAction
      <3> QED BY <1>1, <2>2, <3>2
              DEF PointsIInv, ActsOnPoint, ActsOnAnother, PenaltyIsDue, AtPointOnly
    <2>5. CASE DropJob
      <3>1. CASE act' = NoAction
        BY <3>1, ActNone
      <3>2. CASE act' = Dispatch(act.by, act.dev, 0)
        <4>1. act'.op = "dispatch" /\ act'.by = NoJob /\ act'.job = act.by /\ act'.penalty = 0
          BY <3>2 DEF Dispatch, NoAction
        <4> QED BY <1>1, <2>2, <4>1
                DEF PointsIInv, ActsOnPoint, ActsOnAnother, PenaltyIsDue, AtPointOnly
      <3> QED BY <2>5, <3>1, <3>2 DEF DropJob
    <2> QED BY <2>1, <2>3, <2>4, <2>5
  <1> QED BY <1>1, <1>2, <1>3, <1>4 DEF KeepsPoints, PhaseKept

(* The steps between the events of which none is about a point.             *)
LEMMA PhasePoints ==
    ASSUME IInv, IInv', PointsIInv,
           \/ ScheduleInitialArrival \/ ScheduleReplayJob \/ ReleaseNextJob
           \/ StartRun \/ ReevaluateDone \/ ScheduleTriggeredReevaluation
    PROVE  KeepsPoints
  <1>1. UNCHANGED <<now, running, act>> /\ now' >= now
    BY DEF ScheduleInitialArrival, ScheduleReplayJob, ReleaseNextJob, StartRun, ReevaluateDone,
           ScheduleTriggeredReevaluation, deviceVars, IInv, TypeOK
  <1>2. "point" \notin {phase.op, phase'.op}
    BY DEF ScheduleInitialArrival, ScheduleReplayJob, ReleaseNextJob, StartRun, ReevaluateDone,
           ScheduleTriggeredReevaluation, Continues, Reevaluating, Phase, Poll, Trigger
  <1>3. CompletionsKept("PreemptionPoint")
    <2>1. CASE ScheduleInitialArrival \/ ScheduleReplayJob \/ ReleaseNextJob
      BY <2>1, ReleaseEvents DEF CompletionsKept, Adds
    <2>2. CASE StartRun \/ ReevaluateDone
      <3> DEFINE end == Event(Duration, seq, "SimulationEnd", NoJob, 0, NoDevice)
                 next(t) == Event(t, seq + 1, "Periodic", NoJob, tick.gen + 1, NoDevice)
      <3>1. \/ UNCHANGED events
            \/ events' = events \cup {end}
            \/ \E t : events' = events \cup {end} \cup {next(t)}
            \/ events' = events \cup {}
            \/ \E t : events' = events \cup {} \cup {next(t)}
        BY <2>2 DEF StartRun, ReevaluateDone, SchedulePeriodicReevaluation, eventVars
      <3>2. end.kind = "SimulationEnd" /\ \A t : next(t).kind = "Periodic"
        BY DEF Event
      <3> HIDE DEF end, next
      <3> QED BY <3>1, <3>2 DEF CompletionsKept
    <2>3. CASE ScheduleTriggeredReevaluation
      <3>1. \/ UNCHANGED events
            \/ \E t : events' = events \cup
                         {Event(t, seq, "Triggered", NoJob, trig.gen + 1, NoDevice)}
        BY <2>3 DEF ScheduleTriggeredReevaluation, eventVars
      <3>2. \A t : Event(t, seq, "Triggered", NoJob, trig.gen + 1, NoDevice).kind = "Triggered"
        BY DEF Event
      <3> QED BY <3>1, <3>2 DEF CompletionsKept
    <2> QED BY <2>1, <2>2, <2>3
  <1> QED BY <1>1, <1>2, <1>3, ActKept, NoneStartsThen DEF KeepsPoints, PhaseKept, PointsIInv

(* The steps that only decide what comes next.                              *)
LEMMA DecisionPoints ==
    ASSUME IInv, IInv', PointsIInv,
           \/ DropLoJobs \/ DispatchIdleDone \/ SchedulerDropsNoMore
           \/ \E j : SchedulerDropsLo(j)
           \/ \E a \in IdleActions(phase.k) : DispatchIdle(a)
           \/ \E a \in ReevaluationActions(phase.k) : Reevaluate(a)
    PROVE  KeepsPoints
  <1>1. UNCHANGED <<now, running, events>> /\ now' >= now
    BY DEF DropLoJobs, DispatchIdleDone, SchedulerDropsNoMore, SchedulerDropsLo, DispatchIdle,
           Reevaluate, deviceVars, eventVars, IInv, TypeOK
  <1>2. "point" \notin {phase.op, phase'.op}
    <2>1. CASE \E a : Reevaluate(a)
      BY <2>1 DEF Reevaluate, Reevaluating, IInv, TypeOK, PhaseRecord
    <2>2. CASE ~\E a : Reevaluate(a)
      BY <2>2 DEF DropLoJobs, DispatchIdleDone, SchedulerDropsNoMore, SchedulerDropsLo,
                  DispatchIdle, Continues, Phase, Trigger, Poll
    <2> QED BY <2>1, <2>2
  <1>3. act' = act \/ Plain(act')
    BY PlainAnswers DEF DropLoJobs, DispatchIdleDone, SchedulerDropsNoMore, SchedulerDropsLo,
                        DispatchIdle, Reevaluate
  <1>4. ActsOnPoint'
    BY <1>2, <1>3, ActKept, ActPlain DEF PhaseKept, PointsIInv
  <1> QED BY <1>1, <1>2, <1>4, NoneStartsThen, OtherPointEvents DEF KeepsPoints, PhaseKept

(* The handlers of the other events.                                        *)
LEMMA PopPoints ==
    ASSUME IInv, IInv', PointsIInv,
           \/ DiscardStale \/ SimulationEnd
           \/ \E e \in events : \/ DeadlineCheck(e) \/ BudgetOverrun(e)
                                \/ TriggeredReevaluation(e) \/ PeriodicReevaluation(e)
           \/ \E e : \E a \in ArrivalActions(e.job) : TaskArrival(e, a) \/ TransferComplete(e, a)
           \/ \E e : \E a \in FreeActions(e.dev) : JobComplete(e, a)
    PROVE  KeepsPoints
  <1>1. PICK e \in events : Pops(e)
    BY DEF DiscardStale, SimulationEnd, DeadlineCheck, BudgetOverrun, TriggeredReevaluation,
           PeriodicReevaluation, TaskArrival, TransferComplete, JobComplete, Handles, Pops
  <1>2. phase.op = "poll" /\ now' >= now
    BY <1>1, PopBasics
  <1>3. NoneStarts
    <2>1. \/ UNCHANGED running
          \/ \E d : running' = [running EXCEPT ![d] = NoJob]
          \/ \E j, state, t : Retire(j, state, t)
      BY DEF DiscardStale, SimulationEnd, DeadlineCheck, BudgetOverrun, TriggeredReevaluation,
             PeriodicReevaluation, TaskArrival, TransferComplete, JobComplete, deviceVars
    <2> QED BY <2>1, NoneStartsThen
  <1>4. CompletionsKept("PreemptionPoint")
    <2>1. CASE \E x, a : TransferComplete(x, a)
      <3>1. PICK x, a : TransferComplete(x, a)
        BY <2>1
      <3>2. /\ x.kind = "TransferComplete"
            /\ ReleaseBus({y \in active : y.job = x.job}, pending, events \ {x}, x.time)
        BY <3>1 DEF TransferComplete, Handles
      <3> QED BY <3>2, ReleaseBusEvents DEF CompletionsKept
    <2>2. CASE ~\E x, a : TransferComplete(x, a)
      <3>1. \E x \in events : /\ events' = events \ {x}
                              /\ x.kind # "PreemptionPoint" \/ IsStale(x)
        BY <2>2 DEF DiscardStale, SimulationEnd, DeadlineCheck, BudgetOverrun,
                    TriggeredReevaluation, PeriodicReevaluation, TaskArrival, JobComplete,
                    Handles, Pops
      <3> QED BY <3>1, OtherPointEvents
    <2> QED BY <2>1, <2>2
  <1>5. phase'.op # "point"
    <2>1. CASE \E x, a : JobComplete(x, a)
      <3>1. phase' = Trigger
        BY <2>1 DEF JobComplete
      <3> QED BY <3>1 DEF Trigger, Phase
    <2>2. CASE \E x, a : TaskArrival(x, a)
      <3>1. phase'.op = "release"
        BY <2>2 DEF TaskArrival, Phase
      <3> QED BY <3>1
    <2>3. CASE \E x, a : TransferComplete(x, a)
      <3>1. phase'.op # "point"
        BY <2>3, <1>2 DEF TransferComplete, Phase, Trigger
      <3> QED BY <3>1
    <2>4. CASE DiscardStale \/ SimulationEnd
      BY <1>2, <2>4 DEF DiscardStale, SimulationEnd, Phase, Poll
    <2>5. CASE \E x : DeadlineCheck(x)
      BY <1>2, <2>5 DEF DeadlineCheck, Phase, Trigger
    <2>6. CASE \E x : BudgetOverrun(x)
      BY <1>2, <2>6 DEF BudgetOverrun, Phase, Trigger
    <2>7. CASE \E x : TriggeredReevaluation(x) \/ PeriodicReevaluation(x)
      BY <1>2, <2>7 DEF TriggeredReevaluation, PeriodicReevaluation, Phase, Trigger, Poll
    <2> QED BY <2>1, <2>2, <2>3, <2>4, <2>5, <2>6, <2>7
  <1>6. act' = act \/ Plain(act')
    BY PlainAnswers DEF DiscardStale, SimulationEnd, DeadlineCheck, BudgetOverrun,
                        TriggeredReevaluation, PeriodicReevaluation, TaskArrival,
                        TransferComplete, JobComplete
  <1>7. ActsOnPoint'
    BY <1>2, <1>5, <1>6, ActKept, ActPlain DEF PhaseKept, PointsIInv
  <1> QED BY <1>2, <1>3, <1>4, <1>5, <1>7 DEF KeepsPoints, PhaseKept

(* What happens to the points of the jobs that are not concerned.           *)
LEMMA OtherPoints ==
    ASSUME NEW d \in DeviceIds, HasPreemptionPoints(d), running[d] # NoJob,
           running'[d] = running[d], jobs'[running[d]] = jobs[running[d]],
           LivePoints(running[d])' = LivePoints(running[d]),
           ~PointHandled(d), ~PointHandled(d)',
           now \in Nat, now' \in Nat, now' >= now, jobs[running[d]].start \in Nat,
           \A e \in events : e.time \in Nat,
           PointsAreAhead
    PROVE  /\ IF PointHandled(d)' THEN LivePoints(running[d])' = {} ELSE PointAhead(d)'
           /\ PointsAreInStep =>
                 /\ \A e \in LivePoints(running[d])' : InStep(d, e.time)'
                 /\ PointHandled(d)' => InStep(d, now)'
  <1>1. PointAhead(d)
    BY DEF PointsAreAhead
  <1> PICK s : s = ExecutionStart(jobs[running[d]].start, d, PreemptionPenalty(d))
    OBVIOUS
  <1>2. PICK e \in events : LivePoints(running[d]) = {e} /\ e.time <= Device[d].interval + MaxOf(now, s)
    BY <1>1 DEF PointAhead, LivePoints
  <1>3. s \in Nat /\ Device[d].interval \in Nat
    BY PointTimes
  <1>4. e.time <= Device[d].interval + MaxOf(now', s)
    BY <1>2, <1>3 DEF MaxOf
  <1>5. s = ExecutionStart(jobs'[running'[d]].start, d, PreemptionPenalty(d))
    OBVIOUS
  <1>6. LivePoints(running[d])' = {e}
    BY <1>2
  <1>7. PointAhead(d)'
    BY <1>4, <1>5, <1>6 DEF PointAhead
  <1>8. \A f : InStep(d, f.time)' = InStep(d, f.time)
    BY DEF InStep
  <1> QED BY <1>7, <1>8 DEF PointsAreInStep

(* The handler of a preemption point: the one point the job had ahead is    *)
(* reached.                                                                 *)
LEMMA PreemptionPointPoints ==
    ASSUME IInv, IInv', PointsIInv, NEW e \in EventsOf("PreemptionPoint"),
           NEW a \in PointActions(e.dev, e.job), PreemptionPoint(e, a)
    PROVE  PointsIInv' /\ (PointsAreInStep => PointsAreInStep')
  <1> PICK j : j = e.job
    OBVIOUS
  <1> PICK d : d = e.dev
    OBVIOUS
  <1>1. /\ e \in events /\ e.kind = "PreemptionPoint" /\ Pops(e) /\ ~IsStale(e)
        /\ events' = events \ {e} /\ UNCHANGED <<jobs, running>>
    BY DEF PreemptionPoint, Handles, EventsOf, jobVars, deviceVars
  <1>2. /\ j \in JobIds /\ d \in DeviceIds /\ jobs[j].state = "Running" /\ running[d] = j
        /\ j # NoJob /\ HasPreemptionPoints(d)
    BY <1>1, LiveRunningEvent DEF IInv, EventsAreSound, EventsAreWellFormed, JobIds, NoJob
  <1>3. act' = a /\ phase' = PointPhase(d, j)
    BY <1>2 DEF PreemptionPoint
  <1>4. /\ phase'.op = "point" /\ phase'.k = d /\ phase'.job = j /\ phase.op = "poll"
    BY <1>1, <1>3, PopBasics DEF PointPhase
  <1>5. now' = e.time /\ now' >= now /\ now \in Nat /\ now' \in Nat
    BY <1>1, PopBasics DEF IInv, TypeOK
  <1>6. PointIsCurrent'
    BY <1>1, <1>2, <1>4 DEF PointIsCurrent
  <1>7. ActsOnPoint'
    <2>1. CASE a = NoAction
      BY <1>3, <2>1, ActNone
    <2>2. ASSUME NEW q \in queue[d], a = Preempt(j, q, d, TRUE) PROVE ActsOnPoint'
      <3>1. q # j
        BY <1>2, QueuedIsPlaceable
      <3>2. act'.op = "preempt" /\ act'.by = q /\ act'.job = j
        BY <1>3, <2>2 DEF Preempt, NoAction
      <3> QED BY <1>4, <3>1, <3>2 DEF ActsOnPoint, ActsOnAnother, PenaltyIsDue, AtPointOnly
    <2>3. ASSUME NEW q \in queue[d], a = DropThenDispatch(j, q, d) PROVE ActsOnPoint'
      <3>1. q # j
        BY <1>2, QueuedIsPlaceable
      <3>2. act'.op = "drop" /\ act'.by = q
        BY <1>3, <2>3 DEF DropThenDispatch, NoAction
      <3> QED BY <1>4, <3>1, <3>2 DEF ActsOnPoint, ActsOnAnother, PenaltyIsDue, AtPointOnly
    <2> QED BY <2>1, <2>2, <2>3 DEF PointActions
  <1>8. LivePoints(j) = {e} /\ LivePoints(j)' = {}
    <2>1. PointAhead(d)
      BY <1>2, <1>4 DEF PointsIInv, PointsAreAhead, PointHandled
    <2>2. e \in LivePoints(j)
      BY <1>1 DEF LivePoints, IsStale, VersionedKinds
    <2>3. LivePoints(j) = {e}
      BY <1>2, <2>1, <2>2 DEF PointAhead
    <2> QED BY <1>1, <2>3 DEF LivePoints
  <1>9. ASSUME NEW c \in DeviceIds, HasPreemptionPoints(c), running'[c] # NoJob
        PROVE  /\ IF PointHandled(c)' THEN LivePoints(running[c])' = {} ELSE PointAhead(c)'
               /\ PointsAreInStep =>
                     /\ \A x \in LivePoints(running[c])' : InStep(c, x.time)'
                     /\ PointHandled(c)' => InStep(c, now)'
    <2>1. CASE c = d
      <3>1. PointHandled(d)'
        BY <1>1, <1>2, <1>4 DEF PointHandled
      <3>2. PointsAreInStep => InStep(d, e.time)
        BY <1>2, <1>8 DEF PointsAreInStep
      <3>3. InStep(d, e.time) => InStep(d, now)'
        BY <1>1, <1>5 DEF InStep
      <3> QED BY <1>1, <1>2, <1>8, <2>1, <3>1, <3>2, <3>3
    <2>2. CASE c # d
      <3>1. running[c] # j /\ running[c] \in JobIds /\ jobs[running[c]].start \in Nat
        BY <1>1, <1>2, <1>9, <2>2, RunningJob
      <3>2. LivePoints(running[c])' = LivePoints(running[c])
        BY <1>1, <3>1 DEF LivePoints
      <3>3. ~PointHandled(c) /\ ~PointHandled(c)'
        BY <1>1, <1>4, <3>1 DEF PointHandled
      <3>4. PointsAreAhead /\ \A x \in events : x.time \in Nat
        BY DEF PointsIInv, IInv, TypeOK, EventRecord
      <3>5. running'[c] = running[c] /\ jobs'[running[c]] = jobs[running[c]]
        BY <1>1
      <3> QED BY <1>5, <1>9, <3>1, <3>2, <3>3, <3>4, <3>5, OtherPoints
    <2> QED BY <2>1, <2>2
  <1>10. PointsAreAhead'
    BY <1>1, <1>9 DEF PointsAreAhead
  <1>11. PointsAreInStep => PointsAreInStep'
    BY <1>1, <1>9 DEF PointsAreInStep
  <1> QED BY <1>6, <1>7, <1>10, <1>11 DEF PointsIInv

(* The end of that handler: a job that runs on has its next point ahead.    *)
LEMMA ReschedulePointPoints ==
    ASSUME IInv, IInv', PointsIInv, ReschedulePoint
    PROVE  PointsIInv' /\ (PositiveIntervals /\ PointsAreInStep => PointsAreInStep')
  <1> PICK j : j = phase.job
    OBVIOUS
  <1> PICK d : d = phase.k
    OBVIOUS
  <1>1. /\ phase.op = "point" /\ phase'.op = "trigger"
        /\ UNCHANGED <<now, jobs, running, act>>
        /\ now \in Nat /\ now' \in Nat /\ now' >= now
    BY DEF ReschedulePoint, Continues, Trigger, Phase, jobVars, deviceVars, IInv, TypeOK
  <1>2. d \in DeviceIds /\ j \in JobIds /\ j # NoJob /\ HasPreemptionPoints(d)
    BY <1>1 DEF IInv, PhaseIsSound, JobIds, NoJob
  <1>3. PointIsCurrent' /\ ActsOnPoint'
    <2>1. act.op = "none"
      BY DEF ReschedulePoint, Continues
    <2> QED BY <1>1, <2>1 DEF PointIsCurrent, ActsOnPoint, ActsOnAnother, PenaltyIsDue, AtPointOnly
  <1> PICK next : next = Event(now + Device[d].interval, seq, "PreemptionPoint", j, jobs[j].ver, d)
    OBVIOUS
  <1>4. /\ next.kind = "PreemptionPoint" /\ next.job = j /\ next.ver = jobs[j].ver
        /\ next.time = now + Device[d].interval
    BY DEF Event
  <1>5. IF running[d] = j THEN events' = events \cup {next} ELSE events' = events
    BY DEF ReschedulePoint, eventVars
  <1>6. ASSUME NEW c \in DeviceIds, HasPreemptionPoints(c), running'[c] # NoJob
        PROVE  /\ IF PointHandled(c)' THEN LivePoints(running[c])' = {} ELSE PointAhead(c)'
               /\ PositiveIntervals /\ PointsAreInStep =>
                     /\ \A x \in LivePoints(running[c])' : InStep(c, x.time)'
                     /\ PointHandled(c)' => InStep(c, now)'
    <2>1. /\ running'[c] = running[c] /\ running[c] # NoJob /\ jobs'[running[c]] = jobs[running[c]]
          /\ running[c] \in JobIds /\ jobs[running[c]].start \in Nat
          /\ jobs[running[c]].state = "Running"
      BY <1>1, <1>6, RunningJob
    <2>2. ~PointHandled(c)'
      BY <1>1 DEF PointHandled
    <2>3. CASE running[c] = j
      <3>1. running[d] = j /\ c = d
        BY <1>1, <1>2, <2>1, <2>3, RunningJob DEF PointsIInv, PointIsCurrent
      <3>2. PointHandled(c)
        BY <1>1, <2>3 DEF PointHandled
      <3>3. LivePoints(j) = {}
        BY <1>6, <2>1, <2>3, <3>2 DEF PointsIInv, PointsAreAhead
      <3>4. LivePoints(j)' = {next}
        BY <1>1, <1>4, <1>5, <3>1, <3>3 DEF LivePoints
      <3> PICK s : s = ExecutionStart(jobs[j].start, d, PreemptionPenalty(d))
        OBVIOUS
      <3>5. s \in Nat /\ Device[d].interval \in Nat
        BY <1>2, <2>1, <2>3, PointTimes
      <3>6. next.time <= Device[d].interval + MaxOf(now', s)
        BY <1>1, <1>4, <3>5 DEF MaxOf
      <3>7. running'[d] = j /\ s = ExecutionStart(jobs'[j].start, d, PreemptionPenalty(d))
        BY <1>1, <2>1, <2>3, <3>1
      <3>8. PointAhead(d)'
        BY <3>4, <3>6, <3>7 DEF PointAhead
      <3>9. ASSUME PositiveIntervals, PointsAreInStep PROVE InStep(d, next.time)'
        <4>1. InStep(d, now)
          BY <1>2, <2>1, <2>3, <3>1, <3>2, <3>9 DEF PointsAreInStep
        <4>2. PICK penalty \in {0, PreemptionPenalty(d)}, n \in 1 .. now :
                 now = ExecutionStart(jobs[j].start, d, penalty) + n * Device[d].interval
          BY <3>1, <4>1 DEF InStep
        <4> PICK start : start = ExecutionStart(jobs[j].start, d, penalty)
          OBVIOUS
        <4>3. start \in Nat /\ Device[d].interval > 0
          BY <1>2, <2>1, <2>3, <3>9, PointTimes DEF PositiveIntervals
        <4>4. (n + 1) * Device[d].interval = n * Device[d].interval + Device[d].interval
          BY <3>5
        <4>5. n + 1 \in 1 .. next.time /\ next.time = start + (n + 1) * Device[d].interval
          BY <1>1, <1>4, <3>5, <4>2, <4>3, <4>4
        <4>6. start = ExecutionStart(jobs'[running'[d]].start, d, penalty)
          BY <1>1, <3>1
        <4> QED BY <4>5, <4>6 DEF InStep
      <3>10. LivePoints(running[c])' = {next}
        BY <2>1, <2>3, <3>4 DEF LivePoints
      <3>11. PointAhead(c)' /\ (PositiveIntervals /\ PointsAreInStep => InStep(c, next.time)')
        BY <3>1, <3>8, <3>9
      <3> QED BY <2>2, <3>10, <3>11
    <2>4. CASE running[c] # j
      <3>1. LivePoints(running[c])' = LivePoints(running[c])
        BY <1>1, <1>4, <1>5, <2>4 DEF LivePoints
      <3>2. ~PointHandled(c)
        BY <2>4 DEF PointHandled
      <3>3. PointsAreAhead /\ \A x \in events : x.time \in Nat
        BY DEF PointsIInv, IInv, TypeOK, EventRecord
      <3> QED BY <1>1, <1>6, <2>1, <2>2, <3>1, <3>2, <3>3, OtherPoints
    <2> QED BY <2>3, <2>4
  <1>7. PointsAreAhead'
    BY <1>1, <1>6 DEF PointsAreAhead
  <1>8. PositiveIntervals /\ PointsAreInStep => PointsAreInStep'
    BY <1>1, <1>6 DEF PointsAreInStep
  <1> QED BY <1>3, <1>7, <1>8 DEF PointsIInv

(* A job that starts has its first point one interval ahead.                *)
LEMMA DispatchRunPoints ==
    ASSUME IInv, IInv', PointsIInv, DispatchRun
    PROVE  PointsIInv' /\ (PositiveIntervals /\ PointsAreInStep => PointsAreInStep')
  <1> PICK j : j = act.job
    OBVIOUS
  <1> PICK d : d = act.dev
    OBVIOUS
  <1>1. /\ MayDispatch /\ act.op = "dispatch" /\ UNCHANGED <<now, phase>>
        /\ now \in Nat /\ now' \in Nat /\ now' >= now /\ seq \in Nat
    BY DispatchBasics DEF DispatchRun
  <1>2. PICK x \in ExecTimes :
           LET r == Transition(Assigned(Resolved(jobs[j], x), d, now), "Running")
           IN /\ jobs' = [jobs EXCEPT ![j] = r]
              /\ running' = [running EXCEPT ![d] = j]
              /\ events' = events \cup StartEvents(j, r, d, act.penalty)
    BY DEF DispatchRun
  <1> PICK p : p = Resolved(jobs[j], x)
    OBVIOUS
  <1> PICK q : q = Assigned(p, d, now)
    OBVIOUS
  <1> PICK r : r = Transition(q, "Running")
    OBVIOUS
  <1>3. /\ j \in JobIds /\ j # NoJob /\ d \in DeviceIds
        /\ jobs[j] \in JobRecord /\ jobs[j].ver \in Nat
        /\ running[d] = NoJob /\ \A c \in DeviceIds : running[c] # j
        /\ running \in [DeviceIds -> JobIds \cup {NoJob}]
    BY <1>1, DispatchBasics DEF JobIds, NoJob
  <1>4. r.ver = jobs[j].ver + 1 /\ r.start = now
    <2>1. x \in Nat
      BY <1>1, DispatchBasics, SampleExecTimeNat DEF ExecTimes
    <2>2. p \in JobRecord /\ p.ver = jobs[j].ver
      BY <1>3, <2>1, ResolvedLemma
    <2>3. now \in Nat \cup {Unset}
      BY <1>1
    <2>4. q \in JobRecord /\ q.ver = p.ver /\ q.start = now
      BY <1>3, <2>2, <2>3, AssignedLemma
    <2>5. "Running" \in JobStates
      BY DEF JobStates
    <2> QED BY <2>2, <2>4, <2>5, TransitionLemma
  <1>5. /\ jobs' = [jobs EXCEPT ![j] = r]
        /\ running' = [running EXCEPT ![d] = j]
        /\ events' = events \cup StartEvents(j, r, d, act.penalty)
    BY <1>2
  <1>6. /\ jobs'[j] = r /\ running'[d] = j
        /\ \A k \in JobIds : k # j => jobs'[k] = jobs[k]
        /\ \A c \in DeviceIds : c # d => running'[c] = running[c]
    BY <1>3, <1>5 DEF IInv, TypeOK
  <1>7. phase.op = "point" => phase.job # j /\ phase.job \in JobIds /\ phase.job # NoJob
                              /\ phase.k \in DeviceIds
    BY <1>1 DEF PointsIInv, ActsOnPoint, ActsOnAnother, IInv, PhaseIsSound, JobIds, NoJob
  <1>8. PointIsCurrent'
    BY <1>1, <1>3, <1>6, <1>7 DEF PointsIInv, PointIsCurrent
  <1>9. ActsOnPoint'
    BY <1>1, ActNone DEF MayDispatch
  <1> PICK start : start = ExecutionStart(now, d, act.penalty)
    OBVIOUS
  <1> PICK first : first = Event(start + Device[d].interval, seq + 2, "PreemptionPoint", j, r.ver, d)
    OBVIOUS
  <1>10. /\ first.kind = "PreemptionPoint" /\ first.job = j /\ first.ver = r.ver
         /\ first.time = start + Device[d].interval
         /\ HasPreemptionPoints(d) => first \in StartEvents(j, r, d, act.penalty)
         /\ \A e \in StartEvents(j, r, d, act.penalty) :
               e.job = j /\ (e.kind = "PreemptionPoint" => e = first)
    BY DEF StartEvents, Event
  <1>11. ASSUME HasPreemptionPoints(d)
         PROVE  /\ LivePoints(j)' = {first} /\ ~PointHandled(d)' /\ PointAhead(d)'
                /\ PositiveIntervals => InStep(d, first.time)'
    <2>1. \A e \in events : e.kind = "PreemptionPoint" /\ e.job = j =>
              e.ver <= jobs[j].ver /\ e.ver \in Nat
      BY DEF IInv, TypeOK, EventRecord, EventsAreSound, LiveEventsAreMeant, VersionedKinds
    <2>2. LivePoints(j)' = {first}
      BY <1>3, <1>4, <1>5, <1>6, <1>10, <1>11, <2>1 DEF LivePoints
    <2>3. ~PointHandled(d)'
      BY <1>1, <1>6, <1>7 DEF PointHandled
    <2>4. act.penalty \in {0, PreemptionPenalty(d)}
      BY <1>1 DEF PointsIInv, ActsOnPoint, PenaltyIsDue
    <2>5. /\ PreemptionPenalty(d) \in Nat /\ Device[d].interval \in Nat
          /\ ExecutionStart(now, d, PreemptionPenalty(d)) \in Nat
          /\ start \in Nat /\ start <= ExecutionStart(now, d, PreemptionPenalty(d))
      <3>1. /\ PreemptionPenalty(d) \in Nat /\ Device[d].interval \in Nat /\ act.penalty \in Nat
            /\ Device[d].contextSwitch \in Nat /\ Device[d].overhead \in Nat
        <4>1. PreemptionPenalty(d) \in Nat /\ Device[d].interval \in Nat
          BY <1>1, <1>3, PointTimes
        <4>2. Device[d].contextSwitch \in Nat /\ Device[d].overhead \in Nat
          BY <1>3, PlatformAssumption DEF DeviceRecord
        <4> QED BY <2>4, <4>1, <4>2
      <3> QED BY <1>1, <2>4, <3>1 DEF ExecutionStart
    <2>6. first.time <= Device[d].interval + MaxOf(now', ExecutionStart(now, d, PreemptionPenalty(d)))
      BY <1>1, <1>10, <2>5 DEF MaxOf
    <2>7. PointAhead(d)'
      BY <1>4, <1>6, <2>2, <2>6 DEF PointAhead
    <2>8. ASSUME PositiveIntervals PROVE InStep(d, first.time)'
      <3>1. Device[d].interval > 0
        BY <1>3, <1>11, <2>8 DEF PositiveIntervals
      <3>2. 1 \in 1 .. first.time /\ first.time = start + 1 * Device[d].interval
        BY <1>10, <2>5, <3>1
      <3>3. start = ExecutionStart(jobs'[running'[d]].start, d, act.penalty)
        BY <1>4, <1>6
      <3> QED BY <2>4, <3>2, <3>3 DEF InStep
    <2> QED BY <2>2, <2>3, <2>7, <2>8
  <1>12. ASSUME NEW c \in DeviceIds, HasPreemptionPoints(c), running'[c] # NoJob
         PROVE  /\ IF PointHandled(c)' THEN LivePoints(running[c])' = {} ELSE PointAhead(c)'
                /\ PositiveIntervals /\ PointsAreInStep =>
                      /\ \A e \in LivePoints(running[c])' : InStep(c, e.time)'
                      /\ PointHandled(c)' => InStep(c, now)'
    <2>1. CASE c = d
      <3>1. LivePoints(running[c])' = {first}
        BY <1>6, <1>11, <1>12, <2>1 DEF LivePoints
      <3> QED BY <1>11, <1>12, <2>1, <3>1
    <2>2. CASE c # d
      <3>1. /\ running'[c] = running[c] /\ running[c] # NoJob /\ running[c] # j
            /\ running[c] \in JobIds /\ jobs[running[c]].start \in Nat
            /\ jobs'[running[c]] = jobs[running[c]]
        BY <1>3, <1>6, <1>12, <2>2, RunningJob
      <3>2. LivePoints(running[c])' = LivePoints(running[c])
        BY <1>5, <1>10, <3>1 DEF LivePoints
      <3>3. PointHandled(c)' = PointHandled(c)
        BY <1>1, <3>1 DEF PointHandled
      <3>4. PointsAreAhead /\ \A e \in events : e.time \in Nat
        BY DEF PointsIInv, IInv, TypeOK, EventRecord
      <3>5. CASE ~PointHandled(c)
        BY <1>1, <1>12, <3>1, <3>2, <3>3, <3>4, <3>5, OtherPoints
      <3>6. CASE PointHandled(c)
        <4>1. LivePoints(running[c])' = {}
          BY <1>12, <3>1, <3>2, <3>4, <3>6 DEF PointsAreAhead
        <4>2. InStep(c, now)' <=> InStep(c, now)
          BY <1>1, <3>1 DEF InStep
        <4>3. PointsAreInStep => InStep(c, now)
          BY <1>12, <3>1, <3>6 DEF PointsAreInStep
        <4> QED BY <3>3, <3>6, <4>1, <4>2, <4>3
      <3> QED BY <3>5, <3>6
    <2> QED BY <2>1, <2>2
  <1>13. PointsAreAhead'
    BY <1>12 DEF PointsAreAhead
  <1>14. PositiveIntervals /\ PointsAreInStep => PointsAreInStep'
    BY <1>12 DEF PointsAreInStep
  <1> QED BY <1>8, <1>9, <1>13, <1>14 DEF PointsIInv

(* So does a step that changes nothing.                                     *)
LEMMA NothingMoves ==
    ASSUME IInv, PointsIInv, UNCHANGED vars
    PROVE  KeepsPoints
  <1>1. UNCHANGED <<now, running, events, phase, act>> /\ now' >= now
    BY DEF vars, deviceVars, eventVars, IInv, TypeOK
  <1>2. NoneStarts /\ PhaseKept
    BY <1>1 DEF NoneStarts, PhaseKept
  <1> QED BY <1>1, <1>2, ActKept, OtherPointEvents DEF KeepsPoints, PointsIInv

(* Every step preserves the invariant of the points.                        *)
LEMMA NextPoints ==
    ASSUME IInv, PointsIInv, [Next]_vars
    PROVE  PointsIInv' /\ (PositiveIntervals /\ PointsAreInStep => PointsAreInStep')
  <1>0. IInv' /\ (KeepsPoints => PointsIInv' /\ (PointsAreInStep => PointsAreInStep'))
    BY NextInv, PointsFrame DEF KeepsPoints, PhaseKept
  <1>1. CASE EngineStep
    <2>1. CASE \/ DispatchTerminal \/ DispatchBusy \/ DispatchWithoutModel \/ DispatchTransfer
               \/ PreemptNow \/ PreemptDeferred \/ EnqueueJob \/ DropJob
      BY <1>0, <2>1, ActionPoints
    <2>2. CASE \/ ScheduleInitialArrival \/ ScheduleReplayJob \/ ReleaseNextJob
               \/ StartRun \/ ReevaluateDone \/ ScheduleTriggeredReevaluation
      BY <1>0, <2>2, PhasePoints
    <2>3. CASE DropLoJobs \/ DispatchIdleDone
      BY <1>0, <2>3, DecisionPoints
    <2>4. CASE \/ DiscardStale \/ SimulationEnd
               \/ \E e \in events : \/ DeadlineCheck(e) \/ BudgetOverrun(e)
                                    \/ TriggeredReevaluation(e) \/ PeriodicReevaluation(e)
      BY <1>0, <2>4, PopPoints
    <2>5. CASE DispatchRun \/ ReschedulePoint
      BY <1>0, <2>5, DispatchRunPoints, ReschedulePointPoints
    <2>6. CASE Ended
      BY <1>0, <2>6, NothingMoves DEF Ended
    <2> QED BY <1>1, <2>1, <2>2, <2>3, <2>4, <2>5, <2>6 DEF EngineStep
  <1>2. CASE SchedulerStep
    <2>1. CASE \E e \in EventsOf("PreemptionPoint") :
                  \E a \in PointActions(e.dev, e.job) : PreemptionPoint(e, a)
      BY <1>0, <2>1, PreemptionPointPoints
    <2>2. CASE \/ \E e : \E a \in ArrivalActions(e.job) : TaskArrival(e, a) \/ TransferComplete(e, a)
               \/ \E e : \E a \in FreeActions(e.dev) : JobComplete(e, a)
      BY <1>0, <2>2, PopPoints
    <2>3. CASE \/ SchedulerDropsNoMore \/ \E j : SchedulerDropsLo(j)
               \/ \E a \in IdleActions(phase.k) : DispatchIdle(a)
               \/ \E a \in ReevaluationActions(phase.k) : Reevaluate(a)
      BY <1>0, <2>3, DecisionPoints
    <2> QED BY <1>2, <2>1, <2>2, <2>3 DEF SchedulerStep
  <1>3. CASE UNCHANGED vars
    BY <1>0, <1>3, NothingMoves
  <1> QED BY <1>1, <1>2, <1>3 DEF Next

(* At first nothing runs and no action is under way.                        *)
LEMMA InitPoints == Init => PointsIInv /\ PointsAreInStep
  <1> SUFFICES ASSUME Init PROVE PointsIInv /\ PointsAreInStep
    OBVIOUS
  <1>1. /\ \A d \in DeviceIds : running[d] = NoJob
        /\ phase.op # "point" /\ act.op = "none"
    BY DEF Init, Phase, NoAction
  <1> QED BY <1>1 DEF PointsIInv, PointsAreInStep, PointIsCurrent, PointsAreAhead, ActsOnPoint,
                      ActsOnAnother, PenaltyIsDue, AtPointOnly

(* The inductive invariant of the preemption points holds in every          *)
(* reachable state.                                                         *)
THEOREM PointsInvariance == Spec => []PointsIInv
  <1>1. Init => PointsIInv
    BY InitPoints
  <1>2. IInv /\ PointsIInv /\ [Next]_vars => PointsIInv'
    BY NextPoints
  <1> QED BY <1>1, <1>2, Invariance, PTL DEF Spec

(* A job that runs on a device with preemption points always has its next   *)
(* point ahead, one interval away at most.                                  *)
THEOREM PointsNeverEnd == Spec => []PointsRecur
  <1>1. PointsIInv => PointsRecur
    BY DEF PointsIInv, PointsAreAhead, PointHandled, PointsRecur
  <1> QED BY <1>1, PointsInvariance, PTL

(* A step that suspends a job is a preemption the device allows there.      *)
LEMMA SuspendsInStep ==
    ASSUME IInv, PointsIInv, PointsAreInStep, PositiveIntervals, [Next]_vars
    PROVE  SuspensionAllowed
  <1> SUFFICES ASSUME NEW j \in JobIds, jobs[j].state = "Running", jobs'[j].state = "Suspended"
               PROVE  \/ Device[jobs[j].dev].preemption = "Fully"
                      \/ HasPreemptionPoints(jobs[j].dev) /\ AtPreemptionPoint(j, jobs[j].dev)
    BY DEF SuspensionAllowed
  <1>1. PreemptNow /\ j = act.job
    BY NextJobs DEF JobsAllowed, JobAllowed
  <1> PICK d : d = act.dev
    OBVIOUS
  <1>2. d \in DeviceIds /\ running[d] = j /\ j # NoJob /\ jobs[j].dev = d
    <2>1. running[d] = j /\ j # NoJob /\ d \in DeviceIds
      BY <1>1 DEF PreemptNow, Executing, IInv, ActionIsSound, SoundAction, Placeable, JobIds,
                  NoJob
    <2> QED BY <2>1, RunningJob
  <1>3. CASE Device[d].preemption = "Fully"
    BY <1>2, <1>3
  <1>4. CASE Device[d].preemption \in {"Limited", "Interrupt"} /\ act.atPoint
    <2>1. PointHandled(d)
      BY <1>1, <1>2, <1>4 DEF PreemptNow, Executing, PointsIInv, ActsOnPoint, AtPointOnly, PointHandled
    <2>2. HasPreemptionPoints(d) /\ InStep(d, now)
      BY <1>2, <1>4, <2>1 DEF PointsAreInStep, HasPreemptionPoints
    <2>3. PICK penalty \in {0, PreemptionPenalty(d)}, n \in 1 .. now :
             now = ExecutionStart(jobs[j].start, d, penalty) + n * Device[d].interval
      BY <1>2, <2>2 DEF InStep
    <2> PICK start : start = ExecutionStart(jobs[j].start, d, penalty)
      OBVIOUS
    <2> PICK total : total = n * Device[d].interval
      OBVIOUS
    <2>4. start \in Nat /\ Device[d].interval \in Nat /\ PreemptionPenalty(d) \in Nat
      <3>1. jobs[j].start \in Nat
        BY <1>2, RunningJob
      <3> QED BY <1>2, <2>3, <3>1, PointTimes
    <2>5. total \in Nat /\ total >= n
      <3> PICK more : more = Device[d].interval - 1
        OBVIOUS
      <3>1. Device[d].interval > 0
        BY <1>2, <2>2 DEF PositiveIntervals
      <3>2. more \in Nat /\ Device[d].interval = 1 + more
        BY <2>4, <3>1
      <3>3. n \in Nat /\ n * (1 + more) = n + n * more /\ n * more \in Nat
        BY <2>3, <3>2
      <3> QED BY <3>2, <3>3
    <2>6. now - start = total
      BY <2>3, <2>4, <2>5
    <2>7. n \in 1 .. (now - start) /\ now - start = n * Device[d].interval
      BY <2>3, <2>5, <2>6
    <2> QED BY <1>2, <2>2, <2>3, <2>7 DEF AtPreemptionPoint
  <1> QED BY <1>1, <1>3, <1>4 DEF PreemptNow, AllowsPreemption

(* On a platform with positive intervals a job is suspended only where its  *)
(* device can be preempted, whatever the scheduler asks for and whenever.   *)
THEOREM SuspensionsAreAtPoints == PositiveIntervals => (Spec => SuspendsOnlyAtPoints)
  <1> SUFFICES ASSUME PositiveIntervals PROVE Spec => SuspendsOnlyAtPoints
    OBVIOUS
  <1>1. Init => PointsAreInStep
    BY InitPoints
  <1>2. IInv /\ PointsIInv /\ PointsAreInStep /\ [Next]_vars => PointsAreInStep'
    BY NextPoints
  <1>3. IInv /\ PointsIInv /\ PointsAreInStep /\ [Next]_vars => [SuspensionAllowed]_vars
    BY SuspendsInStep
  <1> QED BY <1>1, <1>2, <1>3, Invariance, PointsInvariance, PTL DEF Spec, SuspendsOnlyAtPoints

-----------------------------------------------------------------------------
(* Drops                                                                    *)

(* Arrivals are only scheduled for the jobs that are created.               *)
LEMMA ArrivalsOfNewJobs ==
    ASSUME IInv, ScheduleInitialArrival \/ ScheduleReplayJob \/ ReleaseNextJob,
           NEW e \in events', e \notin events, e.kind = "TaskArrival"
    PROVE  jobs'[e.job].state = "Released"
  <1>1. ASSUME NEW r, NEW t, AddJob(r, t), r.state = "Released"
        PROVE  jobs'[e.job].state = "Released"
    <2> PICK arrival : arrival = Event(r.release, seq, "TaskArrival", nextJob, 0, NoDevice)
      OBVIOUS
    <2> PICK check : check = Event(t, seq + 1, "DeadlineCheck", nextJob, 0, NoDevice)
      OBVIOUS
    <2>1. arrival.job = nextJob /\ check.kind = "DeadlineCheck"
      BY DEF Event
    <2>2. events' = events \cup {arrival, check}
      BY <1>1 DEF AddJob
    <2>3. e = arrival
      BY <2>1, <2>2
    <2>4. nextJob \in Nat /\ jobs'[nextJob] = r
      BY <1>1 DEF AddJob, AppendJob, IInv, TypeOK
    <2> QED BY <1>1, <2>1, <2>3, <2>4
  <1>2. ASSUME NEW t, NEW release, ScheduleJobRelease(t, release)
        PROVE  jobs'[e.job].state = "Released"
    <2>1. NewJob(t, release, release + Task[t].deadline, Unset).state = "Released"
      BY DEF NewJob
    <2> QED BY <1>1, <1>2, <2>1 DEF ScheduleJobRelease, eventVars
  <1>3. CASE ScheduleInitialArrival
    BY <1>2, <1>3 DEF ScheduleInitialArrival, eventVars
  <1>4. CASE ScheduleReplayJob
    <2>1. CASE phase.k \in DOMAIN ReplayJobs
      <3>1. PICK r, t : AddJob(r, t) /\ r.state = "Released"
        BY <1>4, <2>1 DEF ScheduleReplayJob, NewJob
      <3> QED BY <1>1, <3>1
    <2>2. CASE phase.k \notin DOMAIN ReplayJobs
      BY <1>4, <2>2 DEF ScheduleReplayJob, eventVars
    <2> QED BY <2>1, <2>2
  <1>5. CASE ReleaseNextJob
    BY <1>2, <1>5 DEF ReleaseNextJob, eventVars
  <1> QED BY <1>3, <1>4, <1>5

(* No other step schedules an arrival.                                      *)
LEMMA ArrivalsAreOld ==
    ASSUME IInv, [Next]_vars,
           ~(ScheduleInitialArrival \/ ScheduleReplayJob \/ ReleaseNextJob),
           NEW e \in events', e.kind = "TaskArrival"
    PROVE  e \in events
  <1>1. CASE \/ UNCHANGED events
             \/ \E f \in events : events' = events \ {f}
    BY <1>1
  <1>2. CASE DispatchRun
    <2>1. PICK r : events' = events \cup StartEvents(act.job, r, act.dev, act.penalty)
      BY <1>2 DEF DispatchRun
    <2>2. \A f \in StartEvents(act.job, r, act.dev, act.penalty) : f.kind # "TaskArrival"
      BY DEF StartEvents, Event
    <2> QED BY <2>1, <2>2
  <1>3. CASE DispatchTransfer
    <2>1. PICK source, ver : InitiateTransfer(act.job, source, act.dev, ver)
      BY <1>3 DEF DispatchTransfer
    <2>2. \/ UNCHANGED events
          \/ \E t : events' = events \cup
                       {Event(t, seq, "TransferComplete", act.job, ver, act.dev)}
      BY <2>1 DEF InitiateTransfer
    <2>3. \A t : Event(t, seq, "TransferComplete", act.job, ver, act.dev).kind = "TransferComplete"
      BY DEF Event
    <2> QED BY <2>2, <2>3
  <1>4. CASE ReschedulePoint
    <2>1. \/ UNCHANGED events
          \/ \E t, v : events' = events \cup
                          {Event(t, seq, "PreemptionPoint", phase.job, v, phase.k)}
      BY <1>4 DEF ReschedulePoint, eventVars
    <2>2. \A t, v : Event(t, seq, "PreemptionPoint", phase.job, v, phase.k).kind = "PreemptionPoint"
      BY DEF Event
    <2> QED BY <2>1, <2>2
  <1>5. CASE StartRun \/ ReevaluateDone
    <2> DEFINE end == Event(Duration, seq, "SimulationEnd", NoJob, 0, NoDevice)
               next(t) == Event(t, seq + 1, "Periodic", NoJob, tick.gen + 1, NoDevice)
    <2>1. \/ UNCHANGED events
          \/ events' = events \cup {end}
          \/ \E t : events' = events \cup {end} \cup {next(t)}
          \/ events' = events \cup {}
          \/ \E t : events' = events \cup {} \cup {next(t)}
      BY <1>5 DEF StartRun, ReevaluateDone, SchedulePeriodicReevaluation, eventVars
    <2>2. end.kind = "SimulationEnd" /\ \A t : next(t).kind = "Periodic"
      BY DEF Event
    <2> HIDE DEF end, next
    <2> QED BY <2>1, <2>2
  <1>6. CASE ScheduleTriggeredReevaluation
    <2>1. \/ UNCHANGED events
          \/ \E t : events' = events \cup
                       {Event(t, seq, "Triggered", NoJob, trig.gen + 1, NoDevice)}
      BY <1>6 DEF ScheduleTriggeredReevaluation, eventVars
    <2>2. \A t : Event(t, seq, "Triggered", NoJob, trig.gen + 1, NoDevice).kind = "Triggered"
      BY DEF Event
    <2> QED BY <2>1, <2>2
  <1>7. CASE DropJob
    BY <1>7, ReleaseBusEvents DEF DropJob
  <1>8. CASE \E f, a : TransferComplete(f, a)
    <2>1. PICK f, a : TransferComplete(f, a)
      BY <1>8
    <2>2. ReleaseBus({y \in active : y.job = f.job}, pending, events \ {f}, f.time)
      BY <2>1 DEF TransferComplete
    <2> QED BY <2>2, ReleaseBusEvents
  <1>9. CASE EngineStep
    <2>1. CASE \/ DispatchTerminal \/ DispatchBusy \/ DispatchWithoutModel \/ PreemptNow
               \/ PreemptDeferred \/ EnqueueJob \/ DropLoJobs \/ DispatchIdleDone \/ Ended
      <3>1. UNCHANGED events
        BY <2>1 DEF DispatchTerminal, DispatchBusy, DispatchWithoutModel, PreemptNow,
                    PreemptDeferred, EnqueueJob, DropLoJobs, DispatchIdleDone, Ended,
                    eventVars, vars
      <3> QED BY <1>1, <3>1
    <2>2. CASE \/ DiscardStale \/ SimulationEnd
               \/ \E f \in events : \/ DeadlineCheck(f) \/ BudgetOverrun(f)
                                    \/ TriggeredReevaluation(f) \/ PeriodicReevaluation(f)
      <3>1. \E f \in events : events' = events \ {f}
        BY <2>2 DEF DiscardStale, SimulationEnd, DeadlineCheck, BudgetOverrun,
                    TriggeredReevaluation, PeriodicReevaluation
      <3> QED BY <1>1, <3>1
    <2> QED BY <1>2, <1>3, <1>4, <1>5, <1>6, <1>7, <1>9, <2>1, <2>2 DEF EngineStep
  <1>10. CASE SchedulerStep
    <2>1. CASE \E f, a : TaskArrival(f, a) \/ JobComplete(f, a) \/ PreemptionPoint(f, a)
      <3>1. \E f \in events : events' = events \ {f}
        BY <2>1 DEF TaskArrival, JobComplete, PreemptionPoint, Handles, Pops
      <3> QED BY <1>1, <3>1
    <2>2. CASE \/ SchedulerDropsNoMore \/ \E j : SchedulerDropsLo(j)
               \/ \E a : DispatchIdle(a) \/ Reevaluate(a)
      <3>1. UNCHANGED events
        BY <2>2 DEF SchedulerDropsNoMore, SchedulerDropsLo, DispatchIdle, Reevaluate, eventVars
      <3> QED BY <1>1, <3>1
    <2> QED BY <1>8, <1>10, <2>1, <2>2 DEF SchedulerStep
  <1>11. CASE UNCHANGED vars
    BY <1>1, <1>11 DEF vars, eventVars
  <1> QED BY <1>9, <1>10, <1>11 DEF Next

(* A job completes only while it runs, long after its arrival.              *)
LEMMA NextArrivals ==
    IInv /\ CompletedJobsHaveArrived /\ [Next]_vars => CompletedJobsHaveArrived'
  <1> SUFFICES ASSUME IInv, CompletedJobsHaveArrived, [Next]_vars,
                      NEW e \in events', e.kind = "TaskArrival"
               PROVE  jobs'[e.job].state # "Completed"
    BY DEF CompletedJobsHaveArrived
  <1>1. CASE e \in events
    <2>1. e.job \in JobIds /\ jobs[e.job].state \in {"Released"} \cup TerminalStates
      BY <1>1 DEF IInv, EventsAreSound, EventsAreWellFormed, ArrivalsAreFresh
    <2>2. jobs[e.job].state # "Completed"
      BY <1>1 DEF CompletedJobsHaveArrived
    <2>3. JobAllowed(e.job)
      BY <2>1, NextJobs DEF JobsAllowed
    <2> QED BY <2>1, <2>2, <2>3 DEF JobAllowed, IsTerminal, LegalSuccessors
  <1>2. CASE e \notin events
    BY <1>2, ArrivalsAreOld, ArrivalsOfNewJobs
  <1> QED BY <1>1, <1>2

(* A drop takes either the job a scheduler was asked about or the one that  *)
(* runs on the device it is to leave.                                       *)
LEMMA DropAnswers ==
    /\ NoAction.op # "drop"
    /\ \A j, d, p : Dispatch(j, d, p).op # "drop" /\ Enqueue(j, d).op # "drop"
    /\ \A j, a : a \in ArrivalActions(j) /\ a.op = "drop" =>
          a.job = j \/ \E d \in DeviceIds : running[d] # NoJob /\ a.job = running[d]
    /\ \A j, d, a : a \in PointActions(d, j) /\ a.op = "drop" => a.job = j
    /\ \A d, a : a \in FreeActions(d) \cup IdleActions(d) \cup ReevaluationActions(d) =>
          a.op # "drop"
  <1>1. NoAction.op # "drop"
    BY DEF NoAction
  <1>2. \A j, d, p : Dispatch(j, d, p).op # "drop" /\ Enqueue(j, d).op # "drop"
    BY DEF Dispatch, Enqueue, NoAction
  <1>3. \A v, j, d, x : Preempt(v, j, d, x).op # "drop"
    BY DEF Preempt, NoAction
  <1>4. \A j, b, d : Drop(j).job = j /\ DropThenDispatch(j, b, d).job = j
    BY DEF Drop, DropThenDispatch, NoAction
  <1>5. ASSUME NEW j, NEW a \in ArrivalActions(j), a.op = "drop"
        PROVE  a.job = j \/ \E d \in DeviceIds : running[d] # NoJob /\ a.job = running[d]
    <2>1. a = Drop(j) \/ \E d \in CompatibleBusy(j) : a = DropThenDispatch(running[d], j, d)
      BY <1>1, <1>2, <1>3, <1>5 DEF ArrivalActions
    <2>2. CASE a = Drop(j)
      BY <1>4, <2>2
    <2>3. ASSUME NEW d \in CompatibleBusy(j), a = DropThenDispatch(running[d], j, d)
          PROVE  d \in DeviceIds /\ running[d] # NoJob /\ a.job = running[d]
      BY <1>4, <2>3 DEF CompatibleBusy, Compatible
    <2> QED BY <2>1, <2>2, <2>3
  <1>6. ASSUME NEW j, NEW d, NEW a \in PointActions(d, j), a.op = "drop" PROVE a.job = j
    <2>1. \/ a = NoAction
          \/ \E q \in queue[d] : a = Preempt(j, q, d, TRUE) \/ a = DropThenDispatch(j, q, d)
      BY <1>6 DEF PointActions
    <2>2. PICK q : a = DropThenDispatch(j, q, d)
      BY <1>1, <1>3, <1>6, <2>1
    <2> QED BY <1>4, <2>2
  <1>7. \A d, a : a \in FreeActions(d) => a.op # "drop"
    BY <1>1, <1>2 DEF FreeActions
  <1>8. \A d, a : a \in IdleActions(d) => a.op # "drop"
    BY <1>1, <1>7 DEF IdleActions
  <1>9. \A d, a : a \in ReevaluationActions(d) => a.op # "drop"
    BY <1>1, <1>3 DEF ReevaluationActions
  <1> QED BY <1>1, <1>2, <1>5, <1>6, <1>7, <1>8, <1>9

(* A drop that begins is of a job that has not completed.                   *)
LEMMA DropBegins ==
    ASSUME IInv, CompletedJobsHaveArrived, Next, act'.op = "drop", ~UNCHANGED vars
    PROVE  jobs'[act'.job].state # "Completed"
  <1>1. ASSUME act' = act, act.op = "none" PROVE FALSE
    BY <1>1
  <1>2. ASSUME NEW d \in DeviceIds, running[d] # NoJob
        PROVE  running[d] \in JobIds /\ jobs[running[d]].state = "Running"
    BY <1>2, RunningJob
  <1>3. CASE EngineStep
    <2>1. CASE \/ DispatchTerminal \/ DispatchBusy \/ DispatchWithoutModel \/ DispatchTransfer
               \/ DispatchRun \/ PreemptNow \/ PreemptDeferred \/ EnqueueJob \/ DropJob
      <3>1. \/ act' = NoAction
            \/ \E j, d, p : act' = Dispatch(j, d, p) \/ act' = Enqueue(j, d)
        BY <2>1 DEF DispatchTerminal, DispatchBusy, DispatchWithoutModel, DispatchTransfer,
                    DispatchRun, MayDispatch, PreemptNow, PreemptDeferred, EnqueueJob, DropJob
      <3> QED BY <3>1, DropAnswers
    <2>2. CASE ScheduleInitialArrival \/ ScheduleReplayJob \/ StartRun
      <3>1. act' = act /\ act.op = "none"
        BY <2>2 DEF ScheduleInitialArrival, ScheduleReplayJob, StartRun, IInv, PhaseIsSound
      <3> QED BY <1>1, <3>1
    <2>3. CASE \/ ReleaseNextJob \/ ReschedulePoint \/ DispatchIdleDone \/ ReevaluateDone
               \/ ScheduleTriggeredReevaluation
      <3>1. act' = act /\ act.op = "none"
        BY <2>3 DEF ReleaseNextJob, ReschedulePoint, DispatchIdleDone, ReevaluateDone,
                    ScheduleTriggeredReevaluation, Continues, Reevaluating
      <3> QED BY <1>1, <3>1
    <2>4. CASE \/ DiscardStale \/ SimulationEnd
               \/ \E e \in events : \/ DeadlineCheck(e) \/ BudgetOverrun(e)
                                    \/ TriggeredReevaluation(e) \/ PeriodicReevaluation(e)
      <3>1. act' = act /\ act.op = "none"
        BY <2>4 DEF DiscardStale, SimulationEnd, DeadlineCheck, BudgetOverrun,
                    TriggeredReevaluation, PeriodicReevaluation, Handles, Pops, Polling
      <3> QED BY <1>1, <3>1
    <2>5. CASE DropLoJobs
      <3>1. act.op = "none" /\ jobs' = jobs
        BY <2>5 DEF DropLoJobs, Continues, jobVars
      <3>2. PICK j \in UnfinishedLoJobs : act' = Drop(j)
        BY <1>1, <2>5, <3>1 DEF DropLoJobs, FirstOf
      <3>3. act'.job = j /\ ~IsTerminal(j)
        BY <3>2 DEF Drop, NoAction, UnfinishedLoJobs
      <3> QED BY <3>1, <3>3 DEF IsTerminal, TerminalStates
    <2> QED BY <1>3, <2>1, <2>2, <2>3, <2>4, <2>5 DEF EngineStep, Ended
  <1>4. CASE SchedulerStep
    <2>1. ASSUME NEW e \in EventsOf("TaskArrival"), NEW a \in ArrivalActions(e.job),
                 TaskArrival(e, a)
          PROVE  jobs'[act'.job].state # "Completed"
      <3>1. act' = a /\ jobs' = jobs
        BY <2>1 DEF TaskArrival, jobVars
      <3>2. jobs[e.job].state # "Completed"
        BY DEF EventsOf, CompletedJobsHaveArrived
      <3> QED BY <1>2, <3>1, <3>2, DropAnswers
    <2>2. ASSUME NEW e \in EventsOf("PreemptionPoint"), NEW a \in PointActions(e.dev, e.job),
                 PreemptionPoint(e, a)
          PROVE  jobs'[act'.job].state # "Completed"
      <3>1. jobs' = jobs /\ jobs[e.job].state = "Running" /\ running[e.dev] = e.job
        BY <2>2, LiveRunningEvent DEF PreemptionPoint, Handles, EventsOf, jobVars
      <3>2. act' = a
        BY <2>2, <3>1 DEF PreemptionPoint
      <3> QED BY <3>1, <3>2, DropAnswers
    <2>3. ASSUME NEW e \in EventsOf("TransferComplete"), NEW a \in ArrivalActions(e.job),
                 TransferComplete(e, a)
          PROVE  jobs'[act'.job].state # "Completed"
      <3>1. act.op = "none" /\ e.job \in JobIds
        BY <2>3 DEF TransferComplete, Handles, Pops, Polling, EventsOf, IInv, EventsAreSound,
                    EventsAreWellFormed, VersionedKinds
      <3>2. ~IsTerminal(e.job) /\ act' = a
        BY <1>1, <2>3, <3>1 DEF TransferComplete
      <3>3. PICK r : jobs' = [jobs EXCEPT ![e.job] = Settle(r, "Ready")]
        BY <2>3, <3>2 DEF TransferComplete
      <3>4. \A k \in JobIds : k # e.job => jobs'[k] = jobs[k]
        BY <3>3 DEF IInv, TypeOK
      <3>5. JobAllowed(e.job)
        BY <2>3, <3>1, NextJobs DEF Next, SchedulerStep, JobsAllowed
      <3>6. jobs[e.job].state = "Transferring"
        BY <2>3, <3>1 DEF TransferComplete, Handles, IsStale, EventsOf, IInv, EventsAreSound,
                          LiveEventsAreMeant, VersionedKinds
      <3>7. jobs'[e.job].state # "Completed"
        BY <3>5, <3>6 DEF JobAllowed, LegalSuccessors
      <3> QED BY <1>2, <3>2, <3>4, <3>6, <3>7, DropAnswers
    <2>4. ASSUME NEW j \in JobIds, SchedulerDropsLo(j)
          PROVE  jobs'[act'.job].state # "Completed"
      <3>1. jobs' = jobs /\ act'.job = j /\ j \in VisibleLoJobs
        BY <2>4 DEF SchedulerDropsLo, Drop, NoAction, jobVars
      <3>2. PICK d \in DeviceIds : j \in queue[d] \/ running[d] = j
        BY <3>1 DEF VisibleLoJobs
      <3>3. j # NoJob
        BY DEF JobIds, NoJob
      <3> QED BY <1>2, <3>1, <3>2, <3>3 DEF IInv, Placement, QueuesHoldWaitingJobs
    <2>5. ASSUME NEW e \in EventsOf("JobComplete"), NEW a \in FreeActions(e.dev),
                 JobComplete(e, a)
          PROVE  FALSE
      <3>1. act.op = "none" /\ act' \in {a, act}
        BY <2>5 DEF JobComplete, Handles, Pops, Polling
      <3> QED BY <1>1, <3>1, DropAnswers
    <2>6. CASE SchedulerDropsNoMore
      BY <1>1, <2>6 DEF SchedulerDropsNoMore, Continues
    <2>7. ASSUME NEW a, \/ a \in IdleActions(phase.k) /\ DispatchIdle(a)
                        \/ a \in ReevaluationActions(phase.k) /\ Reevaluate(a)
          PROVE  FALSE
      <3>1. act' = a
        BY <2>7 DEF DispatchIdle, Reevaluate
      <3> QED BY <2>7, <3>1, DropAnswers
    <2> QED BY <1>4, <2>1, <2>2, <2>3, <2>4, <2>5, <2>6, <2>7 DEF SchedulerStep
  <1> QED BY <1>3, <1>4 DEF Next

(* Every step preserves the invariant of the drops.                         *)
LEMMA NextDrops == IInv /\ DropsIInv /\ [Next]_vars => DropsIInv'
  <1> SUFFICES ASSUME IInv, DropsIInv, [Next]_vars PROVE DropsIInv'
    OBVIOUS
  <1>1. CompletedJobsHaveArrived'
    BY NextArrivals DEF DropsIInv
  <1>2. CASE UNCHANGED vars
    BY <1>1, <1>2 DEF DropsIInv, DropsSpareCompletedJobs, vars, jobVars
  <1>3. CASE ~UNCHANGED vars
    BY <1>1, <1>3, DropBegins DEF DropsIInv, DropsSpareCompletedJobs
  <1> QED BY <1>2, <1>3

(* Whatever a scheduler answers, no job that has completed is ever dropped, *)
(* and so no drop takes the edge transfers of a completed node with it.     *)
THEOREM CompletedJobsAreNeverDropped == Spec => []DropsSpareCompletedJobs
  <1>1. Init => DropsIInv
    BY DEF Init, DropsIInv, CompletedJobsHaveArrived, DropsSpareCompletedJobs, NoAction
  <1>2. IInv /\ DropsIInv /\ [Next]_vars => DropsIInv'
    BY NextDrops
  <1>3. DropsIInv => DropsSpareCompletedJobs
    BY DEF DropsIInv
  <1> QED BY <1>1, <1>2, <1>3, Invariance, PTL DEF Spec
=============================================================================
