----------------------------- MODULE EngineInv -----------------------------
(***************************************************************************)
(* The inductive invariant of Engine.  Placement and LiveEventsAreMeant    *)
(* are not inductive alone: whether a step keeps them depends on what the  *)
(* pending events, the waiting transfers, the action being executed and    *)
(* the rest of the handler may still refer to.                             *)
(***************************************************************************)
EXTENDS EngineAccounting

(* A device is named by every event that needs one, and preemption points   *)
(* are only ever scheduled on a device that has them.                       *)
EventsAreWellFormed ==
    \A e \in events :
        /\ e.kind \in VersionedKinds \cup {"TaskArrival", "DeadlineCheck"} => e.job \in JobIds
        /\ e.kind \in {"JobComplete", "PreemptionPoint", "TransferComplete"} => e.dev \in DeviceIds
        /\ e.kind = "PreemptionPoint" => HasPreemptionPoints(e.dev)

(* A job arrives once: until then it is as it was created, unless a drop or *)
(* a deadline miss has already ended it.                                    *)
ArrivalsAreFresh ==
    \A e \in events : e.kind = "TaskArrival" =>
        /\ jobs[e.job].state \in {"Released"} \cup TerminalStates
        /\ \A f \in events : f.kind = "TaskArrival" /\ f.job = e.job => f = e

(* A transfer that waits for a bus is of a job that still waits for it, or  *)
(* is of an older version.                                                  *)
WaitingTransfersAreMeant ==
    \A p \in pending :
        /\ p.ver <= jobs[p.job].ver
        /\ p.ver = jobs[p.job].ver =>
              jobs[p.job].state = "Transferring" /\ jobs[p.job].dev = p.dev

(* A job that has run has an execution-time model on its device.            *)
StartedJobsHaveModels ==
    \A j \in JobIds : jobs[j].state \in {"Running", "Suspended"} =>
        jobs[j].dev \in DeviceIds /\ ModelFor(jobs[j].task, Device[jobs[j].dev].type) # {}

(* The job an action is about to place: finished, or in no slot, on no bus  *)
(* and in no queue but the one of its target, its arrival behind it.        *)
NotArriving(j) == \A e \in events : e.kind = "TaskArrival" => e.job # j
Queued(j) == \E d \in DeviceIds : j \in queue[d]
Placeable(j, d) ==
    /\ j \in JobIds
    /\ d \in DeviceIds
    /\ \/ IsTerminal(j)
       \/ /\ jobs[j].state \in {"Released", "Ready", "Suspended"}
          /\ NotArriving(j)
          /\ \A c \in DeviceIds : j \in queue[c] => c = d

SoundAction(a) ==
    /\ a.op = "dispatch" =>
          /\ Placeable(a.job, a.dev)
          /\ Queued(a.job) => running[a.dev] = NoJob
    /\ a.op = "enqueue" =>
          /\ Placeable(a.job, a.dev)
          /\ ~Queued(a.job)
    /\ a.op = "preempt" =>
          /\ a.job \in JobIds
          /\ Placeable(a.by, a.dev)
          /\ Queued(a.by) => AllowsPreemption(a.dev, a.atPoint) /\ running[a.dev] = a.job
    /\ a.op = "drop" =>
          /\ a.job \in JobIds
          /\ a.by # NoJob => Placeable(a.by, a.dev) /\ running[a.dev] = a.job
ActionIsSound == SoundAction(act)

(* The rest of a handler refers to existing tasks, devices and jobs.        *)
PhaseIsSound ==
    /\ phase.op = "release" => phase.k \in TaskIds
    /\ phase.op = "point" => /\ phase.k \in DeviceIds
                             /\ phase.job \in JobIds
                             /\ HasPreemptionPoints(phase.k)
    /\ phase.op \in {"setup", "replay", "start", "ended"} => act.op = "none"

(* The clock only moves forward: no event is in the past, the periodic tick *)
(* is where the engine believes it is, and until run() starts it is time 0. *)
ClockIsSound ==
    /\ tick.at # Unset => tick.at = tick.next
    /\ phase.op = "reevaluateTick" => tick.at = Unset /\ tick.next = now
    /\ phase.op \in {"setup", "replay", "start"} => tick.at = Unset /\ now = 0

(* Everything the pending events and the waiting transfers say is true.     *)
EventsAreSound ==
    /\ LiveEventsAreMeant
    /\ EventsAreWellFormed
    /\ ArrivalsAreFresh
    /\ WaitingTransfersAreMeant
    /\ StartedJobsHaveModels
    /\ NothingInThePast

(* All that a step needs to know to keep Placement and LiveEventsAreMeant.  *)
IInv ==
    /\ TypeOK
    /\ Placement
    /\ EventsAreSound
    /\ ActionIsSound
    /\ PhaseIsSound
    /\ ClockIsSound

-----------------------------------------------------------------------------
(* The inductive invariant of the transfer manager.  BusExclusive needs the *)
(* queue of a bus to have one head, and TransfersAccounted that what waits  *)
(* is worth waiting for and can be started when the bus is free.            *)

(* The waiting transfers are numbered in the order of their requests.       *)
StampsAreDistinct ==
    \A p \in pending :
        /\ p.stamp < seq
        /\ \A q \in pending : q.stamp = p.stamp => q = p

(* Only a job that waits for its data holds or awaits a bus, or one that    *)
(* has missed its deadline meanwhile: the transfer manager is not told.     *)
TransfersAreWanted ==
    \A x \in active \cup pending : jobs[x.job].state \in {"Transferring", "DeadlineMissed"}

(* The bus a transfer waits for reaches its target.                         *)
WaitingTransfersCanStart == \A p \in pending : LinkOnBus(p.bus, p.dev) # {}

BusIInv ==
    /\ BusExclusive
    /\ TransfersAccounted
    /\ StampsAreDistinct
    /\ TransfersAreWanted
    /\ WaitingTransfersCanStart

(* The inductive invariant of the waiting transfers.  BusWorkConserving     *)
(* needs the job that holds a bus to wait for nothing else: a job has one   *)
(* transfer, and its end frees one bus.                                     *)
BusesServeTheWaiting == \A p \in pending : BusBusy(p.bus)
OneTransferPerJob ==
    /\ \A p \in pending, a \in active : p.job # a.job
    /\ \A p, q \in pending : p.job = q.job => p = q
    /\ \A a, b \in active : a.job = b.job => a = b

ServedIInv == BusesServeTheWaiting /\ OneTransferPerJob

(* The inductive invariant of the drops.  An answer to an arrival may drop  *)
(* the arriving job, so DropsSpareCompletedJobs needs that a job that has   *)
(* completed has no arrival ahead.                                          *)
CompletedJobsHaveArrived ==
    \A e \in events : e.kind = "TaskArrival" => jobs[e.job].state # "Completed"
DropsIInv == CompletedJobsHaveArrived /\ DropsSpareCompletedJobs

(* From the end of the purge on there is no unfinished LO job.              *)
PurgeIsComplete == phase.op = "idle" => \A j \in JobIds : IsLo(j) => IsTerminal(j)

-----------------------------------------------------------------------------
(* The inductive invariant of the executed work: WorkConserved needs the    *)
(* demand of a job to be known before it executes anything, and the books   *)
(* of work and of busy time agree only if a job changes its device before   *)
(* it has executed anything and completes no earlier than it can be done.   *)

UnbegunStates == {"Released", "Ready", "Transferring"}

WorkSound(r) ==
    /\ r.actual = Unset => r.exec = 0
    /\ r.actual # Unset => r.exec <= r.actual
    /\ r.state \in {"Running", "Completed"} => r.actual # Unset
    /\ r.state = "Completed" => r.exec = r.actual
    /\ r.state \in UnbegunStates => r.exec = 0

(* The completion that will be believed leaves the job the time it needs.   *)
CompletionsAreDue ==
    \A j \in JobIds : jobs[j].state = "Running" =>
        \A e \in LiveCompletions(j) :
            e.time >= jobs[j].start + WorkToWall(Remaining(jobs[j]), jobs[j].dev)

WorkIInv ==
    /\ \A j \in JobIds : WorkSound(jobs[j])
    /\ CompletionScheduled
    /\ CompletionsAreDue
    /\ BusyWithinElapsed
    /\ WorkWithinBusyTime

-----------------------------------------------------------------------------
(* The inductive invariant of the reevaluations: what is not recorded as    *)
(* outstanding is not in the event queue either, what is lies no further    *)
(* ahead than one interval (else a trigger would add a second one), and the *)
(* tick that is being handled is in step.                                   *)

BeforeRun == phase.op \in {"setup", "replay", "start"}

TriggerIsRecorded ==
    IF trig.at = Unset
    THEN TriggeredEvents = {}
    ELSE /\ \E e \in TriggeredEvents :
               TriggeredEvents = {e} /\ e.ver = trig.gen /\ e.time = trig.at
         /\ trig.at <= now + TriggeredInterval

TickIsRecorded ==
    IF tick.at = Unset
    THEN PeriodicEvents = {}
    ELSE \E e \in PeriodicEvents :
            PeriodicEvents = {e} /\ e.ver = tick.gen /\ e.time = tick.at

TickIsInStep ==
    /\ BeforeRun => tick.gen = 0
    /\ tick.at # Unset \/ phase.op = "reevaluateTick" =>
          tick.next = tick.gen * PeriodicInterval

ReevaluationIInv ==
    /\ TriggerIsRecorded
    /\ TickIsRecorded
    /\ TickIsInStep

-----------------------------------------------------------------------------
(* The inductive invariant of the preemption points: a job on a device with *)
(* points has one ahead unless it has just reached one, and all of them lie *)
(* in step with its start.                                                  *)

PointHandled(d) == phase.op = "point" /\ phase.job = running[d]

PointsAreAhead ==
    \A d \in DeviceIds : HasPreemptionPoints(d) /\ running[d] # NoJob =>
        IF PointHandled(d) THEN LivePoints(running[d]) = {} ELSE PointAhead(d)

(* Time t is a whole number of intervals after the job on d started to make *)
(* progress.                                                                *)
InStep(d, t) ==
    \E penalty \in {0, PreemptionPenalty(d)}, n \in 1 .. t :
        t = ExecutionStart(jobs[running[d]].start, d, penalty) + n * Device[d].interval

PointsAreInStep ==
    \A d \in DeviceIds : HasPreemptionPoints(d) /\ running[d] # NoJob =>
        /\ \A e \in LivePoints(running[d]) : InStep(d, e.time)
        /\ PointHandled(d) => InStep(d, now)

(* The job that has reached the point runs where it did, or no longer.      *)
PointIsCurrent ==
    phase.op = "point" => running[phase.k] = phase.job \/ jobs[phase.job].state # "Running"

(* At a point a job is left running or replaced, not started again; and a   *)
(* preemption "at a point" is one of the job that has reached it.           *)
ActsOnAnother ==
    phase.op = "point" =>
        /\ act.by # phase.job
        /\ act.op = "dispatch" => act.job # phase.job
PenaltyIsDue == act.op = "dispatch" => act.penalty \in {0, PreemptionPenalty(act.dev)}
AtPointOnly ==
    act.op = "preempt" /\ act.atPoint => phase.op = "point" /\ act.job = phase.job
ActsOnPoint == ActsOnAnother /\ PenaltyIsDue /\ AtPointOnly

PointsIInv ==
    /\ PointIsCurrent
    /\ ActsOnPoint
    /\ PointsAreAhead

(* The intervals of a configuration are positive.                           *)
PositiveIntervals ==
    \A d \in DeviceIds : HasPreemptionPoints(d) => Device[d].interval > 0
=============================================================================
