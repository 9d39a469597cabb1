--------------------------- MODULE SchedulerView ---------------------------
(***************************************************************************)
(* What the schedulers of hprss-scheduler have in common: what they read   *)
(* off a SchedulerView, and the shapes their answers take.  `min_by_key`   *)
(* over tuples is LeastBy; an Option is a set of at most one element, and  *)
(* an answer is a set whose elements are the action lists the code may     *)
(* return (one, unless the code's choice depends on the order of           *)
(* insertion, which is left open).                                         *)
(***************************************************************************)
EXTENDS Engine, FiniteSets

(* A call of the scheduler.  `on` is the callback ("free" is on_job_complete *)
(* and on_device_idle), job and dev its arguments; slots and time are       *)
(* running_jobs and now of the view it is given (a completed job has left   *)
(* its device by then).                                                     *)
Callbacks == {"arrival", "free", "point", "critical", "reevaluation"}
Call(on, j, d, slots, time) ==
    [on |-> on, job |-> j, dev |-> d, slots |-> slots, time |-> time]
RunningIn(cb) == {cb.slots[d] : d \in DeviceIds} \ {NoJob}
VisibleIn(cb) == RunningIn(cb) \cup UNION {queue[d] : d \in DeviceIds}


Priority(j) == TaskOf(j).priority
Deadline(j) == jobs[j].deadline
ReleaseTime(j) == jobs[j].release

(* Lexicographic order of tuples of one length.                             *)
Precedes(a, b) ==
    \E i \in DOMAIN a : a[i] < b[i] /\ \A k \in 1 .. i - 1 : a[k] = b[k]

LeastBy(S, Key(_)) == {x \in S : \A y \in S : ~Precedes(Key(y), Key(x))}
GreatestBy(S, Key(_)) == {x \in S : \A y \in S : ~Precedes(Key(x), Key(y))}

-----------------------------------------------------------------------------
(* Devices                                                                  *)

BusyRank(d) == IF running[d] = NoJob THEN 0 ELSE 1
QueueLength(d) == Cardinality(queue[d])
IdleOf(D) == {d \in D : running[d] = NoJob}
BusyOf(D) == {d \in D : running[d] # NoJob}

(* Candidates are listed by affinity entry, then by device id; min_by_key   *)
(* keeps the first of those with the least (is_running, queue_len).         *)
AffinityRank(j, d) ==
    CHOOSE i \in DOMAIN TaskOf(j).affinity :
        /\ TaskOf(j).affinity[i] = Device[d].type
        /\ \A k \in 1 .. i - 1 : TaskOf(j).affinity[k] # Device[d].type

Preference(j, d) == <<BusyRank(d), QueueLength(d), AffinityRank(j, d), d>>

(* Faulty variant: any idle device, whatever the affinity.                  *)
AnyIdleDevice(j) == FirstOf({d \in DeviceIds : running[d] = NoJob})
TargetDevice(j) ==
    {d \in Compatible(j) :
        \A c \in Compatible(j) \ {d} : Precedes(Preference(j, d), Preference(j, c))}

(* The same with ties broken by the device id.                              *)
LeastLoaded(D) == LeastBy(D, LAMBDA d : <<BusyRank(d), QueueLength(d), d>>)
ShortestQueue(D) == LeastBy(D, LAMBDA d : <<QueueLength(d), d>>)

(* preemption_allowed of a scheduler, the engine's own test.                *)
FullyPreemptive(d) == Device[d].preemption = "Fully"
Preemptible(d) == Device[d].preemption # "Non"

-----------------------------------------------------------------------------
(* Queues                                                                   *)

(* Faulty variant: the least urgent job is taken for the head.              *)
Hindmost(d) == {q \in queue[d] : \A p \in queue[d] : Priority(q) >= Priority(p)}

(* The head of a ready queue, which is keyed by priority.                   *)
Foremost(d) == {q \in queue[d] : \A p \in queue[d] : Priority(q) <= Priority(p)}

EdfRank(j) == <<Deadline(j), ReleaseTime(j), j>>
EarliestDeadline(d) == LeastBy(queue[d], EdfRank)

(* The rank of the GPU schedulers: HI jobs first, then by deadline.         *)
CriticalityRank(j) == IF IsLo(j) THEN 1 ELSE 0
CriticalRank(j) ==
    <<CriticalityRank(j), Deadline(j), Priority(j), ReleaseTime(j), j>>
MostCritical(d) == LeastBy(queue[d], CriticalRank)

(* on_criticality_change: every LO job of every ready queue is dropped.     *)
QueuedLo == {j \in JobIds : IsLo(j) /\ \E d \in DeviceIds : j \in queue[d]}
DropQueuedLo == {Drop(j) : j \in QueuedLo}

-----------------------------------------------------------------------------
(* Answers                                                                  *)

NoOpIf(condition) == {a \in {NoAction} : condition}

(* An arriving job and the device in D (at most one) chosen for it: it is   *)
(* dispatched if the device is idle, replaces the job running there if it   *)
(* beats it, and waits otherwise.                                           *)
PlaceOn(j, D, Beats(_, _)) ==
    {Dispatch(j, d, 0) : d \in IdleOf(D)}
    \cup {Preempt(running[d], j, d, FALSE) : d \in {c \in BusyOf(D) : Beats(c, running[c])}}
    \cup {Enqueue(j, d) : d \in {c \in BusyOf(D) : ~Beats(c, running[c])}}
    \cup NoOpIf(D = {})

(* The other shape: an idle device if there is one, else the device of a    *)
(* victim if there is one, else a queue.                                    *)
IdleElsePreempt(j, idle, victims, wait) ==
    {Dispatch(j, d, 0) : d \in idle}
    \cup {a \in {Preempt(running[d], j, d, FALSE) : d \in victims} : idle = {}}
    \cup {a \in {Enqueue(j, d) : d \in wait} : idle = {} /\ victims = {}}
    \cup NoOpIf(idle = {} /\ victims = {} /\ wait = {})

(* Faulty variant: a freed device is left alone.                            *)
LeaveFree(next, d) == {NoAction}

(* A device that has become free is given the next job of its queue.        *)
DispatchNext(next, d) == {Dispatch(q, d, 0) : q \in next} \cup NoOpIf(next = {})

(* At a preemption point a job of the queue replaces the running one.       *)
ReplaceBy(stronger, j, d) ==
    {Preempt(j, q, d, TRUE) : q \in stronger} \cup NoOpIf(stronger = {})
=============================================================================
