------------------------- MODULE ReferenceSchedules -------------------------
(***************************************************************************)
(* The two reference simulators of hprss-validate: level1.rs jumps from    *)
(* event to event on one processor, under fixed priorities or EDF;         *)
(* level2.rs goes unit by unit on several devices, under fixed priorities. *)
(* A behaviour picks a task set, runs the first for the tasks of one       *)
(* device, and then the second for all of them, so that their summaries    *)
(* can be compared with each other and with the analyses.                  *)
(*                                                                         *)
(* A task has a fixed device.  A job is identified by its task and release *)
(* time, which also order jobs as `sequence` does.                         *)
(***************************************************************************)
EXTENDS SchedulabilityTests

CONSTANTS
    TaskSets,       \* the task sets a behaviour may pick from
    DeviceCount

TimedTask ==
    [period : Nat \ {0}, deadline : Nat, wcet : Nat, priority : Nat, device : Nat,
     threads : Nat \ {0}, serial : Nat, parallel : Nat, overhead : Nat, critical : Nat]
ASSUME TaskSetsAssumption == TaskSets \subseteq Seq(TimedTask)

VARIABLES
    tasks,          \* the task set
    policy,         \* level 1: "FixedPriority" or "Edf"
    focus,          \* the device whose tasks level 1 simulates
    stage,          \* "level1", "level2" or "done"
    now,            \* of the simulator that is running
    nextReleases,
    ready,          \* level 1: a set of jobs; level 2: a sequence of jobs
    runningJob,     \* level 1: the job on the processor, if any
    level1,         \* the summaries: maximal response times and
    level2          \* deadline misses

refVars == <<tasks, policy, focus, stage, now, nextReleases, ready, runningJob,
             level1, level2>>

Devices == 1 .. DeviceCount
Local == {i \in DOMAIN tasks : tasks[i].device = focus}
Place(i) == Cardinality({k \in Local : k <= i})
LocalTasks ==
    [k \in 1 .. Cardinality(Local) |-> tasks[CHOOSE i \in Local : Place(i) = k]]
Horizon == Hyperperiod(tasks)

Summary(response, misses) == [response |-> response, misses |-> misses]
NoResponses == Summary([i \in DOMAIN tasks |-> 0], 0)

-----------------------------------------------------------------------------
(* Both simulators                                                          *)

Due(S) == {i \in S : nextReleases[i] = now}
Released(i) ==
    [task |-> i, release |-> now, deadline |-> now + tasks[i].deadline,
     remaining |-> tasks[i].wcet]
ReleasesAfter(S) ==
    [i \in DOMAIN tasks |-> IF i \in Due(S) THEN now + tasks[i].period ELSE nextReleases[i]]

(* job_key: the order in which jobs are served.                             *)
JobKey(j, p) ==
    <<IF p = "Edf" THEN j.deadline ELSE tasks[j.task].priority, j.release, j.task>>
Precedes(a, b) ==
    \E k \in DOMAIN a : a[k] < b[k] /\ \A m \in 1 .. k - 1 : a[m] = b[m]
First(S, p) == {j \in S : \A k \in S : ~Precedes(JobKey(k, p), JobKey(j, p))}

(* What the completion of the jobs in S at time t adds to a summary.        *)
Completed(s, S, t) ==
    [response |-> [i \in DOMAIN tasks |->
                      Max({s.response[i]} \cup {t - j.release : j \in {k \in S : k.task = i}})],
     misses |-> s.misses + Cardinality({j \in S : t > j.deadline})]

-----------------------------------------------------------------------------
(* Level 1: simulate                                                        *)

(* maybe_context_switch, given the jobs that are ready: the best of them    *)
(* takes the processor if it comes before the running job.                  *)
ContextSwitch(S) ==
    LET best == First(S, policy)
    IN IF \E r \in runningJob : \A b \in best :
              ~Precedes(JobKey(b, policy), JobKey(r, policy))
       THEN runningJob ELSE best

Waiting == ready \cup {Released(i) : i \in Due(Local)}
NextRelease == Min({ReleasesAfter(Local)[i] : i \in Local})

(* One pass of the loop with a job to run: up to its completion, the next   *)
(* release or the horizon, whichever comes first.                           *)
RunJob ==
    /\ stage = "level1" /\ now < Horizon
    /\ \E job \in ContextSwitch(Waiting) :
          LET until == Min({now + job.remaining, NextRelease, Horizon})
              left == [job EXCEPT !.remaining = @ - (until - now)]
              done == {j \in {left} : j.remaining = 0}
          IN /\ now' = until
             /\ runningJob' = {left} \ done
             /\ ready' = (Waiting \cup runningJob) \ {job}
             /\ level1' = Completed(level1, done, until)
             /\ nextReleases' = ReleasesAfter(Local)
             /\ UNCHANGED <<tasks, policy, focus, stage, level2>>

(* With nothing to run the time jumps to the next release.                  *)
Idle ==
    /\ stage = "level1" /\ now < Horizon
    /\ ContextSwitch(Waiting) = {} /\ NextRelease < Horizon
    /\ now' = NextRelease
    /\ UNCHANGED <<tasks, policy, focus, stage, nextReleases, ready, runningJob, level1, level2>>

(* The loop ends at the horizon, or before it when nothing more is released.*)
StartLevel2 ==
    /\ stage = "level1"
    /\ now >= Horizon \/ (ContextSwitch(Waiting) = {} /\ NextRelease >= Horizon)
    /\ stage' = "level2" /\ now' = 0
    /\ nextReleases' = [i \in DOMAIN tasks |-> 0]
    /\ ready' = <<>> /\ runningJob' = {}
    /\ UNCHANGED <<tasks, policy, focus, level1, level2>>

-----------------------------------------------------------------------------
(* Level 2: exact_tiny_fp_uniprocessor (one device), exact_tiny_fp_hetero   *)

(* The jobs released now join the vector in the order of their tasks.       *)
Ready2 ==
    MapThenFoldSet(LAMBDA i, jobs : Append(jobs, Released(i)), ready, LAMBDA i : i, Max,
                   Due(DOMAIN tasks))

OnDevice(jobs, d) == {k \in DOMAIN jobs : tasks[jobs[k].task].device = d}

(* The position of the job each device serves.                              *)
Selected(jobs) ==
    {k \in DOMAIN jobs :
        jobs[k] \in First({jobs[m] : m \in OnDevice(jobs, tasks[jobs[k].task].device)},
                          "FixedPriority")}

SwapRemove(s, k) == [m \in 1 .. Len(s) - 1 |-> IF m = k THEN s[Len(s)] ELSE s[m]]

(* A unit of service to position k, if there is one.                        *)
Serve(st, k) ==
    IF k \notin DOMAIN st.jobs THEN st
    ELSE LET j == [st.jobs[k] EXCEPT !.remaining = IF @ = 0 THEN 0 ELSE @ - 1]
         IN IF j.remaining = 0
            THEN [jobs |-> SwapRemove(st.jobs, k), done |-> st.done \cup {j}]
            ELSE [st EXCEPT !.jobs[k] = j]

(* Faulty variant: positions are served from the first to the last, though  *)
(* removing a job moves the last one into its place.                        *)
ServedForward(jobs) ==
    MapThenFoldSet(LAMBDA k, st : Serve(st, k), [jobs |-> jobs, done |-> {}], LAMBDA k : k, Max,
                   Selected(jobs))
Served(jobs) ==
    MapThenFoldSet(LAMBDA k, st : Serve(st, k), [jobs |-> jobs, done |-> {}], LAMBDA k : k, Min,
                   Selected(jobs))

Tick ==
    /\ stage = "level2" /\ now < Horizon
    /\ LET served == Served(Ready2)
       IN /\ ready' = served.jobs
          /\ level2' = Completed(level2, served.done, now + 1)
    /\ now' = now + 1
    /\ nextReleases' = ReleasesAfter(DOMAIN tasks)
    /\ UNCHANGED <<tasks, policy, focus, stage, runningJob, level1>>

Finish ==
    /\ stage = "level2" /\ now = Horizon
    /\ stage' = "done"
    /\ UNCHANGED <<tasks, policy, focus, now, nextReleases, ready, runningJob, level1, level2>>

-----------------------------------------------------------------------------
RefInit ==
    /\ tasks \in TaskSets
    /\ policy \in {"FixedPriority", "Edf"}
    /\ focus \in Devices /\ Local # {}
    /\ stage = "level1" /\ now = 0
    /\ nextReleases = [i \in DOMAIN tasks |-> 0]
    /\ ready = {} /\ runningJob = {}
    /\ level1 = NoResponses /\ level2 = NoResponses

RefNext == RunJob \/ Idle \/ StartLevel2 \/ Tick \/ Finish
RefSpec == RefInit /\ [][RefNext]_refVars
=============================================================================
