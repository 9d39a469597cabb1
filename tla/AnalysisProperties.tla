------------------------- MODULE AnalysisProperties -------------------------
(* What the analytic tests say of a task set, against the schedules the     *)
(* reference simulators produce for it and against each other.              *)
EXTENDS ReferenceSchedules

(* What the analysis says of a task of the focussed device.                 *)
Analysis(i) == AnalyzeUniprocessorFp(LocalTasks)[Place(i)]

Constrained == \A i \in Local : tasks[i].deadline <= tasks[i].period
Implicit == \A i \in Local : tasks[i].deadline = tasks[i].period
Simulated(p) == stage # "level1" /\ policy = p

(* Response-time analysis is exact for constrained deadlines: the greatest  *)
(* response of the simulation from a synchronous release is the fixed point *)
(* of an accepted task, and exceeds the deadline of a rejected one, as long *)
(* as no two tasks share a priority.                                        *)
Distinct == \A i, k \in Local : tasks[i].priority = tasks[k].priority => i = k
ResponseTimesAreExact ==
    Simulated("FixedPriority") /\ Constrained /\ Distinct => \A i \in Local :
        /\ Analysis(i).outcome = "Schedulable" => level1.response[i] = Analysis(i).response
        /\ Analysis(i).outcome = "DeadlineMiss" /\ EdfExactBound(LocalTasks) =>
              level1.response[i] > tasks[i].deadline

(* With implicit deadlines, EDF misses no deadline of the hyperperiod up to *)
(* utilization 1,                                                           *)
EdfMeetsDeadlines ==
    Simulated("Edf") /\ Implicit /\ EdfExactBound(LocalTasks) => level1.misses = 0

(* and rate-monotonic priorities miss none up to the bound of Liu and       *)
(* Layland.                                                                 *)
RateMonotonic ==
    LET ranked == WithPriorities(LocalTasks, RmPriorityAssignment(LocalTasks))
    IN \A k \in DOMAIN ranked : Above(LocalTasks, k) = Above(ranked, k)
RateMonotonicMeetsDeadlines ==
    Simulated("FixedPriority") /\ Implicit /\ RateMonotonic /\ LiuLaylandRmBound(LocalTasks) =>
        level1.misses = 0

(* So the utilization bounds of level1.rs are sufficient: what they accept  *)
(* meets its deadlines in the simulation.                                   *)
BoundsAreSufficient == EdfMeetsDeadlines /\ RateMonotonicMeetsDeadlines

(* The event-driven and the unit-step simulator, the one of one device and  *)
(* the one of all, produce the same schedule of a device's tasks.           *)
SimulatorsAgree ==
    stage = "done" /\ policy = "FixedPriority" =>
        /\ \A i \in Local : level1.response[i] = level2.response[i]
        /\ Local = DOMAIN tasks => level1.misses = level2.misses

(* No response-time iteration of the task set, above any tasks, ends at the *)
(* limit: beyond it fewer costs may take more rounds, and no test compares. *)
RoundsSuffice ==
    \A cost \in {Wcets(LocalTasks), IsolatedCosts(LocalTasks, 2)},
       i \in DOMAIN LocalTasks, above \in SUBSET DOMAIN LocalTasks :
        FixedPoint(LocalTasks, i, cost, above).verdict # "IterationLimit"

(* Audsley's greedy search, which reconsiders no choice, finds only accepted*)
(* assignments, and one whenever any assignment is accepted; with           *)
(* constrained deadlines that is when the deadline-monotonic one is.        *)
Start == stage = "level1" /\ now = 0
AcceptedWith(p) == Accepted(AnalyzeUniprocessorFp(WithPriorities(LocalTasks, p)))
Orders == {p \in [DOMAIN LocalTasks -> DOMAIN LocalTasks] :
              \A k, m \in DOMAIN p : p[k] = p[m] => k = m}
OpaIsOptimal ==
    Start => LET found == AudsleyOpa(LocalTasks)
             IN /\ \A p \in found : p \in Orders /\ AcceptedWith(p)
                /\ RoundsSuffice =>
                      /\ found = {} => \A p \in Orders : ~AcceptedWith(p)
                      /\ Constrained =>
                            (found # {} <=> AcceptedWith(DmPriorityAssignment(LocalTasks)))

(* The three fixed points are one: on a single processor of speed 1 the     *)
(* uniform test, and with one thread, the same work and distinct priorities *)
(* the OpenMP test, accept what response-time analysis accepts and with its *)
(* bound.  Neither more threads nor faster processors ever worsen an        *)
(* accepted bound, as long as the iterations end.                           *)
SameAcceptance(a, b) ==
    \A k \in DOMAIN a :
        /\ a[k].outcome = "Schedulable" <=> b[k].outcome = "Schedulable"
        /\ a[k].outcome = "Schedulable" => a[k].response = b[k].response
NoWorse(a, b) ==
    \A k \in DOMAIN a : a[k].outcome = "Schedulable" =>
        b[k].outcome = "Schedulable" /\ b[k].response <= a[k].response
SameWork ==
    \A i \in Local :
        tasks[i].serial + tasks[i].parallel + tasks[i].overhead + tasks[i].critical = tasks[i].wcet
AnalysesAgree ==
    Start =>
        LET one == AnalyzeUniprocessorFp(LocalTasks)
            uniform(speeds) == AnalyzeUniformGlobalFp(LocalTasks, speeds)
            openmp(threads) == AnalyzeOpenMpWcrt(LocalTasks, threads)
        IN /\ EdfExactBound(LocalTasks) => SameAcceptance(one, uniform(<<Million>>))
           /\ Distinct /\ SameWork => SameAcceptance(one, openmp(1))
           /\ RoundsSuffice =>
                 /\ NoWorse(openmp(1), openmp(2))
                 /\ NoWorse(uniform(<<Million \div 2, Million>>), uniform(<<Million, Million>>))

(* uniform_rta.rs: "global fixed-priority, uniform multiprocessor,          *)
(* conservative".  An accepted task has its bound within its deadline, on   *)
(* two processors of which one is half as fast.                             *)
AcceptedWithinDeadlines ==
    Start => LET result == AnalyzeUniformGlobalFp(LocalTasks, <<Million, Million \div 2>>)
             IN \A k \in DOMAIN result : result[k].outcome = "Schedulable" =>
                    result[k].response <= LocalTasks[k].deadline
=============================================================================
