------------------------ MODULE SchedulabilityTests ------------------------
(***************************************************************************)
(* The analytic schedulability tests of hprss-validate: response-time      *)
(* analysis on one processor (rta.rs), on a uniform multiprocessor         *)
(* (uniform_rta.rs) and for OpenMP regions (openmp_wcrt.rs), the           *)
(* utilization bounds and Audsley's assignment (level1.rs).                *)
(*                                                                         *)
(* A task set is a sequence of tasks; indices start at 1, not 0.  Periods  *)
(* are positive.  Times are far from the ends of u64 and u128, so the      *)
(* saturating operations are exact here.  A fractional speed or            *)
(* utilization is a number of millionths, as in the code.                  *)
(***************************************************************************)
EXTENDS Integers, Sequences, FiniteSets, FiniteSetsExt, SequencesExt

CONSTANT MaxIterations      \* max_iterations of the three configurations
ASSUME MaxIterationsAssumption == MaxIterations \in Nat \ {0}

Million == 1000000
(* Faulty variant: a started period is not counted.                         *)
FloorDiv(a, b) == a \div b
CeilDiv(a, b) == (a + b - 1) \div b

SumOver(f, S) == MapThenSumSet(LAMBDA i : f[i], S)
Wcets(tasks) == [i \in DOMAIN tasks |-> tasks[i].wcet]

WithPriorities(tasks, p) ==
    [i \in DOMAIN tasks |-> [tasks[i] EXCEPT !.priority = p[i]]]

-----------------------------------------------------------------------------
(* The fixed point                                                          *)

(* Lower numbers are higher priorities; ties go to the lower index, and for *)
(* OpenMP regions do not interfere at all.                                  *)
Above(tasks, i) ==
    {k \in DOMAIN tasks : \/ tasks[k].priority < tasks[i].priority
                          \/ tasks[k].priority = tasks[i].priority /\ k < i}
StrictlyAbove(tasks, i) == {k \in DOMAIN tasks : tasks[k].priority < tasks[i].priority}

(* What the tasks above demand in r units after a synchronous release.      *)
Interference(tasks, cost, above, r) ==
    SumOver([k \in above |-> CeilDiv(r, tasks[k].period) * cost[k]], above)

(* R := C + interference in R, from R = C.  The loop stops when R no longer *)
(* changes, else past the deadline, else after MaxIterations.               *)
FixedPoint(tasks, i, cost, above) ==
    LET estimate[n \in Nat] ==
            IF n = 0 THEN cost[i]
            ELSE cost[i] + Interference(tasks, cost, above, estimate[n - 1])
        converged(n) == estimate[n] = estimate[n - 1]
        late(n) == estimate[n] > tasks[i].deadline
        stops(n) == converged(n) \/ late(n) \/ n = MaxIterations
        last == CHOOSE n \in 1 .. MaxIterations :
                    stops(n) /\ \A m \in 1 .. n - 1 : ~stops(m)
    IN [response |-> estimate[last],
        verdict |-> IF converged(last) THEN "Converged"
                    ELSE IF late(last) THEN "Late" ELSE "IterationLimit"]

Result(response, outcome) == [response |-> response, outcome |-> outcome]

(* rta.rs and openmp_wcrt.rs: a cost beyond the deadline is not iterated.   *)
AnalyzeTask(tasks, i, cost, above) ==
    LET f == FixedPoint(tasks, i, cost, above)
    IN CASE cost[i] > tasks[i].deadline -> Result(cost[i], "DeadlineMiss")
         [] cost[i] <= tasks[i].deadline ->
               Result(f.response, CASE f.verdict = "Converged" -> "Schedulable"
                                    [] f.verdict = "Late" -> "DeadlineMiss"
                                    [] OTHER -> "IterationLimit")

AnalyzeUniprocessorFp(tasks) ==
    [i \in DOMAIN tasks |-> AnalyzeTask(tasks, i, Wcets(tasks), Above(tasks, i))]

Accepted(results) == \A i \in DOMAIN results : results[i].outcome = "Schedulable"

-----------------------------------------------------------------------------
(* OpenMP regions: C is the serial work, the parallel work shared by the    *)
(* team, the runtime overhead and the critical section.                     *)
(* Faulty variant: the team is as large as requested.                       *)
CostsAsRequested(tasks, threads) ==
    [i \in DOMAIN tasks |->
        tasks[i].serial + CeilDiv(tasks[i].parallel, tasks[i].threads)
            + tasks[i].overhead + tasks[i].critical]
IsolatedCosts(tasks, threads) ==
    [i \in DOMAIN tasks |->
        LET team == IF tasks[i].threads < threads THEN tasks[i].threads ELSE threads
        IN tasks[i].serial + CeilDiv(tasks[i].parallel, team)
              + tasks[i].overhead + tasks[i].critical]

AnalyzeOpenMpWcrt(tasks, threads) ==
    LET cost == IsolatedCosts(tasks, threads)
    IN [i \in DOMAIN tasks |-> AnalyzeTask(tasks, i, cost, StrictlyAbove(tasks, i))]

-----------------------------------------------------------------------------
(* Uniform multiprocessors: a lower bound at the greatest speed, a fixed    *)
(* point at the least positive one.                                         *)
UtilizationPpm(tasks) ==
    SumOver([i \in DOMAIN tasks |-> (tasks[i].wcet * Million) \div tasks[i].period],
            DOMAIN tasks)

ServiceTime(wcet, speed) == CeilDiv(wcet * Million, speed)

(* speeds: a nonempty sequence of millionths; 0 is a stopped processor.     *)
AnalyzeUniformGlobalFp(tasks, speeds) ==
    LET positive == {speeds[k] : k \in DOMAIN speeds} \ {0}
        cost(speed) == [i \in DOMAIN tasks |-> ServiceTime(tasks[i].wcet, speed)]
        result(i) ==
            LET f == FixedPoint(tasks, i, cost(Min(positive)), Above(tasks, i))
                lower == cost(Max(positive))[i]
            IN CASE UtilizationPpm(tasks) > SumOver(speeds, DOMAIN speeds) ->
                        Result(0, "CapacityExceeded")
                 [] lower > tasks[i].deadline -> Result(lower, "DeadlineMiss")
                 [] OTHER ->
                        Result(f.response, IF f.verdict = "Converged" THEN "Schedulable"
                                           ELSE "Inconclusive")
    IN [i \in DOMAIN tasks |-> result(i)]

-----------------------------------------------------------------------------
(* Utilization bounds, on exact fractions (the code's f64 with a tolerance  *)
(* of 1e-12).  Demand is the utilization times the hyperperiod.             *)
Gcd(a, b) == Max({d \in 1 .. a : a % d = 0 /\ b % d = 0})
Hyperperiod(tasks) ==
    LET over[k \in 0 .. Len(tasks)] ==
            IF k = 0 THEN 1
            ELSE LET h == over[k - 1]
                 IN (h \div Gcd(h, tasks[k].period)) * tasks[k].period
    IN over[Len(tasks)]

Demand(tasks) ==
    SumOver([i \in DOMAIN tasks |-> tasks[i].wcet * (Hyperperiod(tasks) \div tasks[i].period)],
            DOMAIN tasks)

(* U <= n (2^(1/n) - 1), that is (1 + U/n)^n <= 2.                          *)
LiuLaylandRmBound(tasks) ==
    LET n == Len(tasks)
        whole == n * Hyperperiod(tasks)
    IN n = 0 \/ (whole + Demand(tasks))^n <= 2 * whole^n

(* Faulty variant: the utilization of the least urgent task is forgotten.   *)
EdfBoundButLast(tasks) == Demand(Front(tasks)) <= Hyperperiod(Front(tasks))
EdfExactBound(tasks) == Demand(tasks) <= Hyperperiod(tasks)

-----------------------------------------------------------------------------
(* Priority assignments                                                     *)

(* The rank of each task by a key, ties to the lower index.                 *)
RanksBy(key) ==
    [i \in DOMAIN key |->
        1 + Cardinality({k \in DOMAIN key : key[k] < key[i] \/ (key[k] = key[i] /\ k < i)})]
RmPriorityAssignment(tasks) == RanksBy([i \in DOMAIN tasks |-> tasks[i].period])
DmPriorityAssignment(tasks) == RanksBy([i \in DOMAIN tasks |-> tasks[i].deadline])

(* Faulty variant: the candidate is tried above the tasks still unassigned. *)
CandidateOnTop(tasks, candidate, level, assigned) ==
    LET others == DOMAIN tasks \ (DOMAIN assigned \cup {candidate})
    IN [i \in DOMAIN tasks |->
           CASE i \in DOMAIN assigned -> assigned[i]
             [] i = candidate -> 1
             [] i \in others -> 1 + Cardinality({k \in others : k <= i})]

(* build_candidate_assignment: the candidate at the level tried, tasks      *)
(* already assigned below it, the others above it in the order of indices.  *)
CandidateAssignment(tasks, candidate, level, assigned) ==
    LET others == DOMAIN tasks \ (DOMAIN assigned \cup {candidate})
    IN [i \in DOMAIN tasks |->
           CASE i \in DOMAIN assigned -> assigned[i]
             [] i = candidate -> level
             [] i \in others -> Cardinality({k \in others : k <= i})]

(* The tasks that pass the response-time test at a level.                   *)
Fitting(tasks, level, assigned) ==
    {c \in DOMAIN tasks \ DOMAIN assigned :
        LET p == CandidateAssignment(tasks, c, level, assigned)
        IN AnalyzeUniprocessorFp(WithPriorities(tasks, p))[c].outcome = "Schedulable"}

(* audsley_opa: from the lowest level up, the first task that fits; no task *)
(* is reconsidered.  The result has one element, or none if a level fits    *)
(* nobody.                                                                  *)
AudsleyOpa(tasks) ==
    LET n == Len(tasks)
        from[level \in 1 .. n + 1] ==
            IF level = n + 1 THEN {<<>>}
            ELSE {[i \in DOMAIN a \cup {Min(Fitting(tasks, level, a))} |->
                      IF i \in DOMAIN a THEN a[i] ELSE level] :
                  a \in {b \in from[level + 1] : Fitting(tasks, level, b) # {}}}
    IN from[1]
=============================================================================
